---- MODULE HelperProofs ----
(***************************************************************************)
(* What the runs of MCFees and MCSlotHash check of the operators that the  *)
(* instructions share, for every amount, every length of the list of slot  *)
(* hashes and every pattern of skipped slots.                              *)
(***************************************************************************)
EXTENDS MCFees, MCSlotHash, BasicProofs

(* Fees *)

AmountIsNatural == amount \in Nat

LEMMA AmountsAreNatural == Spec => []AmountIsNatural
<1>1. Init => AmountIsNatural
  BY DEF Init, AmountIsNatural
<1>2. AmountIsNatural /\ [Next]_amount => AmountIsNatural'
  BY DEF Next, AmountIsNatural
<1> QED BY <1>1, <1>2, PTL DEF Spec

\* max_swap_in_after_fee never lets a buyer overpay.
THEOREM BuyersStayWithinMaxPay == Spec => []BuyerPaysAtMostMaxPay
<1>1. AmountIsNatural => BuyerPaysAtMostMaxPay
  BY BuyerNeverOverpays DEF BuyerPaysAtMostMaxPay, AmountIsNatural
<1> QED BY <1>1, AmountsAreNatural, PTL

\* min_swap_out_before_fee never leaves a seller short.
THEOREM SellersGetMinOut == Spec => []SellerGetsMinOut
<1>1. AmountIsNatural => SellerGetsMinOut
  BY SellerGetsFloor DEF SellerGetsMinOut, AmountIsNatural
<1> QED BY <1>1, AmountsAreNatural, PTL

\* min_swap_out_before_fee refuses hardly any swap that would do.
THEOREM SellerFloorsStayTight == Spec => []SellerFloorIsTight
<1>1. AmountIsNatural => SellerFloorIsTight
  BY SellerFloorTight DEF SellerFloorIsTight, AmountIsNatural
<1> QED BY <1>1, AmountsAreNatural, PTL

\* pot_fee never makes winning a loss.
THEOREM FlipFeesStayBounded == Spec => []FlipFeeIsBounded
<1>1. AmountIsNatural => FlipFeeIsBounded
  BY WinnerAlwaysGains DEF FlipFeeIsBounded, AmountIsNatural
<1> QED BY <1>1, AmountsAreNatural, PTL
----
(* The list of slot hashes *)

\* The slots before this one, from genesis on.
Past == (produced \union {0}) \ {slot}

\* The list is a newest part of the past: all of it, or MAX_ENTRIES of it.
ListIsNewest ==
  /\ slot \in Nat /\ slot \in produced
  /\ produced \in SUBSET (0 .. slot) /\ slot > 0
  /\ slot_hashes \in SUBSET Past
  /\ \A s \in slot_hashes, t \in Past : s < t => t \in slot_hashes
  /\ Cardinality(slot_hashes) <= MAX_ENTRIES
  /\ slot_hashes = Past \/ Cardinality(slot_hashes) = MAX_ENTRIES

\* There are finitely many slots up to now.
LEMMA PastIsFinite ==
  ASSUME ListIsNewest
  PROVE  /\ IsFiniteSet(produced) /\ IsFiniteSet(Past) /\ IsFiniteSet(slot_hashes)
         /\ Past \in SUBSET (0 .. (slot - 1))
<1>1. IsFiniteSet(0 .. slot)
  BY FS_Interval DEF ListIsNewest
<1>2. /\ produced \in SUBSET (0 .. slot) /\ Past \in SUBSET (0 .. slot)
      /\ slot_hashes \in SUBSET (0 .. slot)
  BY DEF ListIsNewest, Past
<1>3. Past \in SUBSET (0 .. (slot - 1))
  BY DEF ListIsNewest, Past
<1> QED BY <1>1, <1>2, <1>3, FS_Subset

LEMMA MCInitIsNewest ==
  ASSUME MCInit
  PROVE  ListIsNewest
<1>1. slot = 1 /\ slot_hashes = {0} /\ produced = {1} /\ Past = {0}
  BY DEF MCInit, SlotInit, Past
<1>2. Cardinality({0}) = 1
  BY FS_Singleton
<1> QED BY <1>1, <1>2, SlotHashAssumption DEF ListIsNewest

\* A slot more: it enters the list, and only the oldest may leave a full one.
LEMMA NextIsNewest ==
  ASSUME ListIsNewest, MCNext
  PROVE  ListIsNewest'
<1> DEFINE S == slot_hashes \union {slot}
<1>1. PICK d \in Strides : slot' = slot + d /\ slot_hashes' = Newest(S)
  BY DEF MCNext, AdvanceSlot
<1>2. d \in Nat \ {0} /\ MAX_ENTRIES \in Nat \ {0} /\ slot \in Nat
  BY SlotHashAssumption DEF ListIsNewest
<1>3. produced' = produced \union {slot'} /\ slot < slot' /\ slot' \in Nat
  BY <1>1, <1>2 DEF MCNext
<1>4. Past' = Past \union {slot}
  <2>1. produced \in SUBSET (0 .. slot) /\ slot \in produced /\ slot > 0
    BY DEF ListIsNewest
  <2> QED BY <1>2, <1>3, <2>1 DEF Past
<1>5. /\ S \in SUBSET Nat /\ S \in SUBSET Past' /\ IsFiniteSet(S)
      /\ Cardinality(S) = Cardinality(slot_hashes) + 1
  <2>1. slot \notin slot_hashes /\ slot_hashes \in SUBSET Nat
    BY PastIsFinite DEF ListIsNewest, Past
  <2> QED BY <1>2, <1>4, <2>1, PastIsFinite, FS_AddElement DEF ListIsNewest
<1>6. \A s \in S, t \in Past' : s < t => t \in S
  <2> SUFFICES ASSUME NEW s \in S, NEW t \in Past', s < t, t # slot
               PROVE  t \in slot_hashes
    OBVIOUS
  <2>1. t \in Past /\ t \in 0 .. (slot - 1)
    BY <1>4, PastIsFinite
  <2>2. s # slot
    BY <1>2, <2>1
  <2>3. s \in slot_hashes
    BY <2>2
  <2> QED BY <2>1, <2>3 DEF ListIsNewest
<1>7. Cardinality(slot_hashes) \in Nat /\ Cardinality(slot_hashes) <= MAX_ENTRIES
  BY PastIsFinite, FS_CardinalityType DEF ListIsNewest
<1>8. slot_hashes' = Topmost(S, MAX_ENTRIES)
  BY <1>1 DEF Newest, Topmost, Above
<1> HIDE DEF S
<1>9. \/ Cardinality(S) <= MAX_ENTRIES /\ slot_hashes' = S
      \/ /\ Cardinality(S) = MAX_ENTRIES + 1
         /\ \E least \in S : (\A s \in S : least <= s) /\ slot_hashes' = S \ {least}
  BY <1>2, <1>5, <1>7, <1>8, TopmostDropsLeast
<1>10. /\ slot' \in Nat /\ slot' \in produced' /\ slot' > 0
       /\ produced' \in SUBSET (0 .. slot')
  BY <1>2, <1>3 DEF ListIsNewest
<1>11. CASE Cardinality(S) <= MAX_ENTRIES /\ slot_hashes' = S
  <2>1. slot_hashes = Past
    BY <1>2, <1>5, <1>7, <1>11 DEF ListIsNewest
  <2>2. S = Past'
    BY <1>4, <2>1 DEF S
  <2> QED BY <1>10, <1>11, <2>2, <1>6 DEF ListIsNewest
<1>12. CASE /\ Cardinality(S) = MAX_ENTRIES + 1
            /\ \E least \in S : (\A s \in S : least <= s) /\ slot_hashes' = S \ {least}
  <2>1. PICK least \in S : (\A s \in S : least <= s) /\ slot_hashes' = S \ {least}
    BY <1>12
  <2>2. Cardinality(slot_hashes') = MAX_ENTRIES
    <3>1. Cardinality(S \ {least}) = Cardinality(S) - 1
      BY <1>5, FS_RemoveElement
    <3> QED BY <1>2, <1>12, <2>1, <3>1
  <2>3. \A s \in slot_hashes', t \in Past' : s < t => t \in slot_hashes'
    <3> SUFFICES ASSUME NEW s \in slot_hashes', NEW t \in Past', s < t
                 PROVE  t \in S /\ t # least
      BY <2>1
    <3>1. s \in S /\ least <= s /\ s \in Nat /\ least \in Nat
      BY <1>5, <2>1
    <3>2. t \in S /\ t \in Nat
      BY <1>5, <1>6, <3>1
    <3> QED BY <3>1, <3>2
  <2>4. slot_hashes' \in SUBSET Past'
    BY <1>5, <2>1
  <2> QED BY <1>2, <1>10, <2>2, <2>3, <2>4 DEF ListIsNewest
<1> QED BY <1>9, <1>11, <1>12

THEOREM ListStaysNewest == MCSpec => []ListIsNewest
<1>1. ListIsNewest /\ UNCHANGED <<clockVars, produced>> => ListIsNewest'
  BY DEF ListIsNewest, Past, clockVars
<1> QED BY <1>1, MCInitIsNewest, NextIsNewest, PTL DEF MCSpec
----
(* The lookup *)

\* Scanning the list amounts to counting blocks.
LEMMA LookupCounts ==
  ASSUME ListIsNewest, NEW j \in produced
  PROVE  /\ j \in 0 .. slot /\ Since(j) \in Nat
         /\ LookupJoinSlotHash(j) =
              IF j = slot THEN "NotReady"
              ELSE IF Since(j) < MAX_ENTRIES THEN "Found" ELSE "Expired"
<1> DEFINE later == {s \in produced : j < s /\ s < slot}
<1>1. /\ slot \in Nat /\ j \in 0 .. slot /\ MAX_ENTRIES \in Nat \ {0}
      /\ slot_hashes \in SUBSET Past /\ Past \in SUBSET (0 .. (slot - 1))
  BY PastIsFinite, SlotHashAssumption DEF ListIsNewest
<1>2. IsFiniteSet(later) /\ Cardinality(later) \in Nat /\ Since(j) = Cardinality(later)
  <2>1. later \in SUBSET produced
    OBVIOUS
  <2>2. Since(j) = Cardinality(later)
    BY DEF Since
  <2> HIDE DEF later
  <2> QED BY <2>1, <2>2, PastIsFinite, FS_Subset, FS_CardinalityType
<1>3. \A s : s \in later <=> s \in Past /\ j < s
  <2>1. ASSUME NEW s \in later
        PROVE  s \in Past /\ j < s
    <3>1. s # slot
      BY <1>1
    <3> QED BY <3>1 DEF Past
  <2>2. ASSUME NEW s \in Past, j < s
        PROVE  s \in later
    <3>1. s \in 0 .. (slot - 1)
      BY <1>1
    <3>2. s # 0 /\ s < slot
      BY <1>1, <2>2, <3>1
    <3> QED BY <2>2, <3>2 DEF Past
  <2> QED BY <2>1, <2>2
<1>4. CASE j = slot
  <2>1. j \notin slot_hashes /\ slot <= j
    BY <1>1, <1>4
  <2> QED BY <1>1, <1>2, <1>4, <2>1 DEF LookupJoinSlotHash
<1>5. CASE j \in slot_hashes
  <2>1. later \in SUBSET slot_hashes /\ j \notin later
    <3> HIDE DEF later
    <3>1. \A s \in later : s \in slot_hashes
      BY <1>3, <1>5 DEF ListIsNewest
    <3>2. ~(j < j)
      BY <1>1
    <3> QED BY <1>3, <3>1, <3>2
  <2>2. IsFiniteSet(slot_hashes) /\ Cardinality(slot_hashes) <= MAX_ENTRIES
    BY PastIsFinite DEF ListIsNewest
  <2>3. Cardinality(slot_hashes) \in Nat
    BY <2>2, FS_CardinalityType
  <2> HIDE DEF later
  <2>4. Cardinality(later) < Cardinality(slot_hashes)
    BY <1>5, <2>1, <2>2, ProperPart
  <2>5. Since(j) < MAX_ENTRIES /\ j # slot
    BY <1>1, <1>2, <1>5, <2>2, <2>3, <2>4
  <2> QED BY <1>1, <1>2, <1>5, <2>5 DEF LookupJoinSlotHash
<1>6. CASE j # slot /\ j \notin slot_hashes
  <2>1. j \in Past /\ j < slot
    BY <1>1, <1>6 DEF Past
  <2>2. \A s \in slot_hashes : j < s
    <3> SUFFICES ASSUME NEW s \in slot_hashes, ~(j < s)
                 PROVE  FALSE
      OBVIOUS
    <3>1. s \in Nat /\ j \in Nat
      BY <1>1
    <3>2. s < j
      BY <1>6, <3>1
    <3> QED BY <1>6, <2>1, <3>2 DEF ListIsNewest
  <2>3. Cardinality(slot_hashes) = MAX_ENTRIES
    BY <1>6, <2>1 DEF ListIsNewest
  <2>4. slot_hashes \in SUBSET later
    BY <1>1, <1>3, <2>2
  <2> HIDE DEF later
  <2>5. Cardinality(slot_hashes) <= Cardinality(later)
    BY <1>2, <2>4, FS_Subset
  <2>6. ~(Since(j) < MAX_ENTRIES)
    BY <1>1, <1>2, <2>3, <2>5
  <2>7. /\ ~(slot <= j)
        /\ ~ \E oldest \in slot_hashes : /\ \A s \in slot_hashes : oldest <= s
                                         /\ oldest <= j
    <3>1. \A s \in slot_hashes : s \in Nat
      BY <1>1
    <3> QED BY <1>1, <2>1, <2>2, <3>1
  <2> QED BY <1>1, <1>2, <1>6, <2>6, <2>7 DEF LookupJoinSlotHash
<1> QED BY <1>4, <1>5, <1>6

\* lookup_join_slot_hash of slot_hash.rs answers by the number of blocks since
\* the join, whatever slots are skipped.
THEOREM LookupAlwaysTellsAge == MCSpec => []LookupTellsAge
<1>1. ListIsNewest => LookupTellsAge
  BY LookupCounts DEF LookupTellsAge
<1> QED BY <1>1, ListStaysNewest, PTL

\* The blocks since a join only become more.
LEMMA BlocksAccumulate ==
  ASSUME ListIsNewest, MCNext, NEW j \in produced
  PROVE  /\ j \in produced' /\ j # slot'
         /\ Since(j) \in Nat /\ Since(j)' \in Nat /\ Since(j) <= Since(j)'
<1> DEFINE now  == {s \in produced : j < s /\ s < slot}
           then == {s \in produced' : j < s /\ s < slot'}
<1>1. PICK d \in Strides : slot' = slot + d
  BY DEF MCNext, AdvanceSlot
<1>2. /\ slot \in Nat /\ slot' \in Nat /\ slot < slot'
      /\ produced' = produced \union {slot'} /\ produced \in SUBSET (0 .. slot)
  BY <1>1, SlotHashAssumption DEF MCNext, ListIsNewest
<1>3. now \in SUBSET then /\ j # slot' /\ j \in produced'
  <2>1. \A s \in produced : s \in produced' /\ s \in Int /\ (s < slot => s < slot')
    BY <1>2
  <2>2. now \in SUBSET then
    BY <2>1
  <2>3. j # slot'
    BY <1>2
  <2> QED BY <2>1, <2>2, <2>3
<1>4. IsFiniteSet(produced')
  BY <1>2, PastIsFinite, FS_AddElement
<1>5. then \in SUBSET produced'
  OBVIOUS
<1>6. Since(j) = Cardinality(now) /\ Since(j)' = Cardinality(then)
  BY DEF Since
<1> HIDE DEF now, then
<1>7. IsFiniteSet(then)
  BY <1>4, <1>5, FS_Subset
<1>8. IsFiniteSet(now) /\ Cardinality(now) <= Cardinality(then)
  BY <1>3, <1>7, FS_Subset
<1> QED BY <1>3, <1>6, <1>7, <1>8, FS_CardinalityType

\* Once a join slot has been found it is found or expired, and once it has
\* expired it stays so: a refund that was possible remains possible.
THEOREM LookupNeverMovesBack == MCSpec => LookupOnlyMovesOn
<1>1. ListIsNewest => LookupTellsAge
  BY LookupCounts DEF LookupTellsAge
<1>2. ListIsNewest' => LookupTellsAge'
  BY <1>1, PTL
<1>3. ASSUME ListIsNewest, ListIsNewest', [MCNext]_<<clockVars, produced>>
      PROVE  [\A j \in produced :
                Rank(LookupJoinSlotHash(j)') >= Rank(LookupJoinSlotHash(j))]_<<clockVars, produced>>
  <2> SUFFICES ASSUME MCNext, NEW j \in produced
               PROVE  Rank(LookupJoinSlotHash(j)') >= Rank(LookupJoinSlotHash(j))
    BY <1>3
  <2>1. /\ j \in produced' /\ j # slot'
        /\ Since(j) \in Nat /\ Since(j)' \in Nat /\ Since(j) <= Since(j)'
    BY <1>3, BlocksAccumulate
  <2>2. LookupJoinSlotHash(j) = IF j = slot THEN "NotReady"
                                ELSE IF Since(j) < MAX_ENTRIES THEN "Found" ELSE "Expired"
    BY <1>1, <1>3 DEF LookupTellsAge
  <2>3. LookupJoinSlotHash(j)' = IF Since(j)' < MAX_ENTRIES THEN "Found" ELSE "Expired"
    BY <1>2, <1>3, <2>1 DEF LookupTellsAge
  <2>4. MAX_ENTRIES \in Nat
    BY SlotHashAssumption
  <2> QED BY <2>1, <2>2, <2>3, <2>4 DEF Rank
<1>4. ListIsNewest /\ ListIsNewest' /\ [MCNext]_<<clockVars, produced>>
        => [\A j \in produced :
              Rank(LookupJoinSlotHash(j)') >= Rank(LookupJoinSlotHash(j))]_<<clockVars, produced>>
  BY <1>3
<1> QED BY <1>4, ListStaysNewest, PTL DEF MCSpec, LookupOnlyMovesOn
====
