---- MODULE BasicProofs ----
(***************************************************************************)
(* Theorems about the operators the models are built from: fees, sums over *)
(* finite sets of accounts, books of balances, and the newest members of a *)
(* set of slots.  Induction goes by well-founded orders: a set of numbers, *)
(* or of parts of a finite set, is all of them when there is no least one  *)
(* that it lacks.                                                          *)
(***************************************************************************)
EXTENDS FeesProps, TokenUtils, Integers, FiniteSets, Functions, FiniteSetTheorems,
        WellFoundedInduction, TLAPS
----
(* Fees *)

\* Truncating division by a positive divisor: the quotient is the greatest
\* number whose product stays within the dividend.
LEMMA DivBounds ==
  ASSUME NEW a \in Nat, NEW b \in Nat \ {0}
  PROVE  /\ a \div b \in Nat
         /\ b * (a \div b) <= a
         /\ a < b * (a \div b) + b
  BY SMT

\* max_swap_in_after_fee keeps back enough for the 1% fee (trade.rs).
THEOREM BuyerNeverOverpays ==
  ASSUME NEW max_pay \in Nat
  PROVE  MaxPayCoversFee(max_pay)
<1> SUFFICES ASSUME NEW spent \in 0 .. MaxSwapInAfterFee(max_pay)
             PROVE  spent + TradeFee(spent, TRADE_FEE_BPS) <= max_pay
  BY DEF MaxPayCoversFee
<1>1. 10000 * spent <= 9900 * max_pay
  BY DivBounds, SMT DEF MaxSwapInAfterFee, BPS_DENOMINATOR, TRADE_FEE_BPS
<1>2. 10000 * TradeFee(spent, TRADE_FEE_BPS) <= 100 * spent
  BY SMT DEF TradeFee, BPS_DENOMINATOR, TRADE_FEE_BPS
<1>3. TradeFee(spent, TRADE_FEE_BPS) \in Nat
  BY SMT DEF TradeFee, BPS_DENOMINATOR, TRADE_FEE_BPS
<1> QED BY <1>1, <1>2, <1>3

\* min_swap_out_before_fee leaves the seller his floor after the fee.
THEOREM SellerGetsFloor ==
  ASSUME NEW min_out \in Nat, NEW most \in Nat
  PROVE  MinOutIsReceived(min_out, most)
<1> SUFFICES ASSUME NEW got \in MinSwapOutBeforeFee(min_out) .. most
             PROVE  got - TradeFee(got, TRADE_FEE_BPS) >= min_out
  BY DEF MinOutIsReceived
<1>1. got \in Nat /\ 10000 * min_out <= 9900 * got
  BY SMT DEF MinSwapOutBeforeFee, BPS_DENOMINATOR, TRADE_FEE_BPS
<1>2. 10000 * TradeFee(got, TRADE_FEE_BPS) <= 100 * got
  BY <1>1, SMT DEF TradeFee, BPS_DENOMINATOR, TRADE_FEE_BPS
<1>3. TradeFee(got, TRADE_FEE_BPS) \in Nat
  BY <1>1, SMT DEF TradeFee, BPS_DENOMINATOR, TRADE_FEE_BPS
<1> QED BY <1>1, <1>2, <1>3

\* The seller's floor is at most one unit above the least sufficient output.
THEOREM SellerFloorTight ==
  ASSUME NEW min_out \in Nat
  PROVE  MinOutIsTight(min_out)
<1> DEFINE least == MinSwapOutBeforeFee(min_out)
<1> SUFFICES ASSUME NEW got \in 0 .. least, got + 2 <= least
             PROVE  got - TradeFee(got, TRADE_FEE_BPS) < min_out
  BY DEF MinOutIsTight
<1>1. least \in Nat /\ 9900 * least <= 10000 * min_out + 9899
  BY SMT DEF MinSwapOutBeforeFee, BPS_DENOMINATOR, TRADE_FEE_BPS
<1>2. TradeFee(got, TRADE_FEE_BPS) \in Nat
      /\ 100 * got < 10000 * TradeFee(got, TRADE_FEE_BPS) + 10000
  BY SMT DEF TradeFee, BPS_DENOMINATOR, TRADE_FEE_BPS
<1> HIDE DEF least
<1> QED BY <1>1, <1>2

\* pot_fee is a natural number within 5% of the pot for any capped fee.
LEMMA PotFeeBounds ==
  ASSUME NEW amount \in Nat, NEW fee_bps \in 0 .. MAX_FEE_BPS
  PROVE  /\ PotFee(amount, fee_bps) \in Nat
         /\ 20 * PotFee(amount, fee_bps) <= 2 * amount
<1>1. 2 * amount * fee_bps \in Nat
  BY SMT DEF MAX_FEE_BPS
<1>2. 2 * amount * fee_bps <= 1000 * amount
  BY SMT DEF MAX_FEE_BPS
<1> DEFINE product == 2 * amount * fee_bps
<1>3. PotFee(amount, fee_bps) = product \div 10000
  BY DEF PotFee, BPS_DENOMINATOR
<1> HIDE DEF product
<1>4. product \in Nat /\ product <= 1000 * amount
  BY <1>1, <1>2 DEF product
<1> QED BY <1>3, <1>4, SMT

\* Whoever wins a flip gains, and the house takes at most 5% of the pot.
THEOREM WinnerAlwaysGains ==
  ASSUME NEW amount \in Nat
  PROVE  WinnerGains(amount)
<1> SUFFICES ASSUME NEW fee_bps \in 0 .. MAX_FEE_BPS
             PROVE  /\ 20 * PotFee(amount, fee_bps) <= 2 * amount
                    /\ amount > 0 => 2 * amount - PotFee(amount, fee_bps) > amount
  BY DEF WinnerGains
<1> QED BY PotFeeBounds
----
(* Sums *)

\* A set of numbers that holds zero and the successor of each of its members
\* holds them all.
LEMMA NumbersFromZero ==
  ASSUME NEW N \in SUBSET Nat, 0 \in N, \A n \in N : n + 1 \in N
  PROVE  N = Nat
<1> SUFFICES ASSUME Nat \ N # {} PROVE FALSE
  OBVIOUS
<1>1. PICK n \in Nat \ N : \A k \in Nat \ N : ~(<<k, n>> \in OpToRel(<, Nat))
  BY NatLessThanWellFounded, WFMin
<1>2. \A k \in Nat \ N : ~(k < n)
  BY <1>1, n \in Nat DEF OpToRel
<1>3. n # 0 /\ n - 1 \in Nat /\ n - 1 < n
  OBVIOUS
<1> QED BY <1>2, <1>3

\* A family of parts of a finite set that holds each part whose smaller parts
\* it holds is the family of all of them.
LEMMA PartsFromSmaller ==
  ASSUME NEW S, IsFiniteSet(S), NEW F \in SUBSET SUBSET S,
         \A T \in SUBSET S : (\A x \in T : T \ {x} \in F) => T \in F
  PROVE  F = SUBSET S
<1> SUFFICES ASSUME (SUBSET S) \ F # {} PROVE FALSE
  OBVIOUS
<1>1. IsWellFoundedOn(StrictSubsetOrdering(S), SUBSET S)
  <2>1. FiniteSubsetsOf(S) = SUBSET S
    BY FS_FiniteSubsetsOfFinite
  <2>2. IsWellFoundedOn(StrictSubsetOrdering(S), FiniteSubsetsOf(S))
    BY FS_StrictSubsetOrderingWellFounded
  <2> QED BY <2>1, <2>2
<1> DEFINE rest == (SUBSET S) \ F
<1>2. rest \subseteq SUBSET S /\ rest # {}
  OBVIOUS
<1> HIDE DEF rest
<1>3. PICK T \in rest : \A R \in rest : ~(<<R, T>> \in StrictSubsetOrdering(S))
  BY <1>1, <1>2, WFMin
<1>4. ASSUME NEW x \in T PROVE T \ {x} \in F
  <2>1. T \ {x} \in SUBSET S /\ T \ {x} \subseteq T /\ T \ {x} # T
    BY <1>2, <1>3
  <2>2. <<T \ {x}, T>> \in StrictSubsetOrdering(S)
    BY <2>1, <1>2, <1>3 DEF StrictSubsetOrdering
  <2> QED BY <1>3, <2>1, <2>2 DEF rest
<1> QED BY <1>3, <1>4 DEF rest

\* The member of s that FoldFunctionOnSet takes first.
Pick(s) == CHOOSE x \in s : TRUE

\* h[s] is what FoldFunctionOnSet adds up over s.
IsTally(h, f, S) ==
  h = [s \in SUBSET S |-> IF s = {} THEN 0 ELSE f[Pick(s)] + h[s \ {Pick(s)}]]
Tally(f, S) == CHOOSE h : IsTally(h, f, S)

\* SumFunction(f) is the last entry of that function.
LEMMA SumIsTally ==
  ASSUME NEW S, NEW f \in [S -> Nat]
  PROVE  SumFunction(f) = Tally(f, S)[S]
<1>1. DOMAIN f = S
  OBVIOUS
<1>2. SumFunctionOnSet(f, S) = Tally(f, S)[S]
  BY DEF SumFunctionOnSet, FoldFunctionOnSet, MapThenFoldSet, IsTally, Tally, Pick
<1> QED BY <1>1, <1>2 DEF SumFunction

\* There is such a function: it is found for the parts of S with at most n
\* members, for every n, and its values are numbers.
LEMMA TallyExists ==
  ASSUME NEW S, IsFiniteSet(S), NEW f \in [S -> Nat]
  PROVE  Tally(f, S) \in [SUBSET S -> Nat] /\ IsTally(Tally(f, S), f, S)
<1> DEFINE More(h) ==
      [s \in SUBSET S |-> IF s = {} THEN 0 ELSE f[Pick(s)] + h[s \ {Pick(s)}]]
    Right(h, n) == \A s \in SUBSET S : Cardinality(s) <= n => h[s] = More(h)[s]
    N == {n \in Nat : \E h \in [SUBSET S -> Nat] : Right(h, n)}
<1>1. \A s \in SUBSET S : s # {} => Pick(s) \in s /\ s \ {Pick(s)} \in SUBSET S
  BY DEF Pick
<1>2. \A s \in SUBSET S : IsFiniteSet(s) /\ Cardinality(s) \in Nat
  BY FS_Subset, FS_CardinalityType
<1>3. \A h \in [SUBSET S -> Nat] : More(h) \in [SUBSET S -> Nat]
  BY <1>1
<1>4. 0 \in N
  <2> DEFINE h == [s \in SUBSET S |-> 0]
  <2>1. h \in [SUBSET S -> Nat]
    OBVIOUS
  <2>2. \A s \in SUBSET S : Cardinality(s) <= 0 => s = {}
    BY <1>2, FS_EmptySet
  <2>3. Right(h, 0)
    BY <2>2
  <2> QED BY <2>1, <2>3
<1>5. ASSUME NEW n \in N PROVE n + 1 \in N
  <2>1. PICK h \in [SUBSET S -> Nat] : Right(h, n)
    OBVIOUS
  <2> SUFFICES Right(More(h), n + 1)
    <3>1. More(h) \in [SUBSET S -> Nat]
      BY <1>3
    <3> HIDE DEF More, Right
    <3> QED BY <3>1
  <2> SUFFICES ASSUME NEW s \in SUBSET S, Cardinality(s) <= n + 1, s # {}
               PROVE  h[s \ {Pick(s)}] = More(h)[s \ {Pick(s)}]
    BY <1>1
  <2>2. Cardinality(s \ {Pick(s)}) = Cardinality(s) - 1
    BY <1>1, <1>2, FS_RemoveElement
  <2>3. Cardinality(s \ {Pick(s)}) <= n
    BY <1>2, <2>2
  <2> QED BY <1>1, <2>1, <2>3
<1>6. N = Nat
  <2>1. N \in SUBSET Nat
    OBVIOUS
  <2> HIDE DEF N
  <2> QED BY <1>4, <1>5, <2>1, NumbersFromZero
<1>7. PICK h \in [SUBSET S -> Nat] : Right(h, Cardinality(S))
  BY <1>2, <1>6
<1>8. \A s \in SUBSET S : Cardinality(s) <= Cardinality(S)
  BY FS_Subset
<1>9. h = More(h)
  BY <1>3, <1>7, <1>8
<1>10. IsTally(h, f, S)
  BY <1>9 DEF IsTally
<1>11. IsTally(Tally(f, S), f, S)
  BY <1>10 DEF Tally
<1> DEFINE tally == Tally(f, S)
         typed == {s \in SUBSET S : tally[s] \in Nat}
<1>12. typed = SUBSET S
  <2>1. ASSUME NEW T \in SUBSET S, \A x \in T : T \ {x} \in typed
        PROVE  T \in typed
    <3>1. tally[T] = IF T = {} THEN 0 ELSE f[Pick(T)] + tally[T \ {Pick(T)}]
      BY <1>11 DEF IsTally
    <3> HIDE DEF tally
    <3>2. CASE T = {}
      BY <3>1, <3>2
    <3>3. CASE T # {}
      <4>1. f[Pick(T)] \in Nat /\ tally[T \ {Pick(T)}] \in Nat
        BY <1>1, <2>1, <3>3
      <4>2. tally[T] \in Nat
        BY <3>1, <3>3, <4>1
      <4> QED BY <4>2
    <3> QED BY <3>2, <3>3
  <2>2. typed \in SUBSET SUBSET S
    OBVIOUS
  <2> HIDE DEF typed
  <2> QED BY <2>1, <2>2, PartsFromSmaller
<1>13. tally = [s \in SUBSET S |-> tally[s]]
  BY <1>11 DEF IsTally
<1> QED BY <1>11, <1>12, <1>13

\* Adding up values that are natural numbers, in whatever order, gives one that
\* none of them exceeds.
LEMMA SumBounds ==
  ASSUME NEW S, IsFiniteSet(S), NEW f \in [S -> Nat]
  PROVE  /\ SumFunction(f) \in Nat
         /\ \A x \in S : f[x] <= SumFunction(f)
<1> DEFINE h == Tally(f, S)
<1>1. h \in [SUBSET S -> Nat] /\ IsTally(h, f, S)
  BY TallyExists
<1>2. \A s \in SUBSET S : s # {} => Pick(s) \in s /\ s \ {Pick(s)} \in SUBSET S
  BY DEF Pick
<1> HIDE DEF h
<1> DEFINE F == {s \in SUBSET S : \A x \in s : f[x] <= h[s]}
<1>3. ASSUME NEW T \in SUBSET S, \A x \in T : T \ {x} \in F
      PROVE  T \in F
  <2> SUFFICES ASSUME NEW x \in T PROVE f[x] <= h[T]
    OBVIOUS
  <2>1. h[T] = f[Pick(T)] + h[T \ {Pick(T)}]
    BY <1>1 DEF IsTally
  <2>2. f[Pick(T)] \in Nat /\ h[T \ {Pick(T)}] \in Nat /\ f[x] \in Nat
    BY <1>1, <1>2
  <2>3. x # Pick(T) => f[x] <= h[T \ {Pick(T)}]
    BY <1>2, <1>3
  <2> QED BY <2>1, <2>2, <2>3
<1>4. F = SUBSET S
  <2>1. F \in SUBSET SUBSET S
    OBVIOUS
  <2> HIDE DEF F
  <2> QED BY <1>3, <2>1, PartsFromSmaller
<1> QED BY <1>1, <1>4, SumIsTally DEF h

\* When one value changes, the sum changes by as much.
LEMMA SumChange ==
  ASSUME NEW S, IsFiniteSet(S), NEW f \in [S -> Nat], NEW g \in [S -> Nat],
         NEW a \in S, \A x \in S \ {a} : g[x] = f[x]
  PROVE  SumFunction(g) = SumFunction(f) + g[a] - f[a]
<1> DEFINE h == Tally(f, S)
           k == Tally(g, S)
<1>1. /\ h \in [SUBSET S -> Nat] /\ IsTally(h, f, S)
      /\ k \in [SUBSET S -> Nat] /\ IsTally(k, g, S)
  BY TallyExists
<1>2. \A s \in SUBSET S : s # {} => Pick(s) \in s /\ s \ {Pick(s)} \in SUBSET S
  BY DEF Pick
<1> HIDE DEF h, k
<1> DEFINE F == {s \in SUBSET S : k[s] = IF a \in s THEN h[s] + g[a] - f[a] ELSE h[s]}
<1>3. ASSUME NEW T \in SUBSET S, \A x \in T : T \ {x} \in F
      PROVE  T \in F
  <2>1. CASE T = {}
    <3>1. h[{}] = 0 /\ k[{}] = 0
      BY <1>1 DEF IsTally
    <3> QED BY <2>1, <3>1
  <2>2. CASE T # {}
    <3>1. /\ h[T] = f[Pick(T)] + h[T \ {Pick(T)}]
          /\ k[T] = g[Pick(T)] + k[T \ {Pick(T)}]
      BY <1>1, <2>2 DEF IsTally
    <3>2. /\ f[Pick(T)] \in Nat /\ g[Pick(T)] \in Nat
          /\ h[T \ {Pick(T)}] \in Nat /\ k[T \ {Pick(T)}] \in Nat
          /\ f[a] \in Nat /\ g[a] \in Nat /\ h[T] \in Nat
      BY <1>1, <1>2, <2>2
    <3>3. k[T \ {Pick(T)}] = IF a \in T \ {Pick(T)}
                             THEN h[T \ {Pick(T)}] + g[a] - f[a]
                             ELSE h[T \ {Pick(T)}]
      BY <1>2, <1>3, <2>2
    <3>4. CASE Pick(T) = a
      BY <1>2, <2>2, <3>1, <3>2, <3>3, <3>4
    <3>5. CASE Pick(T) # a
      <4>1. f[Pick(T)] = g[Pick(T)]
        BY <1>2, <2>2, <3>5
      <4> QED BY <3>1, <3>2, <3>3, <3>5, <4>1
    <3> QED BY <3>4, <3>5
  <2> QED BY <2>1, <2>2
<1>4. F = SUBSET S
  <2>1. F \in SUBSET SUBSET S
    OBVIOUS
  <2> HIDE DEF F
  <2> QED BY <1>3, <2>1, PartsFromSmaller
<1>5. k[S] = h[S] + g[a] - f[a]
  BY <1>4
<1> QED BY <1>5, SumIsTally DEF h, k

\* Nothing adds up to nothing.
LEMMA SumOfZeros ==
  ASSUME NEW S, IsFiniteSet(S)
  PROVE  SumFunction([x \in S |-> 0]) = 0
<1> DEFINE f == [x \in S |-> 0]
           h == Tally(f, S)
<1>1. /\ f \in [S -> Nat] /\ \A x \in S : f[x] = 0
  OBVIOUS
<1>2. h \in [SUBSET S -> Nat] /\ IsTally(h, f, S) /\ SumFunction(f) = h[S]
  BY <1>1, TallyExists, SumIsTally
<1> HIDE DEF f, h
<1> DEFINE F == {s \in SUBSET S : h[s] = 0}
<1>3. ASSUME NEW T \in SUBSET S, \A x \in T : T \ {x} \in F
      PROVE  T \in F
  <2>1. h[T] = IF T = {} THEN 0 ELSE f[Pick(T)] + h[T \ {Pick(T)}]
    BY <1>2 DEF IsTally
  <2>2. T # {} => Pick(T) \in T
    BY DEF Pick
  <2>3. T # {} => f[Pick(T)] = 0 /\ h[T \ {Pick(T)}] = 0
    BY <1>1, <1>3, <2>2
  <2>4. h[T] = 0
    BY <2>1, <2>3
  <2> QED BY <2>4
<1>4. F = SUBSET S
  <2>1. F \in SUBSET SUBSET S
    OBVIOUS
  <2> HIDE DEF F
  <2> QED BY <1>3, <2>1, PartsFromSmaller
<1> QED BY <1>2, <1>4 DEF f
----
(* Books of balances *)

\* Crediting an account of a book gives a book.
LEMMA CreditBook ==
  ASSUME NEW M, NEW H, NEW book \in Books(M, H),
         NEW m \in M, NEW h \in H, NEW x \in Nat
  PROVE  /\ Credit(book, m, h, x) \in Books(M, H)
         /\ \A n \in M, k \in H :
              Credit(book, m, h, x)[n][k] =
                IF n = m /\ k = h THEN book[n][k] + x ELSE book[n][k]
  BY SMT DEF Books, Credit

\* So does debiting one that can afford it.
LEMMA DebitBook ==
  ASSUME NEW M, NEW H, NEW book \in Books(M, H),
         NEW m \in M, NEW h \in H, NEW x \in Nat, x <= book[m][h]
  PROVE  /\ Debit(book, m, h, x) \in Books(M, H)
         /\ \A n \in M, k \in H :
              Debit(book, m, h, x)[n][k] =
                IF n = m /\ k = h THEN book[n][k] - x ELSE book[n][k]
  BY SMT DEF Books, Debit

\* A credit raises the total of its mint, and no other.
LEMMA CreditTotal ==
  ASSUME NEW M, NEW H, IsFiniteSet(H), NEW book \in Books(M, H),
         NEW m \in M, NEW h \in H, NEW x \in Nat, NEW n \in M
  PROVE  SumFunction(Credit(book, m, h, x)[n]) =
           IF n = m THEN SumFunction(book[n]) + x ELSE SumFunction(book[n])
<1> DEFINE after == Credit(book, m, h, x)
<1>1. /\ after \in Books(M, H)
      /\ \A k \in H : after[n][k] = IF n = m /\ k = h THEN book[n][k] + x ELSE book[n][k]
  BY CreditBook
<1> HIDE DEF after
<1>2. after[n] \in [H -> Nat] /\ book[n] \in [H -> Nat]
  BY <1>1 DEF Books
<1>3. SumFunction(after[n]) = SumFunction(book[n]) + after[n][h] - book[n][h]
  BY <1>1, <1>2, SumChange
<1>4. SumFunction(book[n]) \in Nat /\ book[n][h] \in Nat
  BY <1>2, SumBounds
<1> QED BY <1>1, <1>3, <1>4 DEF after

\* So does a debit lower it.
LEMMA DebitTotal ==
  ASSUME NEW M, NEW H, IsFiniteSet(H), NEW book \in Books(M, H),
         NEW m \in M, NEW h \in H, NEW x \in Nat, x <= book[m][h], NEW n \in M
  PROVE  SumFunction(Debit(book, m, h, x)[n]) =
           IF n = m THEN SumFunction(book[n]) - x ELSE SumFunction(book[n])
<1> DEFINE after == Debit(book, m, h, x)
<1>1. /\ after \in Books(M, H)
      /\ \A k \in H : after[n][k] = IF n = m /\ k = h THEN book[n][k] - x ELSE book[n][k]
  BY DebitBook
<1> HIDE DEF after
<1>2. after[n] \in [H -> Nat] /\ book[n] \in [H -> Nat]
  BY <1>1 DEF Books
<1>3. SumFunction(after[n]) = SumFunction(book[n]) + after[n][h] - book[n][h]
  BY <1>1, <1>2, SumChange
<1>4. SumFunction(book[n]) \in Nat /\ book[n][h] \in Nat
  BY <1>2, SumBounds
<1> QED BY <1>1, <1>3, <1>4 DEF after
----
(* The newest members of a set of slots *)

\* How many members of S are above s.
Above(S, s) == Cardinality({t \in S : t > s})
Topmost(S, n) == {s \in S : Above(S, s) < n}

\* A part of a finite set that lacks one of its members is smaller.
LEMMA ProperPart ==
  ASSUME NEW S, IsFiniteSet(S), NEW T \in SUBSET S, NEW x \in S, x \notin T
  PROVE  /\ IsFiniteSet(T) /\ Cardinality(T) \in Nat
         /\ Cardinality(T) < Cardinality(S)
         /\ Cardinality(T) = Cardinality(S) - 1 => T = S \ {x}
<1> DEFINE R == S \ {x}
<1>1. IsFiniteSet(R) /\ Cardinality(R) = Cardinality(S) - 1
  BY FS_RemoveElement
<1>2. T \in SUBSET R
  OBVIOUS
<1> HIDE DEF R
<1>3. /\ IsFiniteSet(T) /\ Cardinality(T) <= Cardinality(R)
      /\ Cardinality(R) = Cardinality(T) => R = T
  BY <1>1, <1>2, FS_Subset
<1>4. Cardinality(S) \in Nat /\ Cardinality(T) \in Nat
  BY <1>3, FS_CardinalityType
<1>5. Cardinality(T) = Cardinality(S) - 1 => T = R
  BY <1>1, <1>3
<1>6. Cardinality(T) < Cardinality(S)
  BY <1>1, <1>3, <1>4
<1> QED BY <1>3, <1>4, <1>5, <1>6 DEF R

\* Different members have different numbers of members above them.
LEMMA AboveTellsApart ==
  ASSUME NEW S \in SUBSET Nat, IsFiniteSet(S), NEW x \in S, NEW y \in S, x < y
  PROVE  Above(S, y) < Above(S, x)
<1> DEFINE X == {t \in S : t > x}
           Y == {t \in S : t > y}
<1>1. IsFiniteSet(X)
  BY FS_Subset
<1>2. Y \in SUBSET X /\ y \in X /\ y \notin Y
  <2>1. \A t \in S : t > y => t > x
    OBVIOUS
  <2>2. ~(y > y)
    OBVIOUS
  <2>3. Y \subseteq X
    BY <2>1
  <2> QED BY <2>2, <2>3
<1> HIDE DEF X, Y
<1>3. Cardinality(Y) < Cardinality(X)
  BY <1>1, <1>2, ProperPart
<1> QED BY <1>3 DEF Above, X, Y

\* Of n members or fewer, all are among the topmost n; of n + 1, all but the
\* least.
LEMMA TopmostDropsLeast ==
  ASSUME NEW S \in SUBSET Nat, IsFiniteSet(S), NEW n \in Nat,
         Cardinality(S) <= n + 1
  PROVE  \/ Cardinality(S) <= n /\ Topmost(S, n) = S
         \/ /\ Cardinality(S) = n + 1
            /\ \E least \in S : /\ \A s \in S : least <= s
                                /\ Topmost(S, n) = S \ {least}
<1>1. Cardinality(S) \in Nat
  BY FS_CardinalityType
<1>2. \A s \in S : /\ {t \in S : t > s} \in SUBSET S /\ s \notin {t \in S : t > s}
                   /\ Above(S, s) \in Nat /\ Above(S, s) < Cardinality(S)
                   /\ Above(S, s) = Cardinality(S) - 1 => {t \in S : t > s} = S \ {s}
  <2> SUFFICES ASSUME NEW s \in S
               PROVE  /\ Above(S, s) \in Nat /\ Above(S, s) < Cardinality(S)
                      /\ Above(S, s) = Cardinality(S) - 1 => {t \in S : t > s} = S \ {s}
    OBVIOUS
  <2> DEFINE T == {t \in S : t > s}
  <2>1. T \in SUBSET S /\ s \notin T
    OBVIOUS
  <2> HIDE DEF T
  <2>2. /\ Cardinality(T) \in Nat /\ Cardinality(T) < Cardinality(S)
        /\ Cardinality(T) = Cardinality(S) - 1 => T = S \ {s}
    BY <2>1, ProperPart
  <2> QED BY <2>2 DEF T, Above
<1>3. CASE Cardinality(S) <= n
  <2>1. \A s \in S : Above(S, s) < n
    BY <1>1, <1>2, <1>3
  <2>2. Topmost(S, n) = S
    BY <2>1 DEF Topmost
  <2> QED BY <1>3, <2>2
<1>4. CASE Cardinality(S) = n + 1
  <2> DEFINE f == [s \in S |-> Above(S, s)]
  <2>1. PICK least \in S : Above(S, least) >= n
    <3> SUFFICES ASSUME \A s \in S : Above(S, s) < n
                 PROVE  FALSE
      <4>1. \A s \in S : Above(S, s) \in Nat
        BY <1>2
      <4> QED BY <4>1
    <3>1. f \in [S -> 0 .. (n - 1)]
      BY <1>2
    <3> DEFINE ranks == 0 .. (n - 1)
    <3>2. IsFiniteSet(ranks) /\ Cardinality(ranks) < Cardinality(S)
      BY <1>4, FS_Interval
    <3> HIDE DEF f, ranks
    <3>3. PICK x \in S, y \in S : x # y /\ f[x] = f[y]
      <4>1. f \in [S -> ranks]
        BY <3>1 DEF ranks
      <4> QED BY <3>2, <4>1, FS_PigeonHole
    <3>4. Above(S, x) = Above(S, y) /\ Above(S, x) \in Nat
      BY <1>2, <3>3 DEF f
    <3>5. CASE x < y
      BY <1>2, <3>4, <3>5, AboveTellsApart
    <3>6. CASE y < x
      BY <1>2, <3>4, <3>6, AboveTellsApart
    <3> QED BY <3>3, <3>5, <3>6
  <2>2. {t \in S : t > least} = S \ {least}
    BY <1>2, <1>4, <2>1
  <2>3. \A s \in S : least <= s
    BY <2>2
  <2>4. ASSUME NEW s \in S, s # least
        PROVE  Above(S, s) < n
    <3>1. least < s
      BY <2>3, <2>4
    <3>2. Above(S, s) < Above(S, least)
      BY <3>1, AboveTellsApart
    <3> QED BY <1>2, <1>4, <3>2
  <2>5. ~(Above(S, least) < n)
    BY <1>2, <2>1
  <2>6. Topmost(S, n) = S \ {least}
    BY <2>4, <2>5 DEF Topmost
  <2> QED BY <1>4, <2>3, <2>6
<1> QED BY <1>1, <1>3, <1>4
====
