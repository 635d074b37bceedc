---- MODULE SlotHash ----
(***************************************************************************)
(* Solana's clock and its SlotHashes sysvar, as src/src/slot_hash.rs reads *)
(* them.  The runtime is outside the repository: while a slot executes,    *)
(* the sysvar lists the newest produced slots before it, at most           *)
(* MAX_ENTRIES of them (512 on chain), and a slot whose leader produced no *)
(* block is skipped, so it is never listed.                                *)
(***************************************************************************)
EXTENDS Integers, FiniteSets

CONSTANTS
  MAX_ENTRIES,      \* length of the sysvar, 512 on chain
  Strides,          \* 1 for consecutive slots, d > 1 when d - 1 are skipped
  MaxSlot           \* bound: the last slot of the model

ASSUME SlotHashAssumption ==
  /\ MAX_ENTRIES \in Nat \ {0}
  /\ Strides \subseteq Nat \ {0}
  /\ MaxSlot \in Nat \ {0}

VARIABLES
  slot,             \* Clock::get()?.slot of the instructions running now
  slot_hashes       \* the slots listed in SlotHashes

clockVars == <<slot, slot_hashes>>

SlotInit ==
  /\ slot = 1
  /\ slot_hashes = {0}

\* The newest MAX_ENTRIES members of S.
Newest(S) == {s \in S : Cardinality({t \in S : t > s}) < MAX_ENTRIES}

\* A block is produced d slots after the last one: the slot just executed
\* enters the sysvar and the oldest entry of a full list leaves it.
AdvanceSlot ==
  \E d \in Strides :
    /\ slot + d <= MaxSlot
    /\ slot' = slot + d
    /\ slot_hashes' = Newest(slot_hashes \union {slot})

\* A slip: the scan stops one entry before the end of the list.
LookupShortScan(join_slot) ==
  LET scanned == {s \in slot_hashes : \E t \in slot_hashes : t < s}
  IN  CASE join_slot \in scanned -> "Found"
        [] join_slot \notin scanned /\ slot <= join_slot -> "NotReady"
        [] OTHER -> "Expired"

\* A slip: the comparison with the oldest entry is the wrong way round.
LookupReversed(join_slot) ==
  CASE join_slot \in slot_hashes -> "Found"
    [] /\ join_slot \notin slot_hashes
       /\ slot <= join_slot \/ \A s \in slot_hashes : s >= join_slot -> "NotReady"
    [] OTHER -> "Expired"

\* lookup_join_slot_hash: the list is scanned newest first, so after a scan
\* without a hit `oldest` is the smallest listed slot.
LookupJoinSlotHash(join_slot) ==
  CASE join_slot \in slot_hashes -> "Found"
    [] /\ join_slot \notin slot_hashes
       /\ \/ slot <= join_slot
          \/ \E oldest \in slot_hashes :
                /\ \A s \in slot_hashes : oldest <= s
                /\ oldest <= join_slot -> "NotReady"
    [] OTHER -> "Expired"

ClockTypeOK ==
  /\ slot \in 1 .. MaxSlot
  /\ slot_hashes \subseteq 0 .. (slot - 1)
====
