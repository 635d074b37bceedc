---- MODULE MCSlotHash ----
(***************************************************************************)
(* The lookup of a join slot against the history of produced slots.        *)
(***************************************************************************)
EXTENDS SlotHash

VARIABLE produced       \* history: the slots instructions have run in

MCInit == SlotInit /\ produced = {1}
MCNext == AdvanceSlot /\ produced' = produced \union {slot'}
MCSpec == MCInit /\ [][MCNext]_<<clockVars, produced>>

Since(join_slot) == Cardinality({s \in produced : join_slot < s /\ s < slot})

\* For every slot a game can have been joined in, the lookup of the raw bytes
\* tells its age: not ready in that slot itself, then found for as long as
\* fewer than MAX_ENTRIES blocks have come after it, then expired; skipped
\* slots do not count.
LookupTellsAge ==
  \A j \in produced :
    LookupJoinSlotHash(j) =
      IF j = slot THEN "NotReady"
      ELSE IF Since(j) < MAX_ENTRIES THEN "Found" ELSE "Expired"

Rank(lookup) == CASE lookup = "NotReady" -> 0 [] lookup = "Found" -> 1 [] OTHER -> 2

\* A lookup only moves on: an expired join slot, for which a refund may have
\* been prepared, never becomes found or not ready again.
LookupOnlyMovesOn ==
  [][\A j \in produced :
       Rank(LookupJoinSlotHash(j)') >= Rank(LookupJoinSlotHash(j))]_<<clockVars, produced>>
====
