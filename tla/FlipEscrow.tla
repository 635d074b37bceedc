---- MODULE FlipEscrow ----
(***************************************************************************)
(* What the program promises of one flip, without slots, rent, vaults,     *)
(* requests or configuration: a creator posts a stake under fixed terms    *)
(* and may take it back until somebody matches it; from then on the deal   *)
(* ends in one of two ways, an award by the draw the match named, or, only *)
(* while that draw has not been made, the return of both stakes.  A draw   *)
(* is made after both stakes are in, decides one deal and never changes.   *)
(***************************************************************************)
CONSTANTS
  Flips,            \* the addresses deals are made at
  Players,
  Poster,           \* the player the deals at an address belong to
  Stakes,
  Assets,
  Fees,
  Draws,
  DrawnAtOnce       \* TRUE: a matched deal is drawn in the same step

VARIABLES
  deal,
  awarded           \* the draws that have decided a deal

Verdicts == {"Undrawn", "Poster", "Second"}

NoDeal == [phase |-> "Empty"]

Posted(stake, asset, fee) ==
  [phase |-> "Posted", stake |-> stake, asset |-> asset, fee |-> fee]

Matched(d, second, draw, verdict) ==
  [phase |-> "Matched", stake |-> d.stake, asset |-> d.asset, fee |-> d.fee,
   second |-> second, draw |-> draw, verdict |-> verdict]

\* The draws that deals wait for.
Pending == {deal[f].draw : f \in {h \in Flips : deal[h].phase = "Matched"}}

Init ==
  /\ deal = [f \in Flips |-> NoDeal]
  /\ awarded = {}

Post(f) ==
  /\ deal[f].phase = "Empty"
  /\ \E stake \in Stakes \ {0}, asset \in Assets, fee \in Fees :
       deal' = [deal EXCEPT ![f] = Posted(stake, asset, fee)]
  /\ UNCHANGED awarded

Withdraw(f) ==
  /\ deal[f].phase = "Posted"
  /\ deal' = [deal EXCEPT ![f] = NoDeal]
  /\ UNCHANGED awarded

Match(f) ==
  /\ deal[f].phase = "Posted"
  /\ \E second \in Players \ {Poster[f]}, draw \in Draws \ (awarded \union Pending) :
       \E verdict \in IF DrawnAtOnce THEN Verdicts \ {"Undrawn"} ELSE {"Undrawn"} :
         deal' = [deal EXCEPT ![f] = Matched(deal[f], second, draw, verdict)]
  /\ UNCHANGED awarded

Draw(f) ==
  /\ deal[f].phase = "Matched"
  /\ deal[f].verdict = "Undrawn"
  /\ \E verdict \in Verdicts \ {"Undrawn"} :
       deal' = [deal EXCEPT ![f].verdict = verdict]
  /\ UNCHANGED awarded

Award(f) ==
  /\ deal[f].phase = "Matched"
  /\ deal[f].verdict # "Undrawn"
  /\ deal' = [deal EXCEPT ![f] = NoDeal]
  /\ awarded' = awarded \union {deal[f].draw}

Unwind(f) ==
  /\ deal[f].phase = "Matched"
  /\ deal[f].verdict = "Undrawn"
  /\ deal' = [deal EXCEPT ![f] = NoDeal]
  /\ UNCHANGED awarded

Next ==
  \E f \in Flips :
    Post(f) \/ Withdraw(f) \/ Match(f) \/ Draw(f) \/ Award(f) \/ Unwind(f)

Spec == Init /\ [][Next]_<<deal, awarded>>
====
