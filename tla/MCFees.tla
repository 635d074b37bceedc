---- MODULE MCFees ----
(***************************************************************************)
(* Evaluates the fee properties at every amount from 0 to MaxAmount.       *)
(***************************************************************************)
EXTENDS FeesProps

CONSTANT MaxAmount      \* bound: the last amount tried

VARIABLE amount

Init == amount = 0
Next == amount < MaxAmount /\ amount' = amount + 1
Spec == Init /\ [][Next]_amount

\* No buyer pays more than he offered.
BuyerPaysAtMostMaxPay == MaxPayCoversFee(amount)

\* No seller gets less than he asked for.
SellerGetsMinOut == MinOutIsReceived(amount, amount + 200)

\* The seller's floor asks at most one unit more than the least that will do.
SellerFloorIsTight == MinOutIsTight(amount)

\* The winner of a flip gains, the house takes at most 5% of the pot.
FlipFeeIsBounded == WinnerGains(amount)
====
