---- MODULE FeesProps ----
(***************************************************************************)
(* What the fee arithmetic promises the payers, amount by amount.          *)
(***************************************************************************)
EXTENDS Fees

\* A buyer who offers max_pay never spends more: whatever the swap takes of
\* the input it may take, the fee on it fits in what was kept back.
MaxPayCoversFee(max_pay) ==
  \A spent \in 0 .. MaxSwapInAfterFee(max_pay) :
    spent + TradeFee(spent, TRADE_FEE_BPS) <= max_pay

\* A seller who asks for min_out receives it after the fee, from the least
\* swap output that is accepted and from any greater one.
MinOutIsReceived(min_out, most) ==
  \A got \in MinSwapOutBeforeFee(min_out) .. most :
    got - TradeFee(got, TRADE_FEE_BPS) >= min_out

\* The seller's floor is not padded: two units less would not do.
MinOutIsTight(min_out) ==
  \A got \in 0 .. MinSwapOutBeforeFee(min_out) :
    got + 2 <= MinSwapOutBeforeFee(min_out)
      => got - TradeFee(got, TRADE_FEE_BPS) < min_out

\* Under any fee create accepts, the fee stays within 5% of the pot and the
\* winner of a flip takes home more than was staked.
WinnerGains(amount) ==
  \A fee_bps \in 0 .. MAX_FEE_BPS :
    /\ 20 * PotFee(amount, fee_bps) <= 2 * amount
    /\ amount > 0 => 2 * amount - PotFee(amount, fee_bps) > amount
====
