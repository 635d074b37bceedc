---- MODULE Fees ----
(***************************************************************************)
(* The fee arithmetic of src/src/state.rs.  Amounts are u64, products are  *)
(* taken in u128, division truncates, and every checked operation that     *)
(* would leave its width makes the instruction fail.  The basis points     *)
(* are the program's own; only the width of u64 is a parameter, so that a  *)
(* small instance can reach it.                                            *)
(***************************************************************************)
EXTENDS Naturals

CONSTANT U64_MAX        \* 2^64 - 1 in the program

ASSUME U64Assumption == U64_MAX \in Nat

BPS_DENOMINATOR == 10000
DEFAULT_FEE_BPS == 350
MAX_FEE_BPS == 500
TRADE_FEE_BPS == 100

U64 == 0 .. U64_MAX

\* A slip: the basis points are taken for tenths of a percent.
PotFeePerMille(amount, fee_bps) == (2 * amount * fee_bps) \div 1000

\* pot_fee: the pot is both stakes; `amount.checked_mul(2)` fails first, and
\* the fee of a pot that fits fits too (fee_bps never exceeds 100%).
PotFits(amount) == 2 * amount <= U64_MAX
PotFee(amount, fee_bps) == (2 * amount * fee_bps) \div BPS_DENOMINATOR

\* trade_fee: the fee on a swapped amount, rounded down.
TradeFee(amount, fee_bps) == (amount * fee_bps) \div BPS_DENOMINATOR

\* A slip: the fee is divided out of max_pay and the quotient rounded up.
MaxSwapInDividedOut(max_pay) ==
  LET gross == BPS_DENOMINATOR + TRADE_FEE_BPS
  IN  (max_pay * BPS_DENOMINATOR + (gross - 1)) \div gross

\* max_swap_in_after_fee: what a buyer who offers max_pay may put in the swap.
MaxSwapInAfterFee(max_pay) ==
  (max_pay * (BPS_DENOMINATOR - TRADE_FEE_BPS)) \div BPS_DENOMINATOR

\* A slip: the fee on min_out is added, not the fee on the output.
MinSwapOutPlusFee(min_out) == min_out + TradeFee(min_out, TRADE_FEE_BPS)

\* A slip: one unit too many on top of the rounding.
MinSwapOutPadded(min_out) ==
  LET keep == BPS_DENOMINATOR - TRADE_FEE_BPS
  IN  (min_out * BPS_DENOMINATOR + keep) \div keep + 1

\* min_swap_out_before_fee: what the swap of a seller must give, rounded up;
\* the last conversion back to u64 can fail.
MinSwapOutBeforeFee(min_out) ==
  LET keep == BPS_DENOMINATOR - TRADE_FEE_BPS
  IN  (min_out * BPS_DENOMINATOR + (keep - 1)) \div keep
MinSwapOutFits(min_out) == MinSwapOutBeforeFee(min_out) <= U64_MAX
====
