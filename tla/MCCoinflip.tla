---- MODULE MCCoinflip ----
(***************************************************************************)
(* Small instances of Coinflip: the house, a creator and a joiner.         *)
(***************************************************************************)
EXTENDS CoinflipProps

CONSTANTS
  house, alice, bob,
  r0,               \* the randomness whose bit is 0
  Riches            \* what each wallet starts with of each mint, alice thrice

MCEndowment ==
  [m \in Mints |-> [w \in Wallets |-> IF w = alice THEN 3 * Riches ELSE Riches]]

MCResultBit ==
  [x \in Entropies \X Entropies \X Randomness |-> IF x[3] = r0 THEN 0 ELSE 1]

\* Every token is enabled, for stakes of 100 and more and, when house-only,
\* up to 300.
MCTokenConfig ==
  [m \in Tokens |->
    [layout |-> "current", min_amount |-> 100, is_enabled |-> TRUE,
     pool |-> CHOOSE p \in Pools : TRUE, quote_mint |-> DefaultKey,
     cross_disabled |-> FALSE, max_amount |-> 300]]
====
