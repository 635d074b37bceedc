---- MODULE MCTrade ----
(***************************************************************************)
(* A small instance of Trade: one token quoted in SOL, one in USDC and one *)
(* in USDC that may not be crossed; a second USDC to change over to.       *)
(***************************************************************************)
EXTENDS Trade

CONSTANTS house, alice, usdc, usdt, tsla, nvda, spy,
          sol_usdc, sol_usdt, sol_tsla, usdc_nvda, usdc_spy

MCPoolMints ==
  [p \in Pools |->
     CASE p = sol_usdc  -> {WSOL_MINT, usdc}
       [] p = sol_usdt  -> {WSOL_MINT, usdt}
       [] p = sol_tsla  -> {WSOL_MINT, tsla}
       [] p = usdc_nvda -> {usdc, nvda}
       [] p = usdc_spy  -> {usdc, spy}]

Listed(pool, quote, cross_disabled) ==
  [layout |-> "current", min_amount |-> 10, is_enabled |-> TRUE, pool |-> pool,
   quote_mint |-> quote, cross_disabled |-> cross_disabled, max_amount |-> 20]

MCTokenConfig ==
  [m \in Tokens |->
     CASE m = tsla -> Listed(sol_tsla, DefaultKey, FALSE)
       [] m = nvda -> Listed(usdc_nvda, usdc, FALSE)
       [] m = spy  -> Listed(usdc_spy, usdc, TRUE)
       [] OTHER    -> NoTokenConfig]

\* Everyone has SOL, a little of it wrapped, and USDC; alice also has tokens.
MCEndowment ==
  [m \in Mints |-> [w \in Wallets |->
     CASE m = WSOL_MINT        -> 100
       [] m = NativeSol        -> 250
       [] m \in {tsla, nvda}   -> IF w = alice THEN 10 ELSE 0
       [] m \in {spy, usdt}    -> 0
       [] OTHER                -> 400]]
====
