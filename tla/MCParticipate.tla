---- MODULE MCParticipate ----
(***************************************************************************)
(* A small instance of Participate: games in SOL, in USDC, in a token      *)
(* quoted in SOL and in one quoted in USDC.                                *)
(***************************************************************************)
EXTENDS Participate

CONSTANTS alice, bob, usdc, usdt, tsla, nvda,
          sol_usdc, sol_usdt, sol_tsla, usdc_nvda,
          r0                \* the randomness whose bit is 0

MCPoolMints ==
  [p \in Pools |->
     CASE p = sol_usdc  -> {WSOL_MINT, usdc}
       [] p = sol_usdt  -> {WSOL_MINT, usdt}
       [] p = sol_tsla  -> {WSOL_MINT, tsla}
       [] p = usdc_nvda -> {usdc, nvda}]

Listed(pool, quote) ==
  [layout |-> "current", min_amount |-> 10, is_enabled |-> TRUE, pool |-> pool,
   quote_mint |-> quote, cross_disabled |-> FALSE, max_amount |-> 20]

MCTokenConfig ==
  [m \in Tokens |->
     CASE m = usdc -> Listed(sol_usdc, WSOL_MINT)
       [] m = tsla -> Listed(sol_tsla, DefaultKey)
       [] m = nvda -> Listed(usdc_nvda, usdc)
       [] OTHER    -> NoTokenConfig]

\* bob has SOL, a little of it wrapped, USDC and too little of a token.
MCEndowment ==
  [m \in Mints |-> [w \in Wallets |->
     CASE m \in {NativeSol, usdc} -> 30
       [] m = WSOL_MINT           -> 5
       [] m = usdt                -> 10
       [] OTHER                   -> IF w = alice THEN 10 ELSE 5]]

MCResultBit ==
  [x \in Entropies \X Entropies \X Randomness |-> IF x[3] = r0 THEN 0 ELSE 1]
====
