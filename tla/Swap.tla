---- MODULE Swap ----
(***************************************************************************)
(* Swaps on the external exchange (Raydium CLMM), src/src/swap.rs, and the *)
(* pools the program lets a swap go through: trade_pools of trade.rs and   *)
(* allowed_pools of participate.rs.                                        *)
(*                                                                         *)
(* A wallet has one token account per mint, the one of WSOL_MINT apart     *)
(* from its lamports, and reopens it when a swap needs it; its rent goes   *)
(* and comes back with it and is left out.  The exchange is known by what  *)
(* the program relies on: it swaps the two mints of the pool it is called  *)
(* for, takes only what the signer owns, and respects both of its          *)
(* arguments, except that a mint with a transfer fee may deliver less than *)
(* an exact output.                                                        *)
(***************************************************************************)
EXTENDS ConfigAdmin, TokenUtils, Sequences

CONSTANTS
  PoolMints,        \* the two mints of each pool
  SwapAmounts,      \* bound: what the exchange may ask for or give
  FirstUsdcMint,    \* what set_sol_usdc_pool was first called with
  FirstSolUsdcPool

ASSUME SwapAssumption ==
  /\ WSOL_MINT \in Tokens
  /\ PoolMints \in [Pools -> SUBSET Tokens]
  /\ SwapAmounts \subseteq Nat
  /\ FirstUsdcMint \in (Tokens \intersect QuoteChoices) \ {WSOL_MINT}
  /\ FirstSolUsdcPool \in Pools

\* The config of a program that is set up for swaps; only then can a token
\* have been enabled with USDC as its quote.
SwapConfig(authority) ==
  [InitialConfig(authority, ORAO_VRF_ID) EXCEPT
     !.usdc_mint = FirstUsdcMint, !.sol_usdc_pool = FirstSolUsdcPool]

EffectiveMint(mint) == IF IsNativeSol(mint) THEN WSOL_MINT ELSE mint

\* Lamports into the wallet's WSOL account, and the closing of that account,
\* which turns all that is in it into lamports.
Wrap(book, w, lamports) ==
  Credit(Debit(book, NativeSol, w, lamports), WSOL_MINT, w, lamports)
Unwrap(book, w) ==
  Credit([book EXCEPT ![WSOL_MINT][w] = 0], NativeSol, w, book[WSOL_MINT][w])

\* What a wallet has of a mint; SOL counts wrapped or not.
Holding(book, mint, w) ==
  IF IsSolMint(mint) THEN book[NativeSol][w] + book[WSOL_MINT][w] ELSE book[mint][w]

\* One call of the exchange, as the accounts passed for it describe it.
Hop(pool, from, to, sink) ==
  [pool |-> pool, from |-> from, to |-> to, sink |-> sink]

Connects(hop) == hop.from # hop.to /\ PoolMints[hop.pool] = {hop.from, hop.to}

\* The books that swap_exact_out can leave: the exchange asks for no more than
\* max_amount_in.
SwapExactOut(book, owner, hop, max_amount_in, amount_out) ==
  {Credit(Debit(book, hop.from, owner, x[1]), hop.to, hop.sink, x[2]) :
     x \in {y \in SwapAmounts \X (SwapAmounts \union {amount_out}) :
              /\ Connects(hop)
              /\ amount_out > 0
              /\ max_amount_in > 0
              /\ y[1] <= max_amount_in
              /\ y[1] <= book[hop.from][owner]
              /\ y[2] <= amount_out}}

\* The books that swap_exact_in can leave: the exchange gives no less than
\* min_amount_out.
SwapExactIn(book, owner, hop, amount_in, min_amount_out) ==
  {Credit(Debit(book, hop.from, owner, amount_in), hop.to, hop.sink, got) :
     got \in {y \in SwapAmounts :
                /\ Connects(hop)
                /\ amount_in > 0
                /\ min_amount_out > 0
                /\ amount_in <= book[hop.from][owner]
                /\ y >= min_amount_out}}
----
(* Pools of buy_token and sell_token *)

\* require_pay_or_receive_mint
PayMintAccepted(mint) ==
  \/ IsSolMint(mint)
  \/ config.usdc_mint # DefaultKey /\ mint = config.usdc_mint

\* trade_pools, the pools in the order of the hops; no element when the
\* instruction fails.  The quote is compared with the USDC mint of the moment.
TradePools(mint, counter_mint, buy) ==
  LET t        == token_config[mint]
      quote    == EffectiveMint(t.quote_mint)
      counter  == EffectiveMint(counter_mint)
      via_usdc == counter = config.usdc_mint /\ IsSolMint(quote)
      via_sol  == IsSolMint(counter) /\ quote = config.usdc_mint
  IN  {pools \in {<<t.pool>>} :
         /\ IsSolMint(quote) \/ quote = config.usdc_mint
         /\ counter = quote}
      \union
      {pools \in {IF buy THEN <<config.sol_usdc_pool, t.pool>>
                         ELSE <<t.pool, config.sol_usdc_pool>>} :
         /\ IsSolMint(quote) \/ quote = config.usdc_mint
         /\ counter # quote
         /\ ~t.cross_disabled
         /\ via_usdc \/ via_sol
         /\ config.sol_usdc_pool # DefaultKey}
----
(* Pools of participate *)

\* A game in SOL is paid in USDC, one in USDC in SOL, through the one pool.
SolUsdcOnly(game_mint, pay_mint) ==
  /\ config.usdc_mint # DefaultKey
  /\ \/ IsSolMint(game_mint) /\ pay_mint = config.usdc_mint
     \/ ~IsSolMint(game_mint) /\ game_mint = config.usdc_mint /\ IsSolMint(pay_mint)

\* The token config of the game's mint lets the stake be swapped for.
SwapForEnabled(game_mint) ==
  LET t == token_config[game_mint]
  IN  /\ t.layout = "current"
      /\ t.is_enabled
      /\ ~t.cross_disabled
      /\ t.pool # DefaultKey

\* A slip: the two hops in the order of a sale.
AllowedPoolsReversed(game_mint, pay_mint) ==
  {pools \in {<<token_config[game_mint].pool, config.sol_usdc_pool>>} :
     EffectiveMint(pay_mint) # EffectiveMint(token_config[game_mint].quote_mint)}

\* allowed_pools, for a pay mint other than the game's.  The quote of the
\* token is taken as it stands in its config, without a look at the USDC mint
\* of the moment.
AllowedPools(game_mint, pay_mint) ==
  IF IsSolMint(game_mint) \/ SolUsdcOnly(game_mint, pay_mint)
  THEN {pools \in {<<config.sol_usdc_pool>>} :
          SolUsdcOnly(game_mint, pay_mint) /\ config.sol_usdc_pool # DefaultKey}
  ELSE LET t        == token_config[game_mint]
           direct   == EffectiveMint(pay_mint) = EffectiveMint(t.quote_mint)
           via_usdc == pay_mint = config.usdc_mint /\ IsSolMint(t.quote_mint)
           via_sol  == IsSolMint(pay_mint) /\ t.quote_mint = config.usdc_mint
       IN  {pools \in {<<t.pool>>} : SwapForEnabled(game_mint) /\ direct}
           \union
           {pools \in {<<config.sol_usdc_pool, t.pool>>} :
              /\ SwapForEnabled(game_mint)
              /\ ~direct
              /\ via_usdc \/ via_sol
              /\ config.sol_usdc_pool # DefaultKey}
----
QuoteIsCurrent(mint) ==
  LET quote == token_config[mint].quote_mint
  IN  IsSolMint(quote) \/ quote = config.usdc_mint

\* What buy_token, sell_token and a swap for a stake all ask of a token.
IsTradable(mint) ==
  LET t == token_config[mint]
  IN  t.layout = "current" /\ t.is_enabled /\ t.pool # DefaultKey

\* trade.rs and participate.rs each choose pools with rules of their own.  A
\* sale goes the way of the purchase back.  A stake of a stock token that can
\* be swapped for may be paid in the mints, and through the pools, one may buy
\* the token with, as long as its quote is SOL or the USDC of the moment and it
\* is not marked cross_disabled.  Where they part: a marked token can still be
\* bought with its quote, and no stake of it swapped for; a token whose quote
\* is a former USDC cannot be bought, and its stake still paid in that.
RoutesCompare ==
  \A mint \in Tokens \ {WSOL_MINT, config.usdc_mint}, pay \in Mints :
    LET t        == token_config[mint]
        bought   == IF PayMintAccepted(pay) THEN TradePools(mint, pay, TRUE) ELSE {}
        staked   == AllowedPools(mint, pay)
        straight == {pools \in {<<t.pool>>} : EffectiveMint(pay) = EffectiveMint(t.quote_mint)}
        reverse(pools) == [i \in DOMAIN pools |-> pools[Len(pools) + 1 - i]]
    IN  /\ TradePools(mint, pay, FALSE) = {reverse(pools) : pools \in TradePools(mint, pay, TRUE)}
        /\ IsTradable(mint) /\ pay # mint =>
             /\ QuoteIsCurrent(mint) /\ ~t.cross_disabled => staked = bought
             /\ QuoteIsCurrent(mint) /\ t.cross_disabled => staked = {} /\ bought = straight
             /\ ~QuoteIsCurrent(mint) /\ ~t.cross_disabled => staked = straight /\ bought = {}
             /\ ~QuoteIsCurrent(mint) /\ t.cross_disabled => staked = {} /\ bought = {}
====
