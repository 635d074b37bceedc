---- MODULE Trade ----
(***************************************************************************)
(* buy_token and sell_token, src/src/instructions/trade.rs: a wallet       *)
(* exchanges SOL or USDC for an enabled token and back, in one hop or, when *)
(* the token is quoted in the other of the two, in two.  Each instruction  *)
(* is one transaction, so its checks are conjuncts of one action although  *)
(* some come after the swaps.  Nothing here touches a game; what trades and *)
(* games share is the configuration, which changes between trades.         *)
(***************************************************************************)
EXTENDS Swap, Integers

CONSTANTS
  Traders,
  Sizes,            \* amounts of a token asked for or offered
  Limits,           \* max_pay of a buyer, min_out of a seller
  Quotes,           \* quote_out of a buyer, min_quote_out of a seller
  Endowment,        \* what each wallet starts with, [Mints -> [Wallets -> U64]]
  InitialAuthority,
  InitialTokenConfig,
  MaxTrades         \* bound: trades in a behaviour

VARIABLES
  purse,            \* what each wallet holds of each mint
  trades            \* counter for MaxTrades

tradeVars == <<config, token_config, purse, trades>>

ASSUME TradeAssumption ==
  /\ Traders \subseteq Wallets
  /\ Sizes \subseteq U64
  /\ Limits \subseteq U64
  /\ Quotes \subseteq U64
  /\ Endowment \in [Mints -> [Wallets -> U64]]
  /\ InitialAuthority \in Wallets
  /\ InitialTokenConfig \in [Tokens -> TokenConfigAccounts]
  /\ MaxTrades \in Nat

TradeInit ==
  /\ config = SwapConfig(InitialAuthority)
  /\ token_config = InitialTokenConfig
  /\ purse = Endowment
  /\ trades = 0

\* validate_enabled_trade: unlike create's, the maximum binds every trade, and
\* the minimum only buyers.
TradeEnabled(mint, amount, enforce_min) ==
  LET t == token_config[mint]
  IN  /\ t.layout = "current"
      /\ t.is_enabled
      /\ t.pool # DefaultKey
      /\ enforce_min => amount >= t.min_amount
      /\ t.max_amount > 0 => amount <= t.max_amount

\* A slip: the fee of a flip is charged.
PayFlipFee(book, mint, user, moved) ==
  LET fee == TradeFee(moved, DEFAULT_FEE_BPS)
  IN  Credit(Debit(book, mint, user, fee), mint, config.authority, fee)

\* The protocol fee on what the swap moved, to the authority's account.
PayFee(book, mint, user, moved) ==
  LET fee == TradeFee(moved, TRADE_FEE_BPS)
  IN  Credit(Debit(book, mint, user, fee), mint, config.authority, fee)

\* A trade in SOL ends with the closing of the trader's WSOL account.
Settled(book, counter_mint, user) ==
  IF IsSolMint(counter_mint) THEN Unwrap(book, user) ELSE book
----
(* buy_token *)

\* The second hop may spend all that is in the intermediate account, what was
\* there before the first hop included.
TwoHopBuy(book, user, pools, pay, mint, max_swap_in, quote_out, amount_out) ==
  UNION {UNION {SwapExactOut(first, user, Hop(pools[2], mid, mint, user),
                             first[mid][user], amount_out) :
                  first \in SwapExactOut(book, user, Hop(pools[1], pay, mid, user),
                                         max_swap_in, quote_out)} :
           mid \in Tokens}

BuySwaps(book, user, pools, pay, mint, max_swap_in, quote_out, amount_out) ==
  IF Len(pools) = 1
  THEN SwapExactOut(book, user, Hop(pools[1], pay, mint, user), max_swap_in, amount_out)
  ELSE TwoHopBuy(book, user, pools, pay, mint, max_swap_in, quote_out, amount_out)

\* The buyer's books with max_pay ready in the account that pays.
PayReady(pay_mint, user, max_pay) ==
  IF IsSolMint(pay_mint) THEN Wrap(purse, user, max_pay) ELSE purse

\* A slip: lamports are wrapped that the buyer does not have.
CanPayAnything(pay_mint, user, max_pay) == TRUE
CanPay(pay_mint, user, max_pay) ==
  IsSolMint(pay_mint) => purse[NativeSol][user] >= max_pay

BuyToken(user, mint, amount_out, pay_mint, max_pay, quote_out) ==
  LET pay    == EffectiveMint(pay_mint)
      before == PayReady(pay_mint, user, max_pay)
  IN
  /\ config.layout = "current"
  /\ ~config.paused
  /\ amount_out > 0 /\ max_pay > 0
  /\ TradeEnabled(mint, amount_out, TRUE)
  /\ PayMintAccepted(pay_mint)
  /\ MaxSwapInAfterFee(max_pay) > 0
  /\ CanPay(pay_mint, user, max_pay)
  /\ \E pools \in TradePools(mint, pay_mint, TRUE) :
     \E after \in BuySwaps(before, user, pools, pay, mint,
                           MaxSwapInAfterFee(max_pay), quote_out, amount_out) :
       LET spent == before[pay][user] - after[pay][user]
       IN  /\ after[mint][user] >= before[mint][user] + amount_out
           /\ after[pay][user] <= before[pay][user]
           /\ TradeFee(spent, TRADE_FEE_BPS) <= after[pay][user]
           /\ purse' = Settled(PayFee(after, pay, user, spent), pay_mint, user)
----
(* sell_token *)

\* A slip: the second hop sells all that is in the intermediate account.
TwoHopSellAll(book, user, pools, mint, out, amount_in, min_quote_out, min_swap_out) ==
  UNION {UNION {SwapExactIn(first, user, Hop(pools[2], mid, out, user),
                            first[mid][user], min_swap_out) :
                  first \in SwapExactIn(book, user, Hop(pools[1], mint, mid, user), amount_in,
                                        IF min_quote_out > 0 THEN min_quote_out ELSE 1)} :
           mid \in Tokens}

\* The second hop sells just what the first has brought.
TwoHopSell(book, user, pools, mint, out, amount_in, min_quote_out, min_swap_out) ==
  UNION {UNION {SwapExactIn(first, user, Hop(pools[2], mid, out, user),
                            first[mid][user] - book[mid][user], min_swap_out) :
                  first \in SwapExactIn(book, user, Hop(pools[1], mint, mid, user), amount_in,
                                        IF min_quote_out > 0 THEN min_quote_out ELSE 1)} :
           mid \in Tokens}

SellSwaps(book, user, pools, mint, out, amount_in, min_quote_out, min_swap_out) ==
  IF Len(pools) = 1
  THEN SwapExactIn(book, user, Hop(pools[1], mint, out, user), amount_in, min_swap_out)
  ELSE TwoHopSell(book, user, pools, mint, out, amount_in, min_quote_out, min_swap_out)

SellToken(user, mint, amount_in, receive_mint, min_out, min_quote_out) ==
  LET out == EffectiveMint(receive_mint)
  IN
  /\ config.layout = "current"
  /\ ~config.paused
  /\ amount_in > 0 /\ min_out > 0
  /\ TradeEnabled(mint, amount_in, FALSE)
  /\ PayMintAccepted(receive_mint)
  /\ MinSwapOutFits(min_out)
  /\ \E pools \in TradePools(mint, receive_mint, FALSE) :
     \E after \in SellSwaps(purse, user, pools, mint, out, amount_in,
                            min_quote_out, MinSwapOutBeforeFee(min_out)) :
       LET received == after[out][user] - purse[out][user]
       IN  /\ after[out][user] >= purse[out][user]
           /\ received - TradeFee(received, TRADE_FEE_BPS) >= min_out
           /\ purse' = Settled(PayFee(after, out, user, received), receive_mint, user)
----
Buys ==
  \E user \in Traders, mint \in Tokens, x \in Sizes, pay \in Mints, y \in Limits, q \in Quotes :
    BuyToken(user, mint, x, pay, y, q)

Sells ==
  \E user \in Traders, mint \in Tokens, x \in Sizes, out \in Mints, y \in Limits, q \in Quotes :
    SellToken(user, mint, x, out, y, q)

TradeNext ==
  \/ /\ trades < MaxTrades
     /\ Buys \/ Sells
     /\ trades' = trades + 1
     /\ UNCHANGED configVars
  \/ /\ AdminStep
     /\ UNCHANGED <<purse, trades>>

TradeSpec == TradeInit /\ [][TradeNext]_tradeVars
----
\* No trade spends what a wallet does not have, in any of its accounts.
TradeTypeOK ==
  /\ ConfigTypeOK
  /\ purse \in [Mints -> [Wallets -> Nat]]
  /\ trades \in 0 .. MaxTrades

Traded == trades' = trades + 1

\* The mint a purchase passes through on its way from `pay` to the token: none
\* if the token is quoted in what is paid.
Crossed(mint, pay) ==
  {m \in Tokens : /\ EffectiveMint(pay) # EffectiveMint(token_config[mint].quote_mint)
                  /\ m \in PoolMints[config.sol_usdc_pool]
                  /\ m \in PoolMints[token_config[mint].pool]}

\* A buyer gets at least what he asked for and pays at most max_pay of the
\* mint he pays in, fee and wrapping included, in one hop or two, whatever the
\* exchange asks within its limits; of what else he has, only what the two
\* hops pass through can become less.
BuyerOutlayIsBounded ==
  [][Traded =>
       \A user \in Traders, mint \in Tokens, x \in Sizes, pay \in Mints, y \in Limits, q \in Quotes :
         BuyToken(user, mint, x, pay, y, q) =>
           /\ purse'[mint][user] >= purse[mint][user] + x
           /\ Holding(purse', pay, user) + y >= Holding(purse, pay, user)
           /\ \A m \in Tokens \ {EffectiveMint(pay)} :
                Holding(purse', m, user) < Holding(purse, m, user) => m \in Crossed(mint, pay)]_tradeVars

\* A seller gets at least min_out after the fee, parts with amount_in of the
\* token and with nothing else: what he had of the intermediate mint, and in
\* his WSOL account, he still has.
SellerIsPaid ==
  [][Traded =>
       \A user \in Traders, mint \in Tokens, x \in Sizes, out \in Mints, y \in Limits, q \in Quotes :
         SellToken(user, mint, x, out, y, q) =>
           /\ Holding(purse', out, user) >= Holding(purse, out, user) + y
           /\ Holding(purse', mint, user) + x >= Holding(purse, mint, user)
           /\ \A m \in Tokens \ {mint} : Holding(purse', m, user) >= Holding(purse, m, user)]_tradeVars

Earned(mint, w) == Holding(purse', mint, w) - Holding(purse, mint, w)

\* What the authority of the moment earns of somebody else's trade, paid or
\* received in the mint `counter`; and that nobody else earns or loses.
OnePercentOf(user, counter) ==
  \A w \in Wallets \ {user}, m \in Mints :
    IF w = config.authority /\ EffectiveMint(m) = EffectiveMint(counter)
    THEN \/ 100 * Earned(m, w) <= -Earned(m, user) - Earned(m, w)
         \/ 100 * Earned(m, w) <= Earned(m, user) + Earned(m, w)
    ELSE Earned(m, w) = 0

\* Of a trade by somebody else the authority earns at most 1% of what the swap
\* moved, in the mint paid or received, and nobody else has anything to do
\* with it.
HouseEarnsOnePercent ==
  [][Traded => \E user \in Traders, counter \in Mints : OnePercentOf(user, counter)]_tradeVars

\* trade.rs:90: "`max_pay` is the max total spend **including** the 1% protocol
\* fee": a buyer spends nothing but that.
MaxPayIsTotalSpend ==
  [][Traded =>
       \A user \in Traders, mint \in Tokens, x \in Sizes, pay \in Mints, y \in Limits, q \in Quotes :
         BuyToken(user, mint, x, pay, y, q) =>
           \A m \in Mints : EffectiveMint(m) # EffectiveMint(pay) =>
             Holding(purse', m, user) >= Holding(purse, m, user)]_tradeVars
====
