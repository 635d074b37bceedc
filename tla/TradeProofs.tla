---- MODULE TradeProofs ----
(***************************************************************************)
(* Theorems about buy_token and sell_token (src/src/instructions/trade.rs), *)
(* for every value of the constants: whatever the exchange asks and gives  *)
(* within what it respects, in one hop or two.                             *)
(***************************************************************************)
EXTENDS Trade, SwapProofs, ConfigProofs

\* The strengthening that trades and administration preserve.
TradeIInv == TradeTypeOK /\ ConfigIsCurrent

\* The wallets' books, and an authority that can be paid.
LEMMA TradeState ==
  ASSUME TradeIInv
  PROVE  /\ purse \in Books(Mints, Wallets)
         /\ config.authority \in Wallets
         /\ config \in ConfigAccounts
         /\ token_config \in [Tokens -> TokenConfigAccounts]
  BY DEF TradeIInv, TradeTypeOK, ConfigIsCurrent, ConfigTypeOK, Books

LEMMA FeeIsNat ==
  ASSUME NEW x \in Nat
  PROVE  /\ TradeFee(x, TRADE_FEE_BPS) \in Nat
         /\ MaxSwapInAfterFee(x) \in Nat
         /\ MinSwapOutBeforeFee(x) \in Nat
  BY SMT DEF TradeFee, MaxSwapInAfterFee, MinSwapOutBeforeFee, TRADE_FEE_BPS, BPS_DENOMINATOR

\* A buyer's slack covers what the swap took and the fee on it.
LEMMA SpentAndFee ==
  ASSUME NEW max_pay \in Nat, NEW spent \in Nat, spent <= MaxSwapInAfterFee(max_pay)
  PROVE  spent + TradeFee(spent, TRADE_FEE_BPS) <= max_pay
<1>1. spent \in 0 .. MaxSwapInAfterFee(max_pay)
  BY FeeIsNat
<1> QED BY <1>1, BuyerNeverOverpays DEF MaxPayCoversFee

\* The fee moves from the trader to the authority.
LEMMA FeeBook ==
  ASSUME NEW book \in Books(Mints, Wallets), NEW mint \in Mints, NEW user \in Wallets,
         config.authority \in Wallets, NEW moved \in Nat,
         TradeFee(moved, TRADE_FEE_BPS) <= book[mint][user]
  PROVE  LET fee == TradeFee(moved, TRADE_FEE_BPS)
         IN  /\ PayFee(book, mint, user, moved) \in Books(Mints, Wallets)
             /\ \A n \in Mints, k \in Wallets :
                  PayFee(book, mint, user, moved)[n][k] =
                    IF n = mint /\ user # config.authority
                    THEN IF k = user THEN book[n][k] - fee
                         ELSE IF k = config.authority THEN book[n][k] + fee
                         ELSE book[n][k]
                    ELSE book[n][k]
<1> DEFINE fee == TradeFee(moved, TRADE_FEE_BPS)
           once == Debit(book, mint, user, fee)
           house == config.authority
<1>1. fee \in Nat
  BY FeeIsNat
<1>2. PayFee(book, mint, user, moved) = Credit(once, mint, house, fee)
  BY DEF PayFee
<1>3. fee <= book[mint][user] /\ house \in Wallets
  OBVIOUS
<1> HIDE DEF fee
<1>4. /\ once \in Books(Mints, Wallets)
      /\ \A n \in Mints, k \in Wallets :
           once[n][k] = IF n = mint /\ k = user THEN book[n][k] - fee ELSE book[n][k]
  BY <1>1, <1>3, DebitBook
<1> HIDE DEF once, house
<1>5. /\ PayFee(book, mint, user, moved) \in Books(Mints, Wallets)
      /\ \A n \in Mints, k \in Wallets :
           PayFee(book, mint, user, moved)[n][k] =
             IF n = mint /\ k = house THEN once[n][k] + fee ELSE once[n][k]
  <2>1. /\ Credit(once, mint, house, fee) \in Books(Mints, Wallets)
        /\ \A n \in Mints, k \in Wallets :
             Credit(once, mint, house, fee)[n][k] =
               IF n = mint /\ k = house THEN once[n][k] + fee ELSE once[n][k]
    BY <1>1, <1>3, <1>4, CreditBook
  <2> QED BY <1>2, <2>1
<1>6. \A n \in Mints, k \in Wallets : book[n][k] \in Nat
  BY DEF Books
<1>7. \A n \in Mints, k \in Wallets :
        PayFee(book, mint, user, moved)[n][k] =
          IF n = mint /\ user # house
          THEN IF k = user THEN book[n][k] - fee
               ELSE IF k = house THEN book[n][k] + fee
               ELSE book[n][k]
          ELSE book[n][k]
  <2> TAKE n \in Mints, k \in Wallets
  <2>1. /\ once[n][k] = IF n = mint /\ k = user THEN book[n][k] - fee ELSE book[n][k]
        /\ PayFee(book, mint, user, moved)[n][k] =
             IF n = mint /\ k = house THEN once[n][k] + fee ELSE once[n][k]
        /\ book[n][k] \in Nat
    BY <1>4, <1>5, <1>6
  <2> QED BY <1>1, <2>1
<1> QED BY <1>5, <1>7 DEF fee, house

\* The pools of a trade exist.
LEMMA TradePoolsExist ==
  ASSUME TradeIInv, NEW mint \in Tokens, token_config[mint].pool # DefaultKey,
         NEW counter, NEW buy \in BOOLEAN,
         NEW pools \in TradePools(mint, counter, buy)
  PROVE  \/ /\ Len(pools) = 1 /\ pools[1] \in Pools
         \/ /\ Len(pools) # 1 /\ pools[1] \in Pools /\ pools[2] \in Pools
<1> DEFINE t == token_config[mint]
<1>1. t.pool \in Pools
  BY TradeState DEF TokenConfigAccounts
<1>2. \/ pools = <<t.pool>>
      \/ /\ config.sol_usdc_pool # DefaultKey
         /\ pools = <<config.sol_usdc_pool, t.pool>> \/ pools = <<t.pool, config.sol_usdc_pool>>
  BY DEF TradePools
<1>3. config.sol_usdc_pool # DefaultKey => config.sol_usdc_pool \in Pools
  BY TradeState DEF ConfigAccounts
<1> HIDE DEF t
<1> QED BY <1>1, <1>2, <1>3
----
(* buy_token *)

\* Nothing has changed but the tokens of one wallet.
OnlyTokensOf(user, book, after) ==
  \A n \in Mints, k \in Wallets :
    k # user \/ n = NativeSol => after[n][k] = book[n][k]

\* Of the wallet's other tokens, only those between the two pools are spent.
OnlyMiddleShrinks(user, book, after, pools, pay) ==
  \A n \in Tokens : n # pay /\ after[n][user] < book[n][user] =>
    Len(pools) # 1 /\ n \in PoolMints[pools[1]] /\ n \in PoolMints[pools[2]]

\* The swaps of a purchase move the buyer's tokens alone, and take at most
\* max_swap_in of the mint he pays in.
LEMMA BuyBook ==
  ASSUME NEW book \in Books(Mints, Wallets), NEW user \in Wallets,
         NEW pools,
         \/ Len(pools) = 1 /\ pools[1] \in Pools
         \/ Len(pools) # 1 /\ pools[1] \in Pools /\ pools[2] \in Pools,
         NEW pay \in Tokens, NEW mint \in Tokens,
         NEW most \in Nat, NEW quote_out \in Nat, NEW amount_out \in Nat,
         NEW after \in BuySwaps(book, user, pools, pay, mint, most, quote_out, amount_out)
  PROVE  /\ after \in Books(Mints, Wallets)
         /\ OnlyTokensOf(user, book, after)
         /\ pay # mint => after[pay][user] + most >= book[pay][user]
         /\ OnlyMiddleShrinks(user, book, after, pools, pay)
<1>0. /\ pay \in Mints /\ mint \in Mints /\ NativeSol \notin Tokens /\ Tokens \subseteq Mints
      /\ \A n \in Mints, k \in Wallets : book[n][k] \in Nat
  BY SolMints DEF Books
<1>1. CASE Len(pools) = 1 /\ pools[1] \in Pools
  <2>1. after \in SwapExactOut(book, user, Hop(pools[1], pay, mint, user), most, amount_out)
    BY <1>1 DEF BuySwaps
  <2>3. /\ after \in Books(Mints, Wallets)
        /\ \E paid \in 0 .. most, got \in 0 .. amount_out :
             /\ paid <= book[pay][user]
             /\ Moved(book, after, user, pay, paid, mint, user, got)
    BY <1>1, <2>1, HopOutBook
  <2>4. \A n \in Tokens : n # pay => after[n][user] >= book[n][user]
    <3> TAKE n \in Tokens
    <3>1. PICK paid \in 0 .. most, got \in 0 .. amount_out :
               Moved(book, after, user, pay, paid, mint, user, got)
      BY <2>3
    <3>2. n \in Mints /\ book[n][user] \in Nat
      BY <1>0
    <3> QED BY <3>1, <3>2 DEF Moved
  <2>5. OnlyMiddleShrinks(user, book, after, pools, pay)
    <3>1. \A n \in Tokens : after[n][user] \in Nat /\ book[n][user] \in Nat
      BY <1>0, <2>3 DEF Books
    <3> QED BY <2>4, <3>1 DEF OnlyMiddleShrinks
  <2> QED BY <1>0, <2>3, <2>5 DEF Moved, OnlyTokensOf
<1>2. CASE Len(pools) # 1 /\ pools[1] \in Pools /\ pools[2] \in Pools
  <2>1. PICK mid \in Tokens :
          \E first \in SwapExactOut(book, user, Hop(pools[1], pay, mid, user), most, quote_out) :
            after \in SwapExactOut(first, user, Hop(pools[2], mid, mint, user),
                                   first[mid][user], amount_out)
    BY <1>2 DEF BuySwaps, TwoHopBuy
  <2>2. PICK first \in SwapExactOut(book, user, Hop(pools[1], pay, mid, user), most, quote_out) :
          after \in SwapExactOut(first, user, Hop(pools[2], mid, mint, user),
                                 first[mid][user], amount_out)
    BY <2>1
  <2>5. /\ first \in Books(Mints, Wallets) /\ pay # mid
        /\ \E paid \in 0 .. most, got \in 0 .. quote_out :
             /\ paid <= book[pay][user]
             /\ Moved(book, first, user, pay, paid, mid, user, got)
    BY <1>2, <2>2, HopOutBook
  <2>6. first[mid][user] \in Nat /\ mid \in Mints
    BY <2>5, SolMints DEF Books
  <2> DEFINE has == first[mid][user]
  <2>7. /\ has \in Nat
        /\ after \in SwapExactOut(first, user, Hop(pools[2], mid, mint, user), has, amount_out)
    BY <2>2, <2>6
  <2> HIDE DEF has
  <2>8. /\ after \in Books(Mints, Wallets)
        /\ \E paid \in 0 .. has, got \in 0 .. amount_out :
             /\ paid <= first[mid][user]
             /\ Moved(first, after, user, mid, paid, mint, user, got)
    BY <1>2, <2>5, <2>7, HopOutBook
  <2>9. pay # mint => after[pay][user] = first[pay][user]
    BY <1>0, <2>5, <2>8 DEF Moved
  <2>10. pay # mint => after[pay][user] + most >= book[pay][user]
    BY <1>0, <2>5, <2>9 DEF Moved
  <2>11. OnlyTokensOf(user, book, after)
    BY <1>0, <2>5, <2>6, <2>8 DEF Moved, OnlyTokensOf
  <2>12. mid \in PoolMints[pools[1]] /\ mid \in PoolMints[pools[2]]
    BY <2>2, HopOutMints
  <2>13. \A n \in Tokens : n # pay /\ n # mid => after[n][user] >= book[n][user]
    <3> TAKE n \in Tokens
    <3>1. n # pay /\ n # mid => first[n][user] = book[n][user]
      BY <1>0, <2>5 DEF Moved
    <3>2. n # mid => after[n][user] >= first[n][user]
      BY <1>0, <2>5, <2>8, SolMints DEF Moved, Books
    <3> QED BY <3>1, <3>2
  <2>14. OnlyMiddleShrinks(user, book, after, pools, pay)
    <3>1. \A n \in Tokens : after[n][user] \in Nat /\ book[n][user] \in Nat
      BY <2>8, SolMints DEF Books
    <3> QED BY <1>2, <2>12, <2>13, <3>1 DEF OnlyMiddleShrinks
  <2> QED BY <2>8, <2>10, <2>11, <2>14
<1> QED BY <1>1, <1>2

\* The end of a trade: only the trader and the authority notice the fee, and
\* nobody the unwrapping.
LEMMA FeeIsSettled ==
  ASSUME NEW before \in Books(Mints, Wallets), NEW after \in Books(Mints, Wallets),
         NEW user \in Wallets, OnlyTokensOf(user, before, after),
         NEW counter \in Mints, NEW moved \in Nat, config.authority \in Wallets,
         TradeFee(moved, TRADE_FEE_BPS) <= after[EffectiveMint(counter)][user],
         NEW result,
         result = Settled(PayFee(after, EffectiveMint(counter), user, moved), counter, user)
  PROVE  LET fee == TradeFee(moved, TRADE_FEE_BPS)
             pay == EffectiveMint(counter)
         IN  /\ result \in Books(Mints, Wallets)
             /\ \A m \in Tokens : m # pay => result[m][user] = after[m][user]
             /\ \A m \in Mints :
                  Holding(result, m, user) =
                    IF user # config.authority /\ EffectiveMint(m) = pay
                    THEN Holding(after, m, user) - fee ELSE Holding(after, m, user)
             /\ \A w \in Wallets \ {user}, m \in Mints :
                  Holding(result, m, w) =
                    IF w = config.authority /\ EffectiveMint(m) = pay
                    THEN Holding(before, m, w) + fee ELSE Holding(before, m, w)
<1> DEFINE fee == TradeFee(moved, TRADE_FEE_BPS)
           pay == EffectiveMint(counter)
           paid == PayFee(after, pay, user, moved)
           house == config.authority
<1>1. /\ pay \in Tokens /\ pay \in Mints /\ house \in Wallets
      /\ ~IsSolMint(counter) => pay = counter
      /\ IsSolMint(counter) => pay = WSOL_MINT
  BY EffectiveIsToken, SolMints
<1>2. fee \in Nat /\ fee <= after[pay][user]
  BY FeeIsNat
<1>3. result = Settled(paid, counter, user)
  OBVIOUS
<1>4. /\ paid \in Books(Mints, Wallets)
      /\ \A n \in Mints, k \in Wallets :
           paid[n][k] = IF n = pay /\ user # house
                        THEN IF k = user THEN after[n][k] - fee
                             ELSE IF k = house THEN after[n][k] + fee
                             ELSE after[n][k]
                        ELSE after[n][k]
  BY <1>1, <1>2, FeeBook
<1> HIDE DEF fee, pay, paid, house
<1>5. \A m \in Mints :
        \/ /\ IsSolMint(m) /\ EffectiveMint(m) = WSOL_MINT
        \/ /\ ~IsSolMint(m) /\ EffectiveMint(m) = m /\ m # WSOL_MINT /\ m # NativeSol
  BY EffectiveIsToken DEF IsSolMint
<1>6. /\ NativeSol \in Mints /\ WSOL_MINT \in Mints /\ NativeSol # WSOL_MINT
      /\ NativeSol \notin Tokens /\ Tokens \subseteq Mints
      /\ \A n \in Mints, k \in Wallets :
           after[n][k] \in Nat /\ before[n][k] \in Nat /\ paid[n][k] \in Nat
  BY <1>4, SolMints DEF Books
<1>7. \A m \in Mints, w \in Wallets :
        Holding(paid, m, w) =
          IF user # house /\ EffectiveMint(m) = pay
          THEN IF w = user THEN Holding(after, m, w) - fee
               ELSE IF w = house THEN Holding(after, m, w) + fee
               ELSE Holding(after, m, w)
          ELSE Holding(after, m, w)
  <2> SUFFICES ASSUME NEW m \in Mints, NEW w \in Wallets
               PROVE  Holding(paid, m, w) =
                        IF user # house /\ EffectiveMint(m) = pay
                        THEN IF w = user THEN Holding(after, m, w) - fee
                             ELSE IF w = house THEN Holding(after, m, w) + fee
                             ELSE Holding(after, m, w)
                        ELSE Holding(after, m, w)
    OBVIOUS
  <2>1. CASE IsSolMint(m)
    <3>1. /\ Holding(paid, m, w) = paid[NativeSol][w] + paid[WSOL_MINT][w]
          /\ Holding(after, m, w) = after[NativeSol][w] + after[WSOL_MINT][w]
      BY <2>1 DEF Holding
    <3>2. EffectiveMint(m) = WSOL_MINT /\ paid[NativeSol][w] = after[NativeSol][w]
      BY <1>1, <1>4, <1>5, <1>6, <2>1
    <3>3. after[NativeSol][w] \in Nat /\ after[WSOL_MINT][w] \in Nat
      BY <1>6
    <3>4. CASE pay = WSOL_MINT
      <4>1. paid[WSOL_MINT][w] = IF user # house
                                 THEN IF w = user THEN after[WSOL_MINT][w] - fee
                                      ELSE IF w = house THEN after[WSOL_MINT][w] + fee
                                      ELSE after[WSOL_MINT][w]
                                 ELSE after[WSOL_MINT][w]
        BY <1>4, <1>6, <3>4
      <4> QED BY <1>2, <3>1, <3>2, <3>3, <3>4, <4>1
    <3>5. CASE pay # WSOL_MINT
      BY <1>4, <1>6, <3>1, <3>2, <3>5
    <3> QED BY <3>4, <3>5
  <2>2. CASE ~IsSolMint(m)
    BY <1>4, <1>5, <2>2 DEF Holding
  <2> QED BY <2>1, <2>2
<1>8. \A m \in Mints, w \in Wallets \ {user} : Holding(after, m, w) = Holding(before, m, w)
  BY <1>6 DEF OnlyTokensOf, Holding
<1>9. /\ result \in Books(Mints, Wallets)
      /\ \A m \in Tokens : m # pay => result[m][user] = paid[m][user]
      /\ \A m \in Mints, w \in Wallets : Holding(result, m, w) = Holding(paid, m, w)
  <2>1. CASE IsSolMint(counter)
    <3>1. result = Unwrap(paid, user) /\ pay = WSOL_MINT
      BY <1>1, <1>3, <2>1 DEF Settled
    <3>2. /\ result \in Books(Mints, Wallets)
          /\ \A n \in Mints, k \in Wallets :
               /\ k # user => result[n][k] = paid[n][k]
               /\ n \notin {NativeSol, WSOL_MINT} => result[n][k] = paid[n][k]
      <4>1. /\ Unwrap(paid, user) \in Books(Mints, Wallets)
            /\ \A n \in Mints, k \in Wallets :
                 Unwrap(paid, user)[n][k] =
                   IF n = NativeSol /\ k = user THEN paid[n][k] + paid[WSOL_MINT][user]
                   ELSE IF n = WSOL_MINT /\ k = user THEN 0
                   ELSE paid[n][k]
        BY <1>4, UnwrapBook
      <4> QED BY <3>1, <4>1
    <3>3. \A m \in Mints : Holding(result, m, user) = Holding(paid, m, user)
      BY <1>4, <3>1, HoldingIsKept
    <3>4. \A m \in Mints, w \in Wallets \ {user} : Holding(result, m, w) = Holding(paid, m, w)
      BY <1>6, <3>2 DEF Holding
    <3> QED BY <1>6, <3>1, <3>2, <3>3, <3>4
  <2>2. CASE ~IsSolMint(counter)
    BY <1>3, <1>4, <2>2 DEF Settled
  <2> QED BY <2>1, <2>2
<1>10. \A m \in Tokens : m # pay => result[m][user] = after[m][user]
  BY <1>4, <1>6, <1>9
<1>11. \A m \in Mints :
         Holding(result, m, user) =
           IF user # house /\ EffectiveMint(m) = pay
           THEN Holding(after, m, user) - fee ELSE Holding(after, m, user)
  BY <1>7, <1>9
<1>12. \A w \in Wallets \ {user}, m \in Mints :
         Holding(result, m, w) =
           IF w = house /\ EffectiveMint(m) = pay
           THEN Holding(before, m, w) + fee ELSE Holding(before, m, w)
  BY <1>7, <1>8, <1>9
<1> QED BY <1>9, <1>10, <1>11, <1>12 DEF fee, pay, house

\* The last line of HouseEarnsOnePercent, in numbers: the trader has h before
\* and loses or gains what the swap moved, and the fee.
LEMMA FeeIsOnePercent ==
  ASSUME NEW moved \in Nat
  PROVE  100 * TradeFee(moved, TRADE_FEE_BPS) <= moved
<1>1. TradeFee(moved, TRADE_FEE_BPS) = (100 * moved) \div 10000
  BY DEF TradeFee, TRADE_FEE_BPS, BPS_DENOMINATOR
<1>2. 10000 * ((100 * moved) \div 10000) <= 100 * moved
  BY SMT
<1>3. (100 * moved) \div 10000 \in Nat
  BY SMT
<1> QED BY <1>1, <1>2, <1>3

\* A purchase leaves the other tokens of the buyer alone, those aside that it
\* passes through.
OnlyCrossedShrinks(user, mint, pay) ==
  \A m \in Tokens \ {EffectiveMint(pay)} :
    Holding(purse', m, user) < Holding(purse, m, user) => m \in Crossed(mint, pay)

\* What a purchase changes.
LEMMA BuyEffect ==
  ASSUME TradeIInv,
         NEW user \in Traders, NEW mint \in Tokens, NEW x \in Sizes, NEW pay_mint \in Mints,
         NEW y \in Limits, NEW q \in Quotes,
         BuyToken(user, mint, x, pay_mint, y, q)
  PROVE  /\ purse' \in Books(Mints, Wallets)
         /\ purse'[mint][user] >= purse[mint][user] + x
         /\ Holding(purse', pay_mint, user) + y >= Holding(purse, pay_mint, user)
         /\ OnePercentOf(user, pay_mint)
         /\ OnlyCrossedShrinks(user, mint, pay_mint)
<1> DEFINE pay    == EffectiveMint(pay_mint)
           before == PayReady(pay_mint, user, y)
           most   == MaxSwapInAfterFee(y)
<1>1. /\ user \in Wallets /\ x \in Nat /\ y \in Nat /\ q \in Nat
      /\ purse \in Books(Mints, Wallets) /\ config.authority \in Wallets
  BY TradeState, TradeAssumption, U64Assumption DEF U64
<1>2. /\ pay \in Tokens /\ pay \in Mints /\ mint \in Mints /\ most \in Nat
      /\ WSOL_MINT \in Mints /\ NativeSol \in Mints /\ NativeSol \notin Tokens
      /\ ~IsSolMint(pay_mint) => pay = pay_mint
      /\ IsSolMint(pay_mint) => pay = WSOL_MINT
  BY <1>1, EffectiveIsToken, SolMints, FeeIsNat
<1>3. /\ x > 0 /\ TradeEnabled(mint, x, TRUE) /\ CanPay(pay_mint, user, y)
      /\ \E pools \in TradePools(mint, pay_mint, TRUE) :
         \E after \in BuySwaps(before, user, pools, pay, mint, most, q, x) :
           LET spent == before[pay][user] - after[pay][user]
           IN  /\ after[mint][user] >= before[mint][user] + x
               /\ after[pay][user] <= before[pay][user]
               /\ TradeFee(spent, TRADE_FEE_BPS) <= after[pay][user]
               /\ purse' = Settled(PayFee(after, pay, user, spent), pay_mint, user)
  BY DEF BuyToken
<1>4. IsSolMint(pay_mint) => y <= purse[NativeSol][user]
  BY <1>1, <1>2, <1>3 DEF CanPay, Books
<1>5. /\ before \in Books(Mints, Wallets)
      /\ mint # pay => before[mint][user] = purse[mint][user]
      /\ \A m \in Mints, w \in Wallets : Holding(before, m, w) = Holding(purse, m, w)
  <2>1. CASE IsSolMint(pay_mint)
    <3>1. before = Wrap(purse, user, y)
      BY <2>1 DEF PayReady
    <3>2. /\ before \in Books(Mints, Wallets)
          /\ mint # WSOL_MINT => before[mint][user] = purse[mint][user]
          /\ \A n \in Mints, k \in Wallets \ {user} : before[n][k] = purse[n][k]
      BY <1>1, <1>2, <1>4, <2>1, <3>1, WrapBook
    <3>3. \A m \in Mints : Holding(before, m, user) = Holding(purse, m, user)
      BY <1>1, <1>4, <2>1, <3>1, HoldingIsKept
    <3>4. \A m \in Mints, w \in Wallets \ {user} : Holding(before, m, w) = Holding(purse, m, w)
      BY <1>2, <3>2 DEF Holding
    <3> QED BY <1>2, <2>1, <3>2, <3>3, <3>4
  <2>2. CASE ~IsSolMint(pay_mint)
    BY <1>1, <2>2 DEF PayReady
  <2> QED BY <2>1, <2>2
<1> HIDE DEF pay, before, most
<1> PICK pools \in TradePools(mint, pay_mint, TRUE) :
         \E after \in BuySwaps(before, user, pools, pay, mint, most, q, x) :
           LET spent == before[pay][user] - after[pay][user]
           IN  /\ after[mint][user] >= before[mint][user] + x
               /\ after[pay][user] <= before[pay][user]
               /\ TradeFee(spent, TRADE_FEE_BPS) <= after[pay][user]
               /\ purse' = Settled(PayFee(after, pay, user, spent), pay_mint, user)
  BY <1>3
<1>6. PICK after \in BuySwaps(before, user, pools, pay, mint, most, q, x) :
        /\ after[mint][user] >= before[mint][user] + x
        /\ after[pay][user] <= before[pay][user]
        /\ TradeFee(before[pay][user] - after[pay][user], TRADE_FEE_BPS) <= after[pay][user]
        /\ purse' = Settled(PayFee(after, pay, user, before[pay][user] - after[pay][user]),
                            pay_mint, user)
  OBVIOUS
<1>7. token_config[mint].pool # DefaultKey
  BY <1>3 DEF TradeEnabled
<1>8. \/ Len(pools) = 1 /\ pools[1] \in Pools
      \/ Len(pools) # 1 /\ pools[1] \in Pools /\ pools[2] \in Pools
  BY <1>7, TradePoolsExist
<1>9. /\ after \in Books(Mints, Wallets)
      /\ OnlyTokensOf(user, before, after)
      /\ pay # mint => after[pay][user] + most >= before[pay][user]
      /\ OnlyMiddleShrinks(user, before, after, pools, pay)
  BY <1>1, <1>2, <1>5, <1>6, <1>8, BuyBook
<1>10. \A n \in Mints, k \in Wallets : before[n][k] \in Nat /\ after[n][k] \in Nat
  BY <1>5, <1>9 DEF Books
<1>11. pay # mint
  BY <1>1, <1>2, <1>3, <1>6, <1>10
<1> DEFINE spent == before[pay][user] - after[pay][user]
           fee == TradeFee(spent, TRADE_FEE_BPS)
<1>12. spent \in Nat /\ spent <= most
  BY <1>1, <1>2, <1>6, <1>9, <1>10, <1>11
<1>13. fee \in Nat /\ spent + fee <= y /\ fee <= after[pay][user] /\ 100 * fee <= spent
  BY <1>1, <1>6, <1>12, FeeIsNat, SpentAndFee, FeeIsOnePercent DEF most
<1>14. purse' = Settled(PayFee(after, pay, user, spent), pay_mint, user)
  BY <1>6
<1>15. before[pay][user] = after[pay][user] + spent
  BY <1>1, <1>2, <1>10
<1> HIDE DEF spent
<1>16. /\ purse' \in Books(Mints, Wallets)
       /\ \A m \in Tokens : m # pay => purse'[m][user] = after[m][user]
       /\ \A m \in Mints :
            Holding(purse', m, user) =
              IF user # config.authority /\ EffectiveMint(m) = pay
              THEN Holding(after, m, user) - fee ELSE Holding(after, m, user)
       /\ \A w \in Wallets \ {user}, m \in Mints :
            Holding(purse', m, w) =
              IF w = config.authority /\ EffectiveMint(m) = pay
              THEN Holding(before, m, w) + fee ELSE Holding(before, m, w)
  BY <1>1, <1>5, <1>9, <1>12, <1>13, <1>14, FeeIsSettled DEF pay
<1> HIDE DEF fee
<1>17. purse'[mint][user] >= purse[mint][user] + x
  BY <1>5, <1>6, <1>11, <1>16
<1>18. \A m \in Mints : EffectiveMint(m) = pay =>
         /\ Holding(before, m, user) = Holding(after, m, user) + spent
         /\ Holding(after, m, user) \in Nat
  <2> TAKE m \in Mints
  <2> HAVE EffectiveMint(m) = pay
  <2>1. after[NativeSol][user] = before[NativeSol][user]
    BY <1>1, <1>2, <1>9 DEF OnlyTokensOf
  <2>2. CASE IsSolMint(m)
    <3>1. pay = WSOL_MINT
      BY <2>2, EffectiveIsToken
    <3> QED BY <1>1, <1>2, <1>10, <1>12, <1>15, <2>1, <2>2, <3>1 DEF Holding
  <2>3. CASE ~IsSolMint(m)
    <3>1. pay = m
      BY <2>3, EffectiveIsToken
    <3> QED BY <1>1, <1>10, <1>15, <2>3, <3>1 DEF Holding
  <2> QED BY <2>2, <2>3
<1>19. Holding(purse', pay_mint, user) + y >= Holding(purse, pay_mint, user)
  BY <1>1, <1>5, <1>12, <1>13, <1>16, <1>18 DEF pay
<1>20. ASSUME NEW w \in Wallets \ {user}, NEW m \in Mints
       PROVE  IF w = config.authority /\ EffectiveMint(m) = EffectiveMint(pay_mint)
              THEN \/ 100 * Earned(m, w) <= -Earned(m, user) - Earned(m, w)
                   \/ 100 * Earned(m, w) <= Earned(m, user) + Earned(m, w)
              ELSE Earned(m, w) = 0
  <2>1. Holding(purse, m, w) \in Nat
    BY <1>1, HoldingIsKept
  <2>2. CASE w = config.authority /\ EffectiveMint(m) = pay
    <3>1. Earned(m, w) = fee
      BY <1>5, <1>13, <1>16, <2>1, <2>2 DEF Earned
    <3>2. Earned(m, user) = (Holding(after, m, user) - fee) - (Holding(after, m, user) + spent)
      BY <1>1, <1>5, <1>16, <1>18, <1>20, <2>2 DEF Earned
    <3>3. -Earned(m, user) - Earned(m, w) = spent
      BY <1>12, <1>13, <1>18, <2>2, <3>1, <3>2
    <3> QED BY <1>13, <2>2, <3>1, <3>3 DEF pay
  <2>3. CASE ~(w = config.authority /\ EffectiveMint(m) = pay)
    BY <1>5, <1>16, <2>1, <2>3 DEF Earned, pay
  <2> QED BY <2>2, <2>3
<1>21. OnePercentOf(user, pay_mint)
  BY <1>20 DEF OnePercentOf
<1>22. OnlyCrossedShrinks(user, mint, pay_mint)
  <2> SUFFICES ASSUME NEW m \in Tokens \ {pay}, Holding(purse', m, user) < Holding(purse, m, user)
               PROVE  m \in Crossed(mint, pay_mint)
    BY DEF OnlyCrossedShrinks, pay
  <2>1. m \in Mints /\ m # NativeSol /\ EffectiveMint(m) = m
    BY EffectiveIsToken, SolMints DEF IsSolMint
  <2>2. Holding(after, m, user) < Holding(before, m, user)
    BY <1>1, <1>5, <1>16, <2>1
  <2>3. after[NativeSol][user] = before[NativeSol][user]
    BY <1>1, <1>2, <1>9 DEF OnlyTokensOf
  <2>4. after[m][user] < before[m][user]
    <3>1. CASE IsSolMint(m)
      <4>1. m = WSOL_MINT
        BY <2>1, <3>1, EffectiveIsToken
      <4> QED BY <1>1, <1>2, <1>10, <2>2, <2>3, <3>1, <4>1 DEF Holding
    <3>2. CASE ~IsSolMint(m)
      BY <2>2, <3>2 DEF Holding
    <3> QED BY <3>1, <3>2
  <2>5. Len(pools) # 1 /\ m \in PoolMints[pools[1]] /\ m \in PoolMints[pools[2]]
    BY <1>9, <2>4 DEF OnlyMiddleShrinks
  <2>6. /\ pools = <<config.sol_usdc_pool, token_config[mint].pool>>
        /\ EffectiveMint(pay_mint) # EffectiveMint(token_config[mint].quote_mint)
    <3>1. \/ pools = <<token_config[mint].pool>>
          \/ /\ pools = <<config.sol_usdc_pool, token_config[mint].pool>>
             /\ EffectiveMint(pay_mint) # EffectiveMint(token_config[mint].quote_mint)
      BY DEF TradePools
    <3>2. pools # <<token_config[mint].pool>>
      BY <2>5
    <3> QED BY <3>1, <3>2
  <2>7. m \in PoolMints[config.sol_usdc_pool] /\ m \in PoolMints[token_config[mint].pool]
    BY <2>5, <2>6
  <2> QED BY <2>6, <2>7 DEF Crossed
<1> QED BY <1>16, <1>17, <1>19, <1>21, <1>22
----
(* sell_token *)

\* A wallet has less of one mint, by at most x, and no less of any other.
PartsWith(user, mint, x, book, after) ==
  /\ after[mint][user] + x >= book[mint][user]
  /\ \A m \in Tokens \ {mint} : after[m][user] >= book[m][user]

\* The swaps of a sale take amount_in of the token, and of the intermediate
\* mint what the first of them brought.
LEMMA SellBook ==
  ASSUME NEW book \in Books(Mints, Wallets), NEW user \in Wallets,
         NEW pools,
         \/ Len(pools) = 1 /\ pools[1] \in Pools
         \/ Len(pools) # 1 /\ pools[1] \in Pools /\ pools[2] \in Pools,
         NEW mint \in Tokens, NEW out \in Tokens,
         NEW amount_in \in Nat, NEW min_quote \in Nat, NEW least \in Nat,
         NEW after \in SellSwaps(book, user, pools, mint, out, amount_in, min_quote, least)
  PROVE  /\ after \in Books(Mints, Wallets)
         /\ OnlyTokensOf(user, book, after)
         /\ PartsWith(user, mint, amount_in, book, after)
<1>0. /\ mint \in Mints /\ out \in Mints /\ NativeSol \notin Tokens /\ Tokens \subseteq Mints
      /\ \A n \in Mints, k \in Wallets : book[n][k] \in Nat
  BY SolMints DEF Books
<1>1. CASE Len(pools) = 1 /\ pools[1] \in Pools
  <2>1. after \in SwapExactIn(book, user, Hop(pools[1], mint, out, user), amount_in, least)
    BY <1>1 DEF SellSwaps
  <2>2. /\ after \in Books(Mints, Wallets) /\ mint # out
        /\ \E got \in Nat : /\ got >= least
                            /\ Moved(book, after, user, mint, amount_in, out, user, got)
    BY <1>1, <2>1, HopInBook
  <2>3. OnlyTokensOf(user, book, after)
    BY <1>0, <2>2 DEF Moved, OnlyTokensOf
  <2>4. PartsWith(user, mint, amount_in, book, after)
    BY <1>0, <2>2 DEF Moved, PartsWith
  <2> QED BY <2>2, <2>3, <2>4
<1>2. CASE Len(pools) # 1 /\ pools[1] \in Pools /\ pools[2] \in Pools
  <2> DEFINE floor == IF min_quote > 0 THEN min_quote ELSE 1
  <2>1. PICK mid \in Tokens :
          \E first \in SwapExactIn(book, user, Hop(pools[1], mint, mid, user), amount_in, floor) :
            after \in SwapExactIn(first, user, Hop(pools[2], mid, out, user),
                                  first[mid][user] - book[mid][user], least)
    BY <1>2 DEF SellSwaps, TwoHopSell
  <2>2. PICK first \in SwapExactIn(book, user, Hop(pools[1], mint, mid, user), amount_in, floor) :
          after \in SwapExactIn(first, user, Hop(pools[2], mid, out, user),
                                first[mid][user] - book[mid][user], least)
    BY <2>1
  <2>3. floor \in Nat
    OBVIOUS
  <2> HIDE DEF floor
  <2>4. /\ first \in Books(Mints, Wallets) /\ mint # mid
        /\ \E got \in Nat : /\ got >= floor
                            /\ Moved(book, first, user, mint, amount_in, mid, user, got)
    BY <1>2, <2>2, <2>3, HopInBook
  <2> PICK got \in Nat : Moved(book, first, user, mint, amount_in, mid, user, got)
    BY <2>4
  <2>5. first[mid][user] = book[mid][user] + got /\ mid \in Mints
    BY <1>0, <2>4 DEF Moved
  <2>6. first[mid][user] - book[mid][user] = got
    BY <1>0, <2>5
  <2>7. after \in SwapExactIn(first, user, Hop(pools[2], mid, out, user), got, least)
    BY <2>2, <2>6
  <2>8. /\ after \in Books(Mints, Wallets) /\ mid # out
        /\ \E more \in Nat : /\ more >= least
                             /\ Moved(first, after, user, mid, got, out, user, more)
    BY <1>2, <2>4, <2>7, HopInBook
  <2> PICK more \in Nat : Moved(first, after, user, mid, got, out, user, more)
    BY <2>8
  <2>9. \A n \in Mints, k \in Wallets : first[n][k] \in Nat /\ after[n][k] \in Nat
    BY <2>4, <2>8 DEF Books
  <2>10. OnlyTokensOf(user, book, after)
    BY <1>0, <2>5 DEF Moved, OnlyTokensOf
  <2>11. PartsWith(user, mint, amount_in, book, after)
    <3>1. after[mint][user] + amount_in >= book[mint][user]
      <4>1. first[mint][user] = book[mint][user] - amount_in
        BY <1>0 DEF Moved
      <4>2. after[mint][user] >= first[mint][user]
        BY <1>0, <2>4, <2>9 DEF Moved
      <4> QED BY <1>0, <2>9, <4>1, <4>2
    <3>2. ASSUME NEW m \in Tokens \ {mint}
          PROVE  after[m][user] >= book[m][user]
      <4>1. m \in Mints /\ m # mint /\ book[m][user] \in Nat
        BY <1>0, <3>2
      <4>2. CASE m = mid
        BY <2>5, <2>8, <4>1, <4>2 DEF Moved
      <4>3. CASE m # mid
        <5>1. first[m][user] = book[m][user]
          BY <4>1, <4>3 DEF Moved
        <5>2. after[m][user] = first[m][user] \/ after[m][user] = first[m][user] + more
          BY <4>1, <4>3 DEF Moved
        <5> QED BY <4>1, <5>1, <5>2
      <4> QED BY <4>2, <4>3
    <3> QED BY <3>1, <3>2 DEF PartsWith
  <2> QED BY <2>8, <2>10, <2>11
<1> QED BY <1>1, <1>2

\* What a sale changes.
LEMMA SellEffect ==
  ASSUME TradeIInv,
         NEW user \in Traders, NEW mint \in Tokens, NEW x \in Sizes, NEW receive_mint \in Mints,
         NEW y \in Limits, NEW q \in Quotes,
         SellToken(user, mint, x, receive_mint, y, q)
  PROVE  /\ purse' \in Books(Mints, Wallets)
         /\ Holding(purse', receive_mint, user) >= Holding(purse, receive_mint, user) + y
         /\ Holding(purse', mint, user) + x >= Holding(purse, mint, user)
         /\ \A m \in Tokens \ {mint} : Holding(purse', m, user) >= Holding(purse, m, user)
         /\ OnePercentOf(user, receive_mint)
<1> DEFINE out   == EffectiveMint(receive_mint)
           least == MinSwapOutBeforeFee(y)
<1>1. /\ user \in Wallets /\ x \in Nat /\ y \in Nat /\ q \in Nat
      /\ purse \in Books(Mints, Wallets) /\ config.authority \in Wallets
  BY TradeState, TradeAssumption, U64Assumption DEF U64
<1>2. /\ out \in Tokens /\ out \in Mints /\ mint \in Mints /\ least \in Nat
      /\ WSOL_MINT \in Mints /\ NativeSol \in Mints /\ NativeSol \notin Tokens
      /\ Tokens \subseteq Mints
  BY <1>1, EffectiveIsToken, SolMints, FeeIsNat
<1>3. /\ TradeEnabled(mint, x, FALSE)
      /\ \E pools \in TradePools(mint, receive_mint, FALSE) :
         \E after \in SellSwaps(purse, user, pools, mint, out, x, q, least) :
           LET received == after[out][user] - purse[out][user]
           IN  /\ after[out][user] >= purse[out][user]
               /\ received - TradeFee(received, TRADE_FEE_BPS) >= y
               /\ purse' = Settled(PayFee(after, out, user, received), receive_mint, user)
  BY DEF SellToken
<1> HIDE DEF out, least
<1> PICK pools \in TradePools(mint, receive_mint, FALSE) :
         \E after \in SellSwaps(purse, user, pools, mint, out, x, q, least) :
           LET received == after[out][user] - purse[out][user]
           IN  /\ after[out][user] >= purse[out][user]
               /\ received - TradeFee(received, TRADE_FEE_BPS) >= y
               /\ purse' = Settled(PayFee(after, out, user, received), receive_mint, user)
  BY <1>3
<1>4. PICK after \in SellSwaps(purse, user, pools, mint, out, x, q, least) :
        LET received == after[out][user] - purse[out][user]
        IN  /\ after[out][user] >= purse[out][user]
            /\ received - TradeFee(received, TRADE_FEE_BPS) >= y
            /\ purse' = Settled(PayFee(after, out, user, received), receive_mint, user)
  OBVIOUS
<1>5. token_config[mint].pool # DefaultKey
  BY <1>3 DEF TradeEnabled
<1>6. \/ Len(pools) = 1 /\ pools[1] \in Pools
      \/ Len(pools) # 1 /\ pools[1] \in Pools /\ pools[2] \in Pools
  BY <1>5, TradePoolsExist
<1>7. /\ after \in Books(Mints, Wallets)
      /\ OnlyTokensOf(user, purse, after)
      /\ PartsWith(user, mint, x, purse, after)
  BY <1>1, <1>2, <1>4, <1>6, SellBook
<1>8. \A n \in Mints, k \in Wallets : purse[n][k] \in Nat /\ after[n][k] \in Nat
  BY <1>1, <1>7 DEF Books
<1> DEFINE received == after[out][user] - purse[out][user]
           fee == TradeFee(received, TRADE_FEE_BPS)
<1>9. /\ received \in Nat /\ received - fee >= y
      /\ purse' = Settled(PayFee(after, out, user, received), receive_mint, user)
  BY <1>1, <1>2, <1>4, <1>8
<1>10. after[out][user] = purse[out][user] + received
  BY <1>1, <1>2, <1>8
<1> HIDE DEF received
<1>11. fee \in Nat /\ 100 * fee <= received
  BY <1>9, FeeIsNat, FeeIsOnePercent
<1>12. fee <= after[out][user]
  BY <1>1, <1>2, <1>8, <1>9, <1>10, <1>11
<1>13. /\ purse' \in Books(Mints, Wallets)
       /\ \A m \in Mints :
            Holding(purse', m, user) =
              IF user # config.authority /\ EffectiveMint(m) = out
              THEN Holding(after, m, user) - fee ELSE Holding(after, m, user)
       /\ \A w \in Wallets \ {user}, m \in Mints :
            Holding(purse', m, w) =
              IF w = config.authority /\ EffectiveMint(m) = out
              THEN Holding(purse, m, w) + fee ELSE Holding(purse, m, w)
  BY <1>1, <1>7, <1>9, <1>12, FeeIsSettled DEF out
<1> HIDE DEF fee
<1>14. after[NativeSol][user] = purse[NativeSol][user]
  BY <1>1, <1>2, <1>7 DEF OnlyTokensOf
<1>15. \A m \in Mints : EffectiveMint(m) = out =>
         /\ Holding(after, m, user) = Holding(purse, m, user) + received
         /\ Holding(purse, m, user) \in Nat
  <2> TAKE m \in Mints
  <2> HAVE EffectiveMint(m) = out
  <2>1. CASE IsSolMint(m)
    <3>1. out = WSOL_MINT
      BY <2>1, EffectiveIsToken
    <3> QED BY <1>1, <1>2, <1>8, <1>9, <1>10, <1>14, <2>1, <3>1 DEF Holding
  <2>2. CASE ~IsSolMint(m)
    <3>1. out = m
      BY <2>2, EffectiveIsToken
    <3> QED BY <1>1, <1>8, <1>10, <2>2, <3>1 DEF Holding
  <2> QED BY <2>1, <2>2
<1>16. \A m \in Mints : EffectiveMint(m) = out =>
         Holding(purse', m, user) >= Holding(purse, m, user) + y
  BY <1>1, <1>9, <1>11, <1>13, <1>15
<1>17. \A m \in Mints : EffectiveMint(m) # out => Holding(purse', m, user) = Holding(after, m, user)
  BY <1>13
<1>18. \A m \in Mints : Holding(purse, m, user) \in Nat /\ Holding(after, m, user) \in Nat
  BY <1>1, <1>7, HoldingIsKept
<1>19. Holding(purse', mint, user) + x >= Holding(purse, mint, user)
  <2>1. CASE EffectiveMint(mint) = out
    BY <1>1, <1>2, <1>13, <1>16, <1>18, <2>1, HoldingIsKept
  <2>2. CASE EffectiveMint(mint) # out
    <3>1. Holding(after, mint, user) + x >= Holding(purse, mint, user)
      <4>1. after[mint][user] + x >= purse[mint][user]
        BY <1>7 DEF PartsWith
      <4>2. IsSolMint(mint) => mint = WSOL_MINT
        BY <1>2 DEF IsSolMint
      <4> QED BY <1>1, <1>2, <1>8, <1>14, <4>1, <4>2 DEF Holding
    <3> QED BY <1>2, <1>17, <2>2, <3>1
  <2> QED BY <2>1, <2>2
<1>20. ASSUME NEW m \in Tokens \ {mint}
       PROVE  Holding(purse', m, user) >= Holding(purse, m, user)
  <2>0. m \in Mints
    BY <1>2
  <2>1. CASE EffectiveMint(m) = out
    <3>1. Holding(purse', m, user) \in Nat
      BY <1>1, <1>13, <2>0, HoldingIsKept
    <3> QED BY <1>1, <1>16, <1>18, <2>0, <2>1, <3>1
  <2>2. CASE EffectiveMint(m) # out
    <3>1. after[m][user] >= purse[m][user]
      BY <1>7, <1>20 DEF PartsWith
    <3>2. IsSolMint(m) => m = WSOL_MINT
      BY <1>2 DEF IsSolMint
    <3>3. Holding(after, m, user) >= Holding(purse, m, user)
      BY <1>1, <1>2, <1>8, <1>14, <2>0, <3>1, <3>2 DEF Holding
    <3> QED BY <1>17, <2>0, <2>2, <3>3
  <2> QED BY <2>1, <2>2
<1>21. ASSUME NEW w \in Wallets \ {user}, NEW m \in Mints
       PROVE  IF w = config.authority /\ EffectiveMint(m) = EffectiveMint(receive_mint)
              THEN \/ 100 * Earned(m, w) <= -Earned(m, user) - Earned(m, w)
                   \/ 100 * Earned(m, w) <= Earned(m, user) + Earned(m, w)
              ELSE Earned(m, w) = 0
  <2>1. Holding(purse, m, w) \in Nat
    BY <1>1, HoldingIsKept
  <2>2. CASE w = config.authority /\ EffectiveMint(m) = out
    <3>1. Earned(m, w) = fee
      BY <1>11, <1>13, <2>1, <2>2 DEF Earned
    <3>2. Earned(m, user) = ((Holding(purse, m, user) + received) - fee) - Holding(purse, m, user)
      BY <1>1, <1>13, <1>15, <1>21, <2>2 DEF Earned
    <3>3. Earned(m, user) + Earned(m, w) = received
      BY <1>9, <1>11, <1>15, <2>2, <3>1, <3>2
    <3> QED BY <1>11, <2>2, <3>1, <3>3 DEF out
  <2>3. CASE ~(w = config.authority /\ EffectiveMint(m) = out)
    BY <1>13, <2>1, <2>3 DEF Earned, out
  <2> QED BY <2>2, <2>3
<1>22. Holding(purse', receive_mint, user) >= Holding(purse, receive_mint, user) + y
  BY <1>16 DEF out
<1>23. OnePercentOf(user, receive_mint)
  BY <1>21 DEF OnePercentOf
<1> QED BY <1>13, <1>19, <1>20, <1>22, <1>23
----
(* Every step *)

LEMMA TradeInitIInv ==
  ASSUME TradeInit
  PROVE  TradeIInv
<1> USE ConfigAssumption, SwapAssumption, TradeAssumption, U64Assumption
<1>1. config =
        [layout |-> "current", authority |-> InitialAuthority,
         fee_bps |-> DEFAULT_FEE_BPS, paused |-> FALSE, usdc_mint |-> FirstUsdcMint,
         sol_usdc_pool |-> FirstSolUsdcPool, sol_min_amount |-> DEFAULT_SOL_MIN_AMOUNT,
         vrf_program |-> ORAO_VRF_ID, sol_max_amount |-> DEFAULT_SOL_MAX_AMOUNT]
  BY DEF TradeInit, SwapConfig, InitialConfig, NoConfig
<1>2. DEFAULT_FEE_BPS \in Nat
  BY DEF DEFAULT_FEE_BPS
<1>3. config \in ConfigAccounts /\ ConfigIsCurrent
  BY <1>1, <1>2 DEF ConfigAccounts, Layouts, ConfigIsCurrent
<1>4. purse \in [Mints -> [Wallets -> Nat]] /\ trades \in 0 .. MaxTrades
  BY DEF TradeInit, U64
<1>5. token_config \in [Tokens -> TokenConfigAccounts]
  BY DEF TradeInit
<1> QED BY <1>3, <1>4, <1>5 DEF TradeIInv, TradeTypeOK, ConfigTypeOK

LEMMA TradeNextPreserves ==
  ASSUME TradeIInv, [TradeNext]_tradeVars
  PROVE  TradeIInv'
<1>1. CASE trades < MaxTrades /\ (Buys \/ Sells) /\ trades' = trades + 1 /\ UNCHANGED configVars
  <2>1. purse' \in Books(Mints, Wallets)
    BY <1>1, BuyEffect, SellEffect DEF Buys, Sells
  <2>2. trades' \in 0 .. MaxTrades
    BY <1>1, TradeAssumption DEF TradeIInv, TradeTypeOK
  <2> QED BY <1>1, <2>1, <2>2
          DEF TradeIInv, TradeTypeOK, ConfigTypeOK, ConfigIsCurrent, configVars, Books
<1>2. CASE AdminStep /\ UNCHANGED <<purse, trades>>
  <2>1. ConfigTypeOK' /\ ConfigIsCurrent'
    BY <1>2, AdminTypes DEF TradeIInv, TradeTypeOK
  <2> QED BY <1>2, <2>1 DEF TradeIInv, TradeTypeOK
<1>3. CASE UNCHANGED tradeVars
  BY <1>3 DEF TradeIInv, TradeTypeOK, ConfigTypeOK, ConfigIsCurrent, tradeVars
<1> QED BY <1>1, <1>2, <1>3 DEF TradeNext

LEMMA TradeInductive == TradeSpec => []TradeIInv
<1>1. TradeInit => TradeIInv
  BY TradeInitIInv
<1>2. TradeIInv /\ [TradeNext]_tradeVars => TradeIInv'
  BY TradeNextPreserves
<1> QED BY <1>1, <1>2, PTL DEF TradeSpec

\* No trade overdraws a wallet, in any of its accounts (trade.rs).
THEOREM TradesTypeCorrect == TradeSpec => []TradeTypeOK
<1>1. TradeIInv => TradeTypeOK
  BY DEF TradeIInv
<1> QED BY <1>1, TradeInductive, PTL

\* A buyer gets what he asked for and pays at most max_pay of the mint he pays
\* in, wrapping, both hops and the fee included (buy_token of trade.rs).
THEOREM BuyersOutlayStaysBounded == TradeSpec => BuyerOutlayIsBounded
<1>1. TradeIInv =>
        [Traded =>
           \A user \in Traders, mint \in Tokens, x \in Sizes, pay \in Mints, y \in Limits,
              q \in Quotes :
             BuyToken(user, mint, x, pay, y, q) =>
               /\ purse'[mint][user] >= purse[mint][user] + x
               /\ Holding(purse', pay, user) + y >= Holding(purse, pay, user)
               /\ \A m \in Tokens \ {EffectiveMint(pay)} :
                    Holding(purse', m, user) < Holding(purse, m, user) =>
                      m \in Crossed(mint, pay)]_tradeVars
  BY BuyEffect DEF OnlyCrossedShrinks
<1> QED BY <1>1, TradeInductive, PTL DEF TradeSpec, BuyerOutlayIsBounded

\* A seller gets min_out after the fee, for the token he sells and nothing
\* else (sell_token of trade.rs).
THEOREM SellersArePaid == TradeSpec => SellerIsPaid
<1>1. TradeIInv =>
        [Traded =>
           \A user \in Traders, mint \in Tokens, x \in Sizes, out \in Mints, y \in Limits,
              q \in Quotes :
             SellToken(user, mint, x, out, y, q) =>
               /\ Holding(purse', out, user) >= Holding(purse, out, user) + y
               /\ Holding(purse', mint, user) + x >= Holding(purse, mint, user)
               /\ \A m \in Tokens \ {mint} :
                    Holding(purse', m, user) >= Holding(purse, m, user)]_tradeVars
  BY SellEffect
<1> QED BY <1>1, TradeInductive, PTL DEF TradeSpec, SellerIsPaid

\* The house earns at most 1% of what a trade moved, and nobody else has any
\* part in it (trade_fee of state.rs in trade.rs).
THEOREM HouseEarnsNoMore == TradeSpec => HouseEarnsOnePercent
<1>1. TradeIInv /\ [TradeNext]_tradeVars =>
        [Traded => \E user \in Traders, counter \in Mints : OnePercentOf(user, counter)]_tradeVars
  <2> SUFFICES ASSUME TradeIInv, [TradeNext]_tradeVars, Traded, tradeVars' # tradeVars
               PROVE  \E user \in Traders, counter \in Mints : OnePercentOf(user, counter)
    OBVIOUS
  <2>1. trades' # trades
    BY DEF Traded, TradeIInv, TradeTypeOK
  <2>2. Buys \/ Sells
    BY <2>1 DEF TradeNext, tradeVars
  <2> QED BY <2>2, BuyEffect, SellEffect DEF Buys, Sells
<1> QED BY <1>1, TradeInductive, PTL DEF TradeSpec, HouseEarnsOnePercent

\* Whatever the administrator has made of the configuration, trade_pools of
\* trade.rs and allowed_pools of participate.rs agree on a token whose quote is
\* current and that is not cross_disabled, and part on others just as stated.
THEOREM RoutesStayCompared == TradeSpec => []RoutesCompare
<1>1. TradeIInv => RoutesCompare
  BY RoutesAlwaysCompare
<1> QED BY <1>1, TradeInductive, PTL
====
