---- MODULE SwapProofs ----
(***************************************************************************)
(* What wraps and swaps do to the wallets' books, and how the two ways of  *)
(* choosing pools compare, for every value of the constants.               *)
(***************************************************************************)
EXTENDS Swap, BasicProofs, TLAPS

LEMMA SolMints ==
  /\ NativeSol \in Mints /\ WSOL_MINT \in Mints
  /\ NativeSol \notin Tokens /\ NativeSol # WSOL_MINT
  /\ Tokens \subseteq Mints
  BY ConfigAssumption, SwapAssumption DEF Mints, NativeSol

LEMMA EffectiveIsToken ==
  ASSUME NEW mint \in Mints
  PROVE  /\ EffectiveMint(mint) \in Tokens
         /\ ~IsSolMint(mint) => EffectiveMint(mint) = mint
         /\ IsSolMint(mint) => EffectiveMint(mint) = WSOL_MINT
  BY SwapAssumption DEF EffectiveMint, Mints, IsNativeSol, IsSolMint

\* One balance goes down by `paid` and another up by `got`.
Moved(book, after, w, from, paid, to, sink, got) ==
  \A n \in Mints, k \in Wallets :
    after[n][k] = IF n = from /\ k = w THEN book[n][k] - paid
                  ELSE IF n = to /\ k = sink THEN book[n][k] + got
                  ELSE book[n][k]

LEMMA MovedBook ==
  ASSUME NEW book \in Books(Mints, Wallets), NEW from \in Mints, NEW to \in Mints,
         from # to, NEW w \in Wallets, NEW sink \in Wallets,
         NEW paid \in Nat, paid <= book[from][w], NEW got \in Nat
  PROVE  LET after == Credit(Debit(book, from, w, paid), to, sink, got)
         IN  /\ after \in Books(Mints, Wallets)
             /\ Moved(book, after, w, from, paid, to, sink, got)
<1> DEFINE mid == Debit(book, from, w, paid)
<1>1. /\ mid \in Books(Mints, Wallets)
      /\ \A n \in Mints, k \in Wallets :
           mid[n][k] = IF n = from /\ k = w THEN book[n][k] - paid ELSE book[n][k]
  BY DebitBook
<1> HIDE DEF mid
<1>2. /\ Credit(mid, to, sink, got) \in Books(Mints, Wallets)
      /\ \A n \in Mints, k \in Wallets :
           Credit(mid, to, sink, got)[n][k] =
             IF n = to /\ k = sink THEN mid[n][k] + got ELSE mid[n][k]
  BY <1>1, CreditBook
<1>3. \A n \in Mints, k \in Wallets :
        Credit(mid, to, sink, got)[n][k] =
          IF n = from /\ k = w THEN book[n][k] - paid
          ELSE IF n = to /\ k = sink THEN book[n][k] + got
          ELSE book[n][k]
  BY <1>1, <1>2
<1> QED BY <1>2, <1>3 DEF mid, Moved

LEMMA WrapBook ==
  ASSUME NEW book \in Books(Mints, Wallets), NEW w \in Wallets,
         NEW x \in Nat, x <= book[NativeSol][w]
  PROVE  /\ Wrap(book, w, x) \in Books(Mints, Wallets)
         /\ \A n \in Mints, k \in Wallets :
              Wrap(book, w, x)[n][k] =
                IF n = NativeSol /\ k = w THEN book[n][k] - x
                ELSE IF n = WSOL_MINT /\ k = w THEN book[n][k] + x
                ELSE book[n][k]
  BY MovedBook, SolMints DEF Wrap, Moved

LEMMA UnwrapBook ==
  ASSUME NEW book \in Books(Mints, Wallets), NEW w \in Wallets
  PROVE  /\ Unwrap(book, w) \in Books(Mints, Wallets)
         /\ \A n \in Mints, k \in Wallets :
              Unwrap(book, w)[n][k] =
                IF n = NativeSol /\ k = w THEN book[n][k] + book[WSOL_MINT][w]
                ELSE IF n = WSOL_MINT /\ k = w THEN 0
                ELSE book[n][k]
<1> DEFINE x == book[WSOL_MINT][w]
           emptied == [book EXCEPT ![WSOL_MINT][w] = 0]
<1>1. x \in Nat
  BY SolMints DEF Books
<1>2. /\ emptied \in Books(Mints, Wallets)
      /\ \A n \in Mints, k \in Wallets :
           emptied[n][k] = IF n = WSOL_MINT /\ k = w THEN 0 ELSE book[n][k]
  BY SolMints DEF Books
<1>3. Unwrap(book, w) = Credit(emptied, NativeSol, w, x)
  BY DEF Unwrap
<1> HIDE DEF x, emptied
<1>4. /\ Unwrap(book, w) \in Books(Mints, Wallets)
      /\ \A n \in Mints, k \in Wallets :
           Unwrap(book, w)[n][k] = IF n = NativeSol /\ k = w THEN emptied[n][k] + x
                                                             ELSE emptied[n][k]
  <2>1. NativeSol \in Mints /\ emptied \in Books(Mints, Wallets)
    BY <1>2, SolMints
  <2>2. /\ Credit(emptied, NativeSol, w, x) \in Books(Mints, Wallets)
        /\ \A n \in Mints, k \in Wallets :
             Credit(emptied, NativeSol, w, x)[n][k] =
               IF n = NativeSol /\ k = w THEN emptied[n][k] + x ELSE emptied[n][k]
    BY <1>1, <2>1, CreditBook
  <2> QED BY <1>3, <2>2
<1>5. \A n \in Mints, k \in Wallets :
        Unwrap(book, w)[n][k] = IF n = NativeSol /\ k = w THEN book[n][k] + x
                                ELSE IF n = WSOL_MINT /\ k = w THEN 0
                                ELSE book[n][k]
  BY <1>2, <1>4, SolMints
<1> QED BY <1>4, <1>5 DEF x

\* Wrapping and unwrapping leave a wallet what it has.
LEMMA HoldingIsKept ==
  ASSUME NEW book \in Books(Mints, Wallets), NEW w \in Wallets, NEW m \in Mints
  PROVE  /\ Holding(book, m, w) \in Nat
         /\ Holding(Unwrap(book, w), m, w) = Holding(book, m, w)
         /\ \A x \in Nat : x <= book[NativeSol][w] =>
              Holding(Wrap(book, w, x), m, w) = Holding(book, m, w)
<1>1. \A n \in Mints : book[n][w] \in Nat
  BY DEF Books
<1>2. Holding(Unwrap(book, w), m, w) = Holding(book, m, w)
  BY <1>1, UnwrapBook, SolMints DEF Holding, IsSolMint
<1>3. ASSUME NEW x \in Nat, x <= book[NativeSol][w]
      PROVE  Holding(Wrap(book, w, x), m, w) = Holding(book, m, w)
  BY <1>1, <1>3, WrapBook, SolMints DEF Holding, IsSolMint
<1> QED BY <1>1, <1>2, <1>3, SolMints DEF Holding

\* A hop between the two mints of a pool.
LEMMA ConnectedMints ==
  ASSUME NEW hop, hop.pool \in Pools, Connects(hop)
  PROVE  hop.from \in Tokens /\ hop.to \in Tokens /\ hop.from # hop.to
<1>1. PoolMints[hop.pool] = {hop.from, hop.to} /\ hop.from # hop.to
  BY DEF Connects
<1>2. PoolMints[hop.pool] \subseteq Tokens
  BY SwapAssumption
<1> QED BY <1>1, <1>2

\* What an exact-output swap takes and gives.
LEMMA SwapOutBook ==
  ASSUME NEW book \in Books(Mints, Wallets), NEW w \in Wallets,
         NEW hop, hop.pool \in Pools, hop.sink \in Wallets,
         NEW most \in Nat, NEW amount_out \in Nat,
         NEW after \in SwapExactOut(book, w, hop, most, amount_out)
  PROVE  /\ hop.from \in Tokens /\ hop.to \in Tokens /\ hop.from # hop.to
         /\ after \in Books(Mints, Wallets)
         /\ \E paid \in 0 .. most, got \in 0 .. amount_out :
              /\ paid <= book[hop.from][w]
              /\ Moved(book, after, w, hop.from, paid, hop.to, hop.sink, got)
<1>1. PICK x \in SwapAmounts \X (SwapAmounts \union {amount_out}) :
             /\ Connects(hop)
             /\ x[1] <= most /\ x[1] <= book[hop.from][w] /\ x[2] <= amount_out
             /\ after = Credit(Debit(book, hop.from, w, x[1]), hop.to, hop.sink, x[2])
  BY DEF SwapExactOut
<1> DEFINE paid == x[1]
           got  == x[2]
<1>2. paid \in 0 .. most /\ got \in 0 .. amount_out
  <2>1. paid \in Nat /\ got \in Nat
    <3>1. paid \in SwapAmounts /\ got \in SwapAmounts \union {amount_out}
      OBVIOUS
    <3> HIDE DEF paid, got
    <3> QED BY <3>1, SwapAssumption
  <2>2. paid <= most /\ got <= amount_out
    BY <1>1
  <2> HIDE DEF paid, got
  <2> QED BY <2>1, <2>2
<1>3. hop.from \in Tokens /\ hop.to \in Tokens /\ hop.from # hop.to
  BY <1>1, ConnectedMints
<1>4. /\ paid <= book[hop.from][w]
      /\ after = Credit(Debit(book, hop.from, w, paid), hop.to, hop.sink, got)
  BY <1>1
<1> HIDE DEF paid, got
<1>5. hop.from \in Mints /\ hop.to \in Mints /\ paid \in Nat /\ got \in Nat
  BY <1>2, <1>3, SolMints
<1>6. /\ after \in Books(Mints, Wallets)
      /\ Moved(book, after, w, hop.from, paid, hop.to, hop.sink, got)
  BY <1>3, <1>4, <1>5, MovedBook
<1> QED BY <1>2, <1>3, <1>4, <1>6

\* What an exact-input swap takes and gives.
LEMMA SwapInBook ==
  ASSUME NEW book \in Books(Mints, Wallets), NEW w \in Wallets,
         NEW hop, hop.pool \in Pools, hop.sink \in Wallets,
         NEW amount_in \in Nat, NEW least \in Nat,
         NEW after \in SwapExactIn(book, w, hop, amount_in, least)
  PROVE  /\ hop.from \in Tokens /\ hop.to \in Tokens /\ hop.from # hop.to
         /\ after \in Books(Mints, Wallets)
         /\ amount_in <= book[hop.from][w]
         /\ \E got \in Nat :
              /\ got >= least
              /\ Moved(book, after, w, hop.from, amount_in, hop.to, hop.sink, got)
<1>1. PICK got \in SwapAmounts :
             /\ Connects(hop) /\ amount_in > 0 /\ amount_in <= book[hop.from][w]
             /\ got >= least
             /\ after = Credit(Debit(book, hop.from, w, amount_in), hop.to, hop.sink, got)
  BY DEF SwapExactIn
<1>2. hop.from \in Tokens /\ hop.to \in Tokens /\ hop.from # hop.to
  BY <1>1, ConnectedMints
<1>3. hop.from \in Mints /\ hop.to \in Mints /\ got \in Nat
  BY <1>1, <1>2, SolMints, SwapAssumption
<1>4. /\ after \in Books(Mints, Wallets)
      /\ Moved(book, after, w, hop.from, amount_in, hop.to, hop.sink, got)
  BY <1>1, <1>2, <1>3, MovedBook
<1> QED BY <1>1, <1>2, <1>3, <1>4

\* A hop that is spelled out is between the two mints of its pool.
LEMMA HopOutMints ==
  ASSUME NEW book, NEW w, NEW pool, NEW from, NEW to, NEW most, NEW amount_out,
         NEW after \in SwapExactOut(book, w, Hop(pool, from, to, w), most, amount_out)
  PROVE  PoolMints[pool] = {from, to}
<1>1. Connects(Hop(pool, from, to, w))
  BY DEF SwapExactOut
<1> QED BY <1>1 DEF Connects, Hop

\* What a hop that is spelled out takes and gives, between the accounts of its
\* owner.
LEMMA HopOutBook ==
  ASSUME NEW book \in Books(Mints, Wallets), NEW w \in Wallets,
         NEW pool \in Pools, NEW from, NEW to,
         NEW most \in Nat, NEW amount_out \in Nat,
         NEW after \in SwapExactOut(book, w, Hop(pool, from, to, w), most, amount_out)
  PROVE  /\ from \in Tokens /\ to \in Tokens /\ from # to
         /\ after \in Books(Mints, Wallets)
         /\ \E paid \in 0 .. most, got \in 0 .. amount_out :
              /\ paid <= book[from][w]
              /\ Moved(book, after, w, from, paid, to, w, got)
<1> DEFINE hop == Hop(pool, from, to, w)
<1>1. hop.pool = pool /\ hop.from = from /\ hop.to = to /\ hop.sink = w
  BY DEF Hop
<1>2. after \in SwapExactOut(book, w, hop, most, amount_out)
  OBVIOUS
<1> HIDE DEF hop
<1>3. hop.pool \in Pools /\ hop.sink \in Wallets
  BY <1>1
<1>4. /\ hop.from \in Tokens /\ hop.to \in Tokens /\ hop.from # hop.to
      /\ after \in Books(Mints, Wallets)
      /\ \E paid \in 0 .. most, got \in 0 .. amount_out :
           /\ paid <= book[hop.from][w]
           /\ Moved(book, after, w, hop.from, paid, hop.to, hop.sink, got)
  BY <1>2, <1>3, SwapOutBook
<1> QED BY <1>1, <1>4

LEMMA HopInBook ==
  ASSUME NEW book \in Books(Mints, Wallets), NEW w \in Wallets,
         NEW pool \in Pools, NEW from, NEW to,
         NEW amount_in \in Nat, NEW least \in Nat,
         NEW after \in SwapExactIn(book, w, Hop(pool, from, to, w), amount_in, least)
  PROVE  /\ from \in Tokens /\ to \in Tokens /\ from # to
         /\ after \in Books(Mints, Wallets)
         /\ amount_in <= book[from][w]
         /\ \E got \in Nat :
              /\ got >= least
              /\ Moved(book, after, w, from, amount_in, to, w, got)
<1> DEFINE hop == Hop(pool, from, to, w)
<1>1. hop.pool = pool /\ hop.from = from /\ hop.to = to /\ hop.sink = w
  BY DEF Hop
<1>2. after \in SwapExactIn(book, w, hop, amount_in, least)
  OBVIOUS
<1> HIDE DEF hop
<1>3. hop.pool \in Pools /\ hop.sink \in Wallets
  BY <1>1
<1>4. /\ hop.from \in Tokens /\ hop.to \in Tokens /\ hop.from # hop.to
      /\ after \in Books(Mints, Wallets)
      /\ amount_in <= book[hop.from][w]
      /\ \E got \in Nat :
           /\ got >= least
           /\ Moved(book, after, w, hop.from, amount_in, hop.to, hop.sink, got)
  BY <1>2, <1>3, SwapInBook
<1> QED BY <1>1, <1>4
----
(* Pools *)

\* One pool, or two.
LEMMA Reversed ==
  ASSUME NEW p, NEW q
  PROVE  /\ [i \in DOMAIN <<p>> |-> <<p>>[Len(<<p>>) + 1 - i]] = <<p>>
         /\ [i \in DOMAIN <<p, q>> |-> <<p, q>>[Len(<<p, q>>) + 1 - i]] = <<q, p>>
  OBVIOUS

\* A sale goes through the pools of a purchase, the other way round.
LEMMA SaleReversesPurchase ==
  ASSUME NEW mint \in Tokens, NEW counter \in Mints
  PROVE  TradePools(mint, counter, FALSE) =
           {[i \in DOMAIN pools |-> pools[Len(pools) + 1 - i]] :
              pools \in TradePools(mint, counter, TRUE)}
<1> DEFINE back(pools) == [i \in DOMAIN pools |-> pools[Len(pools) + 1 - i]]
           quote == EffectiveMint(token_config[mint].quote_mint)
           known == IsSolMint(quote) \/ quote = config.usdc_mint
           pool  == token_config[mint].pool
           sol   == config.sol_usdc_pool
           one   == known /\ EffectiveMint(counter) = quote
           two   == /\ known
                    /\ EffectiveMint(counter) # quote
                    /\ ~token_config[mint].cross_disabled
                    /\ \/ EffectiveMint(counter) = config.usdc_mint /\ IsSolMint(quote)
                       \/ IsSolMint(EffectiveMint(counter)) /\ quote = config.usdc_mint
                    /\ sol # DefaultKey
<1>1. /\ TradePools(mint, counter, TRUE) =
           {x \in {<<pool>>} : one} \union {x \in {<<sol, pool>>} : two}
      /\ TradePools(mint, counter, FALSE) =
           {x \in {<<pool>>} : one} \union {x \in {<<pool, sol>>} : two}
  BY DEF TradePools
<1>2. back(<<pool>>) = <<pool>> /\ back(<<sol, pool>>) = <<pool, sol>>
  BY Reversed
<1> HIDE DEF one, two, pool, sol, back
<1>3. {back(x) : x \in {x \in {<<pool>>} : one} \union {x \in {<<sol, pool>>} : two}}
        = {x \in {<<pool>>} : one} \union {x \in {<<pool, sol>>} : two}
  BY <1>2
<1>4. TradePools(mint, counter, FALSE) = {back(x) : x \in TradePools(mint, counter, TRUE)}
  BY <1>1, <1>3
<1> QED BY <1>4 DEF back

\* The pools in reach of a payment for a token: its own, if the token is quoted
\* in what is paid, or the SOL/USDC pool and its own.
Straight(mint, pay) ==
  {pools \in {<<token_config[mint].pool>>} :
     EffectiveMint(pay) = EffectiveMint(token_config[mint].quote_mint)}
Crossing(mint, pay) ==
  {pools \in {<<config.sol_usdc_pool, token_config[mint].pool>>} :
     /\ EffectiveMint(pay) # EffectiveMint(token_config[mint].quote_mint)
     /\ \/ pay = config.usdc_mint /\ IsSolMint(token_config[mint].quote_mint)
        \/ IsSolMint(pay) /\ token_config[mint].quote_mint = config.usdc_mint
     /\ config.sol_usdc_pool # DefaultKey}

\* A stake is swapped for in these ways, unless the token is cross_disabled.
LEMMA StakedPools ==
  ASSUME NEW mint \in Tokens \ {WSOL_MINT, config.usdc_mint}, NEW pay \in Mints,
         IsTradable(mint), pay # mint
  PROVE  AllowedPools(mint, pay) =
           IF token_config[mint].cross_disabled THEN {}
           ELSE Straight(mint, pay) \union Crossing(mint, pay)
<1>1. ~IsSolMint(mint) /\ ~SolUsdcOnly(mint, pay)
  BY SolMints DEF IsSolMint, Mints, SolUsdcOnly
<1>2. SwapForEnabled(mint) <=> ~token_config[mint].cross_disabled
  BY DEF SwapForEnabled, IsTradable
<1> QED BY <1>1, <1>2 DEF AllowedPools, Straight, Crossing

\* A token is bought in these ways, if its quote is current, and the second
\* unless it is cross_disabled.
LEMMA BoughtPools ==
  ASSUME NEW mint \in Tokens, NEW pay \in Mints
  PROVE  (IF PayMintAccepted(pay) THEN TradePools(mint, pay, TRUE) ELSE {}) =
           IF ~QuoteIsCurrent(mint) THEN {}
           ELSE IF token_config[mint].cross_disabled THEN Straight(mint, pay)
           ELSE Straight(mint, pay) \union Crossing(mint, pay)
<1> DEFINE t == token_config[mint]
           quote == t.quote_mint
           usdc == config.usdc_mint
           known == IsSolMint(EffectiveMint(quote)) \/ EffectiveMint(quote) = usdc
           direct == EffectiveMint(pay) = EffectiveMint(quote)
           over == \/ pay = usdc /\ IsSolMint(quote)
                   \/ IsSolMint(pay) /\ quote = usdc
           over2 == \/ EffectiveMint(pay) = usdc /\ IsSolMint(EffectiveMint(quote))
                    \/ IsSolMint(EffectiveMint(pay)) /\ EffectiveMint(quote) = usdc
           both == <<config.sol_usdc_pool, t.pool>>
           set == config.sol_usdc_pool # DefaultKey
           marked == token_config[mint].cross_disabled
<1>1. TradePools(mint, pay, TRUE) =
        {pools \in {<<t.pool>>} : known /\ direct}
        \union
        {pools \in {both} : known /\ ~direct /\ ~marked /\ over2 /\ set}
  BY DEF TradePools
<1>2. /\ Straight(mint, pay) = {pools \in {<<t.pool>>} : direct}
      /\ Crossing(mint, pay) = {pools \in {both} : ~direct /\ over /\ set}
  BY DEF Straight, Crossing
<1>3. QuoteIsCurrent(mint) <=> IsSolMint(quote) \/ quote = usdc
  BY DEF QuoteIsCurrent
<1>4. WSOL_MINT # NativeSol
  BY SolMints
<1> HIDE DEF t, quote, usdc, both, set, marked
<1>5. QuoteIsCurrent(mint) <=> known
  BY <1>3, <1>4 DEF EffectiveMint, IsSolMint, IsNativeSol
<1>6. known /\ direct => PayMintAccepted(pay)
  BY <1>3, <1>4, <1>5, SolMints, ConfigAssumption
  DEF PayMintAccepted, EffectiveMint, IsSolMint, IsNativeSol, NativeSol, usdc
<1>7. known /\ ~direct => (over <=> PayMintAccepted(pay) /\ over2)
  BY <1>3, <1>4, <1>5, SolMints, ConfigAssumption
  DEF PayMintAccepted, EffectiveMint, IsSolMint, IsNativeSol, NativeSol, usdc
<1> HIDE DEF known, direct, over, over2
<1>8. (IF PayMintAccepted(pay) THEN TradePools(mint, pay, TRUE) ELSE {}) =
        IF ~QuoteIsCurrent(mint) THEN {}
        ELSE IF marked THEN Straight(mint, pay)
        ELSE Straight(mint, pay) \union Crossing(mint, pay)
  BY <1>1, <1>2, <1>5, <1>6, <1>7
<1> QED BY <1>8 DEF marked

\* The one way is left for a token whose quote is no longer current.
LEMMA StaleQuote ==
  ASSUME NEW mint, NEW pay, ~QuoteIsCurrent(mint)
  PROVE  Crossing(mint, pay) = {}
  BY DEF Crossing, QuoteIsCurrent

\* Where trade_pools of trade.rs and allowed_pools of participate.rs agree and
\* where they do not, in every state, whatever the configuration has come to be.
LEMMA RoutesAlwaysCompare == RoutesCompare
<1>1. ASSUME NEW mint \in Tokens \ {WSOL_MINT, config.usdc_mint}, NEW pay \in Mints,
             IsTradable(mint), pay # mint
      PROVE  LET t        == token_config[mint]
                 bought   == IF PayMintAccepted(pay) THEN TradePools(mint, pay, TRUE) ELSE {}
                 staked   == AllowedPools(mint, pay)
                 straight == {pools \in {<<t.pool>>} :
                                EffectiveMint(pay) = EffectiveMint(t.quote_mint)}
             IN  /\ QuoteIsCurrent(mint) /\ ~t.cross_disabled => staked = bought
                 /\ QuoteIsCurrent(mint) /\ t.cross_disabled => staked = {} /\ bought = straight
                 /\ ~QuoteIsCurrent(mint) /\ ~t.cross_disabled => staked = straight /\ bought = {}
                 /\ ~QuoteIsCurrent(mint) /\ t.cross_disabled => staked = {} /\ bought = {}
  <2> DEFINE bought == IF PayMintAccepted(pay) THEN TradePools(mint, pay, TRUE) ELSE {}
             straight == {pools \in {<<token_config[mint].pool>>} :
                            EffectiveMint(pay) = EffectiveMint(token_config[mint].quote_mint)}
  <2>1. straight = Straight(mint, pay)
    BY DEF Straight
  <2>2. bought = IF ~QuoteIsCurrent(mint) THEN {}
                 ELSE IF token_config[mint].cross_disabled THEN Straight(mint, pay)
                 ELSE Straight(mint, pay) \union Crossing(mint, pay)
    BY BoughtPools
  <2>3. AllowedPools(mint, pay) =
          IF token_config[mint].cross_disabled THEN {}
          ELSE Straight(mint, pay) \union Crossing(mint, pay)
    BY <1>1, StakedPools
  <2>4. ~QuoteIsCurrent(mint) => Crossing(mint, pay) = {}
    BY StaleQuote
  <2> HIDE DEF bought, straight
  <2>5. /\ QuoteIsCurrent(mint) /\ ~token_config[mint].cross_disabled
             => AllowedPools(mint, pay) = bought
        /\ QuoteIsCurrent(mint) /\ token_config[mint].cross_disabled
             => AllowedPools(mint, pay) = {} /\ bought = straight
        /\ ~QuoteIsCurrent(mint) /\ ~token_config[mint].cross_disabled
             => AllowedPools(mint, pay) = straight /\ bought = {}
        /\ ~QuoteIsCurrent(mint) /\ token_config[mint].cross_disabled
             => AllowedPools(mint, pay) = {} /\ bought = {}
    BY <2>1, <2>2, <2>3, <2>4
  <2> QED BY <2>5 DEF bought, straight
<1> QED BY <1>1, SaleReversesPurchase DEF RoutesCompare
====
