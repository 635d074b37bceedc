---- MODULE ParticipateProofs ----
(***************************************************************************)
(* Theorems about the games when some are joined by participate            *)
(* (src/src/instructions/participate.rs), for every value of the constants *)
(* and whatever the exchange asks and gives within what it respects.       *)
(***************************************************************************)
EXTENDS Participate, EscrowProofs, SwapProofs

\* A set up program starts from well formed accounts without a game.
LEMMA ParticipateInitIInv ==
  ASSUME ParticipateInit
  PROVE  IInv /\ EscrowIsExact
<1> USE CoinflipAssumption, ConfigAssumption, U64Assumption, SwapAssumption
<1>1. GamesInit
  BY DEF ParticipateInit
<1>2. config =
       [layout |-> "current", authority |-> InitialAuthority,
        fee_bps |-> DEFAULT_FEE_BPS, paused |-> FALSE, usdc_mint |-> FirstUsdcMint,
        sol_usdc_pool |-> FirstSolUsdcPool, sol_min_amount |-> DEFAULT_SOL_MIN_AMOUNT,
        vrf_program |-> ORAO_VRF_ID, sol_max_amount |-> DEFAULT_SOL_MAX_AMOUNT]
  BY DEF ParticipateInit, SwapConfig, InitialConfig, NoConfig
<1>3. DEFAULT_FEE_BPS \in Nat
  BY DEF DEFAULT_FEE_BPS
<1>4. config \in ConfigAccounts /\ ConfigIsCurrent
  BY <1>2, <1>3 DEF ConfigAccounts, Layouts, ConfigIsCurrent
<1>5. ConfigTypeOK
  BY <1>4 DEF ConfigTypeOK, ParticipateInit
<1>6. IInv
  BY <1>1, <1>4, <1>5, GamesInitIInv
<1> QED BY <1>1, <1>6, GamesInitIsExact DEF IInv
----
(* The swaps that pay for a stake *)

\* A hop through an existing pool, into a wallet.
Usable(hop) == hop.pool \in Pools /\ hop.sink \in Wallets /\ hop.from # hop.to

\* allowed_pools names pools that exist.
LEMMA AllowedPoolsExist ==
  ASSUME ConfigTypeOK, NEW game_mint \in Mints, NEW pay_mint,
         NEW pools \in AllowedPools(game_mint, pay_mint)
  PROVE  \/ Len(pools) = 1 /\ pools[1] \in Pools
         \/ Len(pools) # 1 /\ pools[1] \in Pools /\ pools[2] \in Pools
<1> DEFINE t == token_config[game_mint]
           sol == config.sol_usdc_pool
<1>1. sol # DefaultKey => sol \in Pools
  BY DEF ConfigTypeOK, ConfigAccounts
<1>2. CASE IsSolMint(game_mint) \/ SolUsdcOnly(game_mint, pay_mint)
  <2>1. pools = <<sol>> /\ sol # DefaultKey
    BY <1>2 DEF AllowedPools
  <2> HIDE DEF sol
  <2> QED BY <1>1, <2>1
<1>3. CASE ~(IsSolMint(game_mint) \/ SolUsdcOnly(game_mint, pay_mint))
  <2>1. /\ SwapForEnabled(game_mint)
        /\ \/ pools = <<t.pool>>
           \/ pools = <<sol, t.pool>> /\ sol # DefaultKey
    BY <1>3 DEF AllowedPools
  <2>2. game_mint \in Tokens
    BY <1>3 DEF Mints, IsSolMint
  <2>3. t.pool \in Pools
    BY <2>1, <2>2 DEF ConfigTypeOK, TokenConfigAccounts, SwapForEnabled
  <2> HIDE DEF sol, t
  <2> QED BY <1>1, <2>1, <2>3
<1> QED BY <1>2, <1>3

\* A client passes no hop, one, or two.
LEMMA HopsAreUsable ==
  ASSUME ConfigTypeOK, NEW game_mint \in Mints, NEW pay_mint,
         NEW hops \in HopLists(game_mint, pay_mint)
  PROVE  \/ /\ EffectiveMint(game_mint) = EffectiveMint(pay_mint)
            /\ hops = <<>>
         \/ /\ EffectiveMint(game_mint) # EffectiveMint(pay_mint)
            /\ hops # <<>>
            /\ \/ Len(hops) = 1 /\ Usable(hops[1])
               \/ Len(hops) = 2 /\ Usable(hops[1]) /\ Usable(hops[2])
<1>1. ASSUME NEW pool \in Pools, NEW h \in HopsThrough(pool)
      PROVE  Usable(h)
  BY <1>1 DEF HopsThrough, Usable
<1>2. CASE EffectiveMint(game_mint) = EffectiveMint(pay_mint)
  BY <1>2 DEF HopLists
<1>3. CASE EffectiveMint(game_mint) # EffectiveMint(pay_mint)
  <2>1. PICK pools \in AllowedPools(game_mint, pay_mint) :
          hops \in IF Len(pools) = 1
                   THEN {<<h>> : h \in HopsThrough(pools[1])}
                   ELSE HopsThrough(pools[1]) \X HopsThrough(pools[2])
    BY <1>3 DEF HopLists
  <2>2. CASE Len(pools) = 1
    <3>1. pools[1] \in Pools
      BY <2>2, AllowedPoolsExist
    <3>2. PICK h \in HopsThrough(pools[1]) : hops = <<h>>
      BY <2>1, <2>2
    <3>3. Usable(h)
      BY <1>1, <3>1, <3>2
    <3> QED BY <1>3, <3>2, <3>3
  <2>3. CASE Len(pools) # 1
    <3>1. pools[1] \in Pools /\ pools[2] \in Pools
      BY <2>3, AllowedPoolsExist
    <3>2. hops \in HopsThrough(pools[1]) \X HopsThrough(pools[2])
      BY <2>1, <2>3
    <3>3. PICK h \in HopsThrough(pools[1]), k \in HopsThrough(pools[2]) : hops = <<h, k>>
      BY <3>2
    <3>4. Usable(h) /\ Usable(k)
      BY <1>1, <3>1, <3>3
    <3> QED BY <1>3, <3>3, <3>4
  <2> QED BY <2>2, <2>3
<1> QED BY <1>2, <1>3

\* Tokens move, and only one wallet has fewer of any.
PaidBy(w, book, after) ==
  \A n \in Mints, k \in Wallets :
    /\ k # w => after[n][k] >= book[n][k]
    /\ n = NativeSol => after[n][k] = book[n][k]

\* One swap is paid by its owner, from one mint.
LEMMA HopIsPaidBy ==
  ASSUME NEW book \in Books(Mints, Wallets), NEW w \in Wallets,
         NEW hop, Usable(hop), NEW most \in Nat, NEW amount_out \in Nat,
         NEW after \in SwapExactOut(book, w, hop, most, amount_out)
  PROVE  /\ hop.from \in Tokens /\ hop.to \in Tokens /\ hop.from # hop.to
         /\ after \in Books(Mints, Wallets)
         /\ PaidBy(w, book, after)
         /\ \A n \in Mints :
              IF n = hop.from THEN after[n][w] + most >= book[n][w]
                              ELSE after[n][w] >= book[n][w]
<1>1. hop.pool \in Pools /\ hop.sink \in Wallets
  BY DEF Usable
<1>2. /\ hop.from \in Tokens /\ hop.to \in Tokens /\ hop.from # hop.to
      /\ after \in Books(Mints, Wallets)
      /\ \E paid \in 0 .. most, got \in 0 .. amount_out :
           Moved(book, after, w, hop.from, paid, hop.to, hop.sink, got)
  BY <1>1, SwapOutBook
<1>3. PICK paid \in 0 .. most, got \in 0 .. amount_out :
        Moved(book, after, w, hop.from, paid, hop.to, hop.sink, got)
  BY <1>2
<1>4. \A n \in Mints, k \in Wallets :
        /\ book[n][k] \in Nat
        /\ after[n][k] = IF n = hop.from /\ k = w THEN book[n][k] - paid
                         ELSE IF n = hop.to /\ k = hop.sink THEN book[n][k] + got
                         ELSE book[n][k]
  BY <1>3 DEF Moved, Books
<1>5. PaidBy(w, book, after)
  BY <1>2, <1>4, SolMints DEF PaidBy
<1>6. \A n \in Mints : IF n = hop.from THEN after[n][w] + most >= book[n][w]
                                       ELSE after[n][w] >= book[n][w]
  BY <1>2, <1>4
<1> QED BY <1>2, <1>5, <1>6

\* What hops may leave a wallet short of, if the second spends what the first
\* brings: max_pay of the mint they start from, and anything of the one between.
CostAtMost(hops, w, book, after, max_pay) ==
  \A n \in Mints :
    \/ after[n][w] >= book[n][w]
    \/ n = hops[1].from /\ after[n][w] + max_pay >= book[n][w]
    \/ n = hops[1].to /\ Len(hops) = 2

\* The swaps of a join are paid by the joiner, and within that limit.
LEMMA HopsArePaidBy ==
  ASSUME NEW book \in Books(Mints, Wallets), NEW w \in Wallets, NEW hops,
         \/ Len(hops) = 1 /\ Usable(hops[1])
         \/ Len(hops) = 2 /\ Usable(hops[1]) /\ Usable(hops[2]),
         NEW amount_out \in Nat, NEW max_pay \in Nat, NEW quote_out \in Nat,
         NEW after \in SwapHops(book, w, hops, amount_out, max_pay, quote_out)
  PROVE  /\ after \in Books(Mints, Wallets)
         /\ PaidBy(w, book, after)
         /\ hops[1].from \in Tokens /\ hops[1].to \in Tokens /\ hops[1].from # hops[1].to
         /\ (Len(hops) = 2 => hops[2].from = hops[1].to)
              => CostAtMost(hops, w, book, after, max_pay)
<1>1. CASE Len(hops) = 1
  <2>1. after \in SwapExactOut(book, w, hops[1], max_pay, amount_out)
    BY <1>1 DEF SwapHops
  <2>2. /\ hops[1].from \in Tokens /\ hops[1].to \in Tokens /\ hops[1].from # hops[1].to
        /\ after \in Books(Mints, Wallets) /\ PaidBy(w, book, after)
        /\ \A n \in Mints :
             IF n = hops[1].from THEN after[n][w] + max_pay >= book[n][w]
                                 ELSE after[n][w] >= book[n][w]
    BY <1>1, <2>1, HopIsPaidBy
  <2> QED BY <2>2, SolMints DEF CostAtMost
<1>2. CASE Len(hops) = 2
  <2>1. PICK first \in SwapExactOut(book, w, hops[1], max_pay, quote_out) :
               after \in SwapExactOut(first, w, hops[2], first[hops[2].from][w], amount_out)
    BY <1>2 DEF SwapHops
  <2>2. /\ hops[1].from \in Tokens /\ hops[1].to \in Tokens /\ hops[1].from # hops[1].to
        /\ first \in Books(Mints, Wallets) /\ PaidBy(w, book, first)
        /\ \A n \in Mints :
             IF n = hops[1].from THEN first[n][w] + max_pay >= book[n][w]
                                 ELSE first[n][w] >= book[n][w]
    BY <1>2, HopIsPaidBy
  <2> DEFINE rest == first[hops[2].from][w]
  <2>3. hops[2].from \in Tokens
    <3>1. Connects(hops[2]) /\ hops[2].pool \in Pools
      BY <1>2, <2>1 DEF SwapExactOut, Usable
    <3> QED BY <3>1, ConnectedMints
  <2>4. rest \in Nat
    BY <2>2, <2>3, SolMints DEF Books
  <2>5. after \in SwapExactOut(first, w, hops[2], rest, amount_out)
    BY <2>1
  <2> HIDE DEF rest
  <2>6. /\ after \in Books(Mints, Wallets) /\ PaidBy(w, first, after)
        /\ \A n \in Mints : n # hops[2].from => after[n][w] >= first[n][w]
    BY <1>2, <2>2, <2>4, <2>5, HopIsPaidBy
  <2>7. \A n \in Mints, k \in Wallets :
          book[n][k] \in Nat /\ first[n][k] \in Nat /\ after[n][k] \in Nat
    BY <2>2, <2>6 DEF Books
  <2>8. PaidBy(w, book, after)
    BY <2>2, <2>6, <2>7 DEF PaidBy
  <2>9. ASSUME hops[2].from = hops[1].to
        PROVE  CostAtMost(hops, w, book, after, max_pay)
    <3> DEFINE from == hops[1].from
               mid  == hops[1].to
    <3>1. /\ \A n \in Mints : n # mid => after[n][w] >= first[n][w]
          /\ \A n \in Mints : n # from => first[n][w] >= book[n][w]
          /\ \A n \in Mints : n = from => first[n][w] + max_pay >= book[n][w]
      BY <2>2, <2>6, <2>9
    <3> HIDE DEF from, mid
    <3>2. \A n \in Mints :
            \/ after[n][w] >= book[n][w]
            \/ n = from /\ after[n][w] + max_pay >= book[n][w]
            \/ n = mid
      BY <2>7, <3>1
    <3> QED BY <1>2, <3>2 DEF CostAtMost, from, mid
  <2> QED BY <1>2, <2>2, <2>6, <2>8, <2>9
<1> QED BY <1>1, <1>2

\* The same limit on what a wallet has, SOL wrapped or not: of the mint between
\* two hops at most what was in the account of it.
SwapsCost(hops, w, pay, max_pay, book) ==
  \A m \in Mints :
    \/ Holding(book, m, w) >= Holding(purse, m, w)
    \/ /\ EffectiveMint(m) = EffectiveMint(pay)
       /\ Holding(book, m, w) + max_pay >= Holding(purse, m, w)
    \/ /\ Len(hops) = 2
       /\ EffectiveMint(m) = hops[1].to /\ hops[1].to # EffectiveMint(pay)
       /\ Holding(book, m, w) + purse[hops[1].to][w] >= Holding(purse, m, w)

\* Wrapping, hops and unwrapping stay within it.
LEMMA HopsCost ==
  ASSUME purse \in Books(Mints, Wallets), NEW ready \in Books(Mints, Wallets),
         NEW after \in Books(Mints, Wallets), NEW book \in Books(Mints, Wallets),
         NEW w \in Wallets, NEW pay \in Mints, NEW max_pay \in Nat, NEW hops,
         hops[1].from = EffectiveMint(pay), hops[1].to \in Tokens,
         hops[1].from # hops[1].to,
         ~IsSolMint(pay) => ready = purse,
         \A m \in Mints : Holding(ready, m, w) = Holding(purse, m, w),
         \A m \in Mints : Holding(book, m, w) = Holding(after, m, w),
         PaidBy(w, ready, after), CostAtMost(hops, w, ready, after, max_pay)
  PROVE  SwapsCost(hops, w, pay, max_pay, book)
<1> DEFINE from == hops[1].from
           mid  == hops[1].to
           two  == Len(hops) = 2
<1>1. \A n \in Mints : ready[n][w] \in Nat /\ after[n][w] \in Nat /\ purse[n][w] \in Nat
  BY DEF Books
<1>2. /\ from = EffectiveMint(pay) /\ mid \in Tokens /\ from # mid
      /\ \A n \in Mints :
           \/ after[n][w] >= ready[n][w]
           \/ n = from /\ after[n][w] + max_pay >= ready[n][w]
           \/ n = mid /\ two
  BY Zenon DEF CostAtMost
<1>3. after[NativeSol][w] = ready[NativeSol][w]
  BY SolMints DEF PaidBy
<1> HIDE DEF from, mid, two
<1>4. mid # WSOL_MINT \/ ready = purse
  BY <1>2, EffectiveIsToken
<1>5. ASSUME NEW m \in Mints
      PROVE  \/ Holding(after, m, w) >= Holding(ready, m, w)
             \/ /\ EffectiveMint(m) = from
                /\ Holding(after, m, w) + max_pay >= Holding(ready, m, w)
             \/ /\ two /\ EffectiveMint(m) = mid /\ mid # from
                /\ Holding(after, m, w) + purse[mid][w] >= Holding(ready, m, w)
  <2>1. EffectiveMint(m) \in Mints
    BY EffectiveIsToken, SolMints
  <2>2. CASE IsSolMint(m)
    <3>1. /\ EffectiveMint(m) = WSOL_MINT
          /\ Holding(after, m, w) = after[NativeSol][w] + after[WSOL_MINT][w]
          /\ Holding(ready, m, w) = ready[NativeSol][w] + ready[WSOL_MINT][w]
      BY <2>2, EffectiveIsToken DEF Holding
    <3>2. CASE mid = WSOL_MINT
      BY <1>1, <1>2, <1>3, <1>4, <3>1, <3>2, SolMints
    <3>3. CASE mid # WSOL_MINT
      BY <1>1, <1>2, <1>3, <3>1, <3>3, SolMints
    <3> QED BY <3>2, <3>3
  <2>3. CASE ~IsSolMint(m)
    <3>1. /\ EffectiveMint(m) = m
          /\ Holding(after, m, w) = after[m][w] /\ Holding(ready, m, w) = ready[m][w]
          /\ Holding(purse, m, w) = purse[m][w]
      BY <2>3, EffectiveIsToken DEF Holding
    <3>2. ready[m][w] = purse[m][w]
      BY <3>1
    <3> QED BY <1>1, <1>2, <3>1, <3>2
  <2> QED BY <2>2, <2>3
<1>6. ASSUME NEW m \in Mints
      PROVE  \/ Holding(book, m, w) >= Holding(purse, m, w)
             \/ /\ EffectiveMint(m) = from
                /\ Holding(book, m, w) + max_pay >= Holding(purse, m, w)
             \/ /\ two /\ EffectiveMint(m) = mid /\ mid # from
                /\ Holding(book, m, w) + purse[mid][w] >= Holding(purse, m, w)
  BY <1>5
<1> QED BY <1>2, <1>6 DEF SwapsCost, from, mid, two

\* Wherever the stake comes from, the books when it is about to be paid are
\* books, and only the joiner has less than before.
LEMMA PayingBook ==
  ASSUME TypeOK, NEW game_mint \in Mints, NEW pay \in Mints, NEW w \in Wallets,
         NEW hops \in HopLists(game_mint, pay),
         NEW amount \in Nat, NEW max_pay \in Nat, NEW quote_out \in Nat,
         NEW book \in Paying(w, game_mint, pay, amount, max_pay, quote_out, hops)
  PROVE  /\ book \in Books(Mints, Wallets)
         /\ \A n \in Mints, k \in Wallets \ {w} : book[n][k] >= purse[n][k]
         /\ \/ /\ EffectiveMint(game_mint) = EffectiveMint(pay)
               /\ book = purse /\ max_pay >= amount
            \/ /\ EffectiveMint(game_mint) # EffectiveMint(pay)
               /\ LeadToStake(hops, pay, game_mint, w) =>
                    SwapsCost(hops, w, pay, max_pay, book)
<1>1. /\ purse \in Books(Mints, Wallets)
      /\ ConfigTypeOK
      /\ \A n \in Mints, k \in Wallets : purse[n][k] \in Nat
  BY DEF TypeOK, Books
<1>2. CASE hops = <<>>
  <2>1. book = purse /\ max_pay >= amount
    BY <1>2 DEF Paying
  <2>2. EffectiveMint(game_mint) = EffectiveMint(pay)
    BY <1>1, <1>2, HopsAreUsable
  <2> QED BY <1>1, <2>1, <2>2
<1>3. CASE hops # <<>>
  <2> DEFINE ready == IF IsSolMint(pay) THEN Wrap(purse, w, max_pay) ELSE purse
  <2>1. /\ EffectiveMint(game_mint) # EffectiveMint(pay)
        /\ \/ Len(hops) = 1 /\ Usable(hops[1])
           \/ Len(hops) = 2 /\ Usable(hops[1]) /\ Usable(hops[2])
    BY <1>1, <1>3, HopsAreUsable
  <2>2. PICK after \in SwapHops(ready, w, hops, amount, max_pay, quote_out) :
          /\ IsSolMint(pay) => purse[NativeSol][w] >= max_pay
          /\ book = IF IsSolMint(game_mint) THEN Unwrap(after, w) ELSE after
    BY <1>3 DEF Paying, RunSwaps
  <2>3. /\ ready \in Books(Mints, Wallets)
        /\ \A n \in Mints, k \in Wallets \ {w} : ready[n][k] = purse[n][k]
        /\ \A m \in Mints : Holding(ready, m, w) = Holding(purse, m, w)
        /\ ~IsSolMint(pay) => ready = purse
    <3>1. CASE IsSolMint(pay)
      <4>1. max_pay <= purse[NativeSol][w]
        BY <1>1, <2>2, <3>1, SolMints
      <4>2. /\ Wrap(purse, w, max_pay) \in Books(Mints, Wallets)
            /\ \A n \in Mints, k \in Wallets \ {w} :
                 Wrap(purse, w, max_pay)[n][k] = purse[n][k]
        BY <1>1, <4>1, WrapBook
      <4>3. \A m \in Mints : Holding(Wrap(purse, w, max_pay), m, w) = Holding(purse, m, w)
        BY <1>1, <4>1, HoldingIsKept
      <4> QED BY <3>1, <4>2, <4>3
    <3>2. CASE ~IsSolMint(pay)
      BY <1>1, <3>2
    <3> QED BY <3>1, <3>2
  <2> HIDE DEF ready
  <2>4. /\ after \in Books(Mints, Wallets)
        /\ PaidBy(w, ready, after)
        /\ hops[1].from \in Tokens /\ hops[1].to \in Tokens /\ hops[1].from # hops[1].to
        /\ (Len(hops) = 2 => hops[2].from = hops[1].to)
             => CostAtMost(hops, w, ready, after, max_pay)
    BY <2>1, <2>2, <2>3, HopsArePaidBy
  <2>5. /\ book \in Books(Mints, Wallets)
        /\ \A n \in Mints, k \in Wallets \ {w} : book[n][k] = after[n][k]
        /\ \A m \in Mints : Holding(book, m, w) = Holding(after, m, w)
    <3>1. /\ Unwrap(after, w) \in Books(Mints, Wallets)
          /\ \A n \in Mints, k \in Wallets \ {w} : Unwrap(after, w)[n][k] = after[n][k]
          /\ \A m \in Mints : Holding(Unwrap(after, w), m, w) = Holding(after, m, w)
      BY <2>4, UnwrapBook, HoldingIsKept
    <3> QED BY <2>2, <2>4, <3>1
  <2>6. \A n \in Mints, k \in Wallets \ {w} : book[n][k] >= purse[n][k]
    BY <2>3, <2>4, <2>5 DEF PaidBy
  <2>7. ASSUME LeadToStake(hops, pay, game_mint, w)
        PROVE  SwapsCost(hops, w, pay, max_pay, book)
    <3>1. /\ hops[1].from = EffectiveMint(pay)
          /\ Len(hops) = 2 => hops[2].from = hops[1].to
      BY <1>3, <2>7 DEF LeadToStake
    <3>2. CostAtMost(hops, w, ready, after, max_pay)
      BY <2>4, <3>1
    <3> QED BY <1>1, <2>3, <2>4, <2>5, <3>1, <3>2, HopsCost
  <2> QED BY <2>1, <2>5, <2>6, <2>7
<1> QED BY <1>2, <1>3

\* What the joiner has once the stake is paid.
LEMMA StakeIsPaid ==
  ASSUME NEW book \in Books(Mints, Wallets), NEW w \in Wallets,
         NEW mint \in Mints, NEW m \in Mints,
         NEW amount \in Nat, amount <= book[mint][w],
         NEW after, after = Debit(book, mint, w, amount)
  PROVE  /\ after \in Books(Mints, Wallets)
         /\ \A n \in Mints, k \in Wallets \ {w} : after[n][k] = book[n][k]
         /\ Holding(after, m, w) =
              IF EffectiveMint(mint) = EffectiveMint(m)
              THEN Holding(book, m, w) - amount ELSE Holding(book, m, w)
<1>1. /\ after \in Books(Mints, Wallets)
      /\ \A n \in Mints, k \in Wallets :
           after[n][k] = IF n = mint /\ k = w THEN book[n][k] - amount ELSE book[n][k]
      /\ \A n \in Mints : book[n][w] \in Nat
  <2>1. \A n \in Mints : book[n][w] \in Nat
    BY DEF Books
  <2> QED BY <2>1, DebitBook
<1>2. /\ EffectiveMint(mint) = IF IsSolMint(mint) THEN WSOL_MINT ELSE mint
      /\ EffectiveMint(m) = IF IsSolMint(m) THEN WSOL_MINT ELSE m
      /\ IsSolMint(WSOL_MINT)
  BY EffectiveIsToken DEF IsSolMint
<1>3. IsSolMint(mint) <=> mint = NativeSol \/ mint = WSOL_MINT
  BY DEF IsSolMint
<1>4. CASE IsSolMint(m)
  BY <1>1, <1>2, <1>3, <1>4, SolMints DEF Holding
<1>5. CASE ~IsSolMint(m)
  BY <1>1, <1>2, <1>3, <1>5, SolMints DEF Holding
<1> QED BY <1>1, <1>4, <1>5
----
(* The steps *)

\* The books a participation leaves, seen from its joiner.
LEMMA ParticipateEffect ==
  ASSUME TypeOK, NEW g \in Games, NEW w \in Wallets, NEW side, NEW e,
         NEW amount \in Nat, NEW pay \in Mints, NEW max_pay \in Nat,
         NEW quote_out \in Nat, NEW hops,
         Participate(g, w, side, e, amount, pay, max_pay, quote_out, hops)
  PROVE  /\ \A n \in Mints, k \in Wallets \ {w} : purse'[n][k] >= purse[n][k]
         /\ LeadToStake(hops, pay, games[g].mint, w) =>
              \A m \in Mints :
                Holding(purse', m, w) + OutlayLimit(m, hops, pay, max_pay, games[g].mint, amount, w)
                  >= Holding(purse, m, w)
<1> DEFINE mint == games[g].mint
<1>1. mint \in Mints
  BY DEF TypeOK, GameAccounts
<1>2. PICK book \in Paying(w, mint, pay, amount, max_pay, quote_out, hops) :
        /\ book[mint][w] >= amount
        /\ purse' = Debit(book, mint, w, amount)
  BY DEF Participate, EnterGame
<1>3. hops \in HopLists(mint, pay)
  BY DEF Participate
<1> HIDE DEF mint
<1>4. /\ book \in Books(Mints, Wallets)
      /\ \A n \in Mints, k \in Wallets \ {w} : book[n][k] >= purse[n][k]
      /\ \/ /\ EffectiveMint(mint) = EffectiveMint(pay)
            /\ book = purse /\ max_pay >= amount
         \/ /\ EffectiveMint(mint) # EffectiveMint(pay)
            /\ LeadToStake(hops, pay, mint, w) => SwapsCost(hops, w, pay, max_pay, book)
  BY <1>1, <1>2, <1>3, PayingBook
<1>5. amount <= book[mint][w]
  BY <1>1, <1>2, <1>4 DEF Books
<1>6. /\ purse' \in Books(Mints, Wallets)
      /\ \A n \in Mints, k \in Wallets \ {w} : purse'[n][k] = book[n][k]
      /\ \A m \in Mints :
           Holding(purse', m, w) =
             IF EffectiveMint(mint) = EffectiveMint(m)
             THEN Holding(book, m, w) - amount ELSE Holding(book, m, w)
  BY <1>1, <1>2, <1>4, <1>5, StakeIsPaid
<1>7. purse \in Books(Mints, Wallets)
  BY DEF TypeOK, Books
<1>8. ASSUME LeadToStake(hops, pay, mint, w), NEW m \in Mints
      PROVE  Holding(purse', m, w) + OutlayLimit(m, hops, pay, max_pay, mint, amount, w)
               >= Holding(purse, m, w)
  <2> DEFINE had    == Holding(purse, m, w)
             swapped == Holding(book, m, w)
             has    == Holding(purse', m, w)
             mid    == hops[1].to
             rest   == purse[mid][w]
             limit  == OutlayLimit(m, hops, pay, max_pay, mint, amount, w)
  <2>1. /\ had \in Nat /\ swapped \in Nat
        /\ has = IF EffectiveMint(mint) = EffectiveMint(m) THEN swapped - amount ELSE swapped
    BY <1>4, <1>6, <1>7, HoldingIsKept
  <2>2. /\ EffectiveMint(m) = EffectiveMint(pay) => limit = max_pay
        /\ EffectiveMint(m) # EffectiveMint(pay) /\ EffectiveMint(m) = EffectiveMint(mint)
             => limit = amount
        /\ EffectiveMint(m) \notin {EffectiveMint(pay), EffectiveMint(mint)} =>
             IF Len(hops) = 2 /\ EffectiveMint(m) = mid THEN limit = rest ELSE limit = 0
    BY DEF OutlayLimit
  <2>3. CASE book = purse /\ EffectiveMint(mint) = EffectiveMint(pay) /\ max_pay >= amount
    <3>1. swapped = had
      BY <2>3
    <3>2. Len(hops) # 2
      <4>1. ConfigTypeOK
        BY DEF TypeOK
      <4>2. hops = <<>>
        BY <1>1, <1>3, <2>3, <4>1, HopsAreUsable
      <4> QED BY <4>2
    <3> HIDE DEF had, swapped, has, mid, rest, limit
    <3>3. ASSUME EffectiveMint(m) = EffectiveMint(pay)
          PROVE  has + limit >= had
      BY <2>1, <2>2, <2>3, <3>1, <3>3
    <3>4. ASSUME EffectiveMint(m) # EffectiveMint(pay)
          PROVE  has + limit >= had
      <4>1. limit = 0 /\ has = had
        BY <2>1, <2>2, <2>3, <3>1, <3>2, <3>4
      <4> QED BY <2>1, <4>1
    <3>5. has + limit >= had
      BY <3>3, <3>4
    <3> QED BY <3>5 DEF has, limit, had
  <2>4. CASE EffectiveMint(mint) # EffectiveMint(pay) /\ SwapsCost(hops, w, pay, max_pay, book)
    <3>1. \/ swapped >= had
          \/ EffectiveMint(m) = EffectiveMint(pay) /\ swapped + max_pay >= had
          \/ /\ Len(hops) = 2 /\ EffectiveMint(m) = mid /\ mid # EffectiveMint(pay)
             /\ swapped + rest >= had
      BY <2>4 DEF SwapsCost
    <3>2. Len(hops) = 2 => mid # EffectiveMint(mint)
      <4>1. ConfigTypeOK
        BY DEF TypeOK
      <4>2. Len(hops) = 2 => Usable(hops[2])
        BY <1>1, <1>3, <4>1, HopsAreUsable
      <4>3. Len(hops) = 2 => hops # <<>>
        OBVIOUS
      <4> QED BY <1>8, <4>2, <4>3 DEF LeadToStake, Usable
    <3>3. rest \in Nat \/ Len(hops) # 2 \/ EffectiveMint(m) # mid
      BY <1>7, EffectiveIsToken, SolMints DEF Books
    <3> HIDE DEF had, swapped, has, mid, rest, limit
    <3>4. ASSUME EffectiveMint(m) = EffectiveMint(pay)
          PROVE  has + limit >= had
      BY <2>1, <2>2, <2>4, <3>1, <3>4
    <3>5. ASSUME EffectiveMint(m) # EffectiveMint(pay) /\ EffectiveMint(m) = EffectiveMint(mint)
          PROVE  has + limit >= had
      <4>1. limit = amount /\ has = swapped - amount /\ swapped >= had
        BY <2>1, <2>2, <3>1, <3>2, <3>5
      <4> QED BY <2>1, <4>1
    <3>6. ASSUME EffectiveMint(m) \notin {EffectiveMint(pay), EffectiveMint(mint)}
          PROVE  has + limit >= had
      BY <2>1, <2>2, <3>1, <3>3, <3>6
    <3>7. has + limit >= had
      BY <3>4, <3>5, <3>6
    <3> QED BY <3>7 DEF has, limit, had
  <2> QED BY <1>4, <1>8, <2>3, <2>4
<1> QED BY <1>4, <1>6, <1>8 DEF mint

\* A participation is a join, paid out of the books its swaps have left.
LEMMA ParticipatePreserves ==
  ASSUME IInv, EscrowIsExact,
         NEW g \in Games, NEW w \in Wallets, NEW side \in Sides,
         NEW e \in Entropies, NEW amount \in Stakes, NEW pay \in Mints,
         NEW max_pay \in MaxPays, NEW quote_out \in QuoteOuts, NEW hops,
         Participate(g, w, side, e, amount, pay, max_pay, quote_out, hops)
  PROVE  IInv' /\ EscrowIsExact'
<1> DEFINE mint == games[g].mint
<1>1. TypeOK /\ mint \in Mints
  BY DEF IInv, TypeOK, GameAccounts
<1>2. /\ hops \in HopLists(mint, pay) /\ w # Creator(g)
      /\ UNCHANGED <<configVars, clockVars, vaults, posted, settled, created, gifts>>
  BY DEF Participate
<1>3. PICK book \in Paying(w, mint, pay, amount, max_pay, quote_out, hops) :
        EnterGame(book, g, w, side, e, amount)
  BY DEF Participate
<1>4. /\ ApplyJoin(g, w, side, e, amount)
      /\ book[mint][w] >= amount
      /\ purse' = Debit(book, mint, w, amount)
      /\ escrow' = Credit(escrow, mint, g, amount)
      /\ Oracle!RequestRandomness(<<g, w, e>>)
  BY <1>3 DEF EnterGame
<1>5. book \in Books(Mints, Wallets)
  <2>1. amount \in Nat /\ max_pay \in Nat /\ quote_out \in Nat
    BY CoinflipAssumption, ParticipateAssumption, U64Assumption DEF U64
  <2> HIDE DEF mint
  <2> QED BY <1>1, <1>2, <1>3, <2>1, PayingBook
<1>6. IInv'
  BY <1>2, <1>4, <1>5, MatchPreserves
<1>7. TypeOK'
  BY <1>6 DEF IInv
<1>8. EscrowIsExact'
  BY <1>1, <1>2, <1>4, <1>7, MatchIsExact
<1> QED BY <1>6, <1>8

\* Every step preserves the invariant of the games and the exactness of their
\* accounts.
LEMMA ParticipateNextPreserves ==
  ASSUME IInv, EscrowIsExact, [ParticipateNext]_vars
  PROVE  IInv' /\ EscrowIsExact'
<1>1. CASE [Next]_vars
  <2>1. IInv'
    BY <1>1, NextPreserves
  <2>2. TypeOK /\ TypeOK'
    BY <2>1 DEF IInv
  <2> QED BY <1>1, <2>1, <2>2, NextIsExact
<1>2. CASE \E g \in Games, w \in Wallets, s \in Sides, e \in Entropies, x \in Stakes,
              pay \in Mints, y \in MaxPays, q \in QuoteOuts :
             \E hops \in HopLists(games[g].mint, pay) :
               Participate(g, w, s, e, x, pay, y, q, hops)
  BY <1>2, ParticipatePreserves
<1> QED BY <1>1, <1>2 DEF ParticipateNext

LEMMA ParticipateInductive == ParticipateSpec => [](IInv /\ EscrowIsExact)
<1>1. ParticipateInit => IInv /\ EscrowIsExact
  BY ParticipateInitIInv
<1>2. IInv /\ EscrowIsExact /\ [ParticipateNext]_vars => (IInv /\ EscrowIsExact)'
  BY ParticipateNextPreserves
<1> QED BY <1>1, <1>2, PTL DEF ParticipateSpec

\* Swaps included, no wallet and no account is ever overdrawn.
THEOREM SwapsKeepTypes == ParticipateSpec => []TypeOK
<1>1. IInv /\ EscrowIsExact => TypeOK
  BY DEF IInv
<1> QED BY <1>1, ParticipateInductive, PTL

\* A game entered by way of swaps holds exactly its two stakes, whatever the
\* swaps have brought or left (the handler of participate.rs).
THEOREM SwapsBringExactStakes == ParticipateSpec => []EscrowIsExact
<1> QED BY ParticipateInductive, PTL

\* A game entered by way of swaps is as fair a bet as any.
THEOREM SwappedMatchesAreFair == ParticipateSpec => []ReadyGameIsFair
<1>1. IInv /\ EscrowIsExact => ReadyGameIsFair
  BY DEF IInv
<1> QED BY <1>1, ParticipateInductive, PTL
----
(* What the swaps leave of the deals *)

\* A participation matches the game as a join does.
LEMMA ParticipateMatches ==
  ASSUME IInv, DealInv,
         NEW g \in Games, NEW w \in Wallets, NEW side \in Sides,
         NEW e \in Entropies, NEW amount, NEW pay, NEW max_pay, NEW quote_out, NEW hops,
         Participate(g, w, side, e, amount, pay, max_pay, quote_out, hops)
  PROVE  DealInv' /\ Escrow!Match(g)
<1>1. /\ w \in Wallets \ {Creator(g)}
      /\ UNCHANGED <<configVars, clockVars, posted>>
      /\ UNCHANGED settled
  BY DEF Participate
<1>2. ApplyJoin(g, w, side, e, amount) /\ Oracle!RequestRandomness(<<g, w, e>>)
  BY DEF Participate, EnterGame
<1>3. DealInv'
  BY <1>1, <1>2, MatchKeepsDeals DEF IInv
<1>4. Escrow!Match(g)
  BY <1>1, <1>2, JoinMatches
<1> QED BY <1>3, <1>4

LEMMA ParticipateNextRefines ==
  ASSUME IInv, DealInv, [ParticipateNext]_vars
  PROVE  DealInv' /\ (Escrow!Next \/ UNCHANGED <<Deals, settled>>)
<1>1. CASE [Next]_vars
  BY <1>1, NextKeepsDeals, NextRefines
<1>2. CASE \E g \in Games, w \in Wallets, s \in Sides, e \in Entropies, x \in Stakes,
              pay \in Mints, y \in MaxPays, q \in QuoteOuts :
             \E hops \in HopLists(games[g].mint, pay) :
               Participate(g, w, s, e, x, pay, y, q, hops)
  <2>1. DealInv' /\ \E g \in Games : Escrow!Match(g)
    BY <1>2, ParticipateMatches
  <2> QED BY <2>1 DEF Escrow!Next
<1> QED BY <1>1, <1>2 DEF ParticipateNext

LEMMA ParticipateInitDeals == ParticipateInit => DealInv /\ Escrow!Init
<1>1. ParticipateInit => GamesInit /\ config.fee_bps = DEFAULT_FEE_BPS
  BY DEF ParticipateInit, SwapConfig, InitialConfig, NoConfig
<1> QED BY <1>1, GamesInitDealInv, GamesInitRefines

LEMMA ParticipateKeepsDeals == ParticipateSpec => []DealInv
<1>1. IInv /\ DealInv /\ [ParticipateNext]_vars => DealInv'
  BY ParticipateNextRefines
<1> QED BY <1>1, ParticipateInitDeals, ParticipateInductive, PTL DEF ParticipateSpec

\* With participate among the ways to join, the games implement FlipEscrow
\* still: a swap is no part of the deal.
THEOREM SwappedGamesImplementFlipEscrow == ParticipateSpec => RefinesFlipEscrow
<1>1. IInv /\ DealInv /\ [ParticipateNext]_vars
        => DealInv' /\ [Escrow!Next]_<<[g \in Games |-> DealAt(g)], settled>>
  BY ParticipateNextRefines DEF Deals
<1> QED BY <1>1, ParticipateInitDeals, ParticipateInductive, PTL
        DEF ParticipateSpec, RefinesFlipEscrow, Escrow!Spec

\* One randomness settles one game, whether games are joined by join.rs or by
\* participate.rs, which make their requests each by a call of its own.
THEOREM SwapsReuseNoRandomness == ParticipateSpec => []OneGamePerRandomness
<1>1. IInv /\ EscrowIsExact => OneGamePerRandomness
  BY DEF IInv
<1> QED BY <1>1, ParticipateInductive, PTL

\* With participate among the steps, too, the house cancels a stranger's open
\* game only a full delay after its create.
THEOREM SwapsLetHouseCancelLate == ParticipateSpec => []AuthorityCancelIsDelayed
<1>1. IInv /\ EscrowIsExact => AuthorityCancelIsDelayed
  BY DelaysAreFull
<1> QED BY <1>1, ParticipateInductive, PTL
----
(* What the swaps leave of the settlements *)

\* A participation closes no game, and touches none that is matched, no answer
\* and no clock.
LEMMA ParticipateSettlesNothing ==
  ASSUME IInv, NEW g \in Games, NEW w \in Wallets, NEW side,
         NEW e \in Entropies, NEW amount, NEW pay, NEW max_pay, NEW quote_out, NEW hops,
         Participate(g, w, side, e, amount, pay, max_pay, quote_out, hops)
  PROVE  /\ \A h \in Games : ~Closes(h)
         /\ \A h \in Games : IsReady(h) => games'[h] = games[h]
         /\ \A s \in Seeds : vrf[s] \in Randomness => vrf'[s] = vrf[s]
         /\ UNCHANGED clockVars
<1>1. ApplyJoin(g, w, side, e, amount) /\ Oracle!RequestRandomness(<<g, w, e>>)
  BY DEF Participate, EnterGame
<1>2. UNCHANGED clockVars
  BY DEF Participate
<1>3. /\ games[g].status = "Open" /\ games'[g].status = "Ready"
      /\ \A h \in Games \ {g} : games'[h] = games[h]
  BY <1>1, AppliedJoin DEF IInv
<1>4. <<g, w, e>> \in Seeds
  BY DEF Seeds
<1>5. \A s \in Seeds : vrf[s] \in Randomness => vrf'[s] = vrf[s]
  BY <1>1, <1>4, RequestKeeps DEF IInv
<1>6. \A h \in Games : ~Closes(h)
  BY <1>3 DEF Closes
<1>7. \A h \in Games : IsReady(h) => games'[h] = games[h]
  BY <1>3 DEF IsReady
<1> QED BY <1>2, <1>5, <1>6, <1>7

LEMMA OnlyGamesSettle ==
  ASSUME IInv, [ParticipateNext]_vars
  PROVE  \/ [Next]_vars
         \/ /\ \A h \in Games : ~Closes(h)
            /\ \A h \in Games : IsReady(h) => games'[h] = games[h]
            /\ \A s \in Seeds : vrf[s] \in Randomness => vrf'[s] = vrf[s]
            /\ UNCHANGED clockVars
<1>1. CASE \E g \in Games, w \in Wallets, s \in Sides, e \in Entropies, x \in Stakes,
              pay \in Mints, y \in MaxPays, q \in QuoteOuts :
             \E hops \in HopLists(games[g].mint, pay) :
               Participate(g, w, s, e, x, pay, y, q, hops)
  BY <1>1, ParticipateSettlesNothing
<1> QED BY <1>1 DEF ParticipateNext

\* Of games joined by way of swaps, too, the winner gets the pot less the fee of
\* the create, the authority that fee, and nobody else anything.
THEOREM SwappedPotsGoToWinners == ParticipateSpec => WinnerTakesPot
<1>1. IInv /\ DealInv /\ EscrowIsExact /\ [ParticipateNext]_vars
        => \A g \in Games : PaysWinner(g)
  BY OnlyGamesSettle, WinnerIsPaid DEF PaysWinner
<1> QED BY <1>1, ParticipateInductive, ParticipateKeepsDeals, PTL
        DEF ParticipateSpec, WinnerTakesPot

\* A stake that swaps have paid for comes back in the mint of the game when there
\* is no verdict; nobody else gains a unit of that mint.
THEOREM SwappedStakesComeBack == ParticipateSpec => UnwindMakesWhole
<1>1. IInv /\ EscrowIsExact /\ [ParticipateNext]_vars => \A g \in Games : MakesWhole(g)
  BY OnlyGamesSettle, PlayersAreMadeWhole DEF MakesWhole
<1> QED BY <1>1, ParticipateInductive, PTL DEF ParticipateSpec, UnwindMakesWhole

\* The oracle has its full window for matches made by participate.rs.
THEOREM SwappedMatchesWaitForOracle == ParticipateSpec => OracleHasItsWindow
<1>1. IInv /\ DealInv /\ [ParticipateNext]_vars => \A g \in Games : WaitsForOracle(g)
  BY OnlyGamesSettle, OracleIsWaitedFor DEF WaitsForOracle
<1> QED BY <1>1, ParticipateInductive, ParticipateKeepsDeals, PTL
        DEF ParticipateSpec, OracleHasItsWindow

\* No participation puts a settlement off either.
THEOREM SwapsKeepSettlementsOpen == ParticipateSpec => SettlementStaysOpen
<1>1. ASSUME IInv, DealInv, [ParticipateNext]_vars, NEW g \in Games, IsSettleable(g)
      PROVE  IsSettleable(g)' \/ Closes(g)
  <2>1. CASE [Next]_vars
    BY <1>1, <2>1, NextKeepsSettlement
  <2>2. CASE /\ \A h \in Games : IsReady(h) => games'[h] = games[h]
             /\ \A s \in Seeds : vrf[s] \in Randomness => vrf'[s] = vrf[s]
             /\ UNCHANGED clockVars
    <3>1. IsReady(g)
      BY <1>1 DEF IsSettleable
    <3>2. SeedOf(g) \in Seeds
      BY <1>1, <3>1, ReadySeed
    <3>3. Oracle!IsRequestFulfilled(SeedOf(g)) => vrf'[SeedOf(g)] = vrf[SeedOf(g)]
      BY <2>2, <3>2 DEF Oracle!IsRequestFulfilled
    <3> QED BY <1>1, <2>2, <3>1, <3>3, SettlementFrame
  <2> QED BY <1>1, <2>1, <2>2, OnlyGamesSettle
<1>2. IInv /\ DealInv /\ [ParticipateNext]_vars =>
        \A g \in Games : IsSettleable(g) => IsSettleable(g)' \/ Closes(g)
  BY <1>1
<1> QED BY <1>2, ParticipateInductive, ParticipateKeepsDeals, PTL
        DEF ParticipateSpec, SettlementStaysOpen

\* Nor one that makes a match wait any longer.
THEOREM SwapsLetEverySlotCount == ParticipateSpec => EverySlotCounts
<1>1. ASSUME IInv, DealInv, [ParticipateNext]_vars, slot' # slot,
             NEW g \in Games, IsReady(g), ~IsSettleable(g)
      PROVE  \/ IsSettleable(g)'
             \/ SlotsWaited(g)' = SlotsWaited(g) + 1 /\ SlotsWaited(g)' <= MAX_ENTRIES
  <2>1. [Next]_vars
    BY <1>1, OnlyGamesSettle DEF clockVars
  <2>2. Tick
    BY <1>1, <2>1, OnlyTickMovesClock DEF clockVars
  <2> QED BY <1>1, <2>2, SlotIsCounted
<1>2. IInv /\ DealInv /\ [ParticipateNext]_vars =>
        \A g \in Games : IsReady(g) /\ ~IsSettleable(g) /\ slot' # slot =>
          \/ IsSettleable(g)'
          \/ SlotsWaited(g)' = SlotsWaited(g) + 1 /\ SlotsWaited(g)' <= MAX_ENTRIES
  BY <1>1
<1> QED BY <1>2, ParticipateInductive, ParticipateKeepsDeals, PTL
        DEF ParticipateSpec, EverySlotCounts

\* Nor does one leave a game that cannot end: as long as its pot fits in a u64,
\* which is for the exchange's mints to see to, every check of its settlement
\* passes.
THEOREM SwappedGamesCanEnd == ParticipateSpec => []FittingGamesCanEnd
<1>1. IInv /\ EscrowIsExact => FittingGamesCanEnd
  BY ExactGamesCanEnd
<1> QED BY <1>1, ParticipateInductive, PTL
----
(* Who pays *)

\* The game a match changes, and the one it makes ready.
LEMMA MatchedGame ==
  ASSUME TypeOK, NEW g \in Games, NEW h \in Games, NEW w, NEW side, NEW e, NEW amount,
         ApplyJoin(h, w, side, e, amount),
         IsOpen(g), games'[g].status = "Ready"
  PROVE  g = h /\ games'[g].joiner = w
<1>1. games[h] \in GameAccounts
  BY DEF TypeOK
<1>2. /\ games'[h].joiner = w
      /\ \A k \in Games : k # h => games'[k] = games[k]
  BY <1>1 DEF ApplyJoin, TypeOK, GameAccounts
<1> QED BY <1>2 DEF IsOpen

\* Of the steps of Coinflip only a join makes an open game ready.
LEMMA OnlyJoinsMatch ==
  ASSUME TypeOK, [Next]_vars, NEW g \in Games, IsOpen(g), games'[g].status = "Ready"
  PROVE  \E h \in Games, w \in Wallets, s \in Sides, e \in Entropies, x \in Stakes :
           Join(h, w, s, e, x)
<1> DEFINE Kept == \A h \in Games : games'[h].status \in {games[h].status, "Open", "Closed"}
<1>1. ~Kept
  BY DEF IsOpen
<1>2. ASSUME NEW h \in Games, NEW new, new.status \in {games[h].status, "Open", "Closed"},
             games' = [games EXCEPT ![h] = new]
      PROVE  Kept
  BY <1>2 DEF TypeOK
<1>3. CASE \E c \in Creators, n \in Nonces, x \in Stakes, s \in CreatorSides,
              e \in Entropies, m \in Mints, h \in HouseOnlyChoices :
             Create(c, n, x, s, e, m, h)
  <2>1. PICK c \in Creators, n \in Nonces, x \in Stakes, s \in CreatorSides,
             e \in Entropies, m \in Mints, h \in HouseOnlyChoices :
               Create(c, n, x, s, e, m, h)
    BY <1>3
  <2> DEFINE new == NewGame(x, s, e, m, h)
  <2>2. /\ <<c, n>> \in Games
        /\ games' = [games EXCEPT ![<<c, n>>] = new]
        /\ new.status = "Open"
    BY <2>1 DEF Create, NewGame, Games
  <2> HIDE DEF new
  <2> QED BY <1>1, <1>2, <2>2
<1>4. CASE \/ \E h \in Games : Resolve(h)
           \/ \E h \in Games, w \in Wallets : Cancel(h, w)
           \/ \E h \in Games : RefundExpired(h)
  <2>1. PICK h \in Games : games' = [games EXCEPT ![h] = NoGame]
    BY <1>4 DEF Resolve, Cancel, RefundExpired, CloseTo
  <2>2. NoGame.status = "Closed"
    BY DEF NoGame
  <2> QED BY <1>1, <1>2, <2>1, <2>2
<1>5. CASE \E h \in Games, w \in Wallets : InitiateCancel(h, w)
  BY <1>1, <1>5 DEF InitiateCancel, TypeOK, GameAccounts
<1>6. CASE \/ Admin \/ Tick \/ UNCHANGED vars
           \/ \E seed \in JoinableSeeds : VrfStep(seed)
           \/ \E w \in Wallets, h \in Games, m \in Tokens : OpenVault(w, h, m)
           \/ \E w \in Wallets, h \in Games, m \in Mints : Donate(w, h, m)
  BY <1>1, <1>6 DEF Admin, Tick, VrfStep, OpenVault, Donate, vars
<1> HIDE DEF Kept
<1> QED BY <1>3, <1>4, <1>5, <1>6 DEF Next

\* Nobody but its joiner pays for a game that is matched.
LEMMA JoinerPays ==
  ASSUME IInv, [ParticipateNext]_vars,
         NEW g \in Games, IsOpen(g), games'[g].status = "Ready"
  PROVE  /\ games'[g].joiner \in Wallets
         /\ \A w \in Wallets \ {games'[g].joiner}, m \in Mints : purse'[m][w] >= purse[m][w]
<1>1. TypeOK /\ \A h \in Games : games[h].mint \in Mints
  BY DEF IInv, TypeOK, GameAccounts
<1>2. CASE [Next]_vars
  <2>1. PICK h \in Games, w \in Wallets, s \in Sides, e \in Entropies, x \in Stakes :
          Join(h, w, s, e, x)
    BY <1>1, <1>2, OnlyJoinsMatch
  <2>2. /\ ApplyJoin(h, w, s, e, x)
        /\ purse[games[h].mint][w] >= x
        /\ purse' = Debit(purse, games[h].mint, w, x)
    BY <2>1 DEF Join
  <2>3. games'[g].joiner = w
    BY <1>1, <2>2, MatchedGame
  <2>4. purse \in Books(Mints, Wallets)
    BY <1>1 DEF TypeOK, Books
  <2>5. x \in Nat
    BY CoinflipAssumption, U64Assumption DEF U64
  <2>6. x <= purse[games[h].mint][w]
    BY <1>1, <2>2, <2>4, <2>5 DEF Books
  <2>7. \A m \in Mints, k \in Wallets : k # w => purse'[m][k] = purse[m][k]
    BY <1>1, <2>2, <2>4, <2>5, <2>6, DebitBook
  <2>8. \A m \in Mints, k \in Wallets : purse[m][k] \in Nat
    BY <2>4 DEF Books
  <2> QED BY <2>3, <2>7, <2>8
<1>3. CASE \E h \in Games, w \in Wallets, s \in Sides, e \in Entropies, x \in Stakes,
              pay \in Mints, y \in MaxPays, q \in QuoteOuts :
             \E hops \in HopLists(games[h].mint, pay) :
               Participate(h, w, s, e, x, pay, y, q, hops)
  <2>1. PICK h \in Games, w \in Wallets, s \in Sides, e \in Entropies, x \in Stakes,
              pay \in Mints, y \in MaxPays, q \in QuoteOuts :
             \E hops \in HopLists(games[h].mint, pay) :
               Participate(h, w, s, e, x, pay, y, q, hops)
    BY <1>3
  <2>2. PICK hops \in HopLists(games[h].mint, pay) : Participate(h, w, s, e, x, pay, y, q, hops)
    BY <2>1
  <2>3. ApplyJoin(h, w, s, e, x)
    BY <2>2 DEF Participate, EnterGame
  <2>4. games'[g].joiner = w
    BY <1>1, <2>3, MatchedGame
  <2>5. x \in Nat /\ y \in Nat /\ q \in Nat
    BY CoinflipAssumption, ParticipateAssumption, U64Assumption DEF U64
  <2>6. \A n \in Mints, k \in Wallets \ {w} : purse'[n][k] >= purse[n][k]
    BY <1>1, <2>2, <2>5, ParticipateEffect
  <2> QED BY <2>4, <2>6
<1> QED BY <1>2, <1>3 DEF ParticipateNext

\* The stake of a game is its joiner's own, and swaps that lead to it cost him
\* at most max_pay of the mint he pays in, the stake of the game's, what was in
\* his account of the one between two hops, and nothing else (run_swaps of
\* participate.rs).
THEOREM JoinersOutlayStaysBounded == ParticipateSpec => ParticipantOutlayIsBounded
<1>1. ASSUME IInv, [ParticipateNext]_vars,
             NEW g \in Games, IsOpen(g), games'[g].status = "Ready"
      PROVE  LET joiner == games'[g].joiner
                 mint   == games[g].mint
                 stake  == games[g].amount
             IN  /\ \A w \in Wallets \ {joiner}, m \in Mints : purse'[m][w] >= purse[m][w]
                 /\ \A pay \in Mints, y \in MaxPays, q \in QuoteOuts :
                      \A hops \in HopLists(mint, pay) :
                        /\ LeadToStake(hops, pay, mint, joiner)
                        /\ Participate(g, joiner, games'[g].joiner_side,
                                       games'[g].joiner_entropy, stake, pay, y, q, hops)
                        => \A m \in Mints :
                             Holding(purse', m, joiner)
                               + OutlayLimit(m, hops, pay, y, mint, stake, joiner)
                               >= Holding(purse, m, joiner)
  <2> DEFINE joiner == games'[g].joiner
             stake == games[g].amount
             side == games'[g].joiner_side
             e == games'[g].joiner_entropy
  <2>1. /\ joiner \in Wallets
        /\ \A w \in Wallets \ {joiner}, m \in Mints : purse'[m][w] >= purse[m][w]
    BY <1>1, JoinerPays
  <2>2. TypeOK /\ stake \in Nat
    BY <1>1, U64Assumption DEF IInv, TypeOK, GameAccounts, U64
  <2>3. MaxPays \subseteq Nat /\ QuoteOuts \subseteq Nat
    BY ParticipateAssumption, U64Assumption DEF U64
  <2> HIDE DEF joiner, stake, side, e
  <2>4. ASSUME NEW pay \in Mints, NEW y \in MaxPays, NEW q \in QuoteOuts,
               NEW hops \in HopLists(games[g].mint, pay),
               LeadToStake(hops, pay, games[g].mint, joiner),
               Participate(g, joiner, side, e, stake, pay, y, q, hops)
        PROVE  \A m \in Mints :
                 Holding(purse', m, joiner)
                   + OutlayLimit(m, hops, pay, y, games[g].mint, stake, joiner)
                   >= Holding(purse, m, joiner)
    <3>1. y \in Nat /\ q \in Nat
      BY <2>3
    <3> QED BY <2>1, <2>2, <2>4, <3>1, ParticipateEffect
  <2> QED BY <2>1, <2>4 DEF joiner, stake, side, e
<1>2. IInv /\ [ParticipateNext]_vars => [
        \A g \in Games : IsOpen(g) /\ games'[g].status = "Ready" =>
          LET joiner == games'[g].joiner
              mint   == games[g].mint
              stake  == games[g].amount
          IN  /\ \A w \in Wallets \ {joiner}, m \in Mints : purse'[m][w] >= purse[m][w]
              /\ \A pay \in Mints, y \in MaxPays, q \in QuoteOuts :
                   \A hops \in HopLists(mint, pay) :
                     /\ LeadToStake(hops, pay, mint, joiner)
                     /\ Participate(g, joiner, games'[g].joiner_side,
                                    games'[g].joiner_entropy, stake, pay, y, q, hops)
                     => \A m \in Mints :
                             Holding(purse', m, joiner)
                               + OutlayLimit(m, hops, pay, y, mint, stake, joiner)
                               >= Holding(purse, m, joiner)]_vars
  BY <1>1
<1> QED BY <1>2, ParticipateInductive, PTL DEF ParticipateSpec, ParticipantOutlayIsBounded
----
(* What a participation costs others *)

\* One who looks on loses by a participation nothing but a draw that it brings.
LEMMA OthersKeepTheirWorth ==
  ASSUME IInv, TypeOK', DuesAreTabled, DuesAreTabled',
         NEW g \in Games, NEW j \in Wallets, NEW side, NEW e \in Entropies,
         NEW amount \in Stakes, NEW pay \in Mints, NEW max_pay \in MaxPays,
         NEW quote_out \in QuoteOuts, NEW hops,
         Participate(g, j, side, e, amount, pay, max_pay, quote_out, hops),
         NEW m \in Mints, NEW w \in Wallets \ {j}
  PROVE  Worth(m, w)' < Worth(m, w) => LosesAtMostStake(g, m, w)
<1> DEFINE seed == <<g, j, e>>
<1>0. TypeOK
  BY DEF IInv
<1>1. amount \in Nat /\ max_pay \in Nat /\ quote_out \in Nat /\ seed \in Seeds
  BY CoinflipAssumption, ParticipateAssumption, U64Assumption DEF U64, Seeds
<1>2. /\ ApplyJoin(g, j, side, e, amount) /\ j # Creator(g)
      /\ Oracle!RequestRandomness(seed) /\ UNCHANGED posted
  BY DEF Participate, EnterGame
<1>3. /\ games[g].status = "Open" /\ games'[g].status = "Ready"
      /\ games'[g].joiner = j /\ games'[g].amount = games[g].amount
      /\ games'[g].mint = games[g].mint
      /\ \A h \in Games \ {g} : games'[h] = games[h]
  BY <1>0, <1>2, AppliedJoin DEF ApplyJoin
<1>4. \A h \in Games \ {g} : Due(h, m, w)' = Due(h, m, w)
  <2>1. \A s \in Seeds \ {seed} : vrf'[s] = vrf[s]
    BY <1>0, <1>1, <1>2 DEF Oracle!RequestRandomness, TypeOK, Oracle!VrfTypeOK
  <2> SUFFICES ASSUME NEW h \in Games \ {g} PROVE Due(h, m, w)' = Due(h, m, w)
    OBVIOUS
  <2>2. IsReady(h) => vrf'[SeedOf(h)] = vrf[SeedOf(h)]
    <3>1. SeedOf(h) # seed
      BY DEF SeedOf
    <3> QED BY <2>1, <3>1, ReadySeed
  <2> QED BY <1>2, <1>3, <2>2, DueKept
<1>5. /\ Worth(m, w) \in Nat /\ Worth(m, w)' \in Nat
      /\ Gain(m, w) \in Int /\ Due(g, m, w) \in Nat /\ Due(g, m, w)' \in Nat
      /\ Worth(m, w)' - Worth(m, w) = Gain(m, w) + Due(g, m, w)' - Due(g, m, w)
  BY <1>0, <1>4, WorthMoves
<1>6. Gain(m, w) >= 0
  <2>1. purse'[m][w] >= purse[m][w]
    BY <1>0, <1>1, ParticipateEffect
  <2>2. purse[m][w] \in Nat /\ purse'[m][w] \in Nat
    BY <1>0 DEF TypeOK
  <2> QED BY <2>1, <2>2 DEF Gain
<1>7. ~IsReady(g) /\ ~IsDrawn(g) /\ games[g].status # "Closed" /\ IsReady(g)'
  BY <1>3 DEF IsDrawn, IsReady
<1>8. RentsOf(g)' = RentsOf(g) /\ AtStake(g, m, w) =
        (IF m = games[g].mint THEN games[g].amount ELSE 0)
          + (IF m = NativeSol /\ w = Creator(g) THEN RentsOf(g) ELSE 0)
  BY <1>3 DEF RentsOf, AtStake
<1>9. Due(g, m, w) = IF w = Creator(g) THEN AtStake(g, m, w) ELSE 0
  <2>1. Due(g, m, w) =
          (IF m = games[g].mint /\ w = Creator(g) THEN games[g].amount ELSE 0)
            + (IF m = NativeSol /\ w = Creator(g) THEN RentsOf(g) ELSE 0)
    BY <1>7 DEF DuesAreTabled
  <2> QED BY <1>8, <2>1
<1>10. CASE ~IsDrawn(g)' \/ w # Creator(g) \/ w = WinnerOf(g)'
  <2>1. Due(g, m, w)' >= Due(g, m, w)
    <3>1. CASE w # Creator(g)
      BY <1>5, <1>9, <3>1
    <3>2. CASE w = Creator(g) /\ ~IsDrawn(g)'
      <4>1. Due(g, m, w)' =
              (IF m = games'[g].mint /\ (w = Creator(g) \/ (IsReady(g)' /\ w = games'[g].joiner))
               THEN games'[g].amount ELSE 0)
                + (IF m = NativeSol /\ w = Creator(g) THEN RentsOf(g)' ELSE 0)
        BY <1>3, <3>2 DEF DuesAreTabled, Creator
      <4>2. Due(g, m, w)' = AtStake(g, m, w)
        BY <3>2, <4>1 DEF AtStake
      <4> QED BY <1>5, <1>9, <3>2, <4>2
    <3>3. CASE w = Creator(g) /\ IsDrawn(g)' /\ w = WinnerOf(g)'
      <4> DEFINE fee == PotFee(games'[g].amount, posted'[g].fee_bps)
      <4>1. /\ Due(g, m, w)' =
                 (IF m = games'[g].mint /\ w = WinnerOf(g)'
                  THEN 2 * games'[g].amount - fee ELSE 0)
                   + (IF m = NativeSol /\ w = WinnerOf(g)' THEN RentsOf(g)' ELSE 0)
            /\ games'[g].amount \in Nat /\ RentsOf(g)' \in Nat
            /\ fee \in Nat /\ fee <= games'[g].amount
        BY <3>3 DEF DuesAreTabled
      <4> HIDE DEF fee
      <4>2. Due(g, m, w)' >= AtStake(g, m, w)
        BY <3>3, <4>1 DEF AtStake
      <4> QED BY <1>9, <3>3, <4>2
    <3> QED BY <1>10, <3>1, <3>2, <3>3
  <2> QED BY <1>5, <1>6, <2>1
<1>11. CASE IsDrawn(g)' /\ w = Creator(g) /\ w # WinnerOf(g)'
  <2>1. IsDrawnAgainst(g, w)
    BY <1>7, <1>11 DEF IsDrawnAgainst
  <2>2. Worth(m, w) - Worth(m, w)' <= AtStake(g, m, w)
    <3>1. AtStake(g, m, w) \in Nat /\ Due(g, m, w) = AtStake(g, m, w)
      BY <1>5, <1>9, <1>11
    <3> QED BY <1>5, <1>6, <3>1
  <2> QED BY <2>1, <2>2 DEF LosesAtMostStake
<1> QED BY <1>10, <1>11

\* Whoever else participates, by whatever hops, and whatever else happens, a
\* wallet loses only by a join of its own, lost draws and gifts, for every value
\* of the constants.
THEOREM OnlyLostDrawsAndOwnSwapsCost == ParticipateSpec => OnlyDrawsAndOwnSwapsCost
<1>1. ASSUME IInv, TypeOK', DealInv, EscrowIsExact, DuesAreTabled, DuesAreTabled',
             [ParticipateNext]_vars, NEW w \in Wallets, NEW m \in Mints,
             Worth(m, w)' < Worth(m, w)
      PROVE  Gives(w) \/ HasJoined(w) \/ \E g \in Games : LosesAtMostStake(g, m, w)
  <2>1. CASE [Next]_vars
    <3>1. Gives(w) \/ \E g \in Games : LosesDraw(g, m, w)
      BY <1>1, <2>1, EveryCostIsExplained DEF CostIsExplained
    <3>2. ASSUME NEW g \in Games, LosesDraw(g, m, w)
          PROVE  LosesAtMostStake(g, m, w)
      <4>1. games'[g].amount \in Nat /\ RentsOf(g)' \in Nat
        BY <1>1 DEF DuesAreTabled
      <4>2. AtStake(g, m, w) \in Nat
        BY <4>1 DEF AtStake
      <4> QED BY <3>2, <4>2 DEF LosesDraw, LosesAtMostStake
    <3> QED BY <3>1, <3>2
  <2>2. CASE \E g \in Games, j \in Wallets, s \in Sides, e \in Entropies, x \in Stakes,
                pay \in Mints, y \in MaxPays, q \in QuoteOuts :
               \E hops \in HopLists(games[g].mint, pay) :
                 Participate(g, j, s, e, x, pay, y, q, hops)
    <3>1. PICK g \in Games, j \in Wallets, s \in Sides, e \in Entropies, x \in Stakes,
               pay \in Mints, y \in MaxPays, q \in QuoteOuts :
                 \E hops \in HopLists(games[g].mint, pay) :
                   Participate(g, j, s, e, x, pay, y, q, hops)
      BY <2>2
    <3>2. PICK hops \in HopLists(games[g].mint, pay) :
            Participate(g, j, s, e, x, pay, y, q, hops)
      BY <3>1
    <3>3. CASE w = j
      <4>1. ApplyJoin(g, j, s, e, x)
        BY <3>2 DEF Participate, EnterGame
      <4>2. IsOpen(g) /\ IsReady(g)' /\ games'[g].joiner = j
        BY <1>1, <4>1, AppliedJoin DEF IInv, IsOpen, IsReady
      <4> QED BY <3>3, <4>2 DEF HasJoined
    <3>4. CASE w # j
      BY <1>1, <3>2, <3>4, OthersKeepTheirWorth
    <3> QED BY <3>3, <3>4
  <2> QED BY <1>1, <2>1, <2>2 DEF ParticipateNext
<1>2. /\ IInv /\ TypeOK' /\ DealInv /\ EscrowIsExact /\ DuesAreTabled /\ DuesAreTabled'
      /\ [ParticipateNext]_vars
      => \A w \in Wallets, m \in Mints : Worth(m, w)' < Worth(m, w) =>
           Gives(w) \/ HasJoined(w) \/ \E g \in Games : LosesAtMostStake(g, m, w)
  BY <1>1
<1>3. ParticipateSpec => []DuesAreTabled
  BY TypedDues, SwapsKeepTypes, PTL
<1> QED BY <1>2, <1>3, ParticipateInductive, SwapsKeepTypes, ParticipateKeepsDeals, PTL
        DEF ParticipateSpec, OnlyDrawsAndOwnSwapsCost
====
