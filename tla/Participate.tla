---- MODULE Participate ----
(***************************************************************************)
(* participate, src/src/instructions/participate.rs: joining a game and    *)
(* paying for the stake in another mint, by one or two swaps in the same   *)
(* transaction.  The module adds that action to the games of Coinflip, on  *)
(* a program set up for swaps.                                             *)
(*                                                                         *)
(* Of a hop the program checks the pool only.  Which of the pool's mints   *)
(* goes in, and into whose account the other goes, is up to the client; a  *)
(* hop into a game's vault is a Donate of Coinflip after one into a wallet.*)
(***************************************************************************)
EXTENDS CoinflipProps, Swap

CONSTANTS
  MaxPays,          \* arguments of participate
  QuoteOuts

ASSUME ParticipateAssumption ==
  /\ MaxPays \subseteq U64
  /\ QuoteOuts \subseteq U64

ParticipateInit ==
  /\ config = SwapConfig(InitialAuthority)
  /\ token_config = InitialTokenConfig
  /\ GamesInit

HopsThrough(pool) ==
  {h \in [pool : {pool}, from : PoolMints[pool], to : PoolMints[pool], sink : Wallets] :
     h.from # h.to}

\* The hops a client may pass: none when the stake is paid in its own mint.
HopLists(game_mint, pay_mint) ==
  IF EffectiveMint(game_mint) = EffectiveMint(pay_mint)
  THEN {<<>>}
  ELSE UNION {IF Len(pools) = 1
              THEN {<<h>> : h \in HopsThrough(pools[1])}
              ELSE HopsThrough(pools[1]) \X HopsThrough(pools[2]) :
                pools \in AllowedPools(game_mint, pay_mint)}

\* A slip: the first hop, too, may spend all that is in its account.
SwapHopsUncapped(book, joiner, hops, amount_out, max_pay, quote_out) ==
  UNION {IF Len(hops) = 1
         THEN {first}
         ELSE SwapExactOut(first, joiner, hops[2], first[hops[2].from][joiner], amount_out) :
           first \in SwapExactOut(book, joiner, hops[1], book[hops[1].from][joiner],
                                  IF Len(hops) = 1 THEN amount_out ELSE quote_out)}

\* The second hop may spend all that is in its account.  What the swaps have
\* delivered is not looked at again.
SwapHops(book, joiner, hops, amount_out, max_pay, quote_out) ==
  IF Len(hops) = 1
  THEN SwapExactOut(book, joiner, hops[1], max_pay, amount_out)
  ELSE UNION {SwapExactOut(first, joiner, hops[2], first[hops[2].from][joiner], amount_out) :
                first \in SwapExactOut(book, joiner, hops[1], max_pay, quote_out)}

\* run_swaps: max_pay lamports are wrapped to pay in SOL, and what the swap
\* leaves of them stays in the WSOL account; a stake in SOL is unwrapped.
RunSwaps(joiner, game_mint, pay_mint, amount, max_pay, quote_out, hops) ==
  LET ready == IF IsSolMint(pay_mint) THEN Wrap(purse, joiner, max_pay) ELSE purse
  IN  {IF IsSolMint(game_mint) THEN Unwrap(after, joiner) ELSE after :
         after \in {b \in SwapHops(ready, joiner, hops, amount, max_pay, quote_out) :
                      IsSolMint(pay_mint) => purse[NativeSol][joiner] >= max_pay}}

\* The joiner's books when the stake is about to be paid.
Paying(joiner, game_mint, pay_mint, amount, max_pay, quote_out, hops) ==
  IF hops = <<>>
  THEN {book \in {purse} : max_pay >= amount}
  ELSE RunSwaps(joiner, game_mint, pay_mint, amount, max_pay, quote_out, hops)

\* A slip: whatever the swaps brought goes into the game.
EnterGameWithProceeds(book, g, joiner, joiner_side, joiner_entropy, amount) ==
  LET mint  == games[g].mint
      stake == IF book[mint][joiner] > purse[mint][joiner]
               THEN book[mint][joiner] - purse[mint][joiner] ELSE amount
  IN
  /\ ApplyJoin(g, joiner, joiner_side, joiner_entropy, amount)
  /\ ~IsNativeSol(mint) => <<g, mint>> \in vaults
  /\ book[mint][joiner] >= stake
  /\ purse' = Debit(book, mint, joiner, stake)
  /\ escrow' = Credit(escrow, mint, g, stake)
  /\ Oracle!RequestRandomness(<<g, joiner, joiner_entropy>>)

\* A slip: no request is made.
EnterGameUnrequested(book, g, joiner, joiner_side, joiner_entropy, amount) ==
  LET mint == games[g].mint
  IN
  /\ ApplyJoin(g, joiner, joiner_side, joiner_entropy, amount)
  /\ ~IsNativeSol(mint) => <<g, mint>> \in vaults
  /\ book[mint][joiner] >= amount
  /\ purse' = Debit(book, mint, joiner, amount)
  /\ escrow' = Credit(escrow, mint, g, amount)
  /\ UNCHANGED vrf

\* The rest of the handler, on the books the swaps have left.
EnterGame(book, g, joiner, joiner_side, joiner_entropy, amount) ==
  LET mint == games[g].mint
  IN
  /\ ApplyJoin(g, joiner, joiner_side, joiner_entropy, amount)
  /\ ~IsNativeSol(mint) => <<g, mint>> \in vaults
  /\ book[mint][joiner] >= amount
  /\ purse' = Debit(book, mint, joiner, amount)
  /\ escrow' = Credit(escrow, mint, g, amount)
  /\ Oracle!RequestRandomness(<<g, joiner, joiner_entropy>>)

Participate(g, joiner, joiner_side, joiner_entropy, amount, pay_mint, max_pay, quote_out, hops) ==
  /\ slot <= LastJoinSlot
  /\ config.layout = "current"
  /\ ~config.paused
  /\ games[g].house_only => joiner = config.authority
  /\ joiner # Creator(g)
  /\ hops \in HopLists(games[g].mint, pay_mint)
  /\ \E book \in Paying(joiner, games[g].mint, pay_mint, amount, max_pay, quote_out, hops) :
       EnterGame(book, g, joiner, joiner_side, joiner_entropy, amount)
  /\ UNCHANGED <<configVars, clockVars, vaults, posted, settled, created, gifts>>

ParticipateNext ==
  \/ Next
  \/ \E g \in Games, w \in Wallets, s \in Sides, e \in Entropies, x \in Stakes,
        pay \in Mints, y \in MaxPays, q \in QuoteOuts :
       IsOpen(g) /\ \E hops \in HopLists(games[g].mint, pay) :
         Participate(g, w, s, e, x, pay, y, q, hops)

ParticipateSpec == ParticipateInit /\ [][ParticipateNext]_vars
----
\* Hops that lead from the pay mint to the game's, by way of the joiner's own
\* accounts.
LeadToStake(hops, pay_mint, game_mint, joiner) ==
  /\ hops # <<>> => /\ hops[1].from = EffectiveMint(pay_mint)
                    /\ hops[Len(hops)].to = EffectiveMint(game_mint)
  /\ Len(hops) = 2 => hops[2].from = hops[1].to
  /\ \A i \in DOMAIN hops : hops[i].sink = joiner

\* What a stake may cost its joiner of the mint m: max_pay of what he pays in;
\* of the game's mint the stake, which the hops may fall short of; and with two
\* hops all that was in his account of the mint between them.
OutlayLimit(m, hops, pay_mint, max_pay, game_mint, amount, joiner) ==
  IF EffectiveMint(m) = EffectiveMint(pay_mint) THEN max_pay
  ELSE IF EffectiveMint(m) = EffectiveMint(game_mint) THEN amount
  ELSE IF Len(hops) = 2 /\ EffectiveMint(m) = hops[1].to THEN purse[hops[1].to][joiner]
  ELSE 0

\* However a stake is paid, nobody but the joiner pays for it; and with hops
\* that lead to it, whatever the exchange asks and delivers, he pays of each
\* mint at most what OutlayLimit says, and of all but three nothing.  SOL he
\* finds back in his WSOL account counts as his.
ParticipantOutlayIsBounded ==
  [][\A g \in Games : IsOpen(g) /\ games'[g].status = "Ready" =>
       LET joiner == games'[g].joiner
           mint   == games[g].mint
           stake  == games[g].amount
       IN  /\ \A w \in Wallets \ {joiner}, m \in Mints : purse'[m][w] >= purse[m][w]
           /\ \A pay \in Mints, y \in MaxPays, q \in QuoteOuts :
                \A hops \in HopLists(mint, pay) :
                  /\ LeadToStake(hops, pay, mint, joiner)
                  /\ Participate(g, joiner, games'[g].joiner_side, games'[g].joiner_entropy,
                                 stake, pay, y, q, hops)
                  => \A m \in Mints :
                       Holding(purse', m, joiner) + OutlayLimit(m, hops, pay, y, mint, stake, joiner)
                         >= Holding(purse, m, joiner)]_vars

\* A join of w's own, swaps or not; and a draw against him that costs no more
\* than it should.
HasJoined(w) == \E g \in Games : IsOpen(g) /\ IsReady(g)' /\ games'[g].joiner = w
LosesAtMostStake(g, m, w) ==
  IsDrawnAgainst(g, w) /\ Worth(m, w) - Worth(m, w)' <= AtStake(g, m, w)

\* With participate among the steps, a wallet can become poorer by its own
\* swaps too, and by nobody else's: whatever hops others send through whatever
\* accounts, a wallet that does not join loses nothing but its stakes in lost
\* draws and its gifts.
OnlyDrawsAndOwnSwapsCost ==
  [][\A w \in Wallets, m \in Mints : Worth(m, w)' < Worth(m, w) =>
       Gives(w) \/ HasJoined(w) \/ \E g \in Games : LosesAtMostStake(g, m, w)]_vars
====
