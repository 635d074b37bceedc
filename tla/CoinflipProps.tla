---- MODULE CoinflipProps ----
(***************************************************************************)
(* What the games of Coinflip must satisfy, for the model checker and for  *)
(* the proofs of CoinflipProofs.                                           *)
(***************************************************************************)
EXTENDS Coinflip, Functions

\* Every account and wallet of the model has the shape the program gives it.
TypeOK ==
  /\ ConfigTypeOK
  /\ ClockTypeOK
  /\ Oracle!VrfTypeOK
  /\ games \in [Games -> GameAccounts]
  /\ purse \in [Mints -> [Wallets -> Nat]]
  /\ escrow \in [Mints -> [Games -> Nat]]
  /\ vaults \subseteq Games \X Tokens
  /\ posted \in [Games -> [slot : Nat, fee_bps : 0 .. MAX_FEE_BPS]]
  /\ settled \subseteq Seeds
  /\ created \in 0 .. MaxCreates
  /\ gifts \in 0 .. MaxGifts
----
\* What the accounts of a game must hold of mint m: the stakes that are in,
\* and the rent of the game account.
StakesIn(game) ==
  CASE game.status = "Closed" -> 0
    [] game.status = "Open"   -> game.amount
    [] OTHER                  -> 2 * game.amount

OwedIn(game, m) ==
  (IF game.mint = m THEN StakesIn(game) ELSE 0)
    + (IF m = NativeSol /\ game.status # "Closed" THEN GameRent ELSE 0)

GameIsExact(g) ==
  \A m \in Mints :
    /\ escrow[m][g] >= OwedIn(games[g], m)
    /\ escrow[m][g] <= OwedIn(games[g], m) + gifts
    /\ games[g].status # "Closed" /\ games[g].mint = m /\ ~IsNativeSol(m)
         => <<g, m>> \in vaults

\* The accounts of a game hold exactly the stakes that are in and the rent,
\* give or take what outsiders sent: whatever order creates, joins, gifts and
\* settlements come in, no stake is missing and none is left behind when an
\* address is closed and used again.  A live token game has its vault.
EscrowIsExact == \A g \in Games : GameIsExact(g)

VaultLamports == VaultRent * Cardinality(vaults)

HeldOf(m) ==
  SumFunction(purse[m]) + SumFunction(escrow[m])
    + (IF m = NativeSol THEN VaultLamports ELSE 0)

\* No instruction creates or destroys money: what wallets, game accounts and
\* vaults hold of each mint together is what the wallets started with.
MoneyIsConserved ==
  \A m \in Mints : HeldOf(m) = SumFunction(Endowment[m])

\* A mint's supply is a u64 on chain, and so are all lamports together.
ASSUME SupplyAssumption == \A m \in Mints : SumFunction(Endowment[m]) <= U64_MAX

\* Since a mint's supply fits in a u64, the pot of a matched game fits as well,
\* and the checked_mul of resolve.rs never fails: create and join do not check
\* it.
PotNeverOverflows ==
  \A g \in Games : IsReady(g) => PotFits(games[g].amount)
----
\* A matched game is a fair bet: two different players on opposite sides, each
\* with entropy, joined at a slot that has been reached, with a request made.
ReadyGameIsFair ==
  \A g \in Games : IsReady(g) =>
    /\ games[g].joiner \in Wallets \ {Creator(g)}
    /\ games[g].creator_side \in {"Heads", "Tails"}
    /\ games[g].joiner_side = Opposite(games[g].creator_side)
    /\ games[g].creator_entropy # ZeroEntropy
    /\ games[g].joiner_entropy # ZeroEntropy
    /\ games[g].join_slot \in 1 .. slot
    /\ vrf[SeedOf(g)] # "None"

\* One randomness settles one game: although a closed address can be created
\* and joined again with the same joiner and entropy, hence the same VRF seed,
\* no matched game waits on a randomness that has settled a game before.
OneGamePerRandomness ==
  \A g \in Games : IsReady(g) => SeedOf(g) \notin settled

\* The house cannot snatch an open game: whoever is the authority by then, it
\* may cancel somebody else's game only a full delay after this very game was
\* created, never on the strength of an earlier game at the same address.
AuthorityCancelIsDelayed ==
  \A g \in Games, w \in Wallets :
    IsOpen(g) /\ MayCancel(g, w) /\ w # Creator(g)
      => slot >= posted[g].slot + AUTHORITY_CANCEL_DELAY_SLOTS

\* Money always has a way out, paused or not and whatever outsiders sent to
\* the accounts: an open game can be cancelled by its creator, an answered one
\* resolved, an unanswered one refunded once its join slot has expired.
FundsAreNeverStuck ==
  \A g \in Games :
    /\ IsOpen(g) => ENABLED <<Cancel(g, Creator(g))>>_vars
    /\ IsReady(g) /\ Oracle!IsRequestFulfilled(SeedOf(g)) => ENABLED <<Resolve(g)>>_vars
    /\ /\ IsReady(g)
       /\ ~Oracle!IsRequestFulfilled(SeedOf(g))
       /\ LookupJoinSlotHash(games[g].join_slot) = "Expired"
       => ENABLED <<RefundExpired(g)>>_vars
----
Closes(g) == games[g].status # "Closed" /\ games'[g].status = "Closed"

Gain(m, w) == purse'[m][w] - purse[m][w]

\* What a step that closes a game does with its money and when: by a verdict,
\* without one, and without one although it was matched.
PaysWinner(g) ==
  LET winner == ResultWinner(g, vrf[SeedOf(g)])
      m   == games[g].mint
      fee == PotFee(games[g].amount, posted[g].fee_bps)
  IN  IsReady(g) /\ Oracle!IsRequestFulfilled(SeedOf(g)) /\ Closes(g) =>
        /\ Gain(m, winner) >= 2 * games[g].amount - fee
        /\ \A w \in Wallets \ {winner} :
             Gain(m, w) = IF w = config.authority THEN fee ELSE 0

MakesWhole(g) ==
  LET m == games[g].mint
      players == {Creator(g)} \union (IF IsReady(g) THEN {games[g].joiner} ELSE {})
  IN  Closes(g) /\ ~(IsReady(g) /\ Oracle!IsRequestFulfilled(SeedOf(g))) =>
        /\ \A w \in players : Gain(m, w) >= games[g].amount
        /\ Gain(NativeSol, Creator(g)) >=
             GameRent + (IF IsNativeSol(m) THEN games[g].amount ELSE VaultRent)
        /\ \A w \in Wallets \ players : Gain(m, w) = 0

WaitsForOracle(g) ==
  IsReady(g) /\ Closes(g) /\ ~Oracle!IsRequestFulfilled(SeedOf(g))
    => slot > games[g].join_slot + MAX_ENTRIES

\* Once the randomness is known the winner it names gets the whole pot less
\* the fee the game was created under, whatever fee is configured by now; that
\* fee goes to the authority of the moment, and nobody else gains a unit.
WinnerTakesPot == [][\A g \in Games : PaysWinner(g)]_vars

\* A game that ends without a verdict gives every player his stake back, the
\* creator also the rent, and nobody else anything.
UnwindMakesWhole == [][\A g \in Games : MakesWhole(g)]_vars

\* The oracle has its window: a matched game without a verdict is closed only
\* after more than MAX_ENTRIES slots, by whatever way it is closed.
OracleHasItsWindow == [][\A g \in Games : WaitsForOracle(g)]_vars

\* Answered, so that resolve.rs takes it, or unanswered for so long that
\* refund.rs does.
IsSettleable(g) ==
  /\ IsReady(g)
  /\ \/ Oracle!IsRequestFulfilled(SeedOf(g))
     \/ LookupJoinSlotHash(games[g].join_slot) = "Expired"

\* A way out of a match, once open, stays open until the game is closed: no
\* join of another player, no late answer, no slot, no step of administration
\* and no other game puts the settlement off again.
SettlementStaysOpen ==
  [][\A g \in Games : IsSettleable(g) => IsSettleable(g)' \/ Closes(g)]_vars

\* How much of the list has been filled since g was matched.
SlotsWaited(g) == Cardinality({s \in slot_hashes : s >= games[g].join_slot})

\* The wait for a silent oracle is finite: with each slot that goes by, however
\* many are skipped, a matched game can be settled or has one slot less of the
\* MAX_ENTRIES it can be made to wait.
EverySlotCounts ==
  [][\A g \in Games : IsReady(g) /\ ~IsSettleable(g) /\ slot' # slot =>
       \/ IsSettleable(g)'
       \/ SlotsWaited(g)' = SlotsWaited(g) + 1 /\ SlotsWaited(g)' <= MAX_ENTRIES]_vars
----
(* What a wallet is worth *)

IsDrawn(g) == IsReady(g) /\ Oracle!IsRequestFulfilled(SeedOf(g))
WinnerOf(g) == ResultWinner(g, vrf[SeedOf(g)])

\* The part of the stakes of g that is w's as things stand: his own until the
\* draw, the pot less the fee of the create if the draw is his.
StakeDue(g, w) ==
  CASE games[g].status = "Closed" -> 0
    [] IsDrawn(g) -> IF w = WinnerOf(g)
                     THEN 2 * games[g].amount - PotFee(games[g].amount, posted[g].fee_bps)
                     ELSE 0
    [] OTHER -> IF w = Creator(g) \/ (IsReady(g) /\ w = games[g].joiner)
                THEN games[g].amount ELSE 0

\* The lamports that come free when g is closed.
RentsOf(g) == GameRent + (IF IsNativeSol(games[g].mint) THEN 0 ELSE VaultRent)
RentDueTo(g, w) ==
  IF games[g].status # "Closed" /\ w = (IF IsDrawn(g) THEN WinnerOf(g) ELSE Creator(g))
  THEN RentsOf(g) ELSE 0

Due(g, m, w) ==
  (IF m = games[g].mint THEN StakeDue(g, w) ELSE 0)
    + (IF m = NativeSol THEN RentDueTo(g, w) ELSE 0)

Worth(m, w) == purse[m][w] + SumFunction([g \in Games |-> Due(g, m, w)])

\* A draw of g against w, and what it takes from him: the stake, and from the
\* creator the rents.
IsDrawnAgainst(g, w) ==
  ~IsDrawn(g) /\ IsDrawn(g)' /\ w \in {Creator(g), games'[g].joiner} \ {WinnerOf(g)'}
AtStake(g, m, w) ==
  (IF m = games'[g].mint THEN games'[g].amount ELSE 0)
    + (IF m = NativeSol /\ w = Creator(g) THEN RentsOf(g)' ELSE 0)
LosesDraw(g, m, w) ==
  IsDrawnAgainst(g, w) /\ Worth(m, w) - Worth(m, w)' = AtStake(g, m, w)

\* A gift out of w's own purse.
Gives(w) ==
  /\ gifts' = gifts + 1
  /\ \A v \in Wallets \ {w}, m \in Mints : purse'[m][v] = purse[m][v]

\* Counting what games hold for it, no wallet ever becomes poorer, in any mint,
\* but by a draw that it loses in a game it plays, and then by that one stake,
\* or by giving something away: whoever else creates, joins, cancels, settles,
\* answers or administers, in whatever order.
OnlyDrawsCost ==
  [][\A w \in Wallets, m \in Mints : Worth(m, w)' < Worth(m, w) =>
       Gives(w) \/ \E g \in Games : LosesDraw(g, m, w)]_vars
----
(* Refinement of FlipEscrow *)

VerdictOn(g) ==
  IF Oracle!IsRequestFulfilled(SeedOf(g))
  THEN IF ResultWinner(g, vrf[SeedOf(g)]) = Creator(g) THEN "Poster" ELSE "Second"
  ELSE "Undrawn"

DealAt(g) ==
  LET posting == [phase |-> "Posted", stake |-> games[g].amount,
                  asset |-> games[g].mint, fee |-> games[g].fee_bps]
  IN  CASE games[g].status = "Closed" -> [phase |-> "Empty"]
        [] games[g].status = "Open"   -> posting
        [] games[g].status = "Ready"  ->
             [phase |-> "Matched", stake |-> games[g].amount,
              asset |-> games[g].mint, fee |-> games[g].fee_bps,
              second |-> games[g].joiner, draw |-> SeedOf(g),
              verdict |-> VerdictOn(g)]

Escrow == INSTANCE FlipEscrow WITH
  Flips <- Games, Players <- Wallets, Poster <- [g \in Games |-> Creator(g)],
  Stakes <- Stakes, Assets <- Mints, Fees <- {DEFAULT_FEE_BPS} \union FeeChoices,
  Draws <- Seeds, DrawnAtOnce <- InstantVrf,
  deal <- [g \in Games |-> DealAt(g)], awarded <- settled

\* Every behaviour of the games is one of FlipEscrow: no verdict before both
\* stakes are in, one draw for one game, a drawn verdict never changes and is
\* never unwound, terms are those of the create.
RefinesFlipEscrow == Escrow!Spec
----
(* Liveness *)

\* Blocks go on being produced, and somebody sends the settling instructions,
\* which take no particular signer.  Nothing is assumed of the oracle, of the
\* players or of the administrator.
SlotsGoOn == WF_vars(Tick)
IsSettledFairly(g) == WF_vars(Resolve(g)) /\ WF_vars(RefundExpired(g))
Fairness == SlotsGoOn /\ \A g \in Games : IsSettledFairly(g)

FairSpec == Spec /\ Fairness

\* A matched game ends, with the oracle or without it.
ReadyGamesEnd == \A g \in Games : IsReady(g) ~> ~IsReady(g)
====
