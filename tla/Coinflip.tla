---- MODULE Coinflip ----
(***************************************************************************)
(* The life of a coin-flip game: src/src/instructions/create.rs, join.rs,  *)
(* resolve.rs, cancel.rs and refund.rs, running against the config account *)
(* (ConfigAdmin), the clock and SlotHashes (SlotHash) and the VRF requests *)
(* (Vrf).  A Solana transaction is atomic, so every instruction is one     *)
(* action: all its checks are conjuncts, and a failed check leaves nothing *)
(* behind.  The order in which transactions land is arbitrary.             *)
(* Any wallet may send one; a wallet whose key nobody holds is one that    *)
(* never does.                                                             *)
(*                                                                         *)
(* A game account is a PDA of its creator and nonce, and is closed by the  *)
(* settling instructions, so the same address can be created again.        *)
(*                                                                         *)
(* Money: purse[m][w] is what wallet w holds of mint m (lamports for       *)
(* NativeSol).  escrow[NativeSol][g] is the lamports of game account g,    *)
(* rent included; escrow[m][g], for a token m, is the balance of the vault *)
(* of g, its associated token account for m.  A vault that exists also     *)
(* holds VaultRent lamports.  The fee a VRF request costs its payer goes   *)
(* to accounts outside the model and is left out.                          *)
(***************************************************************************)
EXTENDS ConfigAdmin, SlotHash, TokenUtils

CONSTANTS
  Creators,         \* wallets that create games
  Nonces,
  Entropies,        \* 32-byte entropies of players, ZeroEntropy among them
  ZeroEntropy,
  Stakes,           \* amounts players ask for
  CreatorSides,     \* sides creators ask for
  HouseOnlyChoices,
  Endowment,        \* what each wallet starts with, [Mints -> [Wallets -> U64]]
  GameRent,         \* rent of a game account
  VaultRent,        \* rent of a token account
  AUTHORITY_CANCEL_DELAY_SLOTS,   \* 32 in the program
  Randomness,
  ResultBit,        \* the hash of result_winner, reduced to its low bit
  InstantVrf,
  InitialAuthority,
  InitialTokenConfig,
  MaxCreates,       \* bound: games created in a behaviour
  MaxGifts,         \* bound: donations and vaults opened by outsiders
  LastJoinSlot      \* bound: no game is joined after it

Games == Creators \X Nonces
Creator(g) == g[1]
Seeds == Games \X Wallets \X Entropies

\* The seeds a join can come to use; a request for any other meets no game.
JoinableSeeds ==
  {s \in Seeds : s[2] # Creator(s[1]) /\ s[3] # ZeroEntropy}

VARIABLES
  vrf,
  games,            \* the game account of each PDA
  purse,
  escrow,
  vaults,           \* the token accounts of games that exist, <<game, mint>>
  posted,           \* history: slot and fee of each open or ready game's create
  settled,          \* history: the seeds whose randomness settled a game
  created,          \* counter for MaxCreates
  gifts             \* counter for MaxGifts

Oracle == INSTANCE Vrf

vars == <<config, token_config, slot, slot_hashes, vrf, games, purse, escrow,
          vaults, posted, settled, created, gifts>>

ASSUME CoinflipAssumption ==
  /\ Creators \subseteq Wallets
  /\ ZeroEntropy \in Entropies
  /\ Stakes \subseteq U64
  /\ CreatorSides \subseteq {"Heads", "Tails", "Open"}
  /\ HouseOnlyChoices \subseteq BOOLEAN
  /\ Endowment \in [Mints -> [Wallets -> U64]]
  /\ GameRent \in Nat \ {0}
  /\ VaultRent \in Nat \ {0}
  /\ AUTHORITY_CANCEL_DELAY_SLOTS \in Nat \ {0}
  /\ InstantVrf \in BOOLEAN
  /\ Randomness \intersect {"None", "Pending"} = {}
  /\ ResultBit \in [Entropies \X Entropies \X Randomness -> {0, 1}]
  /\ InitialAuthority \in Wallets
  /\ InitialTokenConfig \in [Tokens -> TokenConfigAccounts]
  /\ MaxCreates \in Nat
  /\ MaxGifts \in Nat
  /\ LastJoinSlot \in Nat

\* Keys are 32 bytes long and nonces are u64.
ASSUME FiniteLedger == IsFiniteSet(Wallets) /\ IsFiniteSet(Nonces)

Sides == {"Heads", "Tails", "Open"}
Opposite(side) == IF side = "Heads" THEN "Tails" ELSE "Heads"
FromResultBit(bit) == IF bit = 0 THEN "Tails" ELSE "Heads"

\* A game account that does not exist, or was closed.
NoGame ==
  [status |-> "Closed", joiner |-> DefaultKey, amount |-> 0, mint |-> NativeSol,
   fee_bps |-> 0, creator_side |-> "Open", joiner_side |-> "Open",
   creator_entropy |-> ZeroEntropy, joiner_entropy |-> ZeroEntropy,
   join_slot |-> 0, cancel_after_slot |-> 0, house_only |-> FALSE]

GameAccounts ==
  [status : {"Closed", "Open", "Ready"}, joiner : Wallets \union {DefaultKey},
   amount : U64, mint : Mints, fee_bps : 0 .. MAX_FEE_BPS,
   creator_side : Sides, joiner_side : Sides,
   creator_entropy : Entropies, joiner_entropy : Entropies,
   join_slot : Nat, cancel_after_slot : Nat, house_only : BOOLEAN]

NoPost == [slot |-> 0, fee_bps |-> 0]

IsOpen(g) == games[g].status = "Open"
IsReady(g) == games[g].status = "Ready"

\* vrf_seed of the game as it stands.
SeedOf(g) == <<g, games[g].joiner, games[g].joiner_entropy>>

\* result_winner
ResultWinner(g, randomness) ==
  LET bit == ResultBit[<<games[g].creator_entropy, games[g].joiner_entropy,
                         randomness>>]
  IN  IF games[g].creator_side = FromResultBit(bit)
      THEN Creator(g)
      ELSE games[g].joiner

\* No game yet, and wallets with what they start with.
GamesInit ==
  /\ SlotInit
  /\ Oracle!VrfInit
  /\ games = [g \in Games |-> NoGame]
  /\ purse = Endowment
  /\ escrow = [m \in Mints |-> [g \in Games |-> 0]]
  /\ vaults = {}
  /\ posted = [g \in Games |-> NoPost]
  /\ settled = {}
  /\ created = 0
  /\ gifts = 0

Init ==
  /\ config = InitialConfig(InitialAuthority, ORAO_VRF_ID)
  /\ token_config = InitialTokenConfig
  /\ GamesInit
----
(* create.rs *)

\* The stake limits of create: the minimum binds every game, the maximum
\* only house-only games, and a maximum of zero is none.
WithinLimits(amount, mint, house_only) ==
  LET least == IF IsNativeSol(mint) THEN config.sol_min_amount
                                    ELSE token_config[mint].min_amount
      most  == IF IsNativeSol(mint) THEN config.sol_max_amount
                                    ELSE token_config[mint].max_amount
  IN  /\ amount >= least
      /\ house_only /\ most > 0 => amount <= most

\* require_enabled_token, on a token config account that decodes.
TokenEnabled(mint) ==
  /\ token_config[mint].layout = "current"
  /\ token_config[mint].is_enabled

\* Anchor's init tops the account's lamports up to its rent, so lamports sent
\* to the address beforehand count towards it.
RentDue(g) == IF escrow[NativeSol][g] >= GameRent
              THEN 0 ELSE GameRent - escrow[NativeSol][g]

\* A slip: the creator pays for a vault that exists already.
VaultDueAlways(g, mint) == VaultRent

\* create_ata_if_needed: a vault that someone opened already is used as it is.
VaultDue(g, mint) == IF <<g, mint>> \in vaults THEN 0 ELSE VaultRent

\* The account create writes: nobody joined, no cancel started, and the fee of
\* the moment kept for the settlement.
NewGame(amount, side, entropy, mint, house_only) ==
  [status |-> "Open", joiner |-> DefaultKey, amount |-> amount, mint |-> mint,
   fee_bps |-> config.fee_bps, creator_side |-> side, joiner_side |-> "Open",
   creator_entropy |-> entropy, joiner_entropy |-> ZeroEntropy,
   join_slot |-> 0, cancel_after_slot |-> 0, house_only |-> house_only]

Create(creator, nonce, amount, side, entropy, mint, house_only) ==
  LET g    == <<creator, nonce>>
      rent == RentDue(g)
      lamports == rent + (IF IsNativeSol(mint) THEN amount ELSE VaultDue(g, mint))
      funded == Credit(escrow, NativeSol, g, rent)
  IN
  /\ created < MaxCreates
  /\ games[g].status = "Closed"
  /\ config.layout = "current"
  /\ ~config.paused
  /\ house_only => side # "Open"
  /\ config.fee_bps <= MAX_FEE_BPS
  /\ amount > 0
  /\ entropy # ZeroEntropy
  /\ ~IsNativeSol(mint) => TokenEnabled(mint)
  /\ WithinLimits(amount, mint, house_only)
  /\ purse[NativeSol][creator] >= lamports
  /\ purse[mint][creator] >= amount
  /\ games' =
       [games EXCEPT ![g] = NewGame(amount, side, entropy, mint, house_only)]
  /\ escrow' = Credit(funded, mint, g, amount)
  /\ IF IsNativeSol(mint)
     THEN /\ purse' = Debit(purse, NativeSol, creator, lamports)
          /\ UNCHANGED vaults
     ELSE /\ purse' = Debit(Debit(purse, NativeSol, creator, lamports),
                            mint, creator, amount)
          /\ vaults' = vaults \union {<<g, mint>>}
  /\ posted' = [posted EXCEPT ![g] = [slot |-> slot, fee_bps |-> config.fee_bps]]
  /\ created' = created + 1
  /\ UNCHANGED <<configVars, clockVars, vrf, settled, gifts>>
----
(* join.rs *)

\* A slip: the joiner's argument is taken as it comes.
JoinedSideAsSent(g, joiner_side) == joiner_side

\* apply_join: an open game lets the joiner choose and gives the creator the
\* other side; otherwise the joiner gets the side the creator left.
JoinedSide(g, joiner_side) ==
  IF games[g].creator_side = "Open"
  THEN joiner_side
  ELSE Opposite(games[g].creator_side)

SideAllowed(g, joiner_side) ==
  IF games[g].creator_side = "Open"
  THEN joiner_side # "Open"
  ELSE joiner_side # games[g].creator_side

\* A slip: `amount == game.amount` is not required.
ApplyJoinAnyAmount(g, joiner, joiner_side, joiner_entropy, amount) ==
  /\ IsOpen(g)
  /\ joiner_entropy # ZeroEntropy
  /\ SideAllowed(g, joiner_side)
  /\ games' = [games EXCEPT
       ![g].joiner = joiner,
       ![g].joiner_entropy = joiner_entropy,
       ![g].joiner_side = JoinedSide(g, joiner_side),
       ![g].creator_side = Opposite(JoinedSide(g, joiner_side)),
       ![g].join_slot = slot,
       ![g].status = "Ready"]

\* A slip: a game that is matched already can be joined again.
ApplyJoinAgain(g, joiner, joiner_side, joiner_entropy, amount) ==
  /\ games[g].status # "Closed"
  /\ amount = games[g].amount
  /\ joiner_entropy # ZeroEntropy
  /\ SideAllowed(g, joiner_side)
  /\ games' = [games EXCEPT
       ![g].joiner = joiner,
       ![g].joiner_entropy = joiner_entropy,
       ![g].joiner_side = JoinedSide(g, joiner_side),
       ![g].creator_side = Opposite(JoinedSide(g, joiner_side)),
       ![g].join_slot = slot,
       ![g].status = "Ready"]

ApplyJoin(g, joiner, joiner_side, joiner_entropy, amount) ==
  /\ IsOpen(g)
  /\ amount = games[g].amount
  /\ joiner_entropy # ZeroEntropy
  /\ SideAllowed(g, joiner_side)
  /\ games' = [games EXCEPT
       ![g].joiner = joiner,
       ![g].joiner_entropy = joiner_entropy,
       ![g].joiner_side = JoinedSide(g, joiner_side),
       ![g].creator_side = Opposite(JoinedSide(g, joiner_side)),
       ![g].join_slot = slot,
       ![g].status = "Ready"]

\* A token game is joined into the vault its create made; a VRF request that
\* fails (it was answered already) fails the whole transaction.
Join(g, joiner, joiner_side, joiner_entropy, amount) ==
  LET mint == games[g].mint
  IN
  /\ slot <= LastJoinSlot
  /\ config.layout = "current"
  /\ ~config.paused
  /\ games[g].house_only => joiner = config.authority
  /\ joiner # Creator(g)
  /\ ApplyJoin(g, joiner, joiner_side, joiner_entropy, amount)
  /\ ~IsNativeSol(mint) => <<g, mint>> \in vaults
  /\ purse[mint][joiner] >= amount
  /\ purse' = Debit(purse, mint, joiner, amount)
  /\ escrow' = Credit(escrow, mint, g, amount)
  /\ Oracle!RequestRandomness(<<g, joiner, joiner_entropy>>)
  /\ UNCHANGED <<configVars, clockVars, vaults, posted, settled, created, gifts>>
----
(* What resolve, cancel and refund share *)

\* A slip: the vault must hold the stakes and nothing else.
VaultCoversExactly(g, owed) ==
  LET mint == games[g].mint
  IN  ~IsNativeSol(mint) => <<g, mint>> \in vaults /\ escrow[mint][g] = owed

\* A token game's vault must exist and hold at least `owed`.
VaultCovers(g, owed) ==
  LET mint == games[g].mint
  IN  ~IsNativeSol(mint) => <<g, mint>> \in vaults /\ escrow[mint][g] >= owed

StakesOf(g) == IF IsReady(g) THEN 2 * games[g].amount ELSE games[g].amount

\* A slip: a SOL game's lamports leave its account twice.
CloseToTwice(g, heir, payee, cut) ==
  LET mint == games[g].mint
      paid == Credit(Credit(purse, mint, payee, cut),
                     mint, heir, escrow[mint][g] - cut)
  IN
  /\ games' = [games EXCEPT ![g] = NoGame]
  /\ posted' = [posted EXCEPT ![g] = NoPost]
  /\ purse' = IF IsNativeSol(mint)
              THEN paid
              ELSE Credit(paid, NativeSol, heir, escrow[NativeSol][g] + VaultRent)
  /\ escrow' = [escrow EXCEPT ![mint][g] = 0, ![NativeSol][g] = @ - escrow[NativeSol][g]]
  /\ vaults' = vaults \ {<<g, mint>>}

\* A slip: heir and payee are exchanged.
CloseToSwapped(g, heir, payee, cut) ==
  LET mint == games[g].mint
      paid == Credit(Credit(purse, mint, heir, cut),
                     mint, payee, escrow[mint][g] - cut)
  IN
  /\ games' = [games EXCEPT ![g] = NoGame]
  /\ posted' = [posted EXCEPT ![g] = NoPost]
  /\ purse' = IF IsNativeSol(mint)
              THEN paid
              ELSE Credit(paid, NativeSol, heir, escrow[NativeSol][g] + VaultRent)
  /\ escrow' = [escrow EXCEPT ![mint][g] = 0, ![NativeSol][g] = 0]
  /\ vaults' = vaults \ {<<g, mint>>}

\* A slip: the lamports of the closed game account stay where they are.
CloseToForgettingRent(g, heir, payee, cut) ==
  LET mint == games[g].mint
      paid == Credit(Credit(purse, mint, payee, cut),
                     mint, heir, StakesOf(g) - cut)
  IN
  /\ games' = [games EXCEPT ![g] = NoGame]
  /\ posted' = [posted EXCEPT ![g] = NoPost]
  /\ purse' = IF IsNativeSol(mint)
              THEN paid
              ELSE Credit(paid, NativeSol, heir, VaultRent)
  /\ escrow' = Debit(escrow, mint, g, StakesOf(g))
  /\ vaults' = vaults \ {<<g, mint>>}

\* A slip: the vault's rent goes to the payee.
CloseToRentToPayee(g, heir, payee, cut) ==
  LET mint == games[g].mint
      paid == Credit(Credit(purse, mint, payee, cut),
                     mint, heir, escrow[mint][g] - cut)
  IN
  /\ games' = [games EXCEPT ![g] = NoGame]
  /\ posted' = [posted EXCEPT ![g] = NoPost]
  /\ purse' = IF IsNativeSol(mint)
              THEN paid
              ELSE Credit(Credit(paid, NativeSol, heir, escrow[NativeSol][g]),
                          NativeSol, payee, VaultRent)
  /\ escrow' = [escrow EXCEPT ![mint][g] = 0, ![NativeSol][g] = 0]
  /\ vaults' = vaults \ {<<g, mint>>}

\* `payee` gets `cut` of the game's mint; everything else the game holds goes
\* to `heir`: the rest of the stakes, the lamports of the closed game account
\* and, for a token game, those of its closed vault.
CloseTo(g, heir, payee, cut) ==
  LET mint == games[g].mint
      paid == Credit(Credit(purse, mint, payee, cut),
                     mint, heir, escrow[mint][g] - cut)
  IN
  /\ games' = [games EXCEPT ![g] = NoGame]
  /\ posted' = [posted EXCEPT ![g] = NoPost]
  /\ purse' = IF IsNativeSol(mint)
              THEN paid
              ELSE Credit(paid, NativeSol, heir, escrow[NativeSol][g] + VaultRent)
  /\ escrow' = [escrow EXCEPT ![mint][g] = 0, ![NativeSol][g] = 0]
  /\ vaults' = vaults \ {<<g, mint>>}
----
(* resolve.rs *)

\* A slip: the fee configured now, not the one of the create.
FeeOfNow(g) == PotFee(games[g].amount, config.fee_bps)

\* The fee is the one the game was created with.
FeeOf(g) == PotFee(games[g].amount, games[g].fee_bps)

\* A slip: a pause stops settlement too.
ResolveUnlessPaused(g) ==
  /\ config.layout = "current"
  /\ ~config.paused
  /\ IsReady(g)
  /\ Oracle!IsRequestFulfilled(SeedOf(g))
  /\ CloseTo(g, ResultWinner(g, vrf[SeedOf(g)]), config.authority, FeeOf(g))
  /\ settled' = settled \union {SeedOf(g)}
  /\ UNCHANGED <<configVars, clockVars, vrf, created, gifts>>

\* Anyone may send it, a pause does not stop it, and the fee goes to whoever
\* is the authority by now.
Resolve(g) ==
  /\ config.layout = "current"
  /\ IsReady(g)
  /\ Oracle!IsRequestFulfilled(SeedOf(g))
  /\ PotFits(games[g].amount)
  /\ VaultCovers(g, 2 * games[g].amount)
  /\ escrow[games[g].mint][g] >= FeeOf(g)
  /\ CloseTo(g, ResultWinner(g, vrf[SeedOf(g)]), config.authority, FeeOf(g))
  /\ settled' = settled \union {SeedOf(g)}
  /\ UNCHANGED <<configVars, clockVars, vrf, created, gifts>>
----
(* cancel.rs *)

InitiateCancel(g, authority) ==
  /\ config.layout = "current"
  /\ authority = config.authority
  /\ IsOpen(g)
  /\ games' = [games EXCEPT
       ![g].cancel_after_slot = slot + AUTHORITY_CANCEL_DELAY_SLOTS]
  /\ UNCHANGED <<configVars, clockVars, vrf, purse, escrow, vaults, posted,
                 settled, created, gifts>>

\* A slip: a delay that was never started counts as over.
MayCancelUninitiated(g, signer) ==
  /\ signer \in {Creator(g), config.authority}
  /\ signer # Creator(g) => slot >= games[g].cancel_after_slot

\* Who may cancel an open game at this slot.
MayCancel(g, signer) ==
  /\ signer \in {Creator(g), config.authority}
  /\ signer # Creator(g) =>
       /\ games[g].cancel_after_slot > 0
       /\ slot >= games[g].cancel_after_slot

\* A slip: the stake goes to whoever cancels.
CancelToSigner(g, signer) ==
  /\ config.layout = "current"
  /\ IsOpen(g)
  /\ MayCancel(g, signer)
  /\ VaultCovers(g, games[g].amount)
  /\ CloseTo(g, signer, signer, 0)
  /\ UNCHANGED <<configVars, clockVars, vrf, settled, created, gifts>>

\* The refund goes to the creator, whoever signs.
Cancel(g, signer) ==
  /\ config.layout = "current"
  /\ IsOpen(g)
  /\ MayCancel(g, signer)
  /\ VaultCovers(g, games[g].amount)
  /\ CloseTo(g, Creator(g), Creator(g), 0)
  /\ UNCHANGED <<configVars, clockVars, vrf, settled, created, gifts>>
----
(* refund.rs *)

\* A slip: SlotHashLookup::Found passes as well.
RefundWhileFound(g) ==
  /\ config.layout = "current"
  /\ IsReady(g)
  /\ ~Oracle!IsRequestFulfilled(SeedOf(g))
  /\ LookupJoinSlotHash(games[g].join_slot) # "NotReady"
  /\ VaultCovers(g, 2 * games[g].amount)
  /\ CloseTo(g, Creator(g), games[g].joiner, games[g].amount)
  /\ UNCHANGED <<configVars, clockVars, vrf, settled, created, gifts>>

\* A slip: an answer that came late does not stop the refund.
RefundAnswered(g) ==
  /\ config.layout = "current"
  /\ IsReady(g)
  /\ LookupJoinSlotHash(games[g].join_slot) = "Expired"
  /\ VaultCovers(g, 2 * games[g].amount)
  /\ CloseTo(g, Creator(g), games[g].joiner, games[g].amount)
  /\ UNCHANGED <<configVars, clockVars, vrf, settled, created, gifts>>

\* Both stakes by saturating_mul, which unlike pot_fee does not fail.
SaturatedPot(amount) == IF PotFits(amount) THEN 2 * amount ELSE U64_MAX

\* Anyone may send it once the join slot has left SlotHashes unanswered.
RefundExpired(g) ==
  /\ config.layout = "current"
  /\ IsReady(g)
  /\ games[g].join_slot > 0
  /\ ~Oracle!IsRequestFulfilled(SeedOf(g))
  /\ LookupJoinSlotHash(games[g].join_slot) = "Expired"
  /\ VaultCovers(g, SaturatedPot(games[g].amount))
  /\ escrow[games[g].mint][g] >= games[g].amount
  /\ CloseTo(g, Creator(g), games[g].joiner, games[g].amount)
  /\ UNCHANGED <<configVars, clockVars, vrf, settled, created, gifts>>
----
(* Everyone else *)

Admin ==
  /\ AdminStep
  /\ UNCHANGED <<clockVars, vrf, games, purse, escrow, vaults, posted, settled,
                 created, gifts>>

Tick ==
  /\ AdvanceSlot
  /\ UNCHANGED <<configVars, vrf, games, purse, escrow, vaults, posted, settled,
                 created, gifts>>

\* The VRF program serves other clients, and its oracle answers.
VrfStep(seed) ==
  /\ Oracle!VrfRequest(seed) \/ Oracle!VrfFulfil(seed)
  /\ UNCHANGED <<configVars, clockVars, games, purse, escrow, vaults, posted,
                 settled, created, gifts>>

\* Someone opens a vault of a game address, live or not, before it is needed.
OpenVault(w, g, mint) ==
  /\ gifts < MaxGifts
  /\ <<g, mint>> \notin vaults
  /\ purse[NativeSol][w] >= VaultRent
  /\ purse' = Debit(purse, NativeSol, w, VaultRent)
  /\ vaults' = vaults \union {<<g, mint>>}
  /\ gifts' = gifts + 1
  /\ UNCHANGED <<configVars, clockVars, vrf, games, escrow, posted, settled, created>>

\* Someone sends a unit of a mint to a game address or to a vault of it.
Donate(w, g, mint) ==
  /\ gifts < MaxGifts
  /\ ~IsNativeSol(mint) => <<g, mint>> \in vaults
  /\ purse[mint][w] >= 1
  /\ purse' = Debit(purse, mint, w, 1)
  /\ escrow' = Credit(escrow, mint, g, 1)
  /\ gifts' = gifts + 1
  /\ UNCHANGED <<configVars, clockVars, vrf, games, vaults, posted, settled, created>>

Next ==
  \/ \E c \in Creators, n \in Nonces, x \in Stakes, s \in CreatorSides,
        e \in Entropies, m \in Mints, h \in HouseOnlyChoices :
       Create(c, n, x, s, e, m, h)
  \/ \E g \in Games, w \in Wallets, s \in Sides, e \in Entropies, x \in Stakes :
       Join(g, w, s, e, x)
  \/ \E g \in Games : Resolve(g)
  \/ \E g \in Games, w \in Wallets : InitiateCancel(g, w)
  \/ \E g \in Games, w \in Wallets : Cancel(g, w)
  \/ \E g \in Games : RefundExpired(g)
  \/ Admin
  \/ Tick
  \/ \E seed \in JoinableSeeds : VrfStep(seed)
  \/ \E w \in Wallets, g \in Games, m \in Tokens : OpenVault(w, g, m)
  \/ \E w \in Wallets, g \in Games, m \in Mints : Donate(w, g, m)

Spec == Init /\ [][Next]_vars
====
