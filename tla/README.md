# Coinflip: a TLA+ model of the program

The repository is an Anchor program for Solana: two players stake the same
amount on the two sides of a coin, a verifiable random function (VRF) decides,
the winner takes the pot less a fee. This directory holds a TLA+ model of it,
configurations that check the model with TLC, and theorems about it that TLAPS
checks.

## The system

Solana executes transactions one after another and each of them completely or
not at all. There are no threads; what is hard is that *which* transaction lands
next is up to anybody: players, the house, bystanders, the oracle. State lives
in accounts, which may be created, closed, and created again at the same
address.

| Component | State | Operations | Talks to |
| --- | --- | --- | --- |
| Game lifecycle: `create.rs`, `join.rs`, `resolve.rs`, `cancel.rs`, `refund.rs` | one `Game` account per creator and nonce (a PDA), its lamports, its token vault | `create`, `join`, `initiate_cancel`, `cancel`, `resolve`, `refund_expired` | configuration, VRF requests, clock and `SlotHashes`, wallets |
| VRF client: `vrf.rs` (and `mock-vrf/`) | one request account per seed, owned by the VRF program | `request_randomness`, `is_request_fulfilled`, `fulfilled_randomness`, `result_winner` | called by `join`, `resolve`, `refund_expired` |
| Slot hash lookup: `slot_hash.rs` | none (reads a sysvar) | `lookup_join_slot_hash` | called by `refund_expired` |
| Configuration: `initialize.rs`, `admin.rs` | the `Config` account, a `TokenConfig` per mint | `initialize`, six setters, `enable_token`, two migrations | read by everything else |
| Vaults: `token_utils.rs` | associated token accounts of games | create if needed, transfer in and out, close | called by the lifecycle |
| Fee arithmetic: `state.rs` | none | `pot_fee`, `trade_fee`, `max_swap_in_after_fee`, `min_swap_out_before_fee` | called by `resolve` and `trade.rs` |
| Participation: `participate.rs` | the joiner's token accounts, and the game as in `join` | `participate`: join, paying in another mint | configuration, exchange, everything `join` talks to |
| Trade: `trade.rs` | the trader's and the authority's token accounts | `buy_token`, `sell_token` | configuration, exchange |
| Swap: `swap.rs` | none | `swap_exact_out`, `swap_exact_in`, `split_hops` | called by `participate.rs` and `trade.rs`; calls the exchange (Raydium CLMM, external) |
| Dispatch: `lib.rs`, `errors.rs` | none | one entry point per instruction | all of the above |
| `scripts/`, `tests/` | none on chain | deployment, integration tests | |

What makes each of them correct, and what is hard about it:

* **Lifecycle.** Every stake that goes in comes out, to the right wallet, once.
  A match is fair. `cancel`, `join` and the house's delayed cancel race for an
  open game; the oracle's answer races with the refund; the fee, the authority
  and the pause change under games that are running; outsiders send dust to the
  accounts. An address that was closed may be used again, and what an earlier
  game left behind (a VRF request, a cancel delay) must not reach the later one.
  Matched games end even when the oracle never answers.
* **VRF client.** One randomness decides one game.
* **Slot hash lookup.** "Expired" means that the join slot has been in the list
  and has left it; slots without a block are missing from the list.
* **Configuration.** In whatever order setters and migrations run, games can be
  played under the result; a migration never undoes a setting.
* **Fees.** Rounding never makes a buyer pay more, or a seller get less, than
  they agreed to.
* **Swaps.** The program hands the signer's accounts to an exchange and finds
  out afterwards what it did. Balances are read before and after, SOL is wrapped
  into an account that may hold some already and closed as a whole, the second
  hop of a trade spends what it finds. A trader loses no more than he agreed to
  and the house earns no more than its 1%; `participate` must bring the exact
  stake into the game whatever the swaps did, at nobody's cost but the joiner's.
  Both choose pools from a configuration that changes under them.

PROJECT.json lists the hazards one by one, with the line where each bites and
the properties that would notice.

## The modules

| Module | Models | Extends |
| --- | --- | --- |
| `Fees` | the fee arithmetic of `state.rs` | |
| `FeesProps` | what it promises, amount by amount | `Fees` |
| `ConfigAdmin` | `initialize.rs`, `admin.rs`; runnable alone (`ConfigSpec`) | `Fees` |
| `SlotHash` | the clock, the `SlotHashes` sysvar and `slot_hash.rs` | |
| `Vrf` | `vrf.rs`, the VRF program it calls, and the mock | |
| `TokenUtils` | the transfers of `token_utils.rs`: books of balances, and the entries a transfer makes in them | |
| `Coinflip` | the lifecycle, composed with the four components above | `ConfigAdmin`, `SlotHash`, `TokenUtils`, instance of `Vrf` |
| `FlipEscrow` | the abstract specification: a deal is posted, matched, drawn, then awarded or unwound | |
| `CoinflipProps` | invariants, action properties, refinement, liveness | `Coinflip` |
| `Swap` | `swap.rs`, the exchange behind it, wrapping, and both rules for choosing pools | `ConfigAdmin`, `TokenUtils` |
| `Trade` | `trade.rs`, between steps of administration | `Swap` |
| `Participate` | `participate.rs`, added to the games | `CoinflipProps`, `Swap` |
| `MCCoinflip`, `MCFees`, `MCSlotHash`, `MCTrade`, `MCParticipate` | small instances for TLC | |
| `BasicProofs` | lemmas on fees, balances, sums over finite sets, and the newest members of a set of slots | `FeesProps`, `TokenUtils` |
| `HelperProofs` | theorems about `MCFees` and `MCSlotHash` | `BasicProofs` |
| `ConfigProofs` | theorems about `ConfigAdmin` | |
| `CoinflipProofs` | the invariant of the games | `ConfigProofs`, `BasicProofs` |
| `EscrowProofs` | stakes, payouts, the conservation of money, the ways out of a game, what a wallet can lose, the end of settleable games, the refinement of `FlipEscrow` | `CoinflipProofs` |
| `SwapProofs` | what a swap can do to the books, how the two rules for pools compare | `BasicProofs` |
| `TradeProofs`, `ParticipateProofs` | theorems about `Trade` and `Participate` | `SwapProofs`, and `ConfigProofs` or `EscrowProofs` |

### How state and actions correspond to the code

* `games[g]` is the account at the PDA of `g = <<creator, nonce>>`; status
  `"Closed"` means that no account exists there. `NewGame` is what `create`
  writes; the other statuses are those of `GameStatus`. `token_decimals`,
  `bump` and `nonce` carry no information for the model and are left out.
* `config` and `token_config[m]` are the accounts of `state.rs`. `layout` says
  whether the account exists and whether it has the current size; an instruction
  that takes it as a typed account requires `"current"`, the migrations read raw
  bytes and do not. An account of an earlier layout may hold anything in the fields
  it has (`LegacyConfigs`, `LegacyTokenConfigs`): any authority, a fee above the cap,
  any USDC mint and pool. Only of an *enabled* token is something assumed, namely
  that the `enable_token` of its time asked for a minimum, a pool and a known quote.
* `Wallets` are the keys but the default one, `Signers` those that somebody holds.
  `set_authority` accepts any of the former, an administrator has to be one of the
  latter. The games make no such difference: every key may act there, and one that
  nobody holds is one that never does.
* `purse[m][w]` is what wallet `w` holds of mint `m`. `escrow[m][g]` is the
  vault of `g` for a token `m`, and the lamports of the game account for native
  SOL, rent included. `vaults` says which vaults exist; one that exists holds
  `VaultRent` lamports. A wallet has one token account per mint and it is taken
  to exist when an instruction needs it, so its rent does not appear; the one of
  `WSOL_MINT` is a book of its own beside the wallet's lamports. Transaction fees and the fee of a VRF request leave the
  model's world and are left out.
* `vrf[s]` is the request account of seed `s`: missing, pending or an answer.
  The seed is a hash in the code and an injective triple here. `ResultBit` is
  the low bit of the hash in `result_winner`, an arbitrary function.
* `slot`, `slot_hashes` are the clock and the list of the newest `MAX_ENTRIES`
  produced slots before it.
* `posted`, `settled` are history variables for the properties (`settled` is what
  `FlipEscrow` calls `awarded`); `created`, `gifts` count towards the bounds
  `MaxCreates`, `MaxGifts`.
* Each instruction is one action (`Create`, `Join`, `Resolve`, `InitiateCancel`,
  `Cancel`, `RefundExpired`, `Participate`, `BuyToken`, `SellToken`, and in
  `ConfigAdmin` one for each administration instruction). Checks that come after
  a swap are conjuncts of the same action: when they fail, so does the swap. Its guard holds every check of its handler *and* of its account
  constraints; `close = ...` of the accounts struct and the vault's closing are
  part of the action (`CloseTo`). A check that fails disables the action, as a
  failed transaction leaves nothing behind.
* Guards that compare the address of an account passed by the caller with the
  one the program derives are left out: the model never passes another one.
* A `Hop` is what the remaining accounts of one swap amount to: a pool, the mint
  that goes in, the mint that comes out, and the owner of the account it goes to.
  `trade.rs` compares the ends of its hops with the trader's accounts
  (`require_hop_atas`), so `Trade` has only the middle mint to choose;
  `participate.rs` compares the pool and nothing else, so `HopLists` has every
  direction and every wallet as a receiver.
* `SwapExactOut` and `SwapExactIn` are the sets of books that the exchange can
  leave. It is external, and known by what the program relies on: it swaps the
  two mints of the pool it is called for, takes only from the signer, asks for no
  more than the maximum and gives no less than the minimum. An exact output may
  fall short, because a mint may keep a transfer fee.
* `Wrap` and `Unwrap` are the transfer with `sync_native` and the `close_account`
  of the WSOL account, which turns into lamports all that is in it.
* `Tick`, `VrfStep`, `OpenVault` and `Donate` are the outside world: the
  runtime, the VRF program and its oracle, and bystanders.

Definitions commented "A slip:" are deliberately wrong variants of the
definition below them. No specification uses them; PROJECT.json pairs each with
the property that tells it from the code.

## The runs

All runs are exhaustive. Where a configuration says `CHECK_DEADLOCK FALSE`, the
bounds on slots and creates, or the last amount of `MCFees`, end behaviours that
in the program go on; in `ConfigAdmin` administration really ends when the
authority is a key nobody holds. `MCTrade` checks for deadlock.

| Run | Question | Instance |
| --- | --- | --- |
| `MCRaces` | Does one game survive every order of joins, cancels, announcements, answers, settlements, slots and changes of authority, fee and pause, and does a settlement that is possible stay so? | SOL, house-only or not, three wallets, six slots, window of two, cancel delay of two, the authority handed to another wallet, the fee raised |
| `MCReuse` | Does anything of a closed game reach the next one at its address? | two creates at one address, one joiner entropy so that the VRF seed recurs, eight slots |
| `MCToken` | Are token escrow and supply exact at the limit of u64, with gifts, and does anything but a lost draw cost a player? | a token whose whole supply is `U64_MAX` = 400, stakes 100 and 300, two gifts (dust, or a vault opened beforehand) |
| `MCMock` | When requests are answered at once, and with two games at a time: does each implement `FlipEscrow`, and can one game cost somebody what is in the other? | two nonces, `InstantVrf`, one gift |
| `MCLive` | Does every matched game end, and does every slot bring it nearer to that? | two creates, slots that may be skipped, pause and silent oracle allowed |
| `ConfigAdmin` | Can administration reach a configuration that games cannot be played under? | from nothing and from every earlier layout with any contents, good and bad arguments, three keys of which one is held by nobody |
| `ConfigAdminNoCap` | Does a SOL maximum of 0 stay until one is set, as the README of the program says? | violated, see Findings |
| `MCSlotHash` | Does the lookup tell the age of a join slot? | list of three, twelve slots, up to two skipped in a row |
| `MCFees` | Does rounding ever go against a promise? | every amount from 0 to 1500 |
| `MCTrade` | Can a trade cost more than agreed, or earn the house more than 1%? | two trades by a customer, or by the house once it is his, in tokens quoted in SOL, in USDC, and in USDC without crossing; some SOL already wrapped, some of the tokens already held; USDC mint, pool, authority and pause changing |
| `TradeMaxPay` | Is `max_pay` all a buyer spends, as `trade.rs` says? | the same instance with one trade; violated, see Findings |
| `MCParticipate` | Do swaps before a join disturb the game, or cost anybody else? | a game in SOL, USDC or either stock token, joined in every mint the configuration admits, all hops a client may pass, before and after a change of USDC |

Why the bounds are enough. Settlement touches one game and two or three wallets,
so one game, a creator, a joiner and the house show every race; two games show
that they do not touch each other; two creates at an address show what a first
game can leave to a second, since `CloseTo` leaves nothing but VRF accounts and
gifts, and more creates would meet the same kinds of leftovers. The slot bounds
leave room for: join, the window passing, expiry, and for an announcement, its
delay, a cancel and a new create. `MAX_ENTRIES` (512 on chain) and
`AUTHORITY_CANCEL_DELAY_SLOTS` (32) are scaled down; only their order against
other slots matters. The 1% fees round in the same way every 99 or 100 units, so
1500 amounts see every case; the theorems of `HelperProofs` cover all amounts.
A trade depends on earlier ones only through the trader's balances, so two of
them, one leaving wrapped SOL, tokens or the intermediate mint to the other, show
what a sequence can do. `SwapAmounts` holds amounts below, at and above what the
program passes as a limit, so that the exchange is seen to take less, all, and to
be refused. In `MCParticipate` the joiner has too little of some mints and enough
of others; slots are few because the swaps are over when the game is matched.

What the properties say:

* `TypeOK`: shapes; no balance is ever negative.
* `EscrowIsExact`: a game's accounts hold the stakes that are in plus rent plus
  at most what was given to them; a live token game has its vault.
* `MoneyIsConserved`: the sum over all accounts of each mint never changes.
* `PotNeverOverflows`: the pot of a matched game fits in a u64 although neither
  `create` nor `join` checks it, because the supply does.
* `ReadyGameIsFair`, `OneGamePerRandomness`, `AuthorityCancelIsDelayed`: as
  above; the last is relative to the create of *this* game (`posted`).
* `FundsAreNeverStuck`: in every state, some settling instruction is enabled for
  every open game, every answered one and every expired one; paused or not.
* `WinnerTakesPot`, `UnwindMakesWhole`, `OracleHasItsWindow`: what any step that
  closes a game must have done, stated without naming the instruction. The fee is
  the one of the create and goes to the authority of the settlement, exactly once,
  and nobody but those two gains anything, also when they are one wallet.
* `OnlyDrawsCost`: no wallet ever becomes poorer, in any mint, but by a draw it
  loses or a gift it makes. What it is worth (`Worth`) is what it holds and what
  games owe it as things stand (`Due`): his stake to each player until the draw, the
  pot less the fee of the create to the winner after it, and the rents to the
  creator, or to the winner, who inherits them from him. So a create and a join cost
  nothing, a cancel and a refund give back all that was due, a change of fee
  or authority takes nothing from running games, and the price of a lost draw
  is exactly one stake (and the creator's rents). `OnlyDrawsAndOwnSwapsCost` is the
  same over `participate`: swaps may cost the one who joins by them, and nobody else.
* `SettlementStaysOpen`: once `resolve` or `refund_expired` would take a match
  (`IsSettleable`), nothing puts that off until the match is closed. A late answer
  turns one way out into the other.
* `EverySlotCounts`: each slot makes a waiting match settleable or takes one of at
  most `MAX_ENTRIES` slots from its wait, skipped slots or not.
* `RefinesFlipEscrow`: the program implements `FlipEscrow` under the mapping
  `DealAt`: no verdict before both stakes are in, a draw decides one deal, a drawn
  verdict neither changes nor gets unwound, the terms are those of the create.
* `ReadyGamesEnd`: liveness.
* `CurrentConfigIsComplete`, `EnabledTokensAreUsable`: whatever order administration
  runs in, and whatever the legacy accounts held, a config that decodes has an
  authority other than the default key, a VRF program and two limits, and an
  enabled token all that a game in it needs. Not that somebody holds the
  authority's key, nor that a fee set before there was a cap is within it.
* `SolLimitsStayOrdered`: no setter and no later migration puts the SOL minimum
  above the maximum. The first migration can.
* `SettingsChangeOnlyBySetters`: every change of the configuration is signed by the
  authority of the moment, and what has been set (authority, pause, fee, USDC mint
  and its pool, limits, VRF program, tokens) becomes another only by the instruction
  that sets it, never by a migration or by the setting of something else. Limits
  and VRF program count as set when they are not zero.
* `LookupTellsAge`, `LookupOnlyMovesOn`: not ready, found and expired are the
  true age of a join slot counted in blocks, and only follow each other.
* `BuyerOutlayIsBounded`, `SellerIsPaid`: what a trade may cost its trader, SOL
  counted wrapped or not, since a trade may turn one into the other. Beside the
  mint he pays in, a buyer can lose only of the mint two pools have in common
  (`Crossed`), and that only when his token is not quoted in what he pays.
* `HouseEarnsOnePercent`: the authority of the moment earns at most 1% of what
  the swap moved and nobody else is touched. A house that trades itself pays
  itself.
* `RoutesCompare`: `trade_pools` and `allowed_pools` are separate code for one
  question, and the property says where their answers are the same and where not.
  A sale goes the way of a purchase back. For a tradable token whose quote is SOL or
  the USDC of the moment, and which is not `cross_disabled`, both accept the same
  mints and choose the same pools. A `cross_disabled` token can be bought with its
  quote, and a stake of it never swapped for. A token quoted in a former USDC cannot
  be bought at all; its stake can be swapped for with that former USDC, and with
  nothing else, unless it is `cross_disabled`.
* `ParticipantOutlayIsBounded`: a match costs nobody but the joiner; and him, of each
  mint, at most `OutlayLimit`, provided that the hops he sent lead to his stake by way
  of his own accounts (`LeadToStake`), which is what the program does not check. The
  limit is `max_pay` for the mint he pays in; the stake for the game's mint, from
  which the handler takes it whatever the hops delivered; all he had of the mint
  between two hops, since the second may spend the whole account
  (`participate.rs:201`); and zero for every other mint.

Fairness (`FairSpec`): slots go on being produced (`SlotsGoOn`), and `resolve` and
`refund_expired` are sent eventually if they stay possible (`IsSettledFairly`). Both take no
particular signer and the winner has an interest in the first, each player in the
second.
Nothing is assumed of the oracle, the players or the house. `LastJoinSlot` keeps
a game from being joined so late that the bound on slots, and not the program,
keeps it from expiring.

## Findings

1. `README.md:22` of the repository: "`0` means no cap (until you set one after
   migrate)". `init_new_config_fields` (`admin.rs:283`) writes
   `DEFAULT_SOL_MAX_AMOUNT` into a maximum of zero, so after `migrate_config`
   there is a cap that nobody set. Run `ConfigAdminNoCap` shows it.
2. `trade.rs:90`: "`max_pay` is the max total spend **including** the 1% protocol
   fee." In a purchase by two hops the second may spend the whole balance of the
   intermediate account (`trade.rs:187`), tokens from before the trade included,
   and nothing looks at that account afterwards. Run `TradeMaxPay` shows a buyer
   who also parts with what he had of the mint in the middle. `BuyerOutlayIsBounded` is
   what does hold: `max_pay` bounds what he pays in the mint he pays in, and the mint
   in the middle is the only other one he can lose of. It is proved.

What a reader of the code may also want to know, none of it contrary to a
document:

* After `set_sol_usdc_pool` names another USDC, a token quoted in the old one can
  no longer be bought or sold (`trade_pools` compares with the current USDC), but
  a game in it can still be joined by paying in the old one (`allowed_pools` does
  not compare). `QuoteIsCurrent` in `RoutesCompare` is there for this.
* A token marked `cross_disabled` can still be bought and sold with its quote mint,
  since `trade_pools` returns the direct pool (`trade.rs:441`) before it looks at the
  mark; `allowed_pools` (`participate.rs:232`) refuses every swap for it, the direct
  one too.
* `max_pay` of `participate` bounds what the joiner pays in the mint he pays in.
  As in a purchase, the second of two hops may spend all he has of the mint in the
  middle (`participate.rs:201`).
* `set_authority` accepts every key but the default one, also one that nobody holds;
  after that the configuration is as it is for ever.
* `migrate_config` keeps the fee it finds. One above the cap, written before there
  was one, makes `create` fail (`create.rs:62`) until `set_fee_bps` is called. A
  minimum above the default maximum stays as well, and no house-only SOL game can
  be created until `set_sol_max_amount` is called.
* A game whose stake is the WSOL token cannot be joined by a swap: the swap's
  proceeds are unwrapped before the stake is to be paid from that account.
* What a swap for a token leaves of the wrapped `max_pay` lamports stays wrapped.
* The maximum of a token, which `README.md:20` gives as a limit of "House-only
  creates only", binds trades too (`trade.rs:410`).
* Nothing rejects a mint with a transfer fee; vaults are modelled without one.

## What is proved

TLAPS checks these for every value of the constants that satisfies the
assumptions `ConfigAssumption`, `SlotHashAssumption`, `U64Assumption`,
`CoinflipAssumption`, `SwapAssumption`, `TradeAssumption` and
`ParticipateAssumption`, which TLC evaluates on the runs: any number of
wallets, games, tokens, pools and slots, any delay, any window, any amounts. Two
more concern money: `FiniteLedger`, that there are finitely many wallets and nonces
(a key has 32 bytes, a nonce is a u64), so that balances have a sum; and
`SupplyAssumption`, that the supply of a mint is a u64, as the token program and the
runtime keep it.

**Configuration** (`ConfigProofs`). `ConfigStaysComplete`,
`EnabledTokensStayUsable`, `SolLimitsKeepOrder` and `SettingsStaySet` prove
the four properties of the run, of `AuthorityChoices` only that they are keys.
The two invariants are not inductive: a legacy
account becomes current by a migration that looks only at the fields it adds, so
the invariant `AccountsIInv` says of accounts of every layout what the properties
say of current ones (`EnabledTokensAreSound`), and `NothingIsQuoted` that there is no USDC mint before
there is a config. That a migrated authority is not the default key follows
from the migration's own signature. For `SettingsStaySet` each call is split by what it can
change (`SettersSetOneThing`, `OthersSetNoSetting`).

**Games** (`CoinflipProofs`). `Inductive` is `Spec => []IInv`; from it `TypeCorrect`
(that debits never go below zero is in it), `FairMatches`, `RandomnessIsUsedOnce`
and `HouseCancelsLate`. None of these invariants is inductive alone. `IInv` adds
`ConfigIsCurrent` (the configuration decodes and its authority is a wallet that
can be paid, which needs that no setter accepts the default key),
`OpenGameIsPosted` (an open game keeps the entropy that `create` required, which
the later `join` relies on), `CancelDelayIsFresh` (a started delay is counted
from after this game's create; `create` writes 0, only `initiate_cancel` writes
something else, and the clock does not go back), and `SettledAreAnswered` (a
randomness that settled a game has been given and stays; `request_randomness`
refuses an answered request, so a new match cannot have a seed in `settled`).
There is one lemma for each action; the three that close a game share
`ClosePreserves`, those that touch no game share `GamesUntouched`, and `join` and
`participate` share `MatchPreserves`.

**Stakes and payouts** (`EscrowProofs`).

* `EscrowStaysExact`: a create finds only gifts at its address, a match brings
  exactly the stake it matches (`MatchIsExact`, for `join` and `participate`), a
  close empties the account and the vault.
* `WinnerAlwaysTakesPot`, `UnwindAlwaysMakesWhole`: only three instructions close a
  game (`ClosingSteps`); `EscrowIsExact` says what is there to pay from, and
  `CloseGains` what each wallet gains when several of the receivers are one wallet.
* `OracleAlwaysHasItsWindow`: a refund of a match means that the join slot has
  left the list.
* `MoneyIsAlwaysConserved`: `HeldOf(m)` is invariant, by `BooksStayBalanced`, one step
  per action. The sums are `SumFunction` of the community modules; `SumIsTally` reads
  them as the last entry of a function over the parts of the set, which exists
  (`TallyExists`), and from `SumChange` (a sum
  changes by what one entry changes) follow `CreditTotal` and `DebitTotal`. The
  library's induction theorems cannot be used, but its well-founded orders can: a
  set of numbers, or of parts of a finite set, that is closed under the step has no
  least member outside it (`NumbersFromZero`, `PartsFromSmaller`).
* `PotAlwaysFits`: a matched game holds its pot (`EscrowIsExact`), what one account holds
  is at most the sum (`SumBounds`), the sum is the supply, and that is a u64. It is the
  whole reason why the unchecked pot of `create` and `join` never makes `resolve` fail.
* `EveryGameCanAlwaysEnd`: `FundsAreNeverStuck` without `ENABLED`. `CancelAsks`,
  `ResolveAsks` and `RefundAsks` are what the three instructions require of the state,
  and `NothingElseIsAsked` shows that the rest of each action only gives every variable
  its next value. All of them hold in every state in which they should; the vault's
  checks by `EscrowIsExact`, the pot's by `PotAlwaysFits`, the authority's and the
  layout's by `ConfigIsCurrent`, and nothing asks about the pause.
* `SettlementAlwaysStaysOpen`, `EverySlotIsCounted`: an answer stays (`AnswersStay`), an
  expired slot stays expired (`ExpiryIsFinal`), and the part of the list that is newer
  than a match grows with every slot until it is the whole list (`SlotIsCounted`).
  With `EveryGameCanAlwaysEnd` these are the safety part of `ReadyGamesEnd`: a match is
  settleable after at most `MAX_ENTRIES` slots and one more, then stays so, and the
  instruction that settles it passes its checks.
* `OnlyLostDrawsCost`: `DuesAreTabled` gives what a game owes to whom, in closed form,
  for each stage of a game; it follows from the types and from the bounds on
  `pot_fee`. A step moves the dues of one game (`OtherDuesKept`), so a wallet's worth
  changes by what its purse gains and what that game owes it more or less
  (`WorthMoves`, again by `SumChange`). Then one lemma for each action: a create, a
  gift and a close leave everybody at least what was due (`GainIsExplained`,
  `CloseIsExplained`, which needs `CloseGains` and `EscrowIsExact`), a join and an
  answer can draw (`MatchIsExplained`, one lemma for the oracle and for the mock).
* `SettleableGamesAlwaysEnd`: from `FairSpec` and `[]FundsAreNeverStuck`, a match that
  can be settled is settled. It is proved with the weak fairness of the
  specification: a drawn match stays drawn until it is closed, one that
  expired stays refundable until it is drawn (`WaysOutStay`, from
  `NextKeepsSettlement`), and either instruction closes it (`SettlingEnds`). The
  hypothesis is there because `ENABLED` cannot be proved; it is the invariant
  of run `MCToken`, and `EveryGameCanAlwaysEnd` proves its content guard by guard.
* `GamesImplementFlipEscrow`: the initial states map to initial states, and each
  step to the step of `FlipEscrow` of its kind or to none.

They need a second invariant, `DealInv`: `FeeIsPosted` (the fee at settlement is
the one of the create), `FeeIsChosen` (a new deal's fee is one `FlipEscrow`
allows), `JoinIsListed` (the join slot is now, in the list, or pushed out of a full
list, so that "not in the list" is as good as "expired") and `InstantNeverPends`
(under the mock no request waits, so that a match and its draw are one step).

**Helpers** (`HelperProofs`). At every amount the four fee properties hold
(`BuyersStayWithinMaxPay`, `SellersGetMinOut`, `SellerFloorsStayTight`,
`FlipFeesStayBounded`), from one lemma on truncating division. The lookup tells
the age of a slot (`LookupAlwaysTellsAge`) and never moves back
(`LookupNeverMovesBack`): the list is always a newest part of the past
(`ListIsNewest`), and a newest part of a finite set is told by its size, the
pigeonhole lemmas of `BasicProofs`.

**Trades** (`TradeProofs`). `TradesTypeCorrect`, `BuyersOutlayStaysBounded`,
`SellersArePaid`, `HouseEarnsNoMore`, `RoutesStayCompared`, from the invariant
`TradeIInv` (`TradeTypeOK` and `ConfigIsCurrent`, without which there may be
nobody to receive the fee). `SwapProofs` says once what a swap can do to the books
(`Moved`); a trade is then followed through wrapping, one or two swaps, the fee
and the closing of the WSOL account. That a buyer loses of no other mint but the
one in the middle needs that both hops connect the mints of their pools
(`HopOutMints`, `OnlyMiddleShrinks`). `RoutesStayCompared` goes through the cases of
both rules (`RoutesAlwaysCompare`); it is about the rules alone and holds whatever a
configuration contains.

**Participation** (`ParticipateProofs`). With `participate` among the steps, what
holds of the games holds still: `SwapsKeepTypes`, `SwapsBringExactStakes`,
`SwappedMatchesAreFair`, `SwapsReuseNoRandomness`, `SwapsLetHouseCancelLate`,
`SwappedPotsGoToWinners`, `SwappedStakesComeBack`, `SwappedMatchesWaitForOracle`,
`SwapsKeepSettlementsOpen`, `SwapsLetEverySlotCount` and
`SwappedGamesImplementFlipEscrow`; and `JoinersOutlayStaysBounded`,
`OnlyLostDrawsAndOwnSwapsCost`. The argument is
`ParticipateEffect`: whatever books the swaps leave, they are books, and only the
joiner's balances have gone down; from there the handler is a join, and
`OnlyGamesSettle` says that it closes nothing. `OthersKeepTheirWorth` adds that
whoever looks on keeps what he has and what games owe him; hops that pay out to
him by mistake only make a draw cheaper that he loses in the same transaction,
whence "at most" in `LosesAtMostStake`. For `JoinersOutlayStaysBounded` the
costs of the hops are added up mint by mint (`HopsCost`). `MoneyIsConserved` and
`PotNeverOverflows` are not stated of this specification, in which the balances of
the pools are not part of the books; `SwappedGamesCanEnd` is therefore about games
whose pot fits in a u64.

Only model-checked: `FundsAreNeverStuck` as it stands, because of `ENABLED`, and
`ReadyGamesEnd`. The latter splits into a match becoming settleable, by an induction
over the slots of its wait that temporal provers cannot do and that in the model needs
the bounds on slots (`EverySlotCounts` is its step), and a settleable match ending,
which is `SettleableGamesAlwaysEnd`.
Outside the theorems are also the two properties that the code violates
(`NoCapUntilSet`, `MaxPayIsTotalSpend`).

## Not modelled, and why

* The exchange, its prices and its liquidity: external. What the program relies on
  is in `Swap`; that a real exchange keeps to it is not shown.
* The layout of bytes in accounts, PDA derivation, hashing: abstracted to records
  and injective tuples.
* Token-program variants, decimals, transfer fees into vaults, account
  substitution: the model passes the accounts the program asks for, and vaults
  receive what is sent to them. For this `token_utils.rs` counts as partly
  modelled.
* Error codes: a failing instruction is a disabled action, so `errors.rs` has no
  counterpart.
* The rent of wallets' own token accounts, transaction fees, the oracle's fee.
* `scripts/`: one-shot off-chain I/O around instructions that are modelled.
* `tests/`: no state of their own.

## Plan

1. Done: `Fees`, `SlotHash`, `Vrf`, `ConfigAdmin`, `Coinflip`, `FlipEscrow`, their
   runs; the inductive invariant, the exact escrow.
2. Done: `Swap`, `Trade`, `Participate` and their runs; `Participate` composed with
   the games and shown to implement `FlipEscrow`.
3. Done: proofs of the configuration, the payouts, the refinement, the lookup, the
   trades and the participation; of the sums behind `MoneyIsConserved`, the pot that
   fits, the ways out of a game and how long they take to open; of what a wallet can
   lose, with `participate` and without; of the end of settleable games under fairness.
4. Left: a vault that receives less than is sent (mints with a transfer fee), once
   the program takes a position on them; the balances of the exchange's pools in the
   books, so that money can be shown to be conserved over `participate` too.
