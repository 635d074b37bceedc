---- MODULE CoinflipProofs ----
(***************************************************************************)
(* Theorems about the games of Coinflip, for every value of the constants. *)
(***************************************************************************)
EXTENDS CoinflipProps, ConfigProofs, BasicProofs, TLAPS
----
(* The inductive invariant *)

\* An open game keeps what its create checked.
OpenGameIsPosted ==
  \A g \in Games : IsOpen(g) => games[g].creator_entropy # ZeroEntropy

\* A randomness that settled a game has been given and stays given.
SettledAreAnswered ==
  \A s \in settled : vrf[s] \in Randomness

\* The delay an open game shows was started after its own create.
CancelDelayIsFresh ==
  \A g \in Games : IsOpen(g) =>
    /\ posted[g].slot <= slot
    /\ games[g].cancel_after_slot > 0
         => games[g].cancel_after_slot >= posted[g].slot + AUTHORITY_CANCEL_DELAY_SLOTS

\* The strengthening under which every step preserves every conjunct.
IInv ==
  /\ TypeOK
  /\ ConfigIsCurrent
  /\ OpenGameIsPosted
  /\ CancelDelayIsFresh
  /\ ReadyGameIsFair
  /\ SettledAreAnswered
  /\ OneGamePerRandomness

LEMMA CreatorIsWallet ==
  ASSUME NEW g \in Games
  PROVE  Creator(g) \in Wallets
  BY CoinflipAssumption DEF Games, Creator

LEMMA NativeSolIsMint == NativeSol \in Mints
  BY DEF Mints

\* The joiner of a matched game can be paid, and its seed is one of the model.
LEMMA ReadySeed ==
  ASSUME IInv, NEW g \in Games, IsReady(g)
  PROVE  /\ games[g].joiner \in Wallets
         /\ SeedOf(g) \in Seeds
<1>1. games[g] \in GameAccounts /\ games[g].joiner \in Wallets
  BY DEF IInv, TypeOK, ReadyGameIsFair
<1>2. games[g].joiner_entropy \in Entropies
  BY <1>1 DEF GameAccounts
<1> QED BY <1>1, <1>2 DEF SeedOf, Seeds

\* A request gives its seed an account, and takes nothing from the others.
LEMMA RequestKeeps ==
  ASSUME TypeOK, NEW s \in Seeds,
         Oracle!RequestRandomness(s) \/ Oracle!VrfRequest(s) \/ Oracle!VrfFulfil(s)
  PROVE  /\ Oracle!VrfTypeOK'
         /\ vrf'[s] # "None"
         /\ \A t \in Seeds : vrf[t] # "None" => vrf'[t] # "None"
         /\ \A t \in Seeds : vrf[t] \in Randomness => vrf'[t] = vrf[t]
<1> USE CoinflipAssumption DEF TypeOK, Oracle!VrfTypeOK
<1>1. CASE Oracle!RequestRandomness(s)
  BY <1>1 DEF Oracle!RequestRandomness, Oracle!RequestAnswers
<1>2. CASE Oracle!VrfRequest(s)
  BY <1>2 DEF Oracle!VrfRequest, Oracle!RequestAnswers
<1>3. CASE Oracle!VrfFulfil(s)
  BY <1>3 DEF Oracle!VrfFulfil
<1> QED BY <1>1, <1>2, <1>3
----
(* Initial states *)

LEMMA GamesInitIInv ==
  ASSUME GamesInit, ConfigTypeOK, ConfigIsCurrent
  PROVE  IInv
<1> USE CoinflipAssumption, ConfigAssumption, U64Assumption, SlotHashAssumption
    DEF GamesInit
<1>1. ClockTypeOK
  BY DEF SlotInit, ClockTypeOK
<1>2. Oracle!VrfTypeOK
  BY DEF Oracle!VrfInit, Oracle!VrfTypeOK
<1>3. games \in [Games -> GameAccounts]
  BY NativeSolIsMint DEF NoGame, GameAccounts, Sides, U64, MAX_FEE_BPS
<1>4. purse \in [Mints -> [Wallets -> Nat]]
  BY DEF U64
<1>5. posted \in [Games -> [slot : Nat, fee_bps : 0 .. MAX_FEE_BPS]]
  BY DEF NoPost, MAX_FEE_BPS
<1>6. TypeOK
  BY <1>1, <1>2, <1>3, <1>4, <1>5 DEF TypeOK
<1>7. /\ OpenGameIsPosted /\ CancelDelayIsFresh
      /\ ReadyGameIsFair /\ OneGamePerRandomness
  BY DEF OpenGameIsPosted, CancelDelayIsFresh, ReadyGameIsFair, OneGamePerRandomness,
         IsOpen, IsReady, NoGame
<1> QED BY <1>6, <1>7 DEF IInv, SettledAreAnswered

LEMMA InitIInv ==
  ASSUME Init
  PROVE  IInv
<1> USE CoinflipAssumption, ConfigAssumption, U64Assumption
<1>1. GamesInit
  BY DEF Init
<1>2. config =
       [layout |-> "current", authority |-> InitialAuthority,
        fee_bps |-> DEFAULT_FEE_BPS, paused |-> FALSE, usdc_mint |-> DefaultKey,
        sol_usdc_pool |-> DefaultKey, sol_min_amount |-> DEFAULT_SOL_MIN_AMOUNT,
        vrf_program |-> ORAO_VRF_ID, sol_max_amount |-> DEFAULT_SOL_MAX_AMOUNT]
  BY DEF Init, InitialConfig, NoConfig
<1>3. DEFAULT_FEE_BPS \in Nat
  BY DEF DEFAULT_FEE_BPS
<1>4. config \in ConfigAccounts /\ ConfigIsCurrent
  BY <1>2, <1>3 DEF ConfigAccounts, Layouts, ConfigIsCurrent
<1>5. ConfigTypeOK
  BY <1>4 DEF ConfigTypeOK, Init
<1> QED BY <1>1, <1>4, <1>5, GamesInitIInv
----
(* Closing a game *)

\* Closing keeps every account well formed when the cut is covered.
LEMMA CloseToTypes ==
  ASSUME TypeOK, NEW g \in Games, NEW heir \in Wallets, NEW payee \in Wallets,
         NEW cut \in Nat, cut <= escrow[games[g].mint][g],
         CloseTo(g, heir, payee, cut)
  PROVE  /\ games' = [games EXCEPT ![g] = NoGame]
         /\ games' \in [Games -> GameAccounts]
         /\ posted' \in [Games -> [slot : Nat, fee_bps : 0 .. MAX_FEE_BPS]]
         /\ purse' \in [Mints -> [Wallets -> Nat]]
         /\ escrow' \in [Mints -> [Games -> Nat]]
         /\ vaults' \subseteq Games \X Tokens
<1> DEFINE mint == games[g].mint
           once == Credit(purse, mint, payee, cut)
           paid == Credit(once, mint, heir, escrow[mint][g] - cut)
           all  == Credit(paid, NativeSol, heir, escrow[NativeSol][g] + VaultRent)
<1>1. mint \in Mints
  BY DEF TypeOK, GameAccounts
<1>2. /\ escrow[mint][g] - cut \in Nat
      /\ escrow[NativeSol][g] + VaultRent \in Nat
  BY <1>1, NativeSolIsMint, CoinflipAssumption DEF TypeOK
<1>3. purse \in Books(Mints, Wallets)
  BY DEF TypeOK, Books
<1> HIDE DEF mint
<1>4. once \in Books(Mints, Wallets)
  BY <1>1, <1>3, CreditBook
<1>5. paid \in Books(Mints, Wallets)
  BY <1>1, <1>2, <1>4, CreditBook
<1>6. all \in Books(Mints, Wallets)
  BY <1>2, <1>5, NativeSolIsMint, CreditBook
<1>7. purse' = IF IsNativeSol(mint) THEN paid ELSE all
  BY DEF CloseTo, mint
<1>8. purse' \in [Mints -> [Wallets -> Nat]]
  BY <1>5, <1>6, <1>7 DEF Books
<1>9. NoGame \in GameAccounts
  BY NativeSolIsMint, CoinflipAssumption, U64Assumption
  DEF NoGame, GameAccounts, Sides, U64, MAX_FEE_BPS
<1>10. NoPost \in [slot : Nat, fee_bps : 0 .. MAX_FEE_BPS]
  BY DEF NoPost, MAX_FEE_BPS
<1>11. escrow' \in [Mints -> [Games -> Nat]]
  BY <1>1 DEF CloseTo, TypeOK, mint
<1> QED BY <1>8, <1>9, <1>10, <1>11 DEF CloseTo, TypeOK

\* What other steps leave alone stays well formed.
LEMMA FrameTypes ==
  ASSUME TypeOK, UNCHANGED <<configVars, clockVars>>
  PROVE  ConfigTypeOK' /\ ClockTypeOK'
  BY DEF TypeOK, configVars, clockVars, ConfigTypeOK, ClockTypeOK

\* The invariant survives a game's end, with its randomness used or not.
LEMMA ClosePreserves ==
  ASSUME IInv, NEW g \in Games, NEW heir \in Wallets, NEW payee \in Wallets,
         NEW cut \in Nat, cut <= escrow[games[g].mint][g],
         CloseTo(g, heir, payee, cut),
         UNCHANGED <<configVars, clockVars, vrf, created, gifts>>,
         \/ settled' = settled
         \/ /\ IsReady(g)
            /\ vrf[SeedOf(g)] \in Randomness
            /\ settled' = settled \union {SeedOf(g)}
  PROVE  IInv'
<1>1. TypeOK
  BY DEF IInv
<1>2. /\ games' = [games EXCEPT ![g] = NoGame]
      /\ games' \in [Games -> GameAccounts]
      /\ posted' \in [Games -> [slot : Nat, fee_bps : 0 .. MAX_FEE_BPS]]
      /\ purse' \in [Mints -> [Wallets -> Nat]]
      /\ escrow' \in [Mints -> [Games -> Nat]]
      /\ vaults' \subseteq Games \X Tokens
      /\ posted' = [posted EXCEPT ![g] = NoPost]
  BY <1>1, CloseToTypes DEF CloseTo
<1>3. settled' \subseteq Seeds /\ \A s \in settled' : vrf[s] \in Randomness
  BY <1>1, ReadySeed DEF IInv, TypeOK, SettledAreAnswered
<1>4. ConfigTypeOK' /\ ClockTypeOK' /\ Oracle!VrfTypeOK'
  BY <1>1, FrameTypes DEF TypeOK, Oracle!VrfTypeOK
<1>5. TypeOK'
  BY <1>1, <1>2, <1>3, <1>4 DEF TypeOK
<1>6. \A h \in Games : games'[h] = IF h = g THEN NoGame ELSE games[h]
  BY <1>1, <1>2 DEF TypeOK
<1>7. ConfigIsCurrent' /\ OpenGameIsPosted'
  BY <1>6 DEF IInv, ConfigIsCurrent, OpenGameIsPosted, configVars, IsOpen, NoGame
<1>13. CancelDelayIsFresh'
  <2> SUFFICES ASSUME NEW h \in Games, IsOpen(h)'
               PROVE  h # g /\ IsOpen(h) /\ games'[h] = games[h] /\ posted'[h] = posted[h]
    BY DEF IInv, CancelDelayIsFresh, clockVars
  <2> QED BY <1>1, <1>2, <1>6 DEF IsOpen, NoGame, TypeOK
<1>8. \A h \in Games : IsReady(h)' =>
        /\ h # g /\ IsReady(h) /\ games'[h] = games[h] /\ SeedOf(h)' = SeedOf(h)
  BY <1>6 DEF IsReady, NoGame, SeedOf
<1>9. ReadyGameIsFair'
  BY <1>8 DEF IInv, ReadyGameIsFair, clockVars
<1>10. SettledAreAnswered'
  BY <1>3 DEF SettledAreAnswered
<1>11. \A h \in Games : h # g => SeedOf(h) # SeedOf(g)
  BY DEF SeedOf
<1>12. OneGamePerRandomness'
  BY <1>8, <1>11 DEF IInv, OneGamePerRandomness
<1> QED BY <1>5, <1>7, <1>13, <1>9, <1>10, <1>12 DEF IInv

LEMMA ResolvePreserves ==
  ASSUME IInv, NEW g \in Games, Resolve(g)
  PROVE  IInv'
<1>1. IsReady(g) /\ vrf[SeedOf(g)] \in Randomness
  BY DEF Resolve, Oracle!IsRequestFulfilled
<1>2. games[g] \in GameAccounts
  BY DEF IInv, TypeOK
<1>3. games[g].amount \in Nat /\ games[g].fee_bps \in Nat
  BY <1>2, U64Assumption DEF GameAccounts, U64, MAX_FEE_BPS
<1>4. FeeOf(g) \in Nat
  <2>1. 2 * games[g].amount * games[g].fee_bps \in Nat
    BY <1>3
  <2> QED BY <2>1, SMT DEF FeeOf, PotFee, BPS_DENOMINATOR
<1>5. ResultWinner(g, vrf[SeedOf(g)]) \in Wallets
  BY <1>1, ReadySeed, CreatorIsWallet DEF ResultWinner
<1>6. config.authority \in Wallets
  BY DEF IInv, ConfigIsCurrent
<1>7. FeeOf(g) <= escrow[games[g].mint][g]
  BY <1>2, <1>4 DEF Resolve, IInv, TypeOK, GameAccounts
<1> QED BY <1>1, <1>4, <1>5, <1>6, <1>7, ClosePreserves DEF Resolve

LEMMA CancelPreserves ==
  ASSUME IInv, NEW g \in Games, NEW w \in Wallets, Cancel(g, w)
  PROVE  IInv'
<1>1. 0 <= escrow[games[g].mint][g]
  BY DEF IInv, TypeOK, GameAccounts
<1> QED BY <1>1, CreatorIsWallet, ClosePreserves DEF Cancel

LEMMA RefundPreserves ==
  ASSUME IInv, NEW g \in Games, RefundExpired(g)
  PROVE  IInv'
<1>1. IsReady(g)
  BY DEF RefundExpired
<1>2. games[g] \in GameAccounts
  BY DEF IInv, TypeOK
<1>3. games[g].amount \in Nat /\ games[g].amount <= escrow[games[g].mint][g]
  BY <1>2, U64Assumption DEF GameAccounts, U64, RefundExpired, IInv, TypeOK
<1> QED BY <1>1, <1>3, ReadySeed, CreatorIsWallet, ClosePreserves DEF RefundExpired
----
(* Opening and matching a game *)

LEMMA CreatePreserves ==
  ASSUME IInv,
         NEW c \in Creators, NEW n \in Nonces, NEW amount \in Stakes,
         NEW side \in CreatorSides, NEW e \in Entropies, NEW mint \in Mints,
         NEW h \in HouseOnlyChoices,
         Create(c, n, amount, side, e, mint, h)
  PROVE  IInv'
<1> DEFINE g == <<c, n>>
           new == NewGame(amount, side, e, mint, h)
           rent == RentDue(g)
           lamports == rent + (IF IsNativeSol(mint) THEN amount ELSE VaultDue(g, mint))
<1>1. g \in Games /\ c \in Wallets /\ TypeOK
  BY CoinflipAssumption DEF Games, IInv
<1>2. amount \in Nat /\ amount \in U64 /\ side \in Sides /\ h \in BOOLEAN
  BY CoinflipAssumption, U64Assumption DEF U64, Sides
<1>3. config.fee_bps \in 0 .. MAX_FEE_BPS
  <2>1. config.fee_bps \in Nat /\ config.fee_bps <= MAX_FEE_BPS
    BY <1>1 DEF TypeOK, ConfigTypeOK, ConfigAccounts, Create
  <2> QED BY <2>1 DEF MAX_FEE_BPS
<1>4. new \in GameAccounts
  BY <1>2, <1>3, CoinflipAssumption DEF NewGame, GameAccounts, Sides
<1>5. games' = [games EXCEPT ![g] = new]
  BY DEF Create
<1>6. games' \in [Games -> GameAccounts]
  BY <1>1, <1>4, <1>5 DEF TypeOK
<1>7. posted' \in [Games -> [slot : Nat, fee_bps : 0 .. MAX_FEE_BPS]]
  BY <1>1, <1>3, SlotHashAssumption DEF Create, TypeOK, ClockTypeOK
<1>8. rent \in Nat /\ lamports \in Nat
  BY <1>1, <1>2, NativeSolIsMint, CoinflipAssumption
  DEF RentDue, VaultDue, TypeOK
<1>9. escrow' \in [Mints -> [Games -> Nat]]
  <2>1. Credit(escrow, NativeSol, g, rent) \in Books(Mints, Games)
    BY <1>1, <1>8, NativeSolIsMint, CreditBook DEF TypeOK, Books
  <2>2. escrow' = Credit(Credit(escrow, NativeSol, g, rent), mint, g, amount)
    BY DEF Create
  <2> HIDE DEF g, rent
  <2>3. escrow' \in Books(Mints, Games)
    BY <1>1, <1>2, <2>1, <2>2, CreditBook
  <2> QED BY <2>3 DEF Books
<1>10. purse' \in [Mints -> [Wallets -> Nat]]
  <2> DEFINE once == Debit(purse, NativeSol, c, lamports)
  <2>1. purse[NativeSol][c] >= lamports /\ purse[mint][c] >= amount
    BY DEF Create
  <2>2. purse' = IF IsNativeSol(mint) THEN once ELSE Debit(once, mint, c, amount)
    BY DEF Create
  <2> HIDE DEF lamports
  <2>3. purse \in Books(Mints, Wallets)
    BY <1>1 DEF TypeOK, Books
  <2>6. lamports <= purse[NativeSol][c]
    BY <1>1, <1>8, <2>1, NativeSolIsMint DEF TypeOK
  <2>7. /\ once \in Books(Mints, Wallets)
        /\ \A m \in Mints, k \in Wallets :
             once[m][k] = IF m = NativeSol /\ k = c THEN purse[m][k] - lamports
                                                   ELSE purse[m][k]
    BY <1>1, <1>8, <2>3, <2>6, NativeSolIsMint, DebitBook
  <2>4. once \in Books(Mints, Wallets) /\ (~IsNativeSol(mint) => once[mint][c] >= amount)
    BY <1>1, <2>1, <2>7 DEF IsNativeSol
  <2> HIDE DEF once
  <2>5. ~IsNativeSol(mint) => Debit(once, mint, c, amount) \in Books(Mints, Wallets)
    <3>1. ~IsNativeSol(mint) => amount <= once[mint][c]
      BY <1>1, <1>2, <2>4 DEF Books
    <3> QED BY <1>1, <1>2, <2>4, <3>1, DebitBook
  <2> QED BY <2>2, <2>4, <2>5 DEF Books
<1>11. vaults' \subseteq Games \X Tokens
  <2>1. vaults' = IF IsNativeSol(mint) THEN vaults ELSE vaults \union {<<g, mint>>}
    BY DEF Create
  <2>2. ~IsNativeSol(mint) => mint \in Tokens
    BY DEF IsNativeSol, Mints
  <2>3. vaults \subseteq Games \X Tokens
    BY <1>1 DEF TypeOK
  <2> HIDE DEF g
  <2> QED BY <1>1, <2>1, <2>2, <2>3
<1>12. created' \in 0 .. MaxCreates
  BY <1>1, CoinflipAssumption DEF TypeOK, Create
<1>13. ConfigTypeOK' /\ ClockTypeOK' /\ Oracle!VrfTypeOK'
  BY <1>1, FrameTypes DEF Create, TypeOK, Oracle!VrfTypeOK
<1>14. TypeOK'
  BY <1>1, <1>6, <1>7, <1>9, <1>10, <1>11, <1>12, <1>13 DEF TypeOK, Create
<1>15. \A k \in Games : games'[k] = IF k = g THEN new ELSE games[k]
  BY <1>1, <1>5 DEF TypeOK
<1>16. ConfigIsCurrent' /\ OpenGameIsPosted'
  <2>1. e # ZeroEntropy /\ config' = config
    BY DEF Create, configVars
  <2> QED BY <1>15, <2>1 DEF IInv, ConfigIsCurrent, OpenGameIsPosted, IsOpen, NewGame
<1>17. CancelDelayIsFresh'
  <2>1. posted' = [posted EXCEPT ![g] = [slot |-> slot, fee_bps |-> config.fee_bps]]
    BY DEF Create
  <2>2. posted'[g].slot = slot /\ slot' = slot /\ slot \in Nat
    BY <1>1, <2>1, SlotHashAssumption DEF TypeOK, ClockTypeOK, Create, clockVars
  <2> SUFFICES ASSUME NEW k \in Games, k # g
               PROVE  games'[k] = games[k] /\ posted'[k] = posted[k]
    BY <1>15, <2>2 DEF IInv, CancelDelayIsFresh, IsOpen, NewGame
  <2> QED BY <1>1, <1>15, <2>1 DEF TypeOK
<1>18. \A k \in Games : IsReady(k)' =>
         k # g /\ IsReady(k) /\ games'[k] = games[k] /\ SeedOf(k)' = SeedOf(k)
  BY <1>15 DEF IsReady, SeedOf, NewGame
<1>19. /\ ReadyGameIsFair'
       /\ SettledAreAnswered'
       /\ OneGamePerRandomness'
  BY <1>18 DEF IInv, ReadyGameIsFair, SettledAreAnswered, OneGamePerRandomness,
     Create, clockVars
<1> QED BY <1>14, <1>16, <1>17, <1>19 DEF IInv

\* A join lands on an open game, whose stake it meets out of the joiner's
\* books as they are by then.
LEMMA MatchPreserves ==
  ASSUME IInv,
         NEW g \in Games, NEW w \in Wallets, NEW side \in Sides,
         NEW e \in Entropies, NEW amount \in Stakes,
         NEW book \in Books(Mints, Wallets),
         w # Creator(g),
         ApplyJoin(g, w, side, e, amount),
         book[games[g].mint][w] >= amount,
         purse' = Debit(book, games[g].mint, w, amount),
         escrow' = Credit(escrow, games[g].mint, g, amount),
         Oracle!RequestRandomness(<<g, w, e>>),
         UNCHANGED <<configVars, clockVars, vaults, posted, settled, created, gifts>>
  PROVE  IInv'
<1> DEFINE s == <<g, w, e>>
           mint == games[g].mint
           joined == JoinedSide(g, side)
<1>1. TypeOK /\ games[g] \in GameAccounts /\ s \in Seeds
  BY DEF IInv, TypeOK, Seeds
<1>2. /\ IsOpen(g) /\ w # Creator(g) /\ e # ZeroEntropy /\ SideAllowed(g, side)
      /\ book[mint][w] >= amount
      /\ purse' = Debit(book, mint, w, amount)
      /\ escrow' = Credit(escrow, mint, g, amount)
      /\ Oracle!RequestRandomness(s)
      /\ UNCHANGED <<configVars, clockVars, vaults, posted, settled, created, gifts>>
  BY DEF ApplyJoin
<1>3. games' = [games EXCEPT
        ![g].joiner = w, ![g].joiner_entropy = e, ![g].joiner_side = joined,
        ![g].creator_side = Opposite(joined), ![g].join_slot = slot,
        ![g].status = "Ready"]
  BY DEF ApplyJoin
<1>4. joined \in {"Heads", "Tails"}
  BY <1>1, <1>2 DEF JoinedSide, SideAllowed, Opposite, Sides, GameAccounts
<1>5. slot \in Nat /\ slot \in 1 .. slot
  BY <1>1, SlotHashAssumption DEF TypeOK, ClockTypeOK
<1> HIDE DEF joined
<1>6. games' \in [Games -> GameAccounts]
  BY <1>1, <1>3, <1>4, <1>5 DEF TypeOK, GameAccounts, Sides, Opposite
<1>7. /\ games'[g].status = "Ready" /\ games'[g].joiner = w
      /\ games'[g].joiner_entropy = e /\ games'[g].joiner_side = joined
      /\ games'[g].creator_side = Opposite(joined) /\ games'[g].join_slot = slot
      /\ games'[g].creator_entropy = games[g].creator_entropy
  BY <1>1, <1>3 DEF TypeOK, GameAccounts
<1>8. \A k \in Games : k # g => games'[k] = games[k]
  BY <1>1, <1>3 DEF TypeOK
<1>9. amount \in Nat /\ mint \in Mints
  BY <1>1, CoinflipAssumption, U64Assumption DEF U64, GameAccounts
<1> HIDE DEF mint
<1>10. purse' \in [Mints -> [Wallets -> Nat]]
  <2>1. amount <= book[mint][w]
    BY <1>2, <1>9 DEF Books
  <2>2. purse' \in Books(Mints, Wallets)
    BY <1>2, <1>9, <2>1, DebitBook
  <2> QED BY <2>2 DEF Books
<1>11. escrow' \in [Mints -> [Games -> Nat]]
  <2>1. escrow \in Books(Mints, Games)
    BY <1>1 DEF TypeOK, Books
  <2>2. escrow' \in Books(Mints, Games)
    BY <1>2, <1>9, <2>1, CreditBook
  <2> QED BY <2>2 DEF Books
<1>12. /\ Oracle!VrfTypeOK'
       /\ vrf'[s] # "None"
       /\ \A t \in Seeds : vrf[t] # "None" => vrf'[t] # "None"
       /\ \A t \in Seeds : vrf[t] \in Randomness => vrf'[t] = vrf[t]
  BY <1>1, <1>2, RequestKeeps
<1>13. TypeOK'
  <2>1. ConfigTypeOK' /\ ClockTypeOK'
    BY <1>1, <1>2, FrameTypes
  <2> QED BY <1>1, <1>2, <1>6, <1>10, <1>11, <1>12, <2>1 DEF TypeOK
<1>14. ConfigIsCurrent' /\ OpenGameIsPosted'
  BY <1>2, <1>7, <1>8 DEF IInv, ConfigIsCurrent, OpenGameIsPosted, configVars, IsOpen
<1>15. CancelDelayIsFresh'
  <2> SUFFICES ASSUME NEW k \in Games, IsOpen(k)'
               PROVE  k # g /\ IsOpen(k) /\ games'[k] = games[k] /\ posted' = posted
    BY <1>2 DEF IInv, CancelDelayIsFresh, clockVars
  <2> QED BY <1>2, <1>7, <1>8 DEF IsOpen
<1>16. SeedOf(g)' = s
  BY <1>7 DEF SeedOf
<1>17. \A k \in Games : k # g /\ IsReady(k)' =>
         IsReady(k) /\ games'[k] = games[k] /\ SeedOf(k)' = SeedOf(k)
  BY <1>8 DEF IsReady, SeedOf
<1>18. ReadyGameIsFair'
  <2> SUFFICES ASSUME NEW k \in Games, IsReady(k)'
               PROVE  /\ games'[k].joiner \in Wallets \ {Creator(k)}
                      /\ games'[k].creator_side \in {"Heads", "Tails"}
                      /\ games'[k].joiner_side = Opposite(games'[k].creator_side)
                      /\ games'[k].creator_entropy # ZeroEntropy
                      /\ games'[k].joiner_entropy # ZeroEntropy
                      /\ games'[k].join_slot \in 1 .. slot'
                      /\ vrf'[SeedOf(k)'] # "None"
    BY DEF ReadyGameIsFair
  <2>1. slot' = slot
    BY <1>2 DEF clockVars
  <2>2. CASE k = g
    <3>1. games[g].creator_entropy # ZeroEntropy
      BY <1>2 DEF IInv, OpenGameIsPosted
    <3> QED BY <1>2, <1>4, <1>5, <1>7, <1>12, <1>16, <2>1, <2>2, <3>1 DEF Opposite
  <2>3. CASE k # g
    <3>1. IsReady(k) /\ games'[k] = games[k] /\ SeedOf(k)' = SeedOf(k)
      BY <1>17, <2>3
    <3>2. SeedOf(k) \in Seeds
      BY <3>1, ReadySeed
    <3> QED BY <1>12, <2>1, <3>1, <3>2 DEF IInv, ReadyGameIsFair
  <2> QED BY <2>2, <2>3
<1>19. SettledAreAnswered'
  BY <1>1, <1>2, <1>12 DEF IInv, SettledAreAnswered, TypeOK
<1>20. s \notin settled
  BY <1>2, CoinflipAssumption DEF IInv, SettledAreAnswered, Oracle!RequestRandomness
<1>21. OneGamePerRandomness'
  BY <1>2, <1>16, <1>17, <1>20 DEF IInv, OneGamePerRandomness
<1> QED BY <1>13, <1>14, <1>15, <1>18, <1>19, <1>21 DEF IInv

LEMMA JoinPreserves ==
  ASSUME IInv,
         NEW g \in Games, NEW w \in Wallets, NEW side \in Sides,
         NEW e \in Entropies, NEW amount \in Stakes,
         Join(g, w, side, e, amount)
  PROVE  IInv'
<1>1. purse \in Books(Mints, Wallets)
  BY DEF IInv, TypeOK, Books
<1> QED BY <1>1, MatchPreserves DEF Join
----
(* The other steps *)

LEMMA InitiateCancelPreserves ==
  ASSUME IInv, NEW g \in Games, NEW w \in Wallets, InitiateCancel(g, w)
  PROVE  IInv'
<1> DEFINE after == slot + AUTHORITY_CANCEL_DELAY_SLOTS
<1>1. /\ TypeOK /\ games[g] \in GameAccounts /\ IsOpen(g)
      /\ games' = [games EXCEPT ![g].cancel_after_slot = after]
      /\ UNCHANGED <<configVars, clockVars, vrf, purse, escrow, vaults, posted,
                     settled, created, gifts>>
  BY DEF IInv, TypeOK, InitiateCancel
<1>2. slot \in Nat /\ after \in Nat
  BY <1>1, SlotHashAssumption, CoinflipAssumption DEF TypeOK, ClockTypeOK
<1>3. games' \in [Games -> GameAccounts]
  BY <1>1, <1>2 DEF TypeOK, GameAccounts
<1>4. /\ games'[g].status = "Open" /\ games'[g].cancel_after_slot = after
      /\ games'[g].creator_entropy = games[g].creator_entropy
  BY <1>1 DEF GameAccounts, IsOpen, TypeOK
<1>5. \A k \in Games : k # g => games'[k] = games[k]
  BY <1>1 DEF TypeOK
<1>6. ConfigTypeOK' /\ ClockTypeOK' /\ Oracle!VrfTypeOK'
  BY <1>1, FrameTypes DEF TypeOK, Oracle!VrfTypeOK
<1>7. TypeOK'
  BY <1>1, <1>3, <1>6 DEF TypeOK
<1>8. ConfigIsCurrent' /\ OpenGameIsPosted'
  BY <1>1, <1>4, <1>5 DEF IInv, ConfigIsCurrent, OpenGameIsPosted, configVars, IsOpen
<1>9. CancelDelayIsFresh'
  <2> SUFFICES ASSUME NEW k \in Games, IsOpen(k)'
               PROVE  /\ posted[k].slot <= slot
                      /\ games'[k].cancel_after_slot > 0 =>
                           games'[k].cancel_after_slot >=
                             posted[k].slot + AUTHORITY_CANCEL_DELAY_SLOTS
    BY <1>1 DEF CancelDelayIsFresh, clockVars
  <2>1. CASE k = g
    <3>1. posted[g].slot \in Nat /\ posted[g].slot <= slot
      BY <1>1 DEF IInv, CancelDelayIsFresh, TypeOK
    <3> QED BY <1>2, <1>4, <2>1, <3>1, CoinflipAssumption
  <2>2. CASE k # g
    BY <1>5, <2>2 DEF IInv, CancelDelayIsFresh, IsOpen
  <2> QED BY <2>1, <2>2
<1>10. \A k \in Games : IsReady(k)' =>
         IsReady(k) /\ games'[k] = games[k] /\ SeedOf(k)' = SeedOf(k)
  BY <1>4, <1>5 DEF IsReady, SeedOf
<1>11. ReadyGameIsFair' /\ SettledAreAnswered' /\ OneGamePerRandomness'
  BY <1>1, <1>10 DEF IInv, ReadyGameIsFair, SettledAreAnswered,
     OneGamePerRandomness, clockVars
<1> QED BY <1>7, <1>8, <1>9, <1>11 DEF IInv

\* Steps that leave the games alone keep what is said of them, as long as the
\* clock does not go back and no VRF request is lost.
LEMMA GamesUntouched ==
  ASSUME IInv, TypeOK', ConfigIsCurrent', UNCHANGED <<games, posted, settled>>,
         slot \in Nat, slot' \in Nat, slot <= slot',
         \A t \in Seeds : vrf[t] # "None" => vrf'[t] # "None",
         \A t \in Seeds : vrf[t] \in Randomness => vrf'[t] = vrf[t]
  PROVE  IInv'
<1>1. \A g \in Games : SeedOf(g)' = SeedOf(g)
  BY DEF SeedOf
<1>2. OpenGameIsPosted' /\ OneGamePerRandomness'
  BY <1>1 DEF IInv, OpenGameIsPosted, OneGamePerRandomness, IsOpen, IsReady
<1>3. CancelDelayIsFresh'
  <2>1. \A g \in Games : posted[g].slot \in Nat
    BY DEF IInv, TypeOK
  <2> QED BY <2>1 DEF IInv, CancelDelayIsFresh, IsOpen
<1>4. ReadyGameIsFair'
  <2> SUFFICES ASSUME NEW g \in Games, IsReady(g)
               PROVE  /\ games[g].join_slot \in 1 .. slot'
                      /\ vrf'[SeedOf(g)] # "None"
    BY <1>1 DEF IInv, ReadyGameIsFair, IsReady
  <2>1. SeedOf(g) \in Seeds
    BY ReadySeed
  <2> QED BY <2>1 DEF IInv, ReadyGameIsFair
<1>5. SettledAreAnswered'
  BY DEF IInv, SettledAreAnswered, TypeOK
<1> QED BY <1>2, <1>3, <1>4, <1>5 DEF IInv

LEMMA SlotIsNat ==
  ASSUME TypeOK
  PROVE  slot \in Nat
  BY SlotHashAssumption DEF TypeOK, ClockTypeOK

LEMMA AdminPreserves ==
  ASSUME IInv, Admin
  PROVE  IInv'
<1>1. ConfigTypeOK' /\ ConfigIsCurrent'
  BY AdminTypes DEF IInv, TypeOK, Admin
<1>2. UNCHANGED <<clockVars, vrf, games, purse, escrow, vaults, posted, settled,
                  created, gifts>>
  BY DEF Admin
<1>3. TypeOK'
  BY <1>1, <1>2 DEF IInv, TypeOK, ClockTypeOK, clockVars, Oracle!VrfTypeOK
<1>4. slot \in Nat /\ slot' = slot
  BY <1>2, SlotIsNat DEF IInv, clockVars
<1> QED BY <1>1, <1>2, <1>3, <1>4, GamesUntouched

\* Slots up to one come before any later one.
LEMMA EarlierSlots ==
  ASSUME NEW S, NEW a \in Nat, NEW b \in Nat, a < b, S \subseteq 0 .. a
  PROVE  S \subseteq 0 .. (b - 1)
  OBVIOUS

LEMMA TickPreserves ==
  ASSUME IInv, Tick
  PROVE  IInv'
<1>1. /\ UNCHANGED <<configVars, vrf, games, purse, escrow, vaults, posted, settled,
                     created, gifts>>
      /\ AdvanceSlot
  BY DEF Tick
<1>2. slot \in Nat
  BY SlotIsNat DEF IInv
<1>3. PICK d \in Strides : /\ slot + d <= MaxSlot /\ slot' = slot + d
                           /\ slot_hashes' = Newest(slot_hashes \union {slot})
  BY <1>1 DEF AdvanceSlot
<1>4. d \in Nat \ {0}
  BY SlotHashAssumption
<1>5. slot' \in 1 .. MaxSlot /\ slot < slot'
  BY <1>2, <1>3, <1>4, SlotHashAssumption
<1>6. slot_hashes' \subseteq 0 .. (slot' - 1)
  <2>1. slot_hashes' \subseteq slot_hashes \union {slot}
    BY <1>3 DEF Newest
  <2>2. slot_hashes \subseteq 0 .. (slot - 1)
    BY DEF IInv, TypeOK, ClockTypeOK
  <2>3. slot' \in Nat /\ slot < slot'
    BY <1>2, <1>3, <1>4
  <2>4. slot_hashes' \subseteq 0 .. slot
    BY <1>2, <2>1, <2>2
  <2> QED BY <1>2, <2>3, <2>4, EarlierSlots
<1>7. TypeOK' /\ ConfigIsCurrent'
  BY <1>1, <1>5, <1>6 DEF IInv, TypeOK, ConfigTypeOK, ClockTypeOK, Oracle!VrfTypeOK,
     ConfigIsCurrent, configVars
<1>8. slot' \in Nat /\ slot <= slot'
  BY <1>2, <1>5, SlotHashAssumption
<1> QED BY <1>1, <1>2, <1>7, <1>8, GamesUntouched

LEMMA VrfPreserves ==
  ASSUME IInv, NEW s \in JoinableSeeds, VrfStep(s)
  PROVE  IInv'
<1>1. s \in Seeds /\ TypeOK
  BY DEF JoinableSeeds, IInv
<1>2. /\ Oracle!VrfRequest(s) \/ Oracle!VrfFulfil(s)
      /\ UNCHANGED <<configVars, clockVars, games, purse, escrow, vaults, posted,
                     settled, created, gifts>>
  BY DEF VrfStep
<1>3. /\ Oracle!VrfTypeOK'
      /\ \A t \in Seeds : vrf[t] # "None" => vrf'[t] # "None"
      /\ \A t \in Seeds : vrf[t] \in Randomness => vrf'[t] = vrf[t]
  BY <1>1, <1>2, RequestKeeps
<1>4. TypeOK' /\ ConfigIsCurrent'
  BY <1>2, <1>3 DEF IInv, TypeOK, ConfigTypeOK, ClockTypeOK, ConfigIsCurrent,
     configVars, clockVars
<1>5. slot \in Nat /\ slot' = slot
  BY <1>1, <1>2, SlotIsNat DEF clockVars
<1> QED BY <1>2, <1>3, <1>4, <1>5, GamesUntouched

LEMMA GiftPreserves ==
  ASSUME IInv, NEW w \in Wallets, NEW g \in Games, NEW m \in Mints,
         (m \in Tokens /\ OpenVault(w, g, m)) \/ Donate(w, g, m)
  PROVE  IInv'
<1>1. TypeOK /\ purse \in Books(Mints, Wallets) /\ escrow \in Books(Mints, Games)
  BY DEF IInv, TypeOK, Books
<1>2. /\ UNCHANGED <<configVars, clockVars, vrf, games, posted, settled, created>>
      /\ gifts < MaxGifts /\ gifts' = gifts + 1
  BY DEF OpenVault, Donate
<1>3. gifts' \in 0 .. MaxGifts
  BY <1>1, <1>2, CoinflipAssumption DEF TypeOK
<1>4. ASSUME m \in Tokens, OpenVault(w, g, m)
      PROVE  /\ purse' \in Books(Mints, Wallets) /\ escrow' \in Books(Mints, Games)
             /\ vaults' \subseteq Games \X Tokens
  <2>1. /\ purse' = Debit(purse, NativeSol, w, VaultRent)
        /\ purse[NativeSol][w] >= VaultRent
        /\ vaults' = vaults \union {<<g, m>>} /\ escrow' = escrow
    BY <1>4 DEF OpenVault
  <2>2. VaultRent \in Nat /\ VaultRent <= purse[NativeSol][w]
    BY <1>1, <2>1, NativeSolIsMint, CoinflipAssumption DEF TypeOK
  <2>3. purse' \in Books(Mints, Wallets)
    BY <1>1, <2>1, <2>2, NativeSolIsMint, DebitBook
  <2>4. vaults' \subseteq Games \X Tokens
    BY <1>1, <1>4, <2>1 DEF TypeOK
  <2> QED BY <1>1, <2>1, <2>3, <2>4
<1>5. ASSUME Donate(w, g, m)
      PROVE  /\ purse' \in Books(Mints, Wallets) /\ escrow' \in Books(Mints, Games)
             /\ vaults' \subseteq Games \X Tokens
  <2>1. /\ purse' = Debit(purse, m, w, 1) /\ purse[m][w] >= 1
        /\ escrow' = Credit(escrow, m, g, 1) /\ vaults' = vaults
    BY <1>5 DEF Donate
  <2>2. 1 <= purse[m][w]
    BY <1>1, <2>1 DEF TypeOK
  <2>3. purse' \in Books(Mints, Wallets) /\ escrow' \in Books(Mints, Games)
    BY <1>1, <2>1, <2>2, DebitBook, CreditBook
  <2> QED BY <1>1, <2>1, <2>3 DEF TypeOK
<1>6. ConfigTypeOK' /\ ClockTypeOK' /\ Oracle!VrfTypeOK' /\ ConfigIsCurrent'
  BY <1>1, <1>2, FrameTypes
  DEF IInv, TypeOK, ConfigIsCurrent, configVars, Oracle!VrfTypeOK
<1>7. TypeOK'
  BY <1>1, <1>2, <1>3, <1>4, <1>5, <1>6 DEF TypeOK, Books
<1>8. slot \in Nat /\ slot' = slot
  BY <1>1, <1>2, SlotIsNat DEF clockVars
<1> QED BY <1>2, <1>6, <1>7, <1>8, GamesUntouched
----
(* Every step *)

\* IInv is inductive.
LEMMA NextPreserves ==
  ASSUME IInv, [Next]_vars
  PROVE  IInv'
<1>1. CASE \E c \in Creators, n \in Nonces, x \in Stakes, s \in CreatorSides,
              e \in Entropies, m \in Mints, h \in HouseOnlyChoices :
             Create(c, n, x, s, e, m, h)
  BY <1>1, CreatePreserves
<1>2. CASE \E g \in Games, w \in Wallets, s \in Sides, e \in Entropies, x \in Stakes :
             Join(g, w, s, e, x)
  BY <1>2, JoinPreserves
<1>3. CASE \E g \in Games : Resolve(g)
  BY <1>3, ResolvePreserves
<1>4. CASE \E g \in Games, w \in Wallets : InitiateCancel(g, w)
  BY <1>4, InitiateCancelPreserves
<1>5. CASE \E g \in Games, w \in Wallets : Cancel(g, w)
  BY <1>5, CancelPreserves
<1>6. CASE \E g \in Games : RefundExpired(g)
  BY <1>6, RefundPreserves
<1>7. CASE Admin
  BY <1>7, AdminPreserves
<1>8. CASE Tick
  BY <1>8, TickPreserves
<1>9. CASE \E seed \in JoinableSeeds : VrfStep(seed)
  BY <1>9, VrfPreserves
<1>10. CASE \/ \E w \in Wallets, g \in Games, m \in Tokens : OpenVault(w, g, m)
            \/ \E w \in Wallets, g \in Games, m \in Mints : Donate(w, g, m)
  BY <1>10, GiftPreserves DEF Mints
<1>11. CASE UNCHANGED vars
  <2>1. TypeOK' /\ ConfigIsCurrent'
    BY <1>11 DEF IInv, TypeOK, ConfigTypeOK, ClockTypeOK, Oracle!VrfTypeOK,
       ConfigIsCurrent, vars
  <2>2. slot \in Nat
    BY SlotIsNat DEF IInv
  <2> QED BY <1>11, <2>1, <2>2, GamesUntouched DEF vars
<1> QED BY <1>1, <1>2, <1>3, <1>4, <1>5, <1>6, <1>7, <1>8, <1>9, <1>10, <1>11 DEF Next

\* Every reachable state satisfies the inductive invariant.
THEOREM Inductive == Spec => []IInv
<1>1. Init => IInv
  BY InitIInv
<1>2. IInv /\ [Next]_vars => IInv'
  BY NextPreserves
<1> QED BY <1>1, <1>2, PTL DEF Spec

\* The accounts and wallets of create, join, resolve, cancel, refund and the
\* administration always have the shape the program gives them; no wallet and
\* no account is ever overdrawn.
THEOREM TypeCorrect == Spec => []TypeOK
<1>1. IInv => TypeOK
  BY DEF IInv
<1> QED BY <1>1, Inductive, PTL

\* Whatever order joins, cancels and administration land in, a matched game is
\* a fair bet between two players (apply_join of join.rs).
THEOREM FairMatches == Spec => []ReadyGameIsFair
<1>1. IInv => ReadyGameIsFair
  BY DEF IInv
<1> QED BY <1>1, Inductive, PTL

\* A closed address joined again under the seed of an earlier game never waits
\* on the randomness that settled it (request_randomness of vrf.rs).
THEOREM RandomnessIsUsedOnce == Spec => []OneGamePerRandomness
<1>1. IInv => OneGamePerRandomness
  BY DEF IInv
<1> QED BY <1>1, Inductive, PTL

\* What the house has to wait for, from the delay and the create.
LEMMA DelaysAreFull ==
  ASSUME IInv
  PROVE  AuthorityCancelIsDelayed
<1> SUFFICES ASSUME NEW g \in Games, NEW w \in Wallets,
                    IsOpen(g), MayCancel(g, w), w # Creator(g)
             PROVE  slot >= posted[g].slot + AUTHORITY_CANCEL_DELAY_SLOTS
  BY DEF AuthorityCancelIsDelayed
<1>1. /\ games[g].cancel_after_slot > 0
      /\ slot >= games[g].cancel_after_slot
  BY DEF MayCancel
<1>2. games[g].cancel_after_slot >= posted[g].slot + AUTHORITY_CANCEL_DELAY_SLOTS
  BY <1>1 DEF IInv, CancelDelayIsFresh
<1>3. /\ games[g].cancel_after_slot \in Nat /\ posted[g].slot \in Nat
      /\ slot \in Nat
  BY SlotIsNat DEF IInv, TypeOK, GameAccounts
<1> QED BY <1>1, <1>2, <1>3, CoinflipAssumption

\* The house cancels a stranger's open game only a full delay after that game
\* was created (cancel.rs), for every delay and every reuse of the address.
THEOREM HouseCancelsLate == Spec => []AuthorityCancelIsDelayed
<1>1. IInv => AuthorityCancelIsDelayed
  BY DelaysAreFull
<1> QED BY <1>1, Inductive, PTL
====
