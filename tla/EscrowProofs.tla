---- MODULE EscrowProofs ----
(***************************************************************************)
(* Where the stakes are and where they go: no stake is ever missing or     *)
(* left behind, the pot and the refunds are paid in full, no money is made *)
(* or lost, every game has a way out that nobody can close, no wallet      *)
(* loses more than its lost draws, and the instructions implement          *)
(* FlipEscrow, for every value of the constants.                           *)
(***************************************************************************)
EXTENDS CoinflipProofs
----
(* What is owed *)

\* What a game account owes, by its status.
LEMMA OwedValue ==
  ASSUME NEW game \in GameAccounts, NEW m \in Mints
  PROVE  /\ OwedIn(game, m) \in Nat
         /\ game.status = "Closed" => OwedIn(game, m) = 0
         /\ game.status # "Closed" =>
              OwedIn(game, m) =
                (IF game.mint = m
                 THEN IF game.status = "Open" THEN game.amount ELSE 2 * game.amount
                 ELSE 0) + (IF m = NativeSol THEN GameRent ELSE 0)
<1>1. game.status \in {"Closed", "Open", "Ready"} /\ game.amount \in Nat
  BY U64Assumption DEF GameAccounts, U64
<1>2. /\ game.status = "Closed" => StakesIn(game) = 0
      /\ game.status = "Open" => StakesIn(game) = game.amount
      /\ game.status = "Ready" => StakesIn(game) = 2 * game.amount
  BY DEF StakesIn
<1> QED BY <1>1, <1>2, CoinflipAssumption DEF OwedIn

\* A game that a step does not touch stays exact.
LEMMA UntouchedIsExact ==
  ASSUME TypeOK, NEW g \in Games, GameIsExact(g),
         games'[g] = games[g],
         \A m \in Mints : escrow'[m][g] = escrow[m][g],
         gifts' \in Nat, gifts <= gifts',
         \A m \in Mints : <<g, m>> \in vaults => <<g, m>> \in vaults'
  PROVE  GameIsExact(g)'
<1>1. \A m \in Mints : OwedIn(games[g], m) \in Nat /\ escrow[m][g] \in Nat
  BY OwedValue DEF TypeOK
<1>2. gifts \in Nat
  BY CoinflipAssumption DEF TypeOK
<1> QED BY <1>1, <1>2 DEF GameIsExact

\* The books of TypeOK.
LEMMA EscrowBook ==
  ASSUME TypeOK
  PROVE  /\ escrow \in Books(Mints, Games)
         /\ gifts \in Nat
         /\ \A g \in Games : games[g] \in GameAccounts /\ games[g].mint \in Mints
  BY CoinflipAssumption DEF TypeOK, Books, GameAccounts
\* Where nothing is owed there are only gifts.
LEMMA ClosedHoldsGifts ==
  ASSUME TypeOK, EscrowIsExact, NEW g \in Games, NEW m \in Mints,
         OwedIn(games[g], m) = 0
  PROVE  escrow[m][g] \in Nat /\ escrow[m][g] <= gifts
<1>1. escrow[m][g] <= OwedIn(games[g], m) + gifts
  BY DEF EscrowIsExact, GameIsExact
<1>2. escrow[m][g] \in Nat /\ gifts \in Nat
  BY EscrowBook DEF Books
<1> QED BY <1>1, <1>2
----
(* The steps *)

\* Closing a game leaves at most gifts behind at its address.
LEMMA CloseIsExact ==
  ASSUME TypeOK, EscrowIsExact, NEW g \in Games, NEW heir, NEW payee, NEW cut,
         CloseTo(g, heir, payee, cut), UNCHANGED gifts
  PROVE  EscrowIsExact'
<1> DEFINE mint == games[g].mint
<1>1. /\ escrow \in Books(Mints, Games) /\ gifts \in Nat /\ mint \in Mints
      /\ games[g] \in GameAccounts
  BY EscrowBook
<1>2. /\ games' = [games EXCEPT ![g] = NoGame]
      /\ escrow' = [escrow EXCEPT ![mint][g] = 0, ![NativeSol][g] = 0]
      /\ vaults' = vaults \ {<<g, mint>>}
  BY DEF CloseTo
<1> HIDE DEF mint
<1>3. \A m \in Mints, h \in Games :
        escrow'[m][h] = IF h = g /\ m \in {mint, NativeSol} THEN 0 ELSE escrow[m][h]
  BY <1>1, <1>2, NativeSolIsMint DEF Books
<1>4. GameIsExact(g)'
  <2>1. games'[g] = NoGame /\ NoGame \in GameAccounts /\ NoGame.status = "Closed"
    <3>1. NoGame \in GameAccounts
      BY NativeSolIsMint, CoinflipAssumption, U64Assumption
      DEF NoGame, GameAccounts, Sides, U64, MAX_FEE_BPS
    <3>2. games'[g] = NoGame
      BY <1>2 DEF TypeOK
    <3>3. NoGame.status = "Closed"
      BY DEF NoGame
    <3> QED BY <3>1, <3>2, <3>3
  <2> SUFFICES ASSUME NEW m \in Mints
               PROVE  escrow'[m][g] >= 0 /\ escrow'[m][g] <= gifts
    BY <1>1, <2>1, OwedValue DEF GameIsExact
  <2>2. CASE m \in {mint, NativeSol}
    BY <1>1, <1>3, <2>2
  <2>3. CASE m \notin {mint, NativeSol}
    <3>1. OwedIn(games[g], m) = 0
      BY <1>1, <2>3, OwedValue DEF mint
    <3>2. escrow[m][g] \in Nat /\ escrow[m][g] <= gifts
      BY <1>1, <3>1, ClosedHoldsGifts
    <3> QED BY <1>3, <2>3, <3>2
  <2> QED BY <2>2, <2>3
<1>5. ASSUME NEW h \in Games, h # g
      PROVE  GameIsExact(h)'
  <2>1. games'[h] = games[h]
    BY <1>2, <1>5 DEF TypeOK
  <2>2. \A m \in Mints : escrow'[m][h] = escrow[m][h]
    BY <1>3, <1>5
  <2>3. \A m \in Mints : <<h, m>> \in vaults => <<h, m>> \in vaults'
    BY <1>2, <1>5
  <2> QED BY <1>1, <2>1, <2>2, <2>3, UntouchedIsExact DEF EscrowIsExact
<1> QED BY <1>4, <1>5 DEF EscrowIsExact

\* A create finds at most gifts at its address, and posts rent and stake.
LEMMA CreateIsExact ==
  ASSUME TypeOK, EscrowIsExact, TypeOK',
         NEW c \in Creators, NEW n \in Nonces, NEW amount \in Stakes,
         NEW side, NEW e, NEW mint \in Mints, NEW h,
         Create(c, n, amount, side, e, mint, h)
  PROVE  EscrowIsExact'
<1> DEFINE g == <<c, n>>
           rent == RentDue(g)
           funded == Credit(escrow, NativeSol, g, rent)
           new == NewGame(amount, side, e, mint, h)
<1>1. /\ escrow \in Books(Mints, Games) /\ gifts \in Nat /\ g \in Games
      /\ games[g] \in GameAccounts
  BY EscrowBook DEF Games
<1>2. /\ games[g].status = "Closed" /\ games' = [games EXCEPT ![g] = new]
      /\ escrow' = Credit(funded, mint, g, amount) /\ gifts' = gifts
      /\ vaults' = IF IsNativeSol(mint) THEN vaults ELSE vaults \union {<<g, mint>>}
  BY DEF Create
<1>3. rent = IF escrow[NativeSol][g] >= GameRent THEN 0
             ELSE GameRent - escrow[NativeSol][g]
  BY DEF RentDue
<1>4. /\ games'[g] = new /\ new \in GameAccounts
      /\ new.status = "Open" /\ new.mint = mint /\ new.amount = amount
  <2>1. games'[g] = new
    BY <1>1, <1>2 DEF TypeOK
  <2>2. games'[g] \in GameAccounts
    BY <1>1 DEF TypeOK
  <2>3. new.status = "Open" /\ new.mint = mint /\ new.amount = amount
    BY DEF NewGame
  <2> QED BY <2>1, <2>2, <2>3
<1> HIDE DEF g, rent, new
<1>5. amount \in Nat /\ GameRent \in Nat
  BY CoinflipAssumption, U64Assumption DEF U64
<1>6. \A m \in Mints : escrow[m][g] \in Nat /\ escrow[m][g] <= gifts
  <2> SUFFICES ASSUME NEW m \in Mints PROVE escrow[m][g] \in Nat /\ escrow[m][g] <= gifts
    OBVIOUS
  <2>1. OwedIn(games[g], m) = 0
    BY <1>1, <1>2, OwedValue
  <2> QED BY <1>1, <2>1, ClosedHoldsGifts
<1>7. rent \in Nat /\ NativeSol \in Mints
  BY <1>3, <1>5, <1>6, NativeSolIsMint
<1>8. /\ funded \in Books(Mints, Games)
      /\ \A m \in Mints, k \in Games :
           funded[m][k] = IF m = NativeSol /\ k = g THEN escrow[m][k] + rent
                                                    ELSE escrow[m][k]
  <2>1. escrow \in Books(Mints, Games) /\ NativeSol \in Mints /\ g \in Games /\ rent \in Nat
    BY <1>1, <1>7
  <2> QED BY <2>1, CreditBook
<1> HIDE DEF funded
<1>9. \A m \in Mints, k \in Games :
        escrow'[m][k] = IF m = mint /\ k = g THEN funded[m][k] + amount
                                             ELSE funded[m][k]
  <2>1. funded \in Books(Mints, Games) /\ g \in Games /\ amount \in Nat
    BY <1>1, <1>5, <1>8
  <2>2. escrow' = Credit(funded, mint, g, amount)
    BY <1>2
  <2> QED BY <2>1, <2>2, CreditBook
<1>10. GameIsExact(g)'
  <2> SUFFICES ASSUME NEW m \in Mints
               PROVE  /\ escrow'[m][g] >= OwedIn(new, m)
                      /\ escrow'[m][g] <= OwedIn(new, m) + gifts
                      /\ mint = m /\ ~IsNativeSol(m) => <<g, m>> \in vaults'
    BY <1>2, <1>4 DEF GameIsExact
  <2>1. OwedIn(new, m) = (IF mint = m THEN amount ELSE 0)
                           + (IF m = NativeSol THEN GameRent ELSE 0)
    BY <1>4, OwedValue
  <2>2. escrow[m][g] \in Nat /\ escrow[m][g] <= gifts
    BY <1>6
  <2>3. escrow'[m][g] = escrow[m][g] + (IF m = NativeSol THEN rent ELSE 0)
                                     + (IF mint = m THEN amount ELSE 0)
    BY <1>1, <1>5, <1>7, <1>8, <1>9, <2>2
  <2>4. m = NativeSol => /\ escrow[m][g] + rent >= GameRent
                         /\ escrow[m][g] + rent <= GameRent + gifts
    BY <1>1, <1>3, <1>5, <2>2
  <2>5. mint = m /\ ~IsNativeSol(m) => <<g, m>> \in vaults'
    BY <1>2
  <2> QED BY <1>1, <1>5, <1>7, <2>1, <2>2, <2>3, <2>4, <2>5
<1>11. ASSUME NEW k \in Games, k # g
       PROVE  GameIsExact(k)'
  <2>1. games'[k] = games[k]
    BY <1>2, <1>11 DEF TypeOK
  <2>2. \A m \in Mints : escrow'[m][k] = escrow[m][k]
    BY <1>8, <1>9, <1>11
  <2>3. \A m \in Mints : <<k, m>> \in vaults => <<k, m>> \in vaults'
    BY <1>2
  <2> QED BY <1>1, <1>2, <2>1, <2>2, <2>3, UntouchedIsExact DEF EscrowIsExact
<1> QED BY <1>10, <1>11 DEF EscrowIsExact

\* A join brings exactly the stake it matches, wherever it comes from.
LEMMA MatchIsExact ==
  ASSUME TypeOK, EscrowIsExact, TypeOK',
         NEW g \in Games, NEW w, NEW side, NEW e, NEW amount \in Stakes,
         ApplyJoin(g, w, side, e, amount),
         escrow' = Credit(escrow, games[g].mint, g, amount),
         UNCHANGED <<vaults, gifts>>
  PROVE  EscrowIsExact'
<1> DEFINE mint == games[g].mint
<1>1. /\ escrow \in Books(Mints, Games) /\ gifts \in Nat /\ mint \in Mints
      /\ games[g] \in GameAccounts /\ games'[g] \in GameAccounts
  BY EscrowBook DEF TypeOK
<1>2. /\ games[g].status = "Open" /\ amount = games[g].amount
      /\ escrow' = Credit(escrow, mint, g, amount)
      /\ gifts' = gifts /\ vaults' = vaults
  BY DEF ApplyJoin, IsOpen
<1>3. /\ games'[g].status = "Ready" /\ games'[g].mint = mint
      /\ games'[g].amount = amount
      /\ \A h \in Games : h # g => games'[h] = games[h]
  BY <1>1, <1>2 DEF ApplyJoin, TypeOK, GameAccounts
<1>4. amount \in Nat
  BY CoinflipAssumption, U64Assumption DEF U64
<1> HIDE DEF mint
<1>5. \A m \in Mints, h \in Games :
        escrow'[m][h] = IF m = mint /\ h = g THEN escrow[m][h] + amount
                                             ELSE escrow[m][h]
  BY <1>1, <1>2, <1>4, CreditBook
<1>6. GameIsExact(g)'
  <2> SUFFICES ASSUME NEW m \in Mints
               PROVE  /\ escrow'[m][g] >= OwedIn(games'[g], m)
                      /\ escrow'[m][g] <= OwedIn(games'[g], m) + gifts
                      /\ mint = m /\ ~IsNativeSol(m) => <<g, m>> \in vaults
    BY <1>2, <1>3 DEF GameIsExact
  <2>1. /\ OwedIn(games[g], m) \in Nat
        /\ OwedIn(games'[g], m) =
             OwedIn(games[g], m) + (IF m = mint THEN amount ELSE 0)
    <3>1. OwedIn(games[g], m) = (IF mint = m THEN amount ELSE 0)
                                  + (IF m = NativeSol THEN GameRent ELSE 0)
      BY <1>1, <1>2, OwedValue DEF mint
    <3>2. OwedIn(games'[g], m) = (IF mint = m THEN 2 * amount ELSE 0)
                                   + (IF m = NativeSol THEN GameRent ELSE 0)
      BY <1>1, <1>3, OwedValue
    <3>3. GameRent \in Nat
      BY CoinflipAssumption
    <3> QED BY <1>4, <3>1, <3>2, <3>3
  <2>2. /\ escrow[m][g] >= OwedIn(games[g], m)
        /\ escrow[m][g] <= OwedIn(games[g], m) + gifts
        /\ mint = m /\ ~IsNativeSol(m) => <<g, m>> \in vaults
    BY <1>2 DEF EscrowIsExact, GameIsExact, mint
  <2>3. escrow[m][g] \in Nat
    BY <1>1 DEF Books
  <2>4. escrow'[m][g] = escrow[m][g] + (IF m = mint THEN amount ELSE 0)
    BY <1>4, <1>5, <2>3
  <2> QED BY <1>1, <1>4, <2>1, <2>2, <2>3, <2>4
<1>7. ASSUME NEW h \in Games, h # g
      PROVE  GameIsExact(h)'
  <2>1. \A m \in Mints : escrow'[m][h] = escrow[m][h]
    BY <1>5, <1>7
  <2> QED BY <1>1, <1>2, <1>3, <1>7, <2>1, UntouchedIsExact DEF EscrowIsExact
<1> QED BY <1>6, <1>7 DEF EscrowIsExact

LEMMA JoinIsExact ==
  ASSUME TypeOK, EscrowIsExact, TypeOK',
         NEW g \in Games, NEW w, NEW side, NEW e, NEW amount \in Stakes,
         Join(g, w, side, e, amount)
  PROVE  EscrowIsExact'
  BY MatchIsExact DEF Join

\* An announced cancel moves no money.
LEMMA InitiateCancelIsExact ==
  ASSUME TypeOK, EscrowIsExact, NEW g \in Games, NEW w, InitiateCancel(g, w)
  PROVE  EscrowIsExact'
<1>1. \A h \in Games :
        /\ games'[h].status = games[h].status /\ games'[h].mint = games[h].mint
        /\ games'[h].amount = games[h].amount
  BY DEF InitiateCancel, TypeOK, GameAccounts
<1>2. UNCHANGED <<escrow, vaults, gifts>>
  BY DEF InitiateCancel
<1>3. \A h \in Games, m \in Mints : OwedIn(games'[h], m) = OwedIn(games[h], m)
  BY <1>1 DEF OwedIn, StakesIn
<1> QED BY <1>1, <1>2, <1>3 DEF EscrowIsExact, GameIsExact

\* A gift is at most one unit to one account.
LEMMA GiftIsExact ==
  ASSUME TypeOK, EscrowIsExact, NEW w, NEW g \in Games, NEW m \in Mints,
         OpenVault(w, g, m) \/ Donate(w, g, m)
  PROVE  EscrowIsExact'
<1>1. escrow \in Books(Mints, Games) /\ gifts \in Nat
  BY EscrowBook
<1>2. games' = games /\ gifts' = gifts + 1 /\ vaults \subseteq vaults'
  BY DEF OpenVault, Donate
<1>3. \A n \in Mints, h \in Games :
        escrow'[n][h] = escrow[n][h] \/ escrow'[n][h] = escrow[n][h] + 1
  <2>1. CASE OpenVault(w, g, m)
    BY <2>1 DEF OpenVault
  <2>2. CASE Donate(w, g, m)
    <3>1. escrow' = Credit(escrow, m, g, 1)
      BY <2>2 DEF Donate
    <3> QED BY <1>1, <3>1, CreditBook
  <2> QED BY <2>1, <2>2
<1> SUFFICES ASSUME NEW h \in Games, NEW n \in Mints
             PROVE  /\ escrow'[n][h] >= OwedIn(games[h], n)
                    /\ escrow'[n][h] <= OwedIn(games[h], n) + (gifts + 1)
  BY <1>2 DEF EscrowIsExact, GameIsExact
<1>4. OwedIn(games[h], n) \in Nat /\ escrow[n][h] \in Nat
  BY <1>1, EscrowBook, OwedValue DEF Books
<1>5. /\ escrow[n][h] >= OwedIn(games[h], n)
      /\ escrow[n][h] <= OwedIn(games[h], n) + gifts
  BY DEF EscrowIsExact, GameIsExact
<1> QED BY <1>1, <1>3, <1>4, <1>5

\* Every step keeps the escrow exact.
LEMMA NextIsExact ==
  ASSUME TypeOK, TypeOK', EscrowIsExact, [Next]_vars
  PROVE  EscrowIsExact'
<1>1. CASE \E c \in Creators, n \in Nonces, x \in Stakes, s \in CreatorSides,
              e \in Entropies, m \in Mints, h \in HouseOnlyChoices :
             Create(c, n, x, s, e, m, h)
  BY <1>1, CreateIsExact
<1>2. CASE \E g \in Games, w \in Wallets, s \in Sides, e \in Entropies, x \in Stakes :
             Join(g, w, s, e, x)
  BY <1>2, JoinIsExact
<1>3. CASE \E g \in Games : Resolve(g)
  BY <1>3, CloseIsExact DEF Resolve
<1>4. CASE \E g \in Games, w \in Wallets : InitiateCancel(g, w)
  BY <1>4, InitiateCancelIsExact
<1>5. CASE \E g \in Games, w \in Wallets : Cancel(g, w)
  BY <1>5, CloseIsExact DEF Cancel
<1>6. CASE \E g \in Games : RefundExpired(g)
  BY <1>6, CloseIsExact DEF RefundExpired
<1>7. CASE \/ Admin \/ Tick \/ UNCHANGED vars
           \/ \E seed \in JoinableSeeds : VrfStep(seed)
  <2>1. UNCHANGED <<games, escrow, vaults, gifts>>
    BY <1>7 DEF Admin, Tick, VrfStep, vars
  <2> QED BY <2>1 DEF EscrowIsExact, GameIsExact
<1>8. CASE \/ \E w \in Wallets, g \in Games, m \in Tokens : OpenVault(w, g, m)
           \/ \E w \in Wallets, g \in Games, m \in Mints : Donate(w, g, m)
  BY <1>8, GiftIsExact DEF Mints
<1> QED BY <1>1, <1>2, <1>3, <1>4, <1>5, <1>6, <1>7, <1>8 DEF Next

\* Nothing is owed, and nothing is there, before the first create.
LEMMA GamesInitIsExact ==
  ASSUME GamesInit, TypeOK
  PROVE  EscrowIsExact
<1> SUFFICES ASSUME NEW g \in Games, NEW m \in Mints
             PROVE  /\ OwedIn(games[g], m) = 0 /\ escrow[m][g] = 0
                    /\ games[g].status = "Closed" /\ gifts = 0
  BY DEF EscrowIsExact, GameIsExact
<1>1. games[g] = NoGame
  BY DEF GamesInit
<1> QED BY <1>1, EscrowBook, OwedValue DEF GamesInit, NoGame

\* At every moment the accounts of every game hold exactly the stakes that are
\* in and the rent, give or take gifts: over create, join, resolve, cancel and
\* refund in any order, and over every reuse of an address.
THEOREM EscrowStaysExact == Spec => []EscrowIsExact
<1>1. Init => EscrowIsExact
  BY InitIInv, GamesInitIsExact DEF Init, IInv
<1>2. TypeOK /\ TypeOK' /\ EscrowIsExact /\ [Next]_vars => EscrowIsExact'
  BY NextIsExact
<1> QED BY <1>1, <1>2, TypeCorrect, PTL DEF Spec
----
(* What else a game can rely on *)

\* A live game's fee is the one of its create.
FeeIsPosted ==
  \A g \in Games : games[g].status # "Closed" => posted[g].fee_bps = games[g].fee_bps

FeeIsChosen == config.fee_bps \in {DEFAULT_FEE_BPS} \union FeeChoices

\* The slot a game was joined in is this one, or listed, or as many slots as
\* the list can hold have come after it.
JoinIsListed ==
  /\ Cardinality(slot_hashes) <= MAX_ENTRIES
  /\ \A g \in Games : IsReady(g) =>
       \/ games[g].join_slot = slot
       \/ games[g].join_slot \in slot_hashes
       \/ /\ Cardinality(slot_hashes) = MAX_ENTRIES
          /\ \A s \in slot_hashes : games[g].join_slot < s

InstantNeverPends == InstantVrf => \A s \in Seeds : vrf[s] # "Pending"

DealInv ==
  /\ FeeIsPosted
  /\ FeeIsChosen
  /\ JoinIsListed
  /\ InstantNeverPends

\* What requests and answers leave of InstantNeverPends: all of it.
LEMMA RequestNeverPends ==
  ASSUME TypeOK, InstantNeverPends, NEW s \in Seeds,
         Oracle!RequestRandomness(s) \/ Oracle!VrfRequest(s) \/ Oracle!VrfFulfil(s)
  PROVE  InstantNeverPends'
<1> USE CoinflipAssumption DEF TypeOK, Oracle!VrfTypeOK, InstantNeverPends
<1>1. CASE Oracle!RequestRandomness(s)
  BY <1>1 DEF Oracle!RequestRandomness, Oracle!RequestAnswers
<1>2. CASE Oracle!VrfRequest(s)
  BY <1>2 DEF Oracle!VrfRequest, Oracle!RequestAnswers
<1>3. CASE Oracle!VrfFulfil(s)
  BY <1>3 DEF Oracle!VrfFulfil
<1> QED BY <1>1, <1>2, <1>3

\* Steps of games, within a slot and under one configuration.
LEMMA DealFrame ==
  ASSUME DealInv, InstantNeverPends', UNCHANGED <<configVars, clockVars>>,
         \A g \in Games : games'[g].status # "Closed"
           => posted'[g].fee_bps = games'[g].fee_bps,
         \A g \in Games : games'[g].status = "Ready"
           => \/ games'[g].join_slot = slot
              \/ IsReady(g) /\ games'[g].join_slot = games[g].join_slot
  PROVE  DealInv'
<1>1. FeeIsPosted' /\ FeeIsChosen'
  BY DEF DealInv, FeeIsPosted, FeeIsChosen, configVars
<1>2. slot' = slot /\ slot_hashes' = slot_hashes
  BY DEF clockVars
<1>3. JoinIsListed'
  BY <1>2 DEF DealInv, JoinIsListed, IsReady
<1> QED BY <1>1, <1>3 DEF DealInv

LEMMA CloseKeepsDeals ==
  ASSUME TypeOK, DealInv, NEW g \in Games, NEW heir, NEW payee, NEW cut,
         CloseTo(g, heir, payee, cut), UNCHANGED <<configVars, clockVars, vrf>>
  PROVE  DealInv'
<1>1. /\ games' = [games EXCEPT ![g] = NoGame] /\ posted' = [posted EXCEPT ![g] = NoPost]
      /\ NoGame.status = "Closed"
  BY DEF CloseTo, NoGame
<1>2. games'[g] = NoGame /\ \A h \in Games \ {g} : games'[h] = games[h] /\ posted'[h] = posted[h]
  BY <1>1 DEF TypeOK
<1>3. \A h \in Games : games'[h].status # "Closed"
        => posted'[h].fee_bps = games'[h].fee_bps
  BY <1>1, <1>2 DEF DealInv, FeeIsPosted
<1>4. \A h \in Games : games'[h].status = "Ready"
        => IsReady(h) /\ games'[h].join_slot = games[h].join_slot
  BY <1>1, <1>2 DEF IsReady
<1>5. InstantNeverPends'
  BY DEF DealInv, InstantNeverPends
<1> QED BY <1>3, <1>4, <1>5, DealFrame

LEMMA CreateKeepsDeals ==
  ASSUME TypeOK, DealInv, NEW c \in Creators, NEW n \in Nonces, NEW amount,
         NEW side, NEW e, NEW mint, NEW h,
         Create(c, n, amount, side, e, mint, h)
  PROVE  DealInv'
<1> DEFINE g == <<c, n>>
           new == NewGame(amount, side, e, mint, h)
<1>1. /\ g \in Games /\ games' = [games EXCEPT ![g] = new]
      /\ posted' = [posted EXCEPT ![g] = [slot |-> slot, fee_bps |-> config.fee_bps]]
      /\ UNCHANGED <<configVars, clockVars, vrf>>
  BY DEF Create, Games
<1>2. new.status = "Open" /\ new.fee_bps = config.fee_bps
  BY DEF NewGame
<1> HIDE DEF g, new
<1>3. /\ games'[g] = new /\ posted'[g].fee_bps = config.fee_bps
      /\ \A k \in Games \ {g} : games'[k] = games[k] /\ posted'[k] = posted[k]
  BY <1>1 DEF TypeOK
<1>4. \A k \in Games : games'[k].status # "Closed"
        => posted'[k].fee_bps = games'[k].fee_bps
  BY <1>2, <1>3 DEF DealInv, FeeIsPosted
<1>5. \A k \in Games : games'[k].status = "Ready"
        => IsReady(k) /\ games'[k].join_slot = games[k].join_slot
  BY <1>2, <1>3 DEF IsReady
<1>6. InstantNeverPends'
  BY <1>1 DEF DealInv, InstantNeverPends
<1> QED BY <1>1, <1>4, <1>5, <1>6, DealFrame

\* What ApplyJoin leaves of a game.
LEMMA AppliedJoin ==
  ASSUME TypeOK, NEW g \in Games, NEW w, NEW side, NEW e, NEW amount,
         ApplyJoin(g, w, side, e, amount)
  PROVE  /\ games[g].status = "Open"
         /\ games'[g].status = "Ready" /\ games'[g].join_slot = slot
         /\ games'[g].joiner = w /\ games'[g].joiner_entropy = e
         /\ games'[g].amount = games[g].amount /\ games'[g].mint = games[g].mint
         /\ games'[g].fee_bps = games[g].fee_bps
         /\ \A h \in Games \ {g} : games'[h] = games[h]
  BY DEF ApplyJoin, IsOpen, TypeOK, GameAccounts

LEMMA MatchKeepsDeals ==
  ASSUME TypeOK, DealInv, NEW g \in Games, NEW w \in Wallets, NEW side,
         NEW e \in Entropies, NEW amount,
         ApplyJoin(g, w, side, e, amount), Oracle!RequestRandomness(<<g, w, e>>),
         UNCHANGED <<configVars, clockVars, posted>>
  PROVE  DealInv'
<1>1. <<g, w, e>> \in Seeds
  BY DEF Seeds
<1>2. InstantNeverPends'
  BY <1>1, RequestNeverPends DEF DealInv
<1>3. /\ games[g].status = "Open" /\ games'[g].status = "Ready"
      /\ games'[g].join_slot = slot /\ games'[g].fee_bps = games[g].fee_bps
      /\ \A h \in Games \ {g} : games'[h] = games[h]
  BY AppliedJoin
<1>4. \A h \in Games : games'[h].status # "Closed"
        => posted'[h].fee_bps = games'[h].fee_bps
  BY <1>3 DEF DealInv, FeeIsPosted
<1>5. \A h \in Games : games'[h].status = "Ready"
        => \/ games'[h].join_slot = slot
           \/ IsReady(h) /\ games'[h].join_slot = games[h].join_slot
  BY <1>3 DEF IsReady
<1> QED BY <1>2, <1>4, <1>5, DealFrame

\* Games, posts and requests that stay as they are.
LEMMA DealsUntouched ==
  ASSUME DealInv, UNCHANGED <<configVars, clockVars, vrf, games, posted>>
  PROVE  DealInv'
<1>1. InstantNeverPends'
  BY DEF DealInv, InstantNeverPends
<1>2. \A h \in Games : games'[h].status # "Closed"
        => posted'[h].fee_bps = games'[h].fee_bps
  BY DEF DealInv, FeeIsPosted
<1>3. \A h \in Games : games'[h].status = "Ready"
        => IsReady(h) /\ games'[h].join_slot = games[h].join_slot
  BY DEF IsReady
<1> QED BY <1>1, <1>2, <1>3, DealFrame

LEMMA InitiateCancelKeepsDeals ==
  ASSUME TypeOK, DealInv, NEW g \in Games, NEW w, InitiateCancel(g, w)
  PROVE  DealInv'
<1>1. \A h \in Games :
        /\ games'[h].status = games[h].status /\ games'[h].fee_bps = games[h].fee_bps
        /\ games'[h].join_slot = games[h].join_slot
  BY DEF InitiateCancel, TypeOK, GameAccounts
<1>2. UNCHANGED <<configVars, clockVars, vrf, posted>>
  BY DEF InitiateCancel
<1>3. InstantNeverPends'
  BY <1>2 DEF DealInv, InstantNeverPends
<1>4. \A h \in Games : games'[h].status # "Closed"
        => posted'[h].fee_bps = games'[h].fee_bps
  BY <1>1, <1>2 DEF DealInv, FeeIsPosted
<1>5. \A h \in Games : games'[h].status = "Ready"
        => IsReady(h) /\ games'[h].join_slot = games[h].join_slot
  BY <1>1 DEF IsReady
<1> QED BY <1>2, <1>3, <1>4, <1>5, DealFrame

LEMMA AdminKeepsDeals ==
  ASSUME TypeOK, DealInv, Admin
  PROVE  DealInv'
<1>1. FeeIsChosen'
  BY FeeIsKeptOrChosen DEF TypeOK, DealInv, FeeIsChosen, Admin
<1>2. UNCHANGED <<clockVars, vrf, games, posted>>
  BY DEF Admin
<1> QED BY <1>1, <1>2 DEF DealInv, FeeIsPosted, JoinIsListed, InstantNeverPends,
        IsReady, clockVars

\* What becomes of the list: it grows by the slot just executed, and when it
\* was full its least member goes.
LEMMA TickMovesList ==
  ASSUME IInv, DealInv, Tick, NEW S, S = slot_hashes \union {slot}
  PROVE  /\ slot \in Nat /\ slot' \in Nat /\ slot < slot'
         /\ slot_hashes \in SUBSET (0 .. (slot - 1)) /\ S \in SUBSET (0 .. slot)
         /\ IsFiniteSet(slot_hashes) /\ IsFiniteSet(S)
         /\ Cardinality(S) = Cardinality(slot_hashes) + 1
         /\ \/ Cardinality(S) <= MAX_ENTRIES /\ slot_hashes' = S
            \/ /\ Cardinality(S) = MAX_ENTRIES + 1
               /\ \E least \in S : (\A s \in S : least <= s) /\ slot_hashes' = S \ {least}
<1>1. PICK d \in Strides : slot' = slot + d /\ slot_hashes' = Newest(S)
  BY DEF Tick, AdvanceSlot
<1>2. /\ slot \in Nat /\ slot_hashes \in SUBSET (0 .. (slot - 1))
      /\ MAX_ENTRIES \in Nat \ {0} /\ d \in Nat \ {0}
  BY SlotHashAssumption, SlotIsNat DEF IInv, TypeOK, ClockTypeOK
<1>3. IsFiniteSet(slot_hashes) /\ Cardinality(slot_hashes) \in Nat
  <2>1. IsFiniteSet(0 .. (slot - 1))
    BY <1>2, FS_Interval
  <2>2. IsFiniteSet(slot_hashes)
    BY <1>2, <2>1, FS_Subset
  <2> QED BY <2>2, FS_CardinalityType
<1>4. /\ S \in SUBSET (0 .. slot) /\ S \in SUBSET Nat /\ IsFiniteSet(S)
      /\ Cardinality(S) = Cardinality(slot_hashes) + 1
  <2>1. slot \notin slot_hashes /\ slot_hashes \in SUBSET Nat
    BY <1>2
  <2> QED BY <1>2, <1>3, <2>1, FS_AddElement
<1>5. Cardinality(slot_hashes) <= MAX_ENTRIES
  BY DEF DealInv, JoinIsListed
<1>6. slot_hashes' = Topmost(S, MAX_ENTRIES)
  BY <1>1 DEF Newest, Topmost, Above
<1>7. \/ Cardinality(S) <= MAX_ENTRIES /\ slot_hashes' = S
      \/ /\ Cardinality(S) = MAX_ENTRIES + 1
         /\ \E least \in S : (\A s \in S : least <= s) /\ slot_hashes' = S \ {least}
  <2>1. Cardinality(S) <= MAX_ENTRIES + 1 /\ MAX_ENTRIES \in Nat
    BY <1>2, <1>3, <1>4, <1>5
  <2>2. \/ Cardinality(S) <= MAX_ENTRIES /\ Topmost(S, MAX_ENTRIES) = S
        \/ /\ Cardinality(S) = MAX_ENTRIES + 1
           /\ \E least \in S : /\ \A s \in S : least <= s
                               /\ Topmost(S, MAX_ENTRIES) = S \ {least}
    BY <1>4, <2>1, TopmostDropsLeast
  <2> QED BY <1>6, <2>2
<1> QED BY <1>1, <1>2, <1>3, <1>4, <1>7

\* A slot more in the list: a join slot leaves it only as the oldest of a full
\* list, and comes after none that is left.
LEMMA TickKeepsDeals ==
  ASSUME IInv, DealInv, Tick
  PROVE  DealInv'
<1> DEFINE S == slot_hashes \union {slot}
<1>1. slot \in Nat /\ slot' \in Nat /\ slot < slot'
  BY TickMovesList
<1>2. /\ slot \in Nat /\ slot_hashes \in SUBSET (0 .. (slot - 1))
      /\ MAX_ENTRIES \in Nat \ {0}
  BY SlotHashAssumption, TickMovesList
<1>3. IsFiniteSet(slot_hashes) /\ Cardinality(slot_hashes) \in Nat
  BY TickMovesList, FS_CardinalityType
<1>4. S \in SUBSET Nat /\ IsFiniteSet(S) /\ Cardinality(S) = Cardinality(slot_hashes) + 1
  <2>1. IsFiniteSet(S) /\ Cardinality(S) = Cardinality(slot_hashes) + 1
    BY TickMovesList
  <2> QED BY <1>2, <2>1
<1>5. Cardinality(slot_hashes) <= MAX_ENTRIES
  BY DEF DealInv, JoinIsListed
<1>6. UNCHANGED <<configVars, vrf, games, posted>>
  BY DEF Tick
<1>7. \A g \in Games : IsReady(g) =>
        /\ games[g].join_slot \in 0 .. slot
        /\ \/ games[g].join_slot \in S
           \/ /\ Cardinality(S) = MAX_ENTRIES + 1
              /\ \A s \in S : games[g].join_slot < s
  <2> SUFFICES ASSUME NEW g \in Games, IsReady(g)
               PROVE  /\ games[g].join_slot \in 0 .. slot
                      /\ \/ games[g].join_slot \in S
                         \/ /\ Cardinality(S) = MAX_ENTRIES + 1
                            /\ \A s \in S : games[g].join_slot < s
    OBVIOUS
  <2>1. games[g].join_slot \in 1 .. slot
    BY DEF IInv, ReadyGameIsFair
  <2>2. \/ games[g].join_slot \in S
        \/ /\ Cardinality(slot_hashes) = MAX_ENTRIES
           /\ \A s \in slot_hashes : games[g].join_slot < s
           /\ games[g].join_slot # slot
    BY DEF DealInv, JoinIsListed
  <2>3. games[g].join_slot # slot => games[g].join_slot < slot
    BY <1>2, <2>1
  <2> QED BY <1>2, <1>4, <2>1, <2>2, <2>3
<1> HIDE DEF S
<1>8. \/ Cardinality(S) <= MAX_ENTRIES /\ slot_hashes' = S
      \/ /\ Cardinality(S) = MAX_ENTRIES + 1
         /\ \E least \in S : (\A s \in S : least <= s) /\ slot_hashes' = S \ {least}
  BY TickMovesList DEF S
<1>9. JoinIsListed'
  <2>1. CASE Cardinality(S) <= MAX_ENTRIES /\ slot_hashes' = S
    <3>1. \A g \in Games : IsReady(g) => games[g].join_slot \in S
      BY <1>2, <1>7, <2>1
    <3> QED BY <1>6, <2>1, <3>1 DEF JoinIsListed, IsReady
  <2>2. CASE /\ Cardinality(S) = MAX_ENTRIES + 1
             /\ \E least \in S : (\A s \in S : least <= s) /\ slot_hashes' = S \ {least}
    <3>1. PICK least \in S : (\A s \in S : least <= s) /\ slot_hashes' = S \ {least}
      BY <2>2
    <3>2. Cardinality(slot_hashes') = MAX_ENTRIES
      <4>1. Cardinality(S \ {least}) = Cardinality(S) - 1
        BY <1>4, FS_RemoveElement
      <4>2. (MAX_ENTRIES + 1) - 1 = MAX_ENTRIES
        BY <1>2
      <4> QED BY <2>2, <3>1, <4>1, <4>2, Zenon
    <3>3. \A g \in Games : IsReady(g) =>
            \/ games[g].join_slot \in slot_hashes'
            \/ \A s \in slot_hashes' : games[g].join_slot < s
      <4> SUFFICES ASSUME NEW g \in Games, IsReady(g),
                          games[g].join_slot \notin slot_hashes',
                          NEW s \in slot_hashes'
                   PROVE  games[g].join_slot < s
        OBVIOUS
      <4>1. s \in S /\ s # least /\ s \in Nat /\ least \in Nat /\ least <= s
        BY <1>4, <3>1
      <4>2. CASE games[g].join_slot \in S
        <5>1. games[g].join_slot = least
          BY <3>1, <4>2
        <5> QED BY <4>1, <5>1
      <4>3. CASE games[g].join_slot \notin S
        BY <1>7, <4>1, <4>3
      <4> QED BY <4>2, <4>3
    <3> QED BY <1>2, <1>6, <3>2, <3>3 DEF JoinIsListed, IsReady
  <2> QED BY <1>8, <2>1, <2>2
<1> QED BY <1>6, <1>9 DEF DealInv, FeeIsPosted, FeeIsChosen, InstantNeverPends, configVars

\* Every step keeps DealInv.
LEMMA NextKeepsDeals ==
  ASSUME IInv, DealInv, [Next]_vars
  PROVE  DealInv'
<1> USE DEF IInv
<1>1. CASE \E c \in Creators, n \in Nonces, x \in Stakes, s \in CreatorSides,
              e \in Entropies, m \in Mints, h \in HouseOnlyChoices :
             Create(c, n, x, s, e, m, h)
  BY <1>1, CreateKeepsDeals
<1>2. CASE \E g \in Games, w \in Wallets, s \in Sides, e \in Entropies, x \in Stakes :
             Join(g, w, s, e, x)
  BY <1>2, MatchKeepsDeals DEF Join
<1>3. CASE \E g \in Games : Resolve(g)
  BY <1>3, CloseKeepsDeals DEF Resolve
<1>4. CASE \E g \in Games, w \in Wallets : InitiateCancel(g, w)
  BY <1>4, InitiateCancelKeepsDeals
<1>5. CASE \E g \in Games, w \in Wallets : Cancel(g, w)
  BY <1>5, CloseKeepsDeals DEF Cancel
<1>6. CASE \E g \in Games : RefundExpired(g)
  BY <1>6, CloseKeepsDeals DEF RefundExpired
<1>7. CASE Admin
  BY <1>7, AdminKeepsDeals
<1>8. CASE Tick
  BY <1>8, TickKeepsDeals
<1>9. CASE \E seed \in JoinableSeeds : VrfStep(seed)
  <2>1. InstantNeverPends' /\ UNCHANGED <<configVars, clockVars, games, posted>>
    BY <1>9, RequestNeverPends DEF VrfStep, JoinableSeeds, DealInv
  <2> QED BY <2>1 DEF DealInv, FeeIsPosted, FeeIsChosen, JoinIsListed, IsReady,
          configVars, clockVars
<1>10. CASE \/ \E w \in Wallets, g \in Games, m \in Tokens : OpenVault(w, g, m)
            \/ \E w \in Wallets, g \in Games, m \in Mints : Donate(w, g, m)
            \/ UNCHANGED vars
  <2>1. UNCHANGED <<configVars, clockVars, vrf, games, posted>>
    BY <1>10 DEF OpenVault, Donate, vars, configVars, clockVars
  <2> QED BY <2>1, DealsUntouched
<1> QED BY <1>1, <1>2, <1>3, <1>4, <1>5, <1>6, <1>7, <1>8, <1>9, <1>10 DEF Next

LEMMA GamesInitDealInv ==
  ASSUME GamesInit, config.fee_bps = DEFAULT_FEE_BPS
  PROVE  DealInv
<1>1. FeeIsPosted /\ FeeIsChosen
  BY DEF GamesInit, FeeIsPosted, FeeIsChosen, NoGame
<1>2. JoinIsListed
  <2>1. Cardinality({0}) = 1
    BY FS_Singleton
  <2>2. \A g \in Games : ~IsReady(g)
    BY DEF GamesInit, IsReady, NoGame
  <2>3. Cardinality(slot_hashes) <= MAX_ENTRIES
    BY <2>1, SlotHashAssumption DEF GamesInit, SlotInit
  <2> QED BY <2>2, <2>3 DEF JoinIsListed
<1>3. InstantNeverPends
  BY DEF GamesInit, InstantNeverPends, Oracle!VrfInit
<1> QED BY <1>1, <1>2, <1>3 DEF DealInv

LEMMA DealsStayGood == Spec => []DealInv
<1>1. Init => DealInv
  <2>1. Init => config.fee_bps = DEFAULT_FEE_BPS
    BY DEF Init, InitialConfig, NoConfig
  <2> QED BY <2>1, GamesInitDealInv DEF Init
<1>2. IInv /\ DealInv /\ [Next]_vars => DealInv'
  BY NextKeepsDeals
<1> QED BY <1>1, <1>2, Inductive, PTL DEF Spec
----
(* What a step that closes a game pays *)

\* Only three instructions close a game.
LEMMA ClosingSteps ==
  ASSUME TypeOK, [Next]_vars, NEW g \in Games, Closes(g)
  PROVE  Resolve(g) \/ RefundExpired(g) \/ \E w \in Wallets : Cancel(g, w)
<1>0. games[g].status # "Closed" /\ games'[g].status = "Closed"
  BY DEF Closes
<1>1. CASE \E c \in Creators, n \in Nonces, x \in Stakes, s \in CreatorSides,
              e \in Entropies, m \in Mints, h \in HouseOnlyChoices :
             Create(c, n, x, s, e, m, h)
  BY <1>0, <1>1 DEF Create, NewGame, TypeOK
<1>2. CASE \E h \in Games, w \in Wallets, s \in Sides, e \in Entropies, x \in Stakes :
             Join(h, w, s, e, x)
  <2>1. PICK h \in Games, w \in Wallets, s \in Sides, e \in Entropies, x \in Stakes :
          ApplyJoin(h, w, s, e, x)
    BY <1>2 DEF Join
  <2> QED BY <1>0, <2>1, AppliedJoin
<1>3. \A h \in Games : \A heir, payee, cut : CloseTo(h, heir, payee, cut) => h = g
  BY <1>0 DEF CloseTo, TypeOK
<1>4. CASE \E h \in Games : Resolve(h)
  BY <1>3, <1>4 DEF Resolve
<1>5. CASE \E h \in Games, w \in Wallets : InitiateCancel(h, w)
  BY <1>0, <1>5 DEF InitiateCancel, TypeOK, GameAccounts
<1>6. CASE \E h \in Games, w \in Wallets : Cancel(h, w)
  BY <1>3, <1>6 DEF Cancel
<1>7. CASE \E h \in Games : RefundExpired(h)
  BY <1>3, <1>7 DEF RefundExpired
<1>8. CASE \/ Admin \/ Tick \/ UNCHANGED vars
           \/ \E seed \in JoinableSeeds : VrfStep(seed)
           \/ \E w \in Wallets, h \in Games, m \in Tokens : OpenVault(w, h, m)
           \/ \E w \in Wallets, h \in Games, m \in Mints : Donate(w, h, m)
  <2>1. games' = games
    BY <1>8 DEF Admin, Tick, VrfStep, OpenVault, Donate, vars
  <2> QED BY <1>0, <2>1
<1> QED BY <1>1, <1>2, <1>4, <1>5, <1>6, <1>7, <1>8 DEF Next

\* Who gains what by CloseTo.
LEMMA CloseGains ==
  ASSUME TypeOK, NEW g \in Games, NEW heir \in Wallets, NEW payee \in Wallets,
         NEW cut \in Nat, cut <= escrow[games[g].mint][g],
         CloseTo(g, heir, payee, cut)
  PROVE  /\ \A w \in Wallets :
              Gain(games[g].mint, w) =
                (IF w = payee THEN cut ELSE 0)
                  + (IF w = heir THEN escrow[games[g].mint][g] - cut ELSE 0)
         /\ ~IsNativeSol(games[g].mint) =>
              Gain(NativeSol, heir) = escrow[NativeSol][g] + VaultRent
         /\ \A m \in Mints \ {games[g].mint}, w \in Wallets :
              Gain(m, w) = IF m = NativeSol /\ w = heir
                           THEN escrow[NativeSol][g] + VaultRent ELSE 0
<1> DEFINE mint == games[g].mint
           rest == escrow[mint][g] - cut
           once == Credit(purse, mint, payee, cut)
           paid == Credit(once, mint, heir, rest)
           rents == escrow[NativeSol][g] + VaultRent
           all  == Credit(paid, NativeSol, heir, rents)
<1>1. /\ mint \in Mints /\ rest \in Nat /\ rents \in Nat
      /\ purse \in Books(Mints, Wallets)
  BY NativeSolIsMint, CoinflipAssumption DEF TypeOK, GameAccounts, Books
<1>2. purse' = IF IsNativeSol(mint) THEN paid ELSE all
  BY DEF CloseTo
<1> HIDE DEF mint, rest, rents
<1>3. /\ once \in Books(Mints, Wallets)
      /\ \A m \in Mints, w \in Wallets :
           once[m][w] = IF m = mint /\ w = payee THEN purse[m][w] + cut ELSE purse[m][w]
  <2>1. purse \in Books(Mints, Wallets) /\ mint \in Mints
    BY <1>1
  <2> QED BY <2>1, CreditBook
<1> HIDE DEF once
<1>4. /\ paid \in Books(Mints, Wallets)
      /\ \A m \in Mints, w \in Wallets :
           paid[m][w] = IF m = mint /\ w = heir THEN once[m][w] + rest ELSE once[m][w]
  <2>1. once \in Books(Mints, Wallets) /\ mint \in Mints /\ rest \in Nat
    BY <1>1, <1>3
  <2> QED BY <2>1, CreditBook
<1> HIDE DEF paid
<1>5. /\ all \in Books(Mints, Wallets)
      /\ \A m \in Mints, w \in Wallets :
           all[m][w] = IF m = NativeSol /\ w = heir THEN paid[m][w] + rents ELSE paid[m][w]
  <2>1. paid \in Books(Mints, Wallets) /\ NativeSol \in Mints /\ rents \in Nat
    BY <1>1, <1>4, NativeSolIsMint
  <2> QED BY <2>1, CreditBook
<1> HIDE DEF all
<1>6. \A m \in Mints, w \in Wallets : purse[m][w] \in Nat
  BY <1>1 DEF Books
<1>7. \A w \in Wallets :
        purse'[mint][w] - purse[mint][w] =
          (IF w = payee THEN cut ELSE 0) + (IF w = heir THEN rest ELSE 0)
  <2>1. \A w \in Wallets : purse'[mint][w] = paid[mint][w]
    BY <1>1, <1>2, <1>5 DEF IsNativeSol
  <2> QED BY <1>1, <1>3, <1>4, <1>6, <2>1
<1>8. ~IsNativeSol(mint) => purse'[NativeSol][heir] - purse[NativeSol][heir] = rents
  <2> SUFFICES ASSUME ~IsNativeSol(mint)
               PROVE  purse'[NativeSol][heir] - purse[NativeSol][heir] = rents
    OBVIOUS
  <2>1. mint # NativeSol /\ purse' = all
    BY <1>2 DEF IsNativeSol
  <2>2. all[NativeSol][heir] = purse[NativeSol][heir] + rents
    BY <1>3, <1>4, <1>5, <2>1, NativeSolIsMint
  <2> QED BY <1>1, <1>6, <2>1, <2>2, NativeSolIsMint
<1>9. ASSUME NEW m \in Mints \ {mint}, NEW w \in Wallets
      PROVE  purse'[m][w] - purse[m][w] = IF m = NativeSol /\ w = heir THEN rents ELSE 0
  <2>1. CASE IsNativeSol(mint)
    <3>1. m # NativeSol /\ purse' = paid
      BY <1>2, <2>1 DEF IsNativeSol
    <3>2. paid[m][w] = purse[m][w]
      BY <1>3, <1>4
    <3> QED BY <1>6, <3>1, <3>2
  <2>2. CASE ~IsNativeSol(mint)
    <3>1. purse' = all /\ paid[m][w] = purse[m][w]
      BY <1>2, <1>3, <1>4, <2>2
    <3> QED BY <1>1, <1>5, <1>6, <3>1
  <2> QED BY <2>1, <2>2
<1> QED BY <1>7, <1>8, <1>9 DEF Gain, mint, rest, rents

\* What a game account holds by EscrowIsExact.
LEMMA LiveGameHolds ==
  ASSUME TypeOK, EscrowIsExact, NEW g \in Games, games[g].status # "Closed"
  PROVE  /\ games[g].amount \in Nat /\ GameRent \in Nat /\ games[g].mint \in Mints
         /\ \A m \in Mints : escrow[m][g] \in Nat
         /\ escrow[NativeSol][g] >= GameRent
         /\ escrow[games[g].mint][g] >=
              StakesOf(g) + (IF IsNativeSol(games[g].mint) THEN GameRent ELSE 0)
<1>1. games[g] \in GameAccounts /\ games[g].mint \in Mints /\ escrow \in Books(Mints, Games)
  BY EscrowBook
<1>2. games[g].status \in {"Open", "Ready"} /\ games[g].amount \in Nat /\ GameRent \in Nat
  BY <1>1, CoinflipAssumption, U64Assumption DEF GameAccounts, U64
<1>3. \A m \in Mints : escrow[m][g] \in Nat /\ escrow[m][g] >= OwedIn(games[g], m)
  BY <1>1 DEF EscrowIsExact, GameIsExact, Books
<1>4. StakesOf(g) = IF games[g].status = "Open" THEN games[g].amount ELSE 2 * games[g].amount
  BY <1>2 DEF StakesOf, IsReady
<1>5. OwedIn(games[g], games[g].mint) =
        StakesOf(g) + (IF games[g].mint = NativeSol THEN GameRent ELSE 0)
  BY <1>1, <1>4, OwedValue
<1>6. OwedIn(games[g], NativeSol) >= GameRent
  BY <1>1, <1>2, NativeSolIsMint, OwedValue
<1>7. escrow[NativeSol][g] >= GameRent
  <2>1. OwedIn(games[g], NativeSol) \in Nat
    BY <1>1, NativeSolIsMint, OwedValue
  <2> QED BY <1>2, <1>3, <1>6, <2>1, NativeSolIsMint
<1> QED BY <1>1, <1>2, <1>3, <1>5, <1>7 DEF IsNativeSol

\* A verdict pays the winner.
LEMMA WinnerIsPaid ==
  ASSUME IInv, DealInv, EscrowIsExact, [Next]_vars, NEW g \in Games
  PROVE  PaysWinner(g)
<1> DEFINE winner == ResultWinner(g, vrf[SeedOf(g)])
           m   == games[g].mint
           fee == PotFee(games[g].amount, posted[g].fee_bps)
<1> SUFFICES ASSUME IsReady(g), Oracle!IsRequestFulfilled(SeedOf(g)), Closes(g)
             PROVE  /\ Gain(m, winner) >= 2 * games[g].amount - fee
                    /\ \A w \in Wallets \ {winner} :
                         Gain(m, w) = IF w = config.authority THEN fee ELSE 0
  BY DEF PaysWinner
<1>1. TypeOK /\ games[g].status = "Ready"
  BY DEF IInv, IsReady
<1>2. Resolve(g)
  BY <1>1, ClosingSteps DEF RefundExpired, Cancel, IsOpen
<1>3. winner \in Wallets /\ config.authority \in Wallets
  BY ReadySeed, CreatorIsWallet DEF ResultWinner, IInv, ConfigIsCurrent
<1>4. FeeOf(g) = fee
  BY <1>1 DEF FeeOf, DealInv, FeeIsPosted
<1>5. fee \in Nat
  BY <1>1, LiveGameHolds, PotFeeBounds DEF TypeOK
<1>6. /\ games[g].amount \in Nat /\ escrow[m][g] \in Nat
      /\ escrow[m][g] >= 2 * games[g].amount
  BY <1>1, LiveGameHolds, CoinflipAssumption DEF StakesOf
<1>7. CloseTo(g, winner, config.authority, fee) /\ fee <= escrow[m][g]
  BY <1>2, <1>4, <1>5, <1>6 DEF Resolve
<1> HIDE DEF winner, fee
<1>8. \A w \in Wallets : Gain(m, w) = (IF w = config.authority THEN fee ELSE 0)
                                        + (IF w = winner THEN escrow[m][g] - fee ELSE 0)
  BY <1>1, <1>3, <1>5, <1>7, CloseGains
<1>9. Gain(m, winner) >= 2 * games[g].amount - fee
  BY <1>3, <1>5, <1>6, <1>8
<1>10. \A w \in Wallets \ {winner} :
         Gain(m, w) = IF w = config.authority THEN fee ELSE 0
  BY <1>5, <1>8
<1> QED BY <1>9, <1>10

\* resolve.rs pays the pot less the fee of the create to the winner, that fee to
\* the authority of the moment, and nobody else anything, under whatever
\* configuration by now.
THEOREM WinnerAlwaysTakesPot == Spec => WinnerTakesPot
<1>1. IInv /\ DealInv /\ EscrowIsExact /\ [Next]_vars => \A g \in Games : PaysWinner(g)
  BY WinnerIsPaid
<1> QED BY <1>1, Inductive, DealsStayGood, EscrowStaysExact, PTL DEF Spec, WinnerTakesPot

\* An end without a verdict pays everybody back.
LEMMA PlayersAreMadeWhole ==
  ASSUME IInv, EscrowIsExact, [Next]_vars, NEW g \in Games
  PROVE  MakesWhole(g)
<1> DEFINE m == games[g].mint
           players == {Creator(g)} \union (IF IsReady(g) THEN {games[g].joiner} ELSE {})
           Whole ==
             /\ \A w \in players : Gain(m, w) >= games[g].amount
             /\ Gain(NativeSol, Creator(g)) >=
                  GameRent + (IF IsNativeSol(m) THEN games[g].amount ELSE VaultRent)
             /\ \A w \in Wallets \ players : Gain(m, w) = 0
<1> SUFFICES ASSUME Closes(g), ~(IsReady(g) /\ Oracle!IsRequestFulfilled(SeedOf(g)))
             PROVE  Whole
  BY DEF MakesWhole
<1>1. TypeOK /\ games[g].status # "Closed"
  BY DEF IInv, Closes
<1>2. ~Resolve(g)
  BY DEF Resolve
<1>3. /\ games[g].amount \in Nat /\ GameRent \in Nat /\ VaultRent \in Nat
      /\ escrow[m][g] \in Nat /\ escrow[NativeSol][g] \in Nat
      /\ escrow[NativeSol][g] >= GameRent
      /\ escrow[m][g] >= StakesOf(g) + (IF IsNativeSol(m) THEN GameRent ELSE 0)
  BY <1>1, LiveGameHolds, NativeSolIsMint, CoinflipAssumption
<1>4. Creator(g) \in Wallets
  BY CreatorIsWallet
<1>5. CASE \E w \in Wallets : Cancel(g, w)
  <2>1. CloseTo(g, Creator(g), Creator(g), 0) /\ games[g].status = "Open"
    BY <1>5 DEF Cancel, IsOpen
  <2>2. StakesOf(g) = games[g].amount /\ players = {Creator(g)}
    BY <2>1 DEF StakesOf, IsReady
  <2> HIDE DEF players
  <2>3. /\ \A w \in Wallets : Gain(m, w) = (IF w = Creator(g) THEN 0 ELSE 0)
                                + (IF w = Creator(g) THEN escrow[m][g] - 0 ELSE 0)
        /\ ~IsNativeSol(m) => Gain(NativeSol, Creator(g)) = escrow[NativeSol][g] + VaultRent
    BY <1>1, <1>3, <1>4, <2>1, CloseGains
  <2>4. IsNativeSol(m) => Gain(NativeSol, Creator(g)) = escrow[m][g]
    BY <1>3, <1>4, <2>3 DEF IsNativeSol
  <2> QED BY <1>3, <1>4, <2>2, <2>3, <2>4
<1>6. CASE RefundExpired(g)
  <2>1. /\ CloseTo(g, Creator(g), games[g].joiner, games[g].amount)
        /\ IsReady(g)
    BY <1>6 DEF RefundExpired
  <2>2. /\ games[g].joiner \in Wallets /\ games[g].joiner # Creator(g)
        /\ StakesOf(g) = 2 * games[g].amount
        /\ players = {Creator(g), games[g].joiner}
    BY <2>1 DEF StakesOf, IInv, ReadyGameIsFair
  <2> HIDE DEF players
  <2>3. /\ \A w \in Wallets :
             Gain(m, w) = (IF w = games[g].joiner THEN games[g].amount ELSE 0)
                            + (IF w = Creator(g) THEN escrow[m][g] - games[g].amount ELSE 0)
        /\ ~IsNativeSol(m) => Gain(NativeSol, Creator(g)) = escrow[NativeSol][g] + VaultRent
    <3>1. games[g].amount <= escrow[m][g]
      BY <1>3, <2>2
    <3> QED BY <1>1, <1>3, <1>4, <2>1, <2>2, <3>1, CloseGains
  <2>4. IsNativeSol(m) =>
          Gain(NativeSol, Creator(g)) = escrow[m][g] - games[g].amount
    BY <1>3, <1>4, <2>2, <2>3 DEF IsNativeSol
  <2> QED BY <1>3, <1>4, <2>2, <2>3, <2>4
<1> QED BY <1>1, <1>2, <1>5, <1>6, ClosingSteps

\* cancel.rs and refund.rs give every stake and the rents back, and nobody
\* else a unit.
THEOREM UnwindAlwaysMakesWhole == Spec => UnwindMakesWhole
<1>1. IInv /\ EscrowIsExact /\ [Next]_vars => \A g \in Games : MakesWhole(g)
  BY PlayersAreMadeWhole
<1> QED BY <1>1, Inductive, EscrowStaysExact, PTL DEF Spec, UnwindMakesWhole

\* A match that ends without a verdict has waited for one.
LEMMA OracleIsWaitedFor ==
  ASSUME IInv, DealInv, [Next]_vars, NEW g \in Games
  PROVE  WaitsForOracle(g)
<1> DEFINE j == games[g].join_slot
<1> SUFFICES ASSUME IsReady(g), Closes(g), ~Oracle!IsRequestFulfilled(SeedOf(g))
             PROVE  slot > j + MAX_ENTRIES
  BY DEF WaitsForOracle
<1>1. RefundExpired(g)
  BY ClosingSteps DEF IInv, Resolve, Cancel, IsOpen, IsReady
<1>2. /\ LookupJoinSlotHash(j) = "Expired" /\ j \in 1 .. slot
  BY <1>1 DEF RefundExpired, IInv, ReadyGameIsFair
<1>3. /\ slot \in Nat /\ slot_hashes \in SUBSET (0 .. (slot - 1))
      /\ MAX_ENTRIES \in Nat \ {0}
  BY SlotHashAssumption, SlotIsNat DEF IInv, TypeOK, ClockTypeOK
<1>4. j \notin slot_hashes /\ j # slot
  BY <1>2, <1>3 DEF LookupJoinSlotHash
<1>5. Cardinality(slot_hashes) = MAX_ENTRIES /\ \A s \in slot_hashes : j < s
  BY <1>4 DEF DealInv, JoinIsListed
<1> HIDE DEF j
<1>6. slot_hashes \in SUBSET ((j + 1) .. (slot - 1))
  BY <1>2, <1>3, <1>5
<1>7. /\ IsFiniteSet((j + 1) .. (slot - 1))
      /\ Cardinality((j + 1) .. (slot - 1)) = IF j + 1 > slot - 1 THEN 0 ELSE slot - 1 - j
  BY <1>2, <1>3, FS_Interval
<1>8. MAX_ENTRIES <= Cardinality((j + 1) .. (slot - 1))
  BY <1>5, <1>6, <1>7, FS_Subset
<1> QED BY <1>2, <1>3, <1>7, <1>8

\* refund.rs takes a matched game from the oracle only when more slots have
\* passed than SlotHashes can list, and nothing else closes it unanswered.
THEOREM OracleAlwaysHasItsWindow == Spec => OracleHasItsWindow
<1>1. IInv /\ DealInv /\ [Next]_vars => \A g \in Games : WaitsForOracle(g)
  BY OracleIsWaitedFor
<1> QED BY <1>1, Inductive, DealsStayGood, PTL DEF Spec, OracleHasItsWindow
----
(* Money is conserved *)

LEMMA GamesAreFinite == IsFiniteSet(Games)
<1>1. IsFiniteSet(Creators)
  BY CoinflipAssumption, FiniteLedger, FS_Subset
<1> QED BY <1>1, FiniteLedger, FS_Product DEF Games

\* The books of TypeOK add up.
LEMMA Totals ==
  ASSUME TypeOK, NEW m \in Mints
  PROVE  /\ purse[m] \in [Wallets -> Nat] /\ SumFunction(purse[m]) \in Nat
         /\ escrow[m] \in [Games -> Nat] /\ SumFunction(escrow[m]) \in Nat
<1>1. purse[m] \in [Wallets -> Nat] /\ escrow[m] \in [Games -> Nat]
  BY DEF TypeOK
<1> QED BY <1>1, SumBounds, FiniteLedger, GamesAreFinite

\* A vault costs its rent, once.
LEMMA VaultAdded ==
  ASSUME IsFiniteSet(vaults), NEW v, vaults' = vaults \union {v}
  PROVE  /\ IsFiniteSet(vaults')
         /\ VaultLamports \in Nat /\ VaultLamports' \in Nat
         /\ VaultLamports' = VaultLamports + (IF v \in vaults THEN 0 ELSE VaultRent)
<1>1. /\ IsFiniteSet(vaults') /\ Cardinality(vaults) \in Nat
      /\ Cardinality(vaults') =
           IF v \in vaults THEN Cardinality(vaults) ELSE Cardinality(vaults) + 1
  BY FS_AddElement, FS_CardinalityType
<1>2. \A n \in Nat : /\ VaultRent * n \in Nat /\ VaultRent \in Nat
                     /\ VaultRent * (n + 1) = VaultRent * n + VaultRent
  BY CoinflipAssumption
<1>3. VaultLamports = VaultRent * Cardinality(vaults)
      /\ VaultLamports' = VaultRent * Cardinality(vaults')
  BY DEF VaultLamports
<1>4. CASE v \in vaults
  BY <1>1, <1>2, <1>3, <1>4
<1>5. CASE v \notin vaults
  <2>1. VaultRent * Cardinality(vaults') = VaultRent * Cardinality(vaults) + VaultRent
    BY <1>1, <1>2, <1>5
  <2> QED BY <1>1, <1>2, <1>3, <1>5, <2>1
<1> QED BY <1>4, <1>5

LEMMA VaultRemoved ==
  ASSUME IsFiniteSet(vaults), NEW v, vaults' = vaults \ {v}
  PROVE  /\ IsFiniteSet(vaults')
         /\ VaultLamports \in Nat /\ VaultLamports' \in Nat
         /\ VaultLamports = VaultLamports' + (IF v \in vaults THEN VaultRent ELSE 0)
<1>1. /\ IsFiniteSet(vaults') /\ Cardinality(vaults') \in Nat
      /\ Cardinality(vaults) =
           IF v \in vaults THEN Cardinality(vaults') + 1 ELSE Cardinality(vaults')
  <2>1. /\ IsFiniteSet(vaults') /\ Cardinality(vaults') \in Nat
        /\ Cardinality(vaults) \in Nat
        /\ Cardinality(vaults') =
             IF v \in vaults THEN Cardinality(vaults) - 1 ELSE Cardinality(vaults)
    BY FS_RemoveElement, FS_CardinalityType
  <2> QED BY <2>1
<1>2. \A n \in Nat : /\ VaultRent * n \in Nat /\ VaultRent \in Nat
                     /\ VaultRent * (n + 1) = VaultRent * n + VaultRent
  BY CoinflipAssumption
<1>3. VaultLamports = VaultRent * Cardinality(vaults)
      /\ VaultLamports' = VaultRent * Cardinality(vaults')
  BY DEF VaultLamports
<1>4. CASE v \notin vaults
  BY <1>1, <1>2, <1>3, <1>4
<1>5. CASE v \in vaults
  <2>1. VaultRent * Cardinality(vaults) = VaultRent * Cardinality(vaults') + VaultRent
    BY <1>1, <1>2, <1>5
  <2> QED BY <1>1, <1>2, <1>3, <1>5, <2>1
<1> QED BY <1>4, <1>5

\* What a step that keeps all money says of it.
HeldIsKept == \A m \in Mints : HeldOf(m)' = HeldOf(m)

LEMMA UntouchedIsKept ==
  ASSUME UNCHANGED <<purse, escrow, vaults>>
  PROVE  HeldIsKept
  BY DEF HeldIsKept, HeldOf, VaultLamports

\* Closing pays out all that the game's accounts held and the rent of its vault.
LEMMA CloseKeepsMoney ==
  ASSUME TypeOK, IsFiniteSet(vaults),
         NEW g \in Games, NEW heir \in Wallets, NEW payee \in Wallets,
         NEW cut \in Nat, cut <= escrow[games[g].mint][g],
         ~IsNativeSol(games[g].mint) => <<g, games[g].mint>> \in vaults,
         CloseTo(g, heir, payee, cut)
  PROVE  IsFiniteSet(vaults') /\ HeldIsKept
<1> DEFINE mint == games[g].mint
           rest == escrow[mint][g] - cut
           once == Credit(purse, mint, payee, cut)
           paid == Credit(once, mint, heir, rest)
           rents == escrow[NativeSol][g] + VaultRent
           all  == Credit(paid, NativeSol, heir, rents)
<1>1. /\ mint \in Mints /\ rest \in Nat /\ rents \in Nat /\ VaultRent \in Nat
      /\ purse \in Books(Mints, Wallets) /\ escrow \in Books(Mints, Games)
      /\ cut + rest = escrow[mint][g]
  BY NativeSolIsMint, CoinflipAssumption DEF TypeOK, GameAccounts, Books
<1>2. /\ purse' = IF IsNativeSol(mint) THEN paid ELSE all
      /\ escrow' = [escrow EXCEPT ![mint][g] = 0, ![NativeSol][g] = 0]
      /\ vaults' = vaults \ {<<g, mint>>}
      /\ IsNativeSol(mint) => <<g, mint>> \notin vaults
      /\ ~IsNativeSol(mint) => <<g, mint>> \in vaults
  <2>1. IsNativeSol(mint) => <<g, mint>> \notin vaults
    <3>1. NativeSol \notin Tokens /\ vaults \subseteq Games \X Tokens
      BY ConfigAssumption DEF NativeSol, TypeOK
    <3> QED BY <3>1 DEF IsNativeSol
  <2> QED BY <2>1 DEF CloseTo
<1>3. rents = escrow[NativeSol][g] + VaultRent
  OBVIOUS
<1> HIDE DEF mint, rest, rents
<1>4. /\ once \in Books(Mints, Wallets)
      /\ \A m \in Mints : SumFunction(once[m]) =
           IF m = mint THEN SumFunction(purse[m]) + cut ELSE SumFunction(purse[m])
  <2>1. purse \in Books(Mints, Wallets) /\ mint \in Mints
    BY <1>1
  <2>2. once \in Books(Mints, Wallets)
    BY <2>1, CreditBook
  <2>3. \A m \in Mints : SumFunction(once[m]) =
          IF m = mint THEN SumFunction(purse[m]) + cut ELSE SumFunction(purse[m])
    BY <2>1, CreditTotal, FiniteLedger
  <2> QED BY <2>2, <2>3
<1> HIDE DEF once
<1>5. /\ paid \in Books(Mints, Wallets)
      /\ \A m \in Mints : SumFunction(paid[m]) =
           IF m = mint THEN SumFunction(once[m]) + rest ELSE SumFunction(once[m])
  <2>1. once \in Books(Mints, Wallets) /\ mint \in Mints /\ rest \in Nat
    BY <1>1, <1>4
  <2>2. paid \in Books(Mints, Wallets)
    BY <2>1, CreditBook
  <2>3. \A m \in Mints : SumFunction(paid[m]) =
          IF m = mint THEN SumFunction(once[m]) + rest ELSE SumFunction(once[m])
    BY <2>1, CreditTotal, FiniteLedger
  <2> QED BY <2>2, <2>3
<1> HIDE DEF paid
<1>6. \A m \in Mints : SumFunction(all[m]) =
        IF m = NativeSol THEN SumFunction(paid[m]) + rents ELSE SumFunction(paid[m])
  <2>1. paid \in Books(Mints, Wallets) /\ NativeSol \in Mints /\ rents \in Nat
    BY <1>1, <1>5, NativeSolIsMint
  <2> QED BY <2>1, CreditTotal, FiniteLedger
<1> HIDE DEF all
<1>7. ASSUME NEW m \in Mints
      PROVE  SumFunction(escrow'[m]) = SumFunction(escrow[m])
               - (IF m \in {mint, NativeSol} THEN escrow[m][g] ELSE 0)
  <2>1. /\ escrow[m] \in [Games -> Nat] /\ escrow'[m] \in [Games -> Nat]
        /\ \A h \in Games \ {g} : escrow'[m][h] = escrow[m][h]
        /\ escrow'[m][g] = IF m \in {mint, NativeSol} THEN 0 ELSE escrow[m][g]
    BY <1>1, <1>2, NativeSolIsMint DEF Books
  <2>2. /\ SumFunction(escrow'[m]) = SumFunction(escrow[m]) + escrow'[m][g] - escrow[m][g]
        /\ SumFunction(escrow[m]) \in Nat /\ escrow[m][g] \in Nat
    BY <2>1, GamesAreFinite, SumChange, SumBounds
  <2> QED BY <2>1, <2>2
<1>8. /\ IsFiniteSet(vaults')
      /\ VaultLamports \in Nat /\ VaultLamports' \in Nat
      /\ VaultLamports = VaultLamports' + (IF IsNativeSol(mint) THEN 0 ELSE VaultRent)
  BY <1>2, VaultRemoved
<1>9. ASSUME NEW m \in Mints PROVE HeldOf(m)' = HeldOf(m)
  <2>1. /\ SumFunction(purse[m]) \in Nat /\ SumFunction(escrow[m]) \in Nat
        /\ escrow[m][g] \in Nat
    BY Totals
  <2>2. IsNativeSol(mint) <=> mint = NativeSol
    BY DEF IsNativeSol
  <2>3. SumFunction(purse'[m]) + SumFunction(escrow'[m])
          + (IF m = NativeSol THEN VaultLamports' ELSE 0)
        = SumFunction(purse[m]) + SumFunction(escrow[m])
            + (IF m = NativeSol THEN VaultLamports ELSE 0)
    <3>1. /\ SumFunction(paid[m]) =
               SumFunction(purse[m]) + (IF m = mint THEN escrow[m][g] ELSE 0)
          /\ SumFunction(all[m]) =
               SumFunction(paid[m]) + (IF m = NativeSol THEN rents ELSE 0)
      BY <1>1, <1>4, <1>5, <1>6, <2>1
    <3>2. SumFunction(escrow'[m]) = SumFunction(escrow[m])
               - (IF m \in {mint, NativeSol} THEN escrow[m][g] ELSE 0)
      BY <1>7
    <3>3. CASE IsNativeSol(mint)
      BY <1>2, <1>8, <2>1, <2>2, <3>1, <3>2, <3>3
    <3>4. CASE ~IsNativeSol(mint)
      BY <1>1, <1>2, <1>3, <1>8, <2>1, <2>2, <3>1, <3>2, <3>4
    <3> QED BY <3>3, <3>4
  <2> QED BY <2>3 DEF HeldOf
<1> QED BY <1>8, <1>9 DEF HeldIsKept

\* What a wallet pays goes to the game account: the stake, and in lamports what
\* the accounts lack of their rents.
LEMMA CreateKeepsMoney ==
  ASSUME TypeOK, IsFiniteSet(vaults),
         NEW c \in Creators, NEW n \in Nonces, NEW amount \in Stakes,
         NEW side, NEW e, NEW mint \in Mints, NEW h,
         Create(c, n, amount, side, e, mint, h)
  PROVE  IsFiniteSet(vaults') /\ HeldIsKept
<1> DEFINE g == <<c, n>>
           rent == RentDue(g)
           due == IF IsNativeSol(mint) THEN amount ELSE VaultDue(g, mint)
           lamports == rent + due
           funded == Credit(escrow, NativeSol, g, rent)
           paying == Debit(purse, NativeSol, c, lamports)
<1>1. /\ g \in Games /\ c \in Wallets /\ mint \in Mints /\ NativeSol \in Mints
      /\ escrow \in Books(Mints, Games) /\ purse \in Books(Mints, Wallets)
      /\ amount \in Nat /\ VaultRent \in Nat /\ GameRent \in Nat
  BY NativeSolIsMint, CoinflipAssumption, U64Assumption DEF Games, TypeOK, Books, U64
<1>2. /\ lamports <= purse[NativeSol][c] /\ amount <= purse[mint][c]
      /\ escrow' = Credit(funded, mint, g, amount)
      /\ purse' = IF IsNativeSol(mint) THEN paying ELSE Debit(paying, mint, c, amount)
      /\ vaults' = IF IsNativeSol(mint) THEN vaults ELSE vaults \union {<<g, mint>>}
  <2>1. /\ purse[NativeSol][c] >= lamports /\ purse[mint][c] >= amount
        /\ escrow' = Credit(funded, mint, g, amount)
        /\ IF IsNativeSol(mint)
           THEN /\ purse' = Debit(purse, NativeSol, c, lamports)
                /\ UNCHANGED vaults
           ELSE /\ purse' = Debit(Debit(purse, NativeSol, c, lamports), mint, c, amount)
                /\ vaults' = vaults \union {<<g, mint>>}
    BY DEF Create
  <2>2. rent \in Nat /\ due \in Nat
    BY <1>1 DEF RentDue, VaultDue, Books
  <2>3. purse[NativeSol][c] \in Nat /\ purse[mint][c] \in Nat
    BY <1>1 DEF Books
  <2> HIDE DEF rent, due
  <2>4. lamports \in Nat
    BY <2>2
  <2> QED BY <2>1, <2>3, <2>4, <1>1
<1>3. /\ rent \in Nat /\ due \in Nat
      /\ due = IF IsNativeSol(mint) THEN amount
               ELSE IF <<g, mint>> \in vaults THEN 0 ELSE VaultRent
  BY <1>1 DEF RentDue, VaultDue, Books
<1> HIDE DEF g, rent, due
<1>4. lamports \in Nat /\ lamports = rent + due
  BY <1>3
<1> HIDE DEF lamports
<1>5. /\ funded \in Books(Mints, Games)
      /\ \A m \in Mints : SumFunction(funded[m]) =
           IF m = NativeSol THEN SumFunction(escrow[m]) + rent ELSE SumFunction(escrow[m])
  <2>1. funded \in Books(Mints, Games)
    BY <1>1, <1>3, CreditBook
  <2> QED BY <2>1, <1>1, <1>3, CreditTotal, GamesAreFinite
<1> HIDE DEF funded
<1>6. \A m \in Mints : SumFunction(escrow'[m]) =
        IF m = mint THEN SumFunction(funded[m]) + amount ELSE SumFunction(funded[m])
  <2>1. /\ funded \in Books(Mints, Games) /\ escrow' = Credit(funded, mint, g, amount)
        /\ mint \in Mints /\ g \in Games /\ amount \in Nat
    BY <1>1, <1>2, <1>5
  <2> QED BY <2>1, CreditTotal, GamesAreFinite
<1>7. /\ paying \in Books(Mints, Wallets)
      /\ \A m \in Mints, w \in Wallets : paying[m][w] =
           IF m = NativeSol /\ w = c THEN purse[m][w] - lamports ELSE purse[m][w]
      /\ \A m \in Mints : SumFunction(paying[m]) =
           IF m = NativeSol THEN SumFunction(purse[m]) - lamports ELSE SumFunction(purse[m])
  <2>1. /\ purse \in Books(Mints, Wallets) /\ NativeSol \in Mints /\ c \in Wallets
        /\ lamports \in Nat /\ lamports <= purse[NativeSol][c]
    BY <1>1, <1>2, <1>4
  <2>2. /\ paying \in Books(Mints, Wallets)
        /\ \A m \in Mints, w \in Wallets : paying[m][w] =
             IF m = NativeSol /\ w = c THEN purse[m][w] - lamports ELSE purse[m][w]
    BY <2>1, DebitBook
  <2>3. \A m \in Mints : SumFunction(paying[m]) =
          IF m = NativeSol THEN SumFunction(purse[m]) - lamports ELSE SumFunction(purse[m])
    BY <2>1, DebitTotal, FiniteLedger
  <2> QED BY <2>2, <2>3
<1> HIDE DEF paying
<1>8. ASSUME NEW m \in Mints
      PROVE  SumFunction(purse'[m]) = SumFunction(paying[m])
               - (IF m = mint /\ ~IsNativeSol(mint) THEN amount ELSE 0)
  <2>1. SumFunction(paying[m]) \in Nat
    BY <1>7, SumBounds, FiniteLedger DEF Books
  <2>2. CASE IsNativeSol(mint)
    BY <1>2, <2>1, <2>2
  <2>3. CASE ~IsNativeSol(mint)
    <3>1. /\ paying \in Books(Mints, Wallets) /\ c \in Wallets /\ amount \in Nat
          /\ mint \in Mints /\ amount <= paying[mint][c]
          /\ purse' = Debit(paying, mint, c, amount)
      BY <1>1, <1>2, <1>7, <2>3 DEF IsNativeSol
    <3>2. SumFunction(purse'[m]) =
            IF m = mint THEN SumFunction(paying[m]) - amount ELSE SumFunction(paying[m])
      BY <3>1, DebitTotal, FiniteLedger
    <3> QED BY <2>1, <2>3, <3>2
  <2> QED BY <2>2, <2>3
<1>9. /\ IsFiniteSet(vaults')
      /\ VaultLamports \in Nat
      /\ VaultLamports' = VaultLamports + (IF IsNativeSol(mint) THEN 0 ELSE due)
  <2>1. CASE IsNativeSol(mint)
    <3>1. Cardinality(vaults) \in Nat /\ vaults' = vaults
      BY <1>2, <2>1, FS_CardinalityType
    <3>2. VaultLamports' = VaultLamports /\ VaultLamports \in Nat
      BY <3>1, <1>1 DEF VaultLamports
    <3> QED BY <2>1, <3>1, <3>2
  <2>2. CASE ~IsNativeSol(mint)
    <3>1. vaults' = vaults \union {<<g, mint>>}
      BY <1>2, <2>2
    <3> QED BY <1>3, <2>2, <3>1, VaultAdded
  <2> QED BY <2>1, <2>2
<1>10. ASSUME NEW m \in Mints PROVE HeldOf(m)' = HeldOf(m)
  <2>1. SumFunction(purse[m]) \in Nat /\ SumFunction(escrow[m]) \in Nat
    BY Totals
  <2>2. SumFunction(escrow'[m]) = SumFunction(escrow[m])
          + (IF m = NativeSol THEN rent ELSE 0) + (IF m = mint THEN amount ELSE 0)
    BY <1>1, <1>3, <1>5, <1>6, <2>1
  <2>3. SumFunction(purse'[m]) = SumFunction(purse[m])
          - (IF m = NativeSol THEN rent + due ELSE 0)
          - (IF m = mint /\ ~IsNativeSol(mint) THEN amount ELSE 0)
    BY <1>1, <1>3, <1>4, <1>7, <1>8, <2>1
  <2>4. SumFunction(purse'[m]) + SumFunction(escrow'[m])
          + (IF m = NativeSol THEN VaultLamports' ELSE 0)
        = SumFunction(purse[m]) + SumFunction(escrow[m])
            + (IF m = NativeSol THEN VaultLamports ELSE 0)
    <3>1. CASE IsNativeSol(mint)
      <4>1. mint = NativeSol /\ due = amount
        BY <1>3, <3>1 DEF IsNativeSol
      <4> QED BY <1>1, <1>3, <1>9, <2>1, <2>2, <2>3, <3>1, <4>1
    <3>2. CASE ~IsNativeSol(mint)
      <4>1. mint # NativeSol
        BY <3>2 DEF IsNativeSol
      <4> QED BY <1>1, <1>3, <1>9, <2>1, <2>2, <2>3, <3>2, <4>1
    <3> QED BY <3>1, <3>2
  <2> QED BY <2>4 DEF HeldOf
<1> QED BY <1>9, <1>10 DEF HeldIsKept

\* What leaves a wallet for a game's account arrives there.
LEMMA PaymentKeepsMoney ==
  ASSUME TypeOK, NEW g \in Games, NEW w \in Wallets, NEW mint \in Mints,
         NEW amount \in Nat, amount <= purse[mint][w],
         purse' = Debit(purse, mint, w, amount),
         escrow' = Credit(escrow, mint, g, amount),
         UNCHANGED vaults
  PROVE  HeldIsKept
<1>1. purse \in Books(Mints, Wallets) /\ escrow \in Books(Mints, Games)
  BY DEF TypeOK, Books
<1>2. \A m \in Mints : SumFunction(purse'[m]) =
        IF m = mint THEN SumFunction(purse[m]) - amount ELSE SumFunction(purse[m])
  BY <1>1, DebitTotal, FiniteLedger
<1>3. \A m \in Mints : SumFunction(escrow'[m]) =
        IF m = mint THEN SumFunction(escrow[m]) + amount ELSE SumFunction(escrow[m])
  BY <1>1, CreditTotal, GamesAreFinite
<1>4. VaultLamports' = VaultLamports
  BY DEF VaultLamports
<1>5. ASSUME NEW m \in Mints PROVE HeldOf(m)' = HeldOf(m)
  <2>1. SumFunction(purse[m]) \in Nat /\ SumFunction(escrow[m]) \in Nat
    BY Totals
  <2>2. SumFunction(purse'[m]) + SumFunction(escrow'[m])
          = SumFunction(purse[m]) + SumFunction(escrow[m])
    BY <1>2, <1>3, <2>1
  <2> QED BY <1>4, <2>2 DEF HeldOf
<1> QED BY <1>5 DEF HeldIsKept

\* An outsider pays for the vault that he opens.
LEMMA OpenVaultKeepsMoney ==
  ASSUME TypeOK, IsFiniteSet(vaults),
         NEW w \in Wallets, NEW g \in Games, NEW mint \in Tokens,
         OpenVault(w, g, mint)
  PROVE  IsFiniteSet(vaults') /\ HeldIsKept
<1>1. /\ purse \in Books(Mints, Wallets) /\ NativeSol \in Mints
      /\ VaultRent \in Nat /\ purse[NativeSol][w] \in Nat
  BY NativeSolIsMint, CoinflipAssumption DEF TypeOK, Books
<1>2. /\ VaultRent <= purse[NativeSol][w] /\ <<g, mint>> \notin vaults
      /\ purse' = Debit(purse, NativeSol, w, VaultRent)
      /\ vaults' = vaults \union {<<g, mint>>} /\ escrow' = escrow
  BY <1>1 DEF OpenVault
<1>3. \A m \in Mints : SumFunction(purse'[m]) =
        IF m = NativeSol THEN SumFunction(purse[m]) - VaultRent ELSE SumFunction(purse[m])
  BY <1>1, <1>2, DebitTotal, FiniteLedger
<1>4. /\ IsFiniteSet(vaults') /\ VaultLamports \in Nat
      /\ VaultLamports' = VaultLamports + VaultRent
  BY <1>2, VaultAdded
<1>5. ASSUME NEW m \in Mints PROVE HeldOf(m)' = HeldOf(m)
  <2>1. SumFunction(purse[m]) \in Nat /\ SumFunction(escrow[m]) \in Nat
    BY Totals
  <2>2. SumFunction(purse'[m]) + SumFunction(escrow[m])
          + (IF m = NativeSol THEN VaultLamports' ELSE 0)
        = SumFunction(purse[m]) + SumFunction(escrow[m])
            + (IF m = NativeSol THEN VaultLamports ELSE 0)
    BY <1>1, <1>3, <1>4, <2>1
  <2> QED BY <1>2, <2>2 DEF HeldOf
<1> QED BY <1>4, <1>5 DEF HeldIsKept

\* No step makes or loses money, whoever takes it.
LEMMA NextKeepsMoney ==
  ASSUME IInv, IsFiniteSet(vaults), [Next]_vars
  PROVE  IsFiniteSet(vaults') /\ HeldIsKept
<1>0. TypeOK
  BY DEF IInv
<1>1. CASE \E c \in Creators, n \in Nonces, x \in Stakes, s \in CreatorSides,
              e \in Entropies, m \in Mints, h \in HouseOnlyChoices :
             Create(c, n, x, s, e, m, h)
  BY <1>0, <1>1, CreateKeepsMoney
<1>2. CASE \E g \in Games, w \in Wallets, s \in Sides, e \in Entropies, x \in Stakes :
             Join(g, w, s, e, x)
  <2>1. PICK g \in Games, w \in Wallets, s \in Sides, e \in Entropies, x \in Stakes :
          Join(g, w, s, e, x)
    BY <1>2
  <2>2. games[g].mint \in Mints /\ x \in Nat /\ purse[games[g].mint][w] \in Nat
    BY <1>0, CoinflipAssumption, U64Assumption DEF TypeOK, GameAccounts, U64
  <2>3. /\ x <= purse[games[g].mint][w]
        /\ purse' = Debit(purse, games[g].mint, w, x)
        /\ escrow' = Credit(escrow, games[g].mint, g, x)
        /\ UNCHANGED vaults
    BY <2>1, <2>2 DEF Join
  <2> QED BY <1>0, <2>2, <2>3, PaymentKeepsMoney
<1>3. CASE \E g \in Games : Resolve(g)
  <2>1. PICK g \in Games : Resolve(g)
    BY <1>3
  <2> DEFINE fee == FeeOf(g)
  <2>2. /\ IsReady(g) /\ VaultCovers(g, 2 * games[g].amount)
        /\ escrow[games[g].mint][g] >= fee
        /\ CloseTo(g, ResultWinner(g, vrf[SeedOf(g)]), config.authority, fee)
    BY <2>1 DEF Resolve
  <2>3. ResultWinner(g, vrf[SeedOf(g)]) \in Wallets /\ config.authority \in Wallets
    BY <2>2, ReadySeed, CreatorIsWallet DEF ResultWinner, IInv, ConfigIsCurrent
  <2>4. fee \in Nat
    BY <1>0, U64Assumption, PotFeeBounds DEF FeeOf, TypeOK, GameAccounts, U64
  <2>5. fee <= escrow[games[g].mint][g]
    BY <1>0, <2>2, <2>4 DEF TypeOK, GameAccounts
  <2> HIDE DEF fee
  <2>6. ~IsNativeSol(games[g].mint) => <<g, games[g].mint>> \in vaults
    BY <2>2 DEF VaultCovers
  <2> QED BY <1>0, <2>2, <2>3, <2>4, <2>5, <2>6, CloseKeepsMoney
<1>4. CASE \E g \in Games, w \in Wallets : Cancel(g, w)
  <2>1. PICK g \in Games, w \in Wallets : Cancel(g, w)
    BY <1>4
  <2>2. /\ ~IsNativeSol(games[g].mint) => <<g, games[g].mint>> \in vaults
        /\ CloseTo(g, Creator(g), Creator(g), 0)
    BY <2>1 DEF Cancel, VaultCovers
  <2>3. Creator(g) \in Wallets /\ 0 <= escrow[games[g].mint][g]
    BY <1>0, CreatorIsWallet DEF TypeOK, GameAccounts
  <2> QED BY <1>0, <2>2, <2>3, CloseKeepsMoney
<1>5. CASE \E g \in Games : RefundExpired(g)
  <2>1. PICK g \in Games : RefundExpired(g)
    BY <1>5
  <2>2. /\ ~IsNativeSol(games[g].mint) => <<g, games[g].mint>> \in vaults
        /\ CloseTo(g, Creator(g), games[g].joiner, games[g].amount)
        /\ IsReady(g) /\ escrow[games[g].mint][g] >= games[g].amount
    BY <2>1 DEF RefundExpired, VaultCovers
  <2>3. /\ Creator(g) \in Wallets /\ games[g].joiner \in Wallets
        /\ games[g].amount \in Nat /\ games[g].amount <= escrow[games[g].mint][g]
    BY <1>0, <2>2, ReadySeed, CreatorIsWallet, U64Assumption
    DEF TypeOK, GameAccounts, U64
  <2> QED BY <1>0, <2>2, <2>3, CloseKeepsMoney
<1>6. CASE \/ \E g \in Games, w \in Wallets : InitiateCancel(g, w)
           \/ Admin \/ Tick \/ UNCHANGED vars
           \/ \E seed \in JoinableSeeds : VrfStep(seed)
  <2>1. UNCHANGED <<purse, escrow, vaults>>
    BY <1>6 DEF InitiateCancel, Admin, Tick, VrfStep, vars
  <2> QED BY <2>1, UntouchedIsKept
<1>7. CASE \E w \in Wallets, g \in Games, m \in Tokens : OpenVault(w, g, m)
  BY <1>0, <1>7, OpenVaultKeepsMoney
<1>8. CASE \E w \in Wallets, g \in Games, m \in Mints : Donate(w, g, m)
  <2>1. PICK w \in Wallets, g \in Games, m \in Mints : Donate(w, g, m)
    BY <1>8
  <2>2. purse[m][w] \in Nat
    BY <1>0 DEF TypeOK
  <2>3. /\ 1 <= purse[m][w] /\ purse' = Debit(purse, m, w, 1)
        /\ escrow' = Credit(escrow, m, g, 1) /\ UNCHANGED vaults
    BY <2>1, <2>2 DEF Donate
  <2> QED BY <1>0, <2>3, PaymentKeepsMoney
<1> QED BY <1>1, <1>2, <1>3, <1>4, <1>5, <1>6, <1>7, <1>8 DEF Next

\* MoneyIsConserved, with what it takes to count the vaults.
BooksBalance == IsFiniteSet(vaults) /\ MoneyIsConserved

LEMMA GamesInitBalances ==
  ASSUME GamesInit
  PROVE  BooksBalance
<1>1. /\ purse = Endowment /\ vaults = {}
      /\ escrow = [m \in Mints |-> [g \in Games |-> 0]]
  BY DEF GamesInit
<1>2. IsFiniteSet(vaults) /\ VaultLamports = 0
  <2>1. IsFiniteSet(vaults) /\ Cardinality(vaults) = 0
    BY <1>1, FS_EmptySet
  <2> QED BY <2>1, CoinflipAssumption DEF VaultLamports
<1>3. ASSUME NEW m \in Mints PROVE HeldOf(m) = SumFunction(Endowment[m])
  <2>1. SumFunction(escrow[m]) = 0
    BY <1>1, GamesAreFinite, SumOfZeros
  <2>2. SumFunction(purse[m]) \in Nat
    BY <1>1, CoinflipAssumption, FiniteLedger, U64Assumption, SumBounds DEF U64
  <2> QED BY <1>1, <1>2, <2>1, <2>2 DEF HeldOf
<1> QED BY <1>2, <1>3 DEF BooksBalance, MoneyIsConserved

LEMMA BooksStayBalanced == Spec => []BooksBalance
<1>1. Init => BooksBalance
  BY GamesInitBalances DEF Init
<1>2. IInv /\ BooksBalance /\ [Next]_vars => BooksBalance'
  <2> SUFFICES ASSUME IInv, BooksBalance, [Next]_vars
               PROVE  BooksBalance'
    OBVIOUS
  <2>1. IsFiniteSet(vaults') /\ \A m \in Mints : HeldOf(m)' = HeldOf(m)
    BY NextKeepsMoney DEF BooksBalance, HeldIsKept
  <2> QED BY <2>1 DEF BooksBalance, MoneyIsConserved
<1> QED BY <1>1, <1>2, Inductive, PTL DEF Spec

\* What wallets, game accounts and vaults hold of each mint together never
\* changes, whichever instructions run in whatever order.
THEOREM MoneyIsAlwaysConserved == Spec => []MoneyIsConserved
<1>1. BooksBalance => MoneyIsConserved
  BY DEF BooksBalance
<1> QED BY <1>1, BooksStayBalanced, PTL

\* A game holds its pot, and no game holds more than there is.
LEMMA PotIsHeld ==
  ASSUME TypeOK, EscrowIsExact, MoneyIsConserved, IsFiniteSet(vaults)
  PROVE  PotNeverOverflows
<1> SUFFICES ASSUME NEW g \in Games, IsReady(g)
             PROVE  2 * games[g].amount <= U64_MAX
  BY DEF PotNeverOverflows, PotFits
<1> DEFINE m == games[g].mint
<1>1. /\ m \in Mints /\ games[g].amount \in Nat /\ GameRent \in Nat
      /\ escrow[m][g] \in Nat
      /\ escrow[m][g] >= 2 * games[g].amount
  <2>1. games[g].status = "Ready"
    BY DEF IsReady
  <2> QED BY <2>1, LiveGameHolds DEF StakesOf
<1> HIDE DEF m
<1>2. /\ SumFunction(purse[m]) \in Nat /\ SumFunction(escrow[m]) \in Nat
      /\ escrow[m][g] <= SumFunction(escrow[m])
  BY <1>1, Totals, SumBounds, GamesAreFinite
<1>3. VaultLamports \in Nat
  BY CoinflipAssumption, FS_CardinalityType DEF VaultLamports
<1>4. HeldOf(m) \in Nat /\ SumFunction(escrow[m]) <= HeldOf(m)
  BY <1>2, <1>3 DEF HeldOf
<1>5. HeldOf(m) <= U64_MAX
  BY <1>1, SupplyAssumption DEF MoneyIsConserved
<1> QED BY <1>1, <1>2, <1>4, <1>5, U64Assumption

\* resolve.rs never fails on the checked_mul of the pot, although neither
\* create nor join looks at it: supplies are u64.
THEOREM PotAlwaysFits == Spec => []PotNeverOverflows
<1>1. TypeOK /\ EscrowIsExact /\ BooksBalance => PotNeverOverflows
  BY PotIsHeld DEF BooksBalance
<1> QED BY <1>1, TypeCorrect, EscrowStaysExact, BooksStayBalanced, PTL
----
(* Money always has a way out *)

\* What the instructions that end a game ask of the state they find.
CancelAsks(g, signer) ==
  /\ config.layout = "current"
  /\ IsOpen(g)
  /\ MayCancel(g, signer)
  /\ VaultCovers(g, games[g].amount)

ResolveAsks(g) ==
  /\ config.layout = "current"
  /\ IsReady(g)
  /\ Oracle!IsRequestFulfilled(SeedOf(g))
  /\ PotFits(games[g].amount)
  /\ VaultCovers(g, 2 * games[g].amount)
  /\ escrow[games[g].mint][g] >= FeeOf(g)

RefundAsks(g) ==
  /\ config.layout = "current"
  /\ IsReady(g)
  /\ games[g].join_slot > 0
  /\ ~Oracle!IsRequestFulfilled(SeedOf(g))
  /\ LookupJoinSlotHash(games[g].join_slot) = "Expired"
  /\ VaultCovers(g, SaturatedPot(games[g].amount))
  /\ escrow[games[g].mint][g] >= games[g].amount

\* They ask nothing else: what is left of each action gives every variable
\* its next value.
LEMMA NothingElseIsAsked ==
  ASSUME NEW g \in Games, NEW w \in Wallets
  PROVE  /\ Cancel(g, w) <=>
              /\ CancelAsks(g, w)
              /\ CloseTo(g, Creator(g), Creator(g), 0)
              /\ UNCHANGED <<configVars, clockVars, vrf, settled, created, gifts>>
         /\ Resolve(g) <=>
              /\ ResolveAsks(g)
              /\ CloseTo(g, ResultWinner(g, vrf[SeedOf(g)]), config.authority, FeeOf(g))
              /\ settled' = settled \union {SeedOf(g)}
              /\ UNCHANGED <<configVars, clockVars, vrf, created, gifts>>
         /\ RefundExpired(g) <=>
              /\ RefundAsks(g)
              /\ CloseTo(g, Creator(g), games[g].joiner, games[g].amount)
              /\ UNCHANGED <<configVars, clockVars, vrf, settled, created, gifts>>
  BY DEF Cancel, CancelAsks, Resolve, ResolveAsks, RefundExpired, RefundAsks

\* FundsAreNeverStuck, by what the instructions ask instead of by ENABLED, for
\* the pots that fit and for all.
FittingGamesCanEnd ==
  \A g \in Games :
    /\ IsOpen(g) => CancelAsks(g, Creator(g))
    /\ /\ IsReady(g) /\ PotFits(games[g].amount)
       /\ Oracle!IsRequestFulfilled(SeedOf(g))
       => ResolveAsks(g)
    /\ /\ IsReady(g)
       /\ ~Oracle!IsRequestFulfilled(SeedOf(g))
       /\ LookupJoinSlotHash(games[g].join_slot) = "Expired"
       => RefundAsks(g)

EveryGameCanEnd ==
  \A g \in Games :
    /\ IsOpen(g) => CancelAsks(g, Creator(g))
    /\ IsReady(g) /\ Oracle!IsRequestFulfilled(SeedOf(g)) => ResolveAsks(g)
    /\ /\ IsReady(g)
       /\ ~Oracle!IsRequestFulfilled(SeedOf(g))
       /\ LookupJoinSlotHash(games[g].join_slot) = "Expired"
       => RefundAsks(g)

\* What a game holds covers every check; only the pot has to fit.
LEMMA ExactGamesCanEnd ==
  ASSUME IInv, EscrowIsExact
  PROVE  FittingGamesCanEnd
<1> SUFFICES ASSUME NEW g \in Games, games[g].status # "Closed"
             PROVE  /\ IsOpen(g) => CancelAsks(g, Creator(g))
                    /\ /\ IsReady(g) /\ PotFits(games[g].amount)
                       /\ Oracle!IsRequestFulfilled(SeedOf(g))
                       => ResolveAsks(g)
                    /\ /\ IsReady(g)
                       /\ ~Oracle!IsRequestFulfilled(SeedOf(g))
                       /\ LookupJoinSlotHash(games[g].join_slot) = "Expired"
                       => RefundAsks(g)
  BY DEF FittingGamesCanEnd, IsOpen, IsReady
<1>1. TypeOK /\ config.layout = "current"
  BY DEF IInv, ConfigIsCurrent
<1>2. /\ games[g].amount \in Nat /\ games[g].mint \in Mints
      /\ games[g].fee_bps \in 0 .. MAX_FEE_BPS
      /\ escrow[games[g].mint][g] \in Nat
      /\ escrow[games[g].mint][g] >= StakesOf(g)
  <2>1. games[g].fee_bps \in 0 .. MAX_FEE_BPS
    BY <1>1 DEF TypeOK, GameAccounts
  <2>2. StakesOf(g) \in Nat
    BY <1>1, LiveGameHolds DEF StakesOf
  <2> QED BY <1>1, <2>1, <2>2, LiveGameHolds
<1>3. ~IsNativeSol(games[g].mint) => <<g, games[g].mint>> \in vaults
  BY <1>2 DEF EscrowIsExact, GameIsExact
<1>4. IsOpen(g) => CancelAsks(g, Creator(g))
  BY <1>1, <1>2, <1>3 DEF CancelAsks, VaultCovers, MayCancel, StakesOf, IsOpen, IsReady
<1>5. ASSUME IsReady(g)
      PROVE  /\ VaultCovers(g, SaturatedPot(games[g].amount))
             /\ VaultCovers(g, 2 * games[g].amount)
             /\ escrow[games[g].mint][g] >= FeeOf(g)
             /\ escrow[games[g].mint][g] >= games[g].amount
             /\ games[g].join_slot > 0
  <2>1. StakesOf(g) = 2 * games[g].amount
    BY <1>5 DEF StakesOf
  <2>2. FeeOf(g) \in Nat /\ 20 * FeeOf(g) <= 2 * games[g].amount
    BY <1>2, PotFeeBounds DEF FeeOf
  <2>3. /\ SaturatedPot(games[g].amount) \in Nat
        /\ SaturatedPot(games[g].amount) <= 2 * games[g].amount
    BY <1>2, U64Assumption DEF SaturatedPot, PotFits
  <2>4. games[g].join_slot \in 1 .. slot /\ slot \in Nat
    BY <1>1, <1>5, SlotIsNat DEF IInv, ReadyGameIsFair
  <2> QED BY <1>2, <1>3, <2>1, <2>2, <2>3, <2>4 DEF VaultCovers
<1>6. /\ IsReady(g) /\ PotFits(games[g].amount)
      /\ Oracle!IsRequestFulfilled(SeedOf(g))
      => ResolveAsks(g)
  BY <1>1, <1>5 DEF ResolveAsks
<1>7. /\ IsReady(g)
      /\ ~Oracle!IsRequestFulfilled(SeedOf(g))
      /\ LookupJoinSlotHash(games[g].join_slot) = "Expired"
      => RefundAsks(g)
  BY <1>1, <1>5 DEF RefundAsks
<1> QED BY <1>4, <1>6, <1>7

\* In every state, paused or not and whatever outsiders have sent, an open game
\* passes all checks of cancel.rs, an answered one those of resolve.rs, and an
\* unanswered one those of refund.rs once its join slot has expired.
THEOREM EveryGameCanAlwaysEnd == Spec => []EveryGameCanEnd
<1>1. IInv /\ EscrowIsExact /\ PotNeverOverflows => EveryGameCanEnd
  BY ExactGamesCanEnd DEF EveryGameCanEnd, FittingGamesCanEnd, PotNeverOverflows
<1> QED BY <1>1, Inductive, EscrowStaysExact, PotAlwaysFits, PTL

\* A game that a step neither matches nor ends stays as it is while it is ready.
LEMMA ReadyGameStays ==
  ASSUME TypeOK, [Next]_vars, NEW g \in Games, IsReady(g), ~Closes(g)
  PROVE  games'[g] = games[g]
<1>0. games[g].status = "Ready" /\ games'[g].status # "Closed"
  BY DEF IsReady, Closes
<1>1. CASE \E c \in Creators, n \in Nonces, x \in Stakes, s \in CreatorSides,
              e \in Entropies, m \in Mints, h \in HouseOnlyChoices :
             Create(c, n, x, s, e, m, h)
  <2>1. PICK c \in Creators, n \in Nonces, x \in Stakes, s \in CreatorSides,
             e \in Entropies, m \in Mints, k \in HouseOnlyChoices :
               Create(c, n, x, s, e, m, k)
    BY <1>1
  <2> DEFINE h == <<c, n>>
  <2>2. /\ h \in Games /\ games[h].status = "Closed"
        /\ games' = [games EXCEPT ![h] = NewGame(x, s, e, m, k)]
    BY <2>1 DEF Create, Games
  <2> HIDE DEF h
  <2> QED BY <1>0, <2>2 DEF TypeOK
<1>2. CASE \E h \in Games, w \in Wallets, s \in Sides, e \in Entropies, x \in Stakes :
             Join(h, w, s, e, x)
  <2>1. PICK h \in Games, w \in Wallets, s \in Sides, e \in Entropies, x \in Stakes :
          ApplyJoin(h, w, s, e, x)
    BY <1>2 DEF Join
  <2>2. games[h].status = "Open" /\ \A k \in Games \ {h} : games'[k] = games[k]
    BY <2>1, AppliedJoin
  <2> QED BY <1>0, <2>2
<1>3. CASE \/ \E h \in Games : Resolve(h)
           \/ \E h \in Games, w \in Wallets : Cancel(h, w)
           \/ \E h \in Games : RefundExpired(h)
  <2>1. PICK h \in Games : games' = [games EXCEPT ![h] = NoGame]
    BY <1>3 DEF Resolve, Cancel, RefundExpired, CloseTo
  <2>2. NoGame.status = "Closed"
    BY DEF NoGame
  <2> QED BY <1>0, <2>1, <2>2 DEF TypeOK
<1>4. CASE \E h \in Games, w \in Wallets : InitiateCancel(h, w)
  <2>1. PICK h \in Games : IsOpen(h) /\ \E x : games' = [games EXCEPT ![h] = x]
    BY <1>4 DEF InitiateCancel
  <2> QED BY <1>0, <2>1 DEF IsOpen, TypeOK
<1>5. CASE \/ Admin \/ Tick \/ UNCHANGED vars
           \/ \E seed \in JoinableSeeds : VrfStep(seed)
           \/ \E w \in Wallets, h \in Games, m \in Tokens : OpenVault(w, h, m)
           \/ \E w \in Wallets, h \in Games, m \in Mints : Donate(w, h, m)
  BY <1>5 DEF Admin, Tick, VrfStep, OpenVault, Donate, vars
<1> QED BY <1>1, <1>2, <1>3, <1>4, <1>5 DEF Next

\* No step takes an answer back or changes it.
LEMMA AnswersStay ==
  ASSUME TypeOK, [Next]_vars, NEW s \in Seeds, Oracle!IsRequestFulfilled(s)
  PROVE  vrf'[s] = vrf[s]
<1>0. vrf[s] \in Randomness
  BY DEF Oracle!IsRequestFulfilled
<1>1. CASE \E g \in Games, w \in Wallets, d \in Sides, e \in Entropies, x \in Stakes :
             Join(g, w, d, e, x)
  <2>1. PICK t \in Seeds : Oracle!RequestRandomness(t)
    BY <1>1 DEF Join, Seeds
  <2> QED BY <1>0, <2>1, RequestKeeps
<1>2. CASE \E t \in JoinableSeeds : VrfStep(t)
  <2>1. PICK t \in Seeds : Oracle!VrfRequest(t) \/ Oracle!VrfFulfil(t)
    BY <1>2 DEF VrfStep, JoinableSeeds
  <2> QED BY <1>0, <2>1, RequestKeeps
<1>3. CASE \/ \E c \in Creators, n \in Nonces, x \in Stakes, d \in CreatorSides,
                 e \in Entropies, m \in Mints, h \in HouseOnlyChoices :
                Create(c, n, x, d, e, m, h)
           \/ \E g \in Games : Resolve(g)
           \/ \E g \in Games, w \in Wallets : InitiateCancel(g, w)
           \/ \E g \in Games, w \in Wallets : Cancel(g, w)
           \/ \E g \in Games : RefundExpired(g)
           \/ Admin \/ Tick \/ UNCHANGED vars
           \/ \E w \in Wallets, g \in Games, m \in Tokens : OpenVault(w, g, m)
           \/ \E w \in Wallets, g \in Games, m \in Mints : Donate(w, g, m)
  <2>1. ASSUME NEW c \in Creators, NEW n \in Nonces, NEW x \in Stakes,
               NEW d \in CreatorSides, NEW e \in Entropies, NEW m \in Mints,
               NEW h \in HouseOnlyChoices, Create(c, n, x, d, e, m, h)
        PROVE  vrf' = vrf
    BY <2>1 DEF Create
  <2>2. ASSUME NEW g \in Games, NEW w \in Wallets, NEW m \in Mints,
               \/ Resolve(g) \/ InitiateCancel(g, w) \/ Cancel(g, w) \/ RefundExpired(g)
               \/ OpenVault(w, g, m) \/ Donate(w, g, m)
        PROVE  vrf' = vrf
    BY <2>2 DEF Resolve, InitiateCancel, Cancel, RefundExpired, OpenVault, Donate
  <2>3. ASSUME Admin \/ Tick \/ UNCHANGED vars
        PROVE  vrf' = vrf
    BY <2>3 DEF Admin, Tick, vars
  <2>4. Wallets # {} /\ Tokens \subseteq Mints /\ Mints # {}
    BY CoinflipAssumption DEF Mints
  <2> QED BY <1>3, <2>1, <2>2, <2>3, <2>4
<1> QED BY <1>1, <1>2, <1>3 DEF Next

\* The lookup of a matched game's join slot, in terms of the list.
LEMMA ExpiredMeansOlder ==
  ASSUME IInv, DealInv, NEW g \in Games, IsReady(g)
  PROVE  LookupJoinSlotHash(games[g].join_slot) = "Expired" <=>
           /\ games[g].join_slot < slot
           /\ slot_hashes # {}
           /\ \A s \in slot_hashes : games[g].join_slot < s
<1> DEFINE j == games[g].join_slot
<1>1. j \in Nat /\ j <= slot /\ slot \in Nat /\ slot_hashes \in SUBSET Nat
  BY SlotIsNat DEF IInv, ReadyGameIsFair, TypeOK, ClockTypeOK
<1>2. \/ j = slot
      \/ j \in slot_hashes
      \/ slot_hashes # {} /\ \A s \in slot_hashes : j < s
  BY SlotHashAssumption, FS_EmptySet DEF DealInv, JoinIsListed
<1> HIDE DEF j
<1>3. CASE j = slot
  BY <1>1, <1>3 DEF LookupJoinSlotHash, j
<1>4. CASE j \in slot_hashes
  BY <1>1, <1>4 DEF LookupJoinSlotHash, j
<1>5. CASE j # slot /\ slot_hashes # {} /\ \A s \in slot_hashes : j < s
  <2>1. j \notin slot_hashes /\ j < slot /\ ~(slot <= j)
    BY <1>1, <1>5
  <2>2. ~ \E oldest \in slot_hashes : oldest <= j
    BY <1>1, <1>5
  <2>3. LookupJoinSlotHash(j) = "Expired"
    BY <2>1, <2>2 DEF LookupJoinSlotHash
  <2> QED BY <1>5, <2>1, <2>3 DEF j
<1> QED BY <1>2, <1>3, <1>4, <1>5

\* The clock is Tick's alone.
LEMMA OnlyTickMovesClock ==
  ASSUME [Next]_vars
  PROVE  Tick \/ UNCHANGED clockVars
<1>1. CASE \E c \in Creators, n \in Nonces, x \in Stakes, s \in CreatorSides,
              e \in Entropies, m \in Mints, h \in HouseOnlyChoices :
             Create(c, n, x, s, e, m, h)
  BY <1>1 DEF Create
<1>2. CASE \E g \in Games, w \in Wallets, s \in Sides, e \in Entropies, x \in Stakes :
             Join(g, w, s, e, x)
  BY <1>2 DEF Join
<1>3. CASE \/ \E g \in Games : Resolve(g)
           \/ \E g \in Games, w \in Wallets : Cancel(g, w)
           \/ \E g \in Games : RefundExpired(g)
  BY <1>3 DEF Resolve, Cancel, RefundExpired
<1>4. CASE \/ \E g \in Games, w \in Wallets : InitiateCancel(g, w)
           \/ Admin \/ UNCHANGED vars
           \/ \E s \in JoinableSeeds : VrfStep(s)
           \/ \E w \in Wallets, g \in Games, m \in Tokens : OpenVault(w, g, m)
           \/ \E w \in Wallets, g \in Games, m \in Mints : Donate(w, g, m)
  BY <1>4 DEF InitiateCancel, Admin, VrfStep, OpenVault, Donate, vars, clockVars
<1> QED BY <1>1, <1>2, <1>3, <1>4 DEF Next

\* The lookup of an expired join slot says the same at the next slot.
LEMMA ExpiryIsFinal ==
  ASSUME IInv, DealInv, NEW g \in Games, IsReady(g),
         LookupJoinSlotHash(games[g].join_slot) = "Expired",
         games'[g] = games[g], Tick
  PROVE  LookupJoinSlotHash(games[g].join_slot)' = "Expired"
<1> DEFINE j == games[g].join_slot
<1>1. PICK d \in Strides : slot' = slot + d /\ slot_hashes' = Newest(slot_hashes \union {slot})
  BY DEF Tick, AdvanceSlot
<1>2. /\ j \in Nat /\ slot \in Nat /\ d \in Nat \ {0}
      /\ slot_hashes \in SUBSET Nat
      /\ MAX_ENTRIES \in Nat \ {0}
  BY SlotHashAssumption, SlotIsNat DEF IInv, ReadyGameIsFair, TypeOK, ClockTypeOK
<1>3. j < slot /\ \A s \in slot_hashes : j < s
  BY ExpiredMeansOlder
<1>4. slot_hashes' \in SUBSET Nat /\ \A s \in slot_hashes' : j < s
  BY <1>1, <1>2, <1>3 DEF Newest
<1>5. games'[g].join_slot = j
  OBVIOUS
<1> HIDE DEF j
<1>6. j < slot' /\ j \notin slot_hashes'
  BY <1>1, <1>2, <1>3, <1>4
<1> QED BY <1>1, <1>2, <1>4, <1>5, <1>6 DEF LookupJoinSlotHash

\* What a step must leave alone for a way out to stay open.
LEMMA SettlementFrame ==
  ASSUME IInv, DealInv, NEW g \in Games, IsSettleable(g),
         games'[g] = games[g],
         Oracle!IsRequestFulfilled(SeedOf(g)) => vrf'[SeedOf(g)] = vrf[SeedOf(g)],
         Tick \/ UNCHANGED clockVars
  PROVE  IsSettleable(g)'
<1>1. IsReady(g) /\ IsReady(g)' /\ SeedOf(g)' = SeedOf(g)
  BY DEF IsSettleable, IsReady, SeedOf
<1>2. CASE Oracle!IsRequestFulfilled(SeedOf(g))
  <2>1. Oracle!IsRequestFulfilled(SeedOf(g))'
    BY <1>1, <1>2 DEF Oracle!IsRequestFulfilled
  <2> QED BY <1>1, <2>1 DEF IsSettleable
<1>3. CASE LookupJoinSlotHash(games[g].join_slot) = "Expired"
  <2>1. LookupJoinSlotHash(games[g].join_slot)' = "Expired"
    <3>1. CASE Tick
      BY <1>1, <1>3, <3>1, ExpiryIsFinal
    <3>2. CASE UNCHANGED clockVars
      BY <1>3, <3>2 DEF clockVars, LookupJoinSlotHash
    <3> QED BY <3>1, <3>2
  <2> QED BY <1>1, <2>1 DEF IsSettleable
<1> QED BY <1>2, <1>3 DEF IsSettleable

LEMMA NextKeepsSettlement ==
  ASSUME IInv, DealInv, [Next]_vars, NEW g \in Games, IsSettleable(g)
  PROVE  IsSettleable(g)' \/ Closes(g)
<1> SUFFICES ASSUME ~Closes(g)
             PROVE  IsSettleable(g)'
  OBVIOUS
<1>1. TypeOK /\ IsReady(g)
  BY DEF IInv, IsSettleable
<1>2. games'[g] = games[g]
  BY <1>1, ReadyGameStays
<1>3. SeedOf(g) \in Seeds
  BY <1>1, ReadySeed
<1>4. Oracle!IsRequestFulfilled(SeedOf(g)) => vrf'[SeedOf(g)] = vrf[SeedOf(g)]
  BY <1>1, <1>3, AnswersStay
<1> QED BY <1>2, <1>4, OnlyTickMovesClock, SettlementFrame

\* Neither the clock, nor the oracle, nor any other instruction puts off a
\* settlement that resolve.rs or refund.rs would accept by now.
THEOREM SettlementAlwaysStaysOpen == Spec => SettlementStaysOpen
<1>1. IInv /\ DealInv /\ [Next]_vars =>
        \A g \in Games : IsSettleable(g) => IsSettleable(g)' \/ Closes(g)
  BY NextKeepsSettlement
<1> QED BY <1>1, Inductive, DealsStayGood, PTL DEF Spec, SettlementStaysOpen

\* A slot goes by: the join slot moves one place down the list, or leaves it.
LEMMA SlotIsCounted ==
  ASSUME IInv, DealInv, Tick, NEW g \in Games, IsReady(g), ~IsSettleable(g)
  PROVE  \/ IsSettleable(g)'
         \/ SlotsWaited(g)' = SlotsWaited(g) + 1 /\ SlotsWaited(g)' <= MAX_ENTRIES
<1> DEFINE S == slot_hashes \union {slot}
           j == games[g].join_slot
           A == {s \in slot_hashes : s >= j}
<1>1. /\ slot \in Nat /\ slot' \in Nat /\ slot < slot'
      /\ slot_hashes \in SUBSET (0 .. (slot - 1)) /\ IsFiniteSet(slot_hashes)
  BY TickMovesList
<1>2. IsFiniteSet(S) /\ Cardinality(S) \in Nat
  BY TickMovesList, FS_CardinalityType
<1>3. /\ games' = games /\ j \in Nat /\ j <= slot
      /\ MAX_ENTRIES \in Nat \ {0}
  BY <1>1, SlotHashAssumption DEF Tick, IInv, ReadyGameIsFair
<1>4. j \in S
  <2>1. ~ (j < slot /\ slot_hashes # {} /\ \A s \in slot_hashes : j < s)
    BY ExpiredMeansOlder DEF IsSettleable
  <2>2. \/ j = slot \/ j \in slot_hashes
        \/ slot_hashes # {} /\ \A s \in slot_hashes : j < s
    BY SlotHashAssumption, FS_EmptySet DEF DealInv, JoinIsListed
  <2>3. j = slot \/ j < slot
    BY <1>1, <1>3
  <2> QED BY <2>1, <2>2, <2>3
<1>5. \/ Cardinality(S) <= MAX_ENTRIES /\ slot_hashes' = S
      \/ /\ Cardinality(S) = MAX_ENTRIES + 1
         /\ \E least \in S : (\A s \in S : least <= s) /\ slot_hashes' = S \ {least}
  BY TickMovesList
<1>6. SlotsWaited(g) = Cardinality(A) /\ IsFiniteSet(A) /\ slot \notin A
  BY <1>1, FS_Subset DEF SlotsWaited
<1>7. /\ IsFiniteSet(A \union {slot})
      /\ Cardinality(A \union {slot}) = Cardinality(A) + 1
  BY <1>6, FS_AddElement
<1>8. IsReady(g)' /\ games'[g].join_slot = j
  BY <1>3 DEF IsReady
<1>9. SlotsWaited(g)' = Cardinality({s \in slot_hashes' : s >= j})
  BY <1>8 DEF SlotsWaited
<1>10. S \in SUBSET Nat /\ \A s \in S : s \in A \union {slot} <=> s >= j
  <2>1. S \in SUBSET Nat
    BY <1>1
  <2>2. ASSUME NEW s \in S
        PROVE  s \in A \union {slot} <=> s >= j
    <3>1. CASE s \in slot_hashes
      BY <3>1, <1>3
    <3>2. CASE s = slot
      BY <3>2, <1>3
    <3> QED BY <3>1, <3>2
  <2> QED BY <2>1, <2>2
<1>11. A \union {slot} \subseteq S
  OBVIOUS
<1>12. slot' > j
  BY <1>1, <1>3
<1> HIDE DEF S, A, j
<1>13. CASE Cardinality(S) <= MAX_ENTRIES /\ slot_hashes' = S
  <2>1. {s \in slot_hashes' : s >= j} = A \union {slot}
    BY <1>10, <1>11, <1>13
  <2>2. Cardinality(A \union {slot}) <= Cardinality(S)
    BY <1>2, <1>11, FS_Subset
  <2>3. Cardinality(A \union {slot}) \in Nat
    BY <1>7, FS_CardinalityType
  <2>4. Cardinality(A \union {slot}) <= MAX_ENTRIES
    BY <1>2, <1>3, <1>13, <2>2, <2>3
  <2> QED BY <1>6, <1>7, <1>9, <2>1, <2>4
<1>14. CASE /\ Cardinality(S) = MAX_ENTRIES + 1
            /\ \E least \in S : (\A s \in S : least <= s) /\ slot_hashes' = S \ {least}
  <2>1. PICK least \in S : (\A s \in S : least <= s) /\ slot_hashes' = S \ {least}
    BY <1>14
  <2>2. CASE j = least
    <3>1. j \notin slot_hashes' /\ \A s \in slot_hashes' : ~(s <= j)
      BY <1>10, <2>1, <2>2
    <3>2. ~(slot' <= j)
      BY <1>1, <1>3, <1>12
    <3>3. LookupJoinSlotHash(games[g].join_slot)' = "Expired"
      BY <1>8, <3>1, <3>2 DEF LookupJoinSlotHash
    <3> QED BY <1>8, <3>3 DEF IsSettleable
  <2>3. CASE j # least
    <3>1. ~(least >= j)
      BY <1>4, <1>10, <2>1, <2>3
    <3>2. {s \in slot_hashes' : s >= j} = A \union {slot}
      BY <1>10, <1>11, <2>1, <3>1
    <3>3. /\ A \union {slot} \subseteq S \ {least} /\ IsFiniteSet(S \ {least})
          /\ Cardinality(S \ {least}) = Cardinality(S) - 1
      BY <1>2, <1>10, <1>11, <2>1, <3>1, FS_RemoveElement
    <3>4. Cardinality(A \union {slot}) <= Cardinality(S \ {least})
      BY <3>3, FS_Subset
    <3>5. Cardinality(A \union {slot}) \in Nat
      BY <1>7, FS_CardinalityType
    <3>6. Cardinality(A \union {slot}) <= MAX_ENTRIES
      BY <1>3, <1>14, <3>3, <3>4, <3>5
    <3> QED BY <1>6, <1>7, <1>9, <3>2, <3>6
  <2> QED BY <2>2, <2>3
<1> QED BY <1>5, <1>13, <1>14

\* Whatever the oracle does, a match waits for MAX_ENTRIES slots and one more,
\* however many slots are skipped among them (lookup_join_slot_hash).
THEOREM EverySlotIsCounted == Spec => EverySlotCounts
<1>1. ASSUME IInv, DealInv, [Next]_vars, slot' # slot,
             NEW g \in Games, IsReady(g), ~IsSettleable(g)
      PROVE  \/ IsSettleable(g)'
             \/ SlotsWaited(g)' = SlotsWaited(g) + 1 /\ SlotsWaited(g)' <= MAX_ENTRIES
  <2>1. Tick
    BY <1>1, OnlyTickMovesClock DEF clockVars
  <2> QED BY <1>1, <2>1, SlotIsCounted
<1>2. IInv /\ DealInv /\ [Next]_vars =>
        \A g \in Games : IsReady(g) /\ ~IsSettleable(g) /\ slot' # slot =>
          \/ IsSettleable(g)'
          \/ SlotsWaited(g)' = SlotsWaited(g) + 1 /\ SlotsWaited(g)' <= MAX_ENTRIES
  BY <1>1
<1> QED BY <1>2, Inductive, DealsStayGood, PTL DEF Spec, EverySlotCounts
----
(* No wallet loses more than its lost draws *)

\* What is due to whom, by how far the game has come.
DuesAreTabled ==
  \A g \in Games, m \in Mints, w \in Wallets :
    /\ Due(g, m, w) \in Nat
    /\ games[g].status = "Closed" => Due(g, m, w) = 0
    /\ games[g].status # "Closed" /\ ~IsDrawn(g) =>
         Due(g, m, w) =
           (IF m = games[g].mint /\ (w = Creator(g) \/ (IsReady(g) /\ w = games[g].joiner))
            THEN games[g].amount ELSE 0)
             + (IF m = NativeSol /\ w = Creator(g) THEN RentsOf(g) ELSE 0)
    /\ IsDrawn(g) =>
         Due(g, m, w) =
           (IF m = games[g].mint /\ w = WinnerOf(g)
            THEN 2 * games[g].amount - PotFee(games[g].amount, posted[g].fee_bps) ELSE 0)
             + (IF m = NativeSol /\ w = WinnerOf(g) THEN RentsOf(g) ELSE 0)
    /\ games[g].amount \in Nat /\ RentsOf(g) \in Nat
    /\ PotFee(games[g].amount, posted[g].fee_bps) \in Nat
    /\ PotFee(games[g].amount, posted[g].fee_bps) <= games[g].amount

\* The table follows from the types and from the bounds on the fee.
LEMMA TypedDues == TypeOK => DuesAreTabled
<1> SUFFICES ASSUME TypeOK, NEW g \in Games, NEW m \in Mints, NEW w \in Wallets
             PROVE  /\ Due(g, m, w) \in Nat
                    /\ games[g].status = "Closed" => Due(g, m, w) = 0
                    /\ games[g].status # "Closed" /\ ~IsDrawn(g) =>
                         Due(g, m, w) =
                           (IF m = games[g].mint /\ (w = Creator(g) \/ (IsReady(g) /\ w = games[g].joiner))
                            THEN games[g].amount ELSE 0)
                             + (IF m = NativeSol /\ w = Creator(g) THEN RentsOf(g) ELSE 0)
                    /\ IsDrawn(g) =>
                         Due(g, m, w) =
                           (IF m = games[g].mint /\ w = WinnerOf(g)
                            THEN 2 * games[g].amount - PotFee(games[g].amount, posted[g].fee_bps)
                            ELSE 0)
                             + (IF m = NativeSol /\ w = WinnerOf(g) THEN RentsOf(g) ELSE 0)
                    /\ games[g].amount \in Nat /\ RentsOf(g) \in Nat
                    /\ PotFee(games[g].amount, posted[g].fee_bps) \in Nat
                    /\ PotFee(games[g].amount, posted[g].fee_bps) <= games[g].amount
  BY DEF DuesAreTabled
<1> DEFINE x == games[g].amount
           fee == PotFee(x, posted[g].fee_bps)
           live == games[g].status # "Closed"
<1>1. /\ x \in Nat /\ games[g].status \in {"Closed", "Open", "Ready"}
      /\ posted[g].fee_bps \in 0 .. MAX_FEE_BPS
      /\ RentsOf(g) \in Nat
  BY U64Assumption, CoinflipAssumption DEF TypeOK, GameAccounts, U64, RentsOf
<1>2. fee \in Nat /\ fee <= x
  <2>1. fee \in Nat /\ 20 * fee <= 2 * x
    BY <1>1, PotFeeBounds
  <2> HIDE DEF fee, x
  <2> QED BY <1>1, <2>1
<1>3. IsDrawn(g) => live
  BY DEF IsDrawn, IsReady
<1>4. /\ ~live => StakeDue(g, w) = 0
      /\ live /\ ~IsDrawn(g) => StakeDue(g, w) =
           IF w = Creator(g) \/ (IsReady(g) /\ w = games[g].joiner) THEN x ELSE 0
      /\ IsDrawn(g) => StakeDue(g, w) = IF w = WinnerOf(g) THEN 2 * x - fee ELSE 0
  BY <1>3 DEF StakeDue
<1>5. /\ ~live => RentDueTo(g, w) = 0
      /\ live /\ ~IsDrawn(g) => RentDueTo(g, w) = IF w = Creator(g) THEN RentsOf(g) ELSE 0
      /\ IsDrawn(g) => RentDueTo(g, w) = IF w = WinnerOf(g) THEN RentsOf(g) ELSE 0
  BY <1>3 DEF RentDueTo
<1>6. Due(g, m, w) = (IF m = games[g].mint THEN StakeDue(g, w) ELSE 0)
                       + (IF m = NativeSol THEN RentDueTo(g, w) ELSE 0)
  BY DEF Due
<1> HIDE DEF x, fee
<1>7. StakeDue(g, w) \in Nat /\ RentDueTo(g, w) \in Nat
  BY <1>1, <1>2, <1>3, <1>4, <1>5
<1>8. Due(g, m, w) \in Nat
  BY <1>6, <1>7
<1>9. ~live => Due(g, m, w) = 0
  BY <1>4, <1>5, <1>6
<1>10. live /\ ~IsDrawn(g) =>
         Due(g, m, w) =
           (IF m = games[g].mint /\ (w = Creator(g) \/ (IsReady(g) /\ w = games[g].joiner))
            THEN x ELSE 0)
             + (IF m = NativeSol /\ w = Creator(g) THEN RentsOf(g) ELSE 0)
  BY <1>1, <1>4, <1>5, <1>6
<1>11. IsDrawn(g) =>
         Due(g, m, w) =
           (IF m = games[g].mint /\ w = WinnerOf(g) THEN 2 * x - fee ELSE 0)
             + (IF m = NativeSol /\ w = WinnerOf(g) THEN RentsOf(g) ELSE 0)
  BY <1>1, <1>2, <1>4, <1>5, <1>6
<1> QED BY <1>1, <1>2, <1>8, <1>9, <1>10, <1>11 DEF x, fee

\* So it is in every reachable state.
LEMMA DuesStayTabled == Spec => []DuesAreTabled
  BY TypedDues, TypeCorrect, PTL

\* A game that keeps its account, its post and its answer owes what it owed.
LEMMA DueKept ==
  ASSUME NEW g \in Games, games'[g] = games[g], posted'[g] = posted[g],
         IsReady(g) => vrf'[SeedOf(g)] = vrf[SeedOf(g)]
  PROVE  \A m \in Mints, w \in Wallets : Due(g, m, w)' = Due(g, m, w)
<1>1. SeedOf(g)' = SeedOf(g) /\ IsReady(g)' = IsReady(g)
  BY DEF SeedOf, IsReady
<1>2. IsDrawn(g)' <=> IsDrawn(g)
  BY <1>1 DEF IsDrawn, Oracle!IsRequestFulfilled
<1>3. IsDrawn(g) => WinnerOf(g)' = WinnerOf(g)
  BY <1>1 DEF IsDrawn, WinnerOf, ResultWinner
<1>4. \A w \in Wallets : StakeDue(g, w)' = StakeDue(g, w)
  BY <1>1, <1>2, <1>3 DEF StakeDue
<1>5. \A w \in Wallets : RentDueTo(g, w)' = RentDueTo(g, w)
  <2>1. RentsOf(g)' = RentsOf(g)
    BY DEF RentsOf
  <2> QED BY <1>2, <1>3, <2>1 DEF RentDueTo
<1> QED BY <1>4, <1>5 DEF Due

\* What a wallet's worth changes by when one game does.
LEMMA WorthMoves ==
  ASSUME TypeOK, TypeOK', DuesAreTabled, DuesAreTabled',
         NEW m \in Mints, NEW w \in Wallets, NEW g \in Games,
         \A h \in Games \ {g} : Due(h, m, w)' = Due(h, m, w)
  PROVE  /\ Worth(m, w) \in Nat /\ Worth(m, w)' \in Nat
         /\ Gain(m, w) \in Int /\ Due(g, m, w) \in Nat /\ Due(g, m, w)' \in Nat
         /\ Worth(m, w)' - Worth(m, w) = Gain(m, w) + Due(g, m, w)' - Due(g, m, w)
<1> DEFINE f == [h \in Games |-> Due(h, m, w)]
           k == [h \in Games |-> Due(h, m, w)']
<1>1. f \in [Games -> Nat] /\ k \in [Games -> Nat]
  BY DEF DuesAreTabled
<1>2. f[g] = Due(g, m, w) /\ k[g] = Due(g, m, w)' /\ \A h \in Games \ {g} : k[h] = f[h]
  OBVIOUS
<1>3. purse[m][w] \in Nat /\ purse'[m][w] \in Nat
  BY DEF TypeOK
<1>4. Worth(m, w) = purse[m][w] + SumFunction(f)
  BY DEF Worth
<1>5. Worth(m, w)' = purse'[m][w] + SumFunction(k)
  BY DEF Worth
<1> HIDE DEF f, k
<1>6. /\ SumFunction(f) \in Nat /\ SumFunction(k) \in Nat /\ f[g] \in Nat /\ k[g] \in Nat
      /\ SumFunction(k) = SumFunction(f) + k[g] - f[g]
  BY <1>1, <1>2, GamesAreFinite, SumBounds, SumChange
<1>7. Gain(m, w) = purse'[m][w] - purse[m][w]
  BY DEF Gain
<1> QED BY <1>2, <1>3, <1>4, <1>5, <1>6, <1>7

\* A step that costs a wallet worth has an excuse: a gift or a lost draw.
CostIsExplained(m, w) ==
  Worth(m, w)' < Worth(m, w) => Gives(w) \/ \E g \in Games : LosesDraw(g, m, w)

\* A step that moves no money and no due leaves all worths alone.
LEMMA NothingIsMoved ==
  ASSUME TypeOK, DuesAreTabled, UNCHANGED purse,
         NEW m \in Mints, NEW w \in Wallets,
         \A h \in Games : Due(h, m, w)' = Due(h, m, w)
  PROVE  CostIsExplained(m, w)
<1> DEFINE f == [h \in Games |-> Due(h, m, w)]
           k == [h \in Games |-> Due(h, m, w)']
<1>1. f = k
  OBVIOUS
<1>2. Worth(m, w) = purse[m][w] + SumFunction(f)
  BY DEF Worth
<1>3. Worth(m, w)' = purse'[m][w] + SumFunction(k)
  BY DEF Worth
<1>4. f \in [Games -> Nat] /\ purse[m][w] \in Nat
  BY DEF DuesAreTabled, TypeOK
<1> HIDE DEF f, k
<1>5. Worth(m, w) \in Nat /\ Worth(m, w)' = Worth(m, w)
  BY <1>1, <1>2, <1>3, <1>4, GamesAreFinite, SumBounds
<1> QED BY <1>5 DEF CostIsExplained

\* Once g is matched, a player is worth what he would be without a draw, or
\* more, or has lost the draw.
LEMMA MatchIsExplained ==
  ASSUME TypeOK, TypeOK', DuesAreTabled, DuesAreTabled',
         NEW m \in Mints, NEW w \in Wallets, NEW g \in Games,
         \A h \in Games \ {g} : Due(h, m, w)' = Due(h, m, w),
         ~IsDrawn(g), games'[g].status = "Ready", games'[g].joiner # Creator(g),
         Due(g, m, w) - Gain(m, w) =
           (IF m = games'[g].mint /\ w \in {Creator(g), games'[g].joiner}
            THEN games'[g].amount ELSE 0)
             + (IF m = NativeSol /\ w = Creator(g) THEN RentsOf(g)' ELSE 0)
  PROVE  CostIsExplained(m, w)
<1> DEFINE x == games'[g].amount
           rents == RentsOf(g)'
           fee == PotFee(games'[g].amount, posted'[g].fee_bps)
           undrawn == (IF m = games'[g].mint /\ w \in {Creator(g), games'[g].joiner}
                       THEN x ELSE 0)
                        + (IF m = NativeSol /\ w = Creator(g) THEN rents ELSE 0)
<1>1. /\ Worth(m, w) \in Nat /\ Worth(m, w)' \in Nat
      /\ Gain(m, w) \in Int /\ Due(g, m, w) \in Nat /\ Due(g, m, w)' \in Nat
      /\ Worth(m, w)' - Worth(m, w) = Gain(m, w) + Due(g, m, w)' - Due(g, m, w)
  BY WorthMoves
<1>2. /\ x \in Nat /\ rents \in Nat /\ fee \in Nat /\ fee <= x
      /\ Due(g, m, w) - Gain(m, w) = undrawn
  BY DEF DuesAreTabled
<1>3. ~IsDrawn(g)' => Due(g, m, w)' = undrawn
  <2>1. ASSUME ~IsDrawn(g)'
        PROVE  Due(g, m, w)' =
           (IF m = games'[g].mint /\ (w = Creator(g) \/ (IsReady(g)' /\ w = games'[g].joiner))
            THEN games'[g].amount ELSE 0)
             + (IF m = NativeSol /\ w = Creator(g) THEN RentsOf(g)' ELSE 0)
    BY <2>1 DEF DuesAreTabled, Creator
  <2>2. IsReady(g)'
    BY DEF IsReady
  <2> QED BY <2>1, <2>2
<1>4. IsDrawn(g)' => Due(g, m, w)' =
        (IF m = games'[g].mint /\ w = WinnerOf(g)' THEN 2 * x - fee ELSE 0)
          + (IF m = NativeSol /\ w = WinnerOf(g)' THEN rents ELSE 0)
  BY DEF DuesAreTabled
<1>5. WinnerOf(g)' \in {Creator(g), games'[g].joiner}
  BY DEF WinnerOf, ResultWinner, Creator
<1> HIDE DEF undrawn
<1>6. undrawn \in Nat /\ Worth(m, w)' - Worth(m, w) = Due(g, m, w)' - undrawn
  <2>1. undrawn \in Nat
    BY <1>2 DEF undrawn
  <2> QED BY <1>1, <1>2, <2>1
<1>7. CASE ~IsDrawn(g)'
  BY <1>1, <1>3, <1>6, <1>7 DEF CostIsExplained
<1>8. CASE IsDrawn(g)' /\ w = WinnerOf(g)'
  <2>1. Due(g, m, w)' >= undrawn
    BY <1>2, <1>4, <1>8 DEF undrawn
  <2> QED BY <1>1, <1>6, <2>1 DEF CostIsExplained
<1>9. CASE IsDrawn(g)' /\ w \in {Creator(g), games'[g].joiner} \ {WinnerOf(g)'}
  <2>1. Due(g, m, w)' = 0
    BY <1>4, <1>9
  <2>2. undrawn = (IF m = games'[g].mint THEN x ELSE 0)
                    + (IF m = NativeSol /\ w = Creator(g) THEN rents ELSE 0)
    BY <1>9 DEF undrawn
  <2>3. Worth(m, w) - Worth(m, w)' = undrawn
    <3>1. Worth(m, w)' - Worth(m, w) = 0 - undrawn
      BY <1>6, <2>1
    <3>2. Worth(m, w) \in Nat /\ Worth(m, w)' \in Nat /\ undrawn \in Nat
      BY <1>1, <1>6
    <3> QED BY <3>1, <3>2
  <2>4. LosesDraw(g, m, w)
    BY <1>9, <2>2, <2>3 DEF LosesDraw, IsDrawnAgainst, AtStake
  <2> QED BY <2>4 DEF CostIsExplained
<1>10. CASE w \notin {Creator(g), games'[g].joiner}
  <2>1. undrawn = 0
    BY <1>10 DEF undrawn
  <2> QED BY <1>1, <1>6, <2>1 DEF CostIsExplained
<1> QED BY <1>7, <1>8, <1>9, <1>10

\* A step that gives a wallet at least what it takes off its due.
LEMMA GainIsExplained ==
  ASSUME TypeOK, TypeOK', DuesAreTabled, DuesAreTabled',
         NEW m \in Mints, NEW w \in Wallets, NEW g \in Games,
         \A h \in Games \ {g} : Due(h, m, w)' = Due(h, m, w),
         Due(g, m, w)' + Gain(m, w) >= Due(g, m, w)
  PROVE  CostIsExplained(m, w)
<1>1. /\ Worth(m, w) \in Nat /\ Worth(m, w)' \in Nat
      /\ Gain(m, w) \in Int /\ Due(g, m, w) \in Nat /\ Due(g, m, w)' \in Nat
      /\ Worth(m, w)' - Worth(m, w) = Gain(m, w) + Due(g, m, w)' - Due(g, m, w)
  BY WorthMoves
<1> QED BY <1>1 DEF CostIsExplained

\* A step of g's account alone leaves what the other games owe.
LEMMA OtherDuesKept ==
  ASSUME TypeOK, NEW g \in Games, NEW game, NEW post,
         games' = [games EXCEPT ![g] = game], posted' = [posted EXCEPT ![g] = post],
         \A h \in Games \ {g} : IsReady(h) => vrf'[SeedOf(h)] = vrf[SeedOf(h)]
  PROVE  \A h \in Games \ {g}, m \in Mints, w \in Wallets : Due(h, m, w)' = Due(h, m, w)
<1>1. \A h \in Games \ {g} : games'[h] = games[h] /\ posted'[h] = posted[h]
  BY DEF TypeOK
<1> QED BY <1>1, DueKept

\* A closing step pays at least what is due, if it divides the stakes so.
LEMMA CloseIsExplained ==
  ASSUME TypeOK, TypeOK', DuesAreTabled, DuesAreTabled', EscrowIsExact,
         NEW g \in Games, NEW heir \in Wallets, NEW payee \in Wallets, NEW cut \in Nat,
         games[g].status # "Closed", cut <= StakesOf(g),
         CloseTo(g, heir, payee, cut), UNCHANGED vrf,
         NEW m \in Mints, NEW w \in Wallets,
         Due(g, m, w) <=
           (IF m = games[g].mint
            THEN (IF w = payee THEN cut ELSE 0) + (IF w = heir THEN StakesOf(g) - cut ELSE 0)
            ELSE 0)
             + (IF m = NativeSol /\ w = heir THEN RentsOf(g) ELSE 0)
  PROVE  CostIsExplained(m, w)
<1> DEFINE mint == games[g].mint
           stakes == StakesOf(g)
           held == escrow[mint][g]
           rest == escrow[NativeSol][g] + VaultRent
           rents == RentsOf(g)
<1>1. /\ games' = [games EXCEPT ![g] = NoGame] /\ posted' = [posted EXCEPT ![g] = NoPost]
      /\ NoGame.status = "Closed"
  BY DEF CloseTo, NoGame
<1>2. \A h \in Games \ {g} : Due(h, m, w)' = Due(h, m, w)
  BY <1>1, OtherDuesKept
<1>3. Due(g, m, w)' = 0
  <2>1. games'[g].status = "Closed"
    BY <1>1 DEF TypeOK
  <2> QED BY <2>1 DEF DuesAreTabled
<1>4. /\ stakes \in Nat /\ GameRent \in Nat /\ VaultRent \in Nat
      /\ held \in Nat /\ rest \in Nat /\ rest >= GameRent + VaultRent
      /\ held >= stakes + (IF IsNativeSol(mint) THEN GameRent ELSE 0)
      /\ rents = GameRent + (IF IsNativeSol(mint) THEN 0 ELSE VaultRent)
  <2>1. /\ games[g].amount \in Nat /\ GameRent \in Nat /\ VaultRent \in Nat
        /\ escrow[mint][g] \in Nat /\ escrow[NativeSol][g] \in Nat
        /\ escrow[NativeSol][g] >= GameRent
        /\ escrow[mint][g] >= StakesOf(g) + (IF IsNativeSol(mint) THEN GameRent ELSE 0)
    BY LiveGameHolds, NativeSolIsMint, CoinflipAssumption
  <2>2. StakesOf(g) \in Nat
    BY <2>1 DEF StakesOf
  <2> QED BY <2>1, <2>2 DEF RentsOf
<1>5. cut <= held
  BY <1>4
<1>6. /\ m = mint => Gain(m, w) = (IF w = payee THEN cut ELSE 0)
                                    + (IF w = heir THEN held - cut ELSE 0)
      /\ m # mint => Gain(m, w) = IF m = NativeSol /\ w = heir THEN rest ELSE 0
  BY <1>5, CloseGains
<1>7. IsNativeSol(mint) <=> mint = NativeSol
  BY DEF IsNativeSol
<1> HIDE DEF mint, stakes, held, rest, rents
<1>8. Due(g, m, w) <=
        (IF m = mint
         THEN (IF w = payee THEN cut ELSE 0) + (IF w = heir THEN stakes - cut ELSE 0)
         ELSE 0)
          + (IF m = NativeSol /\ w = heir THEN rents ELSE 0)
  BY DEF mint, stakes, rents
<1>9. Due(g, m, w) \in Nat
  BY DEF DuesAreTabled
<1>10. Gain(m, w) \in Int /\ Gain(m, w) >= Due(g, m, w)
  <2>1. CASE m = mint /\ IsNativeSol(mint)
    BY <1>4, <1>6, <1>7, <1>8, <1>9, <2>1
  <2>2. CASE m = mint /\ ~IsNativeSol(mint)
    BY <1>4, <1>6, <1>7, <1>8, <1>9, <2>2
  <2>3. CASE m # mint
    BY <1>4, <1>6, <1>7, <1>8, <1>9, <2>3
  <2> QED BY <2>1, <2>2, <2>3
<1>11. Due(g, m, w)' + Gain(m, w) >= Due(g, m, w)
  BY <1>3, <1>9, <1>10
<1> QED BY <1>2, <1>11, GainIsExplained

\* resolve, cancel and refund divide the stakes as they are due.
LEMMA ClosingIsExplained ==
  ASSUME IInv, TypeOK', DealInv, EscrowIsExact, DuesAreTabled, DuesAreTabled',
         NEW g \in Games, NEW s \in Wallets, Resolve(g) \/ Cancel(g, s) \/ RefundExpired(g),
         NEW m \in Mints, NEW w \in Wallets
  PROVE  CostIsExplained(m, w)
<1> DEFINE x == games[g].amount
           fee == PotFee(games[g].amount, posted[g].fee_bps)
<1>1. TypeOK /\ Creator(g) \in Wallets /\ config.authority \in Wallets
  BY CreatorIsWallet DEF IInv, ConfigIsCurrent
<1>2. /\ games[g].status # "Closed" /\ UNCHANGED vrf
      /\ x \in Nat /\ fee \in Nat /\ fee <= x /\ RentsOf(g) \in Nat
  BY DEF DuesAreTabled, Resolve, Cancel, RefundExpired, IsOpen, IsReady
<1>3. CASE Resolve(g)
  <2>1. /\ IsDrawn(g) /\ StakesOf(g) = 2 * x
        /\ FeeOf(g) = fee /\ WinnerOf(g) \in Wallets
        /\ CloseTo(g, WinnerOf(g), config.authority, FeeOf(g))
    BY <1>1, <1>2, <1>3, ReadySeed
    DEF Resolve, IsDrawn, WinnerOf, ResultWinner, StakesOf, FeeOf, IInv,
        ReadyGameIsFair, DealInv, FeeIsPosted
  <2>2. Due(g, m, w) =
          (IF m = games[g].mint /\ w = WinnerOf(g) THEN 2 * x - fee ELSE 0)
            + (IF m = NativeSol /\ w = WinnerOf(g) THEN RentsOf(g) ELSE 0)
    BY <2>1 DEF DuesAreTabled
  <2> HIDE DEF x, fee
  <2>3. Due(g, m, w) <=
          (IF m = games[g].mint
           THEN (IF w = config.authority THEN fee ELSE 0)
                  + (IF w = WinnerOf(g) THEN 2 * x - fee ELSE 0)
           ELSE 0)
            + (IF m = NativeSol /\ w = WinnerOf(g) THEN RentsOf(g) ELSE 0)
    BY <1>2, <2>2
  <2>4. fee <= 2 * x
    BY <1>2
  <2> QED BY <1>1, <1>2, <2>1, <2>3, <2>4, CloseIsExplained
<1>4. CASE Cancel(g, s)
  <2>1. /\ ~IsReady(g) /\ ~IsDrawn(g) /\ StakesOf(g) = x
        /\ CloseTo(g, Creator(g), Creator(g), 0)
    BY <1>4 DEF Cancel, IsDrawn, IsOpen, IsReady, StakesOf
  <2>2. Due(g, m, w) =
          (IF m = games[g].mint /\ w = Creator(g) THEN x ELSE 0)
            + (IF m = NativeSol /\ w = Creator(g) THEN RentsOf(g) ELSE 0)
    BY <1>2, <2>1 DEF DuesAreTabled
  <2> HIDE DEF x
  <2>3. Due(g, m, w) <=
          (IF m = games[g].mint
           THEN (IF w = Creator(g) THEN 0 ELSE 0) + (IF w = Creator(g) THEN x - 0 ELSE 0)
           ELSE 0)
            + (IF m = NativeSol /\ w = Creator(g) THEN RentsOf(g) ELSE 0)
    BY <1>2, <2>2
  <2>4. 0 <= x
    BY <1>2
  <2> QED BY <1>1, <1>2, <2>1, <2>3, <2>4, CloseIsExplained
<1>5. CASE RefundExpired(g)
  <2>1. /\ IsReady(g) /\ ~IsDrawn(g) /\ StakesOf(g) = 2 * x
        /\ games[g].joiner \in Wallets /\ games[g].joiner # Creator(g)
        /\ CloseTo(g, Creator(g), games[g].joiner, x)
    BY <1>5 DEF RefundExpired, IsDrawn, StakesOf, IInv, ReadyGameIsFair
  <2>2. Due(g, m, w) =
          (IF m = games[g].mint /\ (w = Creator(g) \/ w = games[g].joiner) THEN x ELSE 0)
            + (IF m = NativeSol /\ w = Creator(g) THEN RentsOf(g) ELSE 0)
    BY <1>2, <2>1 DEF DuesAreTabled
  <2> HIDE DEF x
  <2>3. Due(g, m, w) <=
          (IF m = games[g].mint
           THEN (IF w = games[g].joiner THEN x ELSE 0)
                  + (IF w = Creator(g) THEN 2 * x - x ELSE 0)
           ELSE 0)
            + (IF m = NativeSol /\ w = Creator(g) THEN RentsOf(g) ELSE 0)
    BY <1>2, <2>1, <2>2
  <2>4. x <= 2 * x
    BY <1>2
  <2> QED BY <1>1, <1>2, <2>1, <2>3, <2>4, CloseIsExplained
<1> QED BY <1>3, <1>4, <1>5

\* What a creator pays for a game is due to him, or saved by earlier gifts.
LEMMA CreateIsExplained ==
  ASSUME TypeOK, TypeOK', DuesAreTabled, DuesAreTabled',
         NEW c \in Creators, NEW n \in Nonces, NEW amount \in Stakes,
         NEW side, NEW e, NEW mint \in Mints, NEW h,
         Create(c, n, amount, side, e, mint, h),
         NEW m \in Mints, NEW w \in Wallets
  PROVE  CostIsExplained(m, w)
<1> DEFINE g == <<c, n>>
           rent == RentDue(g)
           due == IF IsNativeSol(mint) THEN amount ELSE VaultDue(g, mint)
           lamports == rent + due
           paying == Debit(purse, NativeSol, c, lamports)
           new == NewGame(amount, side, e, mint, h)
           post == [slot |-> slot, fee_bps |-> config.fee_bps]
<1>1. /\ g \in Games /\ c \in Wallets /\ NativeSol \in Mints
      /\ purse \in Books(Mints, Wallets) /\ escrow \in Books(Mints, Games)
      /\ amount \in Nat /\ VaultRent \in Nat /\ GameRent \in Nat
      /\ purse[NativeSol][c] \in Nat /\ purse[mint][c] \in Nat
  BY NativeSolIsMint, CoinflipAssumption, U64Assumption DEF Games, TypeOK, Books, U64
<1>2. /\ rent \in Nat /\ rent <= GameRent /\ due \in Nat
      /\ due <= (IF IsNativeSol(mint) THEN amount ELSE VaultRent)
  BY <1>1 DEF RentDue, VaultDue, Books
<1>3. /\ games[g].status = "Closed" /\ UNCHANGED vrf
      /\ purse[NativeSol][c] >= lamports /\ purse[mint][c] >= amount
      /\ games' = [games EXCEPT ![g] = new] /\ posted' = [posted EXCEPT ![g] = post]
      /\ purse' = IF IsNativeSol(mint) THEN paying ELSE Debit(paying, mint, c, amount)
  BY DEF Create
<1>4. /\ games'[g].status = "Open" /\ games'[g].mint = mint /\ games'[g].amount = amount
      /\ Creator(g) = c
  BY <1>1, <1>3 DEF TypeOK, NewGame, Creator
<1> HIDE DEF g, rent, due, new, post
<1>5. \A k \in Games \ {g} : Due(k, m, w)' = Due(k, m, w)
  BY <1>1, <1>3, OtherDuesKept
<1>6. Due(g, m, w) = 0
  BY <1>1, <1>3 DEF DuesAreTabled
<1>7. RentsOf(g)' = GameRent + (IF IsNativeSol(mint) THEN 0 ELSE VaultRent)
  BY <1>4 DEF RentsOf
<1>8. Due(g, m, w)' =
        (IF m = mint /\ w = c THEN amount ELSE 0)
          + (IF m = NativeSol /\ w = c THEN RentsOf(g)' ELSE 0)
  <2>1. ~IsReady(g)' /\ ~IsDrawn(g)' /\ games'[g].status # "Closed"
    BY <1>4 DEF IsDrawn, IsReady
  <2>2. Due(g, m, w)' =
          (IF m = games'[g].mint /\ (w = Creator(g) \/ (IsReady(g)' /\ w = games'[g].joiner))
           THEN games'[g].amount ELSE 0)
            + (IF m = NativeSol /\ w = Creator(g) THEN RentsOf(g)' ELSE 0)
    BY <1>1, <2>1 DEF DuesAreTabled, Creator
  <2> QED BY <1>4, <2>1, <2>2
<1>9. lamports \in Nat /\ lamports <= purse[NativeSol][c] /\ lamports = rent + due
  BY <1>1, <1>2, <1>3
<1> HIDE DEF lamports
<1>10. /\ paying \in Books(Mints, Wallets)
       /\ \A k \in Mints, v \in Wallets : paying[k][v] =
            IF k = NativeSol /\ v = c THEN purse[k][v] - lamports ELSE purse[k][v]
  <2>1. /\ purse \in Books(Mints, Wallets) /\ NativeSol \in Mints /\ c \in Wallets
        /\ lamports \in Nat /\ lamports <= purse[NativeSol][c]
    BY <1>1, <1>9
  <2> QED BY <2>1, DebitBook
<1> HIDE DEF paying
<1>11. IsNativeSol(mint) <=> mint = NativeSol
  BY DEF IsNativeSol
<1>12. ~IsNativeSol(mint) => \A k \in Mints, v \in Wallets : purse'[k][v] =
         IF k = mint /\ v = c THEN paying[k][v] - amount ELSE paying[k][v]
  <2> SUFFICES ASSUME ~IsNativeSol(mint)
               PROVE  \A k \in Mints, v \in Wallets : purse'[k][v] =
                        IF k = mint /\ v = c THEN paying[k][v] - amount ELSE paying[k][v]
    OBVIOUS
  <2>1. /\ paying \in Books(Mints, Wallets) /\ c \in Wallets /\ amount \in Nat
        /\ mint \in Mints /\ purse' = Debit(paying, mint, c, amount)
    BY <1>1, <1>3, <1>10
  <2>2. paying[mint][c] = purse[mint][c]
    BY <1>1, <1>10, <1>11
  <2>3. amount <= paying[mint][c]
    BY <1>1, <1>3, <2>2
  <2> QED BY <2>1, <2>3, DebitBook
<1>13. purse[m][w] \in Nat
  BY DEF TypeOK
<1>14. Gain(m, w) = purse'[m][w] - purse[m][w]
  BY DEF Gain
<1>15. Due(g, m, w)' + Gain(m, w) >= Due(g, m, w)
  <2>1. CASE IsNativeSol(mint)
    <3>1. purse'[m][w] = IF m = mint /\ w = c THEN purse[m][w] - lamports ELSE purse[m][w]
      BY <1>3, <1>10, <1>11, <2>1
    <3> QED BY <1>1, <1>2, <1>6, <1>7, <1>8, <1>9, <1>11, <1>13, <1>14, <2>1, <3>1
  <2>2. CASE ~IsNativeSol(mint)
    <3>1. CASE m = mint
      <4>1. purse'[m][w] = IF w = c THEN purse[m][w] - amount ELSE purse[m][w]
        BY <1>10, <1>11, <1>12, <2>2, <3>1
      <4>2. Due(g, m, w)' = (IF w = c THEN amount ELSE 0) + 0
        BY <1>8, <1>11, <2>2, <3>1
      <4> QED BY <1>1, <1>6, <1>13, <1>14, <4>1, <4>2
    <3>2. CASE m # mint
      <4>1. purse'[m][w] = IF m = NativeSol /\ w = c THEN purse[m][w] - lamports
                                                     ELSE purse[m][w]
        BY <1>10, <1>12, <2>2, <3>2
      <4>2. Due(g, m, w)' = 0 + (IF m = NativeSol /\ w = c THEN GameRent + VaultRent ELSE 0)
        BY <1>7, <1>8, <2>2, <3>2
      <4> QED BY <1>1, <1>2, <1>6, <1>9, <1>13, <1>14, <2>2, <4>1, <4>2
    <3> QED BY <3>1, <3>2
  <2> QED BY <2>1, <2>2
<1> QED BY <1>1, <1>5, <1>15, GainIsExplained

\* A join puts the joiner's stake beside the creator's; if the answer comes at
\* once, one of them has lost his.
LEMMA JoinIsExplained ==
  ASSUME IInv, TypeOK', DuesAreTabled, DuesAreTabled',
         NEW g \in Games, NEW j \in Wallets, NEW side, NEW e \in Entropies,
         NEW amount \in Stakes, Join(g, j, side, e, amount),
         NEW m \in Mints, NEW w \in Wallets
  PROVE  CostIsExplained(m, w)
<1> DEFINE mint == games[g].mint
           seed == <<g, j, e>>
           rents == RentsOf(g)
<1>0. TypeOK
  BY DEF IInv
<1>1. /\ mint \in Mints /\ amount \in Nat /\ purse \in Books(Mints, Wallets)
      /\ purse[mint][j] \in Nat /\ purse[m][w] \in Nat /\ seed \in Seeds
  BY <1>0, CoinflipAssumption, U64Assumption DEF TypeOK, GameAccounts, Books, U64, Seeds
<1>2. /\ ApplyJoin(g, j, side, e, amount) /\ j # Creator(g)
      /\ amount = games[g].amount /\ purse[mint][j] >= amount
      /\ purse' = Debit(purse, mint, j, amount)
      /\ Oracle!RequestRandomness(seed) /\ UNCHANGED posted
  BY DEF Join, ApplyJoin
<1>3. /\ games[g].status = "Open" /\ games'[g].status = "Ready"
      /\ games'[g].joiner = j /\ games'[g].amount = amount /\ games'[g].mint = mint
      /\ \A h \in Games \ {g} : games'[h] = games[h]
  BY <1>0, <1>2, AppliedJoin
<1>4. \A s \in Seeds \ {seed} : vrf'[s] = vrf[s]
  BY <1>0, <1>1, <1>2 DEF Oracle!RequestRandomness, TypeOK, Oracle!VrfTypeOK
<1>5. \A h \in Games \ {g} : Due(h, m, w)' = Due(h, m, w)
  <2> SUFFICES ASSUME NEW h \in Games \ {g} PROVE Due(h, m, w)' = Due(h, m, w)
    OBVIOUS
  <2>1. IsReady(h) => vrf'[SeedOf(h)] = vrf[SeedOf(h)]
    <3>1. SeedOf(h) # seed
      BY DEF SeedOf
    <3> QED BY <1>4, <3>1, ReadySeed
  <2> QED BY <1>2, <1>3, <2>1, DueKept
<1>6. ~IsReady(g) /\ ~IsDrawn(g) /\ games[g].status # "Closed"
  BY <1>3 DEF IsDrawn, IsReady
<1>7. Due(g, m, w) =
        (IF m = mint /\ w = Creator(g) THEN amount ELSE 0)
          + (IF m = NativeSol /\ w = Creator(g) THEN rents ELSE 0)
  BY <1>2, <1>6 DEF DuesAreTabled
<1>8. RentsOf(g)' = rents /\ rents \in Nat
  BY <1>3 DEF RentsOf, DuesAreTabled
<1> HIDE DEF mint, rents
<1>9. amount <= purse[mint][j]
  BY <1>1, <1>2
<1>10. purse'[m][w] = IF m = mint /\ w = j THEN purse[m][w] - amount ELSE purse[m][w]
  BY <1>1, <1>2, <1>9, DebitBook
<1>11. Gain(m, w) = IF m = mint /\ w = j THEN 0 - amount ELSE 0
  BY <1>1, <1>10 DEF Gain
<1>12. Due(g, m, w) - Gain(m, w) =
         (IF m = mint /\ w \in {Creator(g), j} THEN amount ELSE 0)
           + (IF m = NativeSol /\ w = Creator(g) THEN RentsOf(g)' ELSE 0)
  BY <1>1, <1>2, <1>7, <1>8, <1>11
<1>13. Due(g, m, w) - Gain(m, w) =
         (IF m = games'[g].mint /\ w \in {Creator(g), games'[g].joiner}
          THEN games'[g].amount ELSE 0)
           + (IF m = NativeSol /\ w = Creator(g) THEN RentsOf(g)' ELSE 0)
  BY <1>3, <1>12
<1>14. games'[g].joiner # Creator(g)
  BY <1>2, <1>3
<1> QED BY <1>0, <1>3, <1>5, <1>6, <1>13, <1>14, MatchIsExplained

\* An answer draws at most the one game that waits for it.
LEMMA AnswerIsExplained ==
  ASSUME IInv, TypeOK', DuesAreTabled, DuesAreTabled',
         NEW s \in JoinableSeeds, VrfStep(s),
         NEW m \in Mints, NEW w \in Wallets
  PROVE  CostIsExplained(m, w)
<1>1. TypeOK /\ s \in Seeds
  BY DEF IInv, JoinableSeeds
<1>2. /\ Oracle!VrfRequest(s) \/ Oracle!VrfFulfil(s)
      /\ UNCHANGED <<games, posted, purse>>
  BY DEF VrfStep
<1>3. \A t \in Seeds \ {s} : vrf'[t] = vrf[t]
  BY <1>1, <1>2 DEF Oracle!VrfRequest, Oracle!VrfFulfil, TypeOK, Oracle!VrfTypeOK
<1>4. \A h \in Games : ~(IsReady(h) /\ SeedOf(h) = s) => Due(h, m, w)' = Due(h, m, w)
  <2> SUFFICES ASSUME NEW h \in Games, ~(IsReady(h) /\ SeedOf(h) = s)
               PROVE  Due(h, m, w)' = Due(h, m, w)
    OBVIOUS
  <2>1. IsReady(h) => vrf'[SeedOf(h)] = vrf[SeedOf(h)]
    BY <1>3, ReadySeed
  <2> QED BY <1>2, <2>1, DueKept
<1>5. CASE \A h \in Games : ~(IsReady(h) /\ SeedOf(h) = s)
  BY <1>1, <1>2, <1>4, <1>5, NothingIsMoved
<1>6. ASSUME NEW g \in Games, IsReady(g), SeedOf(g) = s
      PROVE  CostIsExplained(m, w)
  <2>1. /\ games[g].joiner # Creator(g) /\ games[g].status = "Ready"
        /\ vrf[s] # "None"
    BY <1>6 DEF IInv, ReadyGameIsFair, IsReady
  <2>2. ~IsDrawn(g)
    <3>1. vrf[s] = "Pending"
      BY <1>2, <2>1 DEF Oracle!VrfRequest, Oracle!VrfFulfil
    <3> QED BY <1>6, <3>1, CoinflipAssumption DEF IsDrawn, Oracle!IsRequestFulfilled
  <2>3. \A h \in Games \ {g} : Due(h, m, w)' = Due(h, m, w)
    <3>1. \A h \in Games \ {g} : SeedOf(h) # s
      BY <1>6 DEF SeedOf
    <3> QED BY <1>4, <3>1
  <2>4. RentsOf(g)' = RentsOf(g) /\ games' = games
    BY <1>2 DEF RentsOf
  <2>5. Due(g, m, w) =
          (IF m = games[g].mint /\ w \in {Creator(g), games[g].joiner}
           THEN games[g].amount ELSE 0)
            + (IF m = NativeSol /\ w = Creator(g) THEN RentsOf(g) ELSE 0)
    BY <1>6, <2>1, <2>2 DEF DuesAreTabled
  <2>6. Gain(m, w) = 0 /\ Due(g, m, w) \in Nat
    BY <1>1, <1>2 DEF Gain, TypeOK, DuesAreTabled
  <2>7. Due(g, m, w) - Gain(m, w) = Due(g, m, w)
    BY <2>6
  <2>8. Due(g, m, w) - Gain(m, w) =
          (IF m = games'[g].mint /\ w \in {Creator(g), games'[g].joiner}
           THEN games'[g].amount ELSE 0)
            + (IF m = NativeSol /\ w = Creator(g) THEN RentsOf(g)' ELSE 0)
    BY <2>4, <2>5, <2>7
  <2>9. games'[g].joiner # Creator(g) /\ games'[g].status = "Ready"
    BY <2>1, <2>4
  <2> QED BY <1>1, <2>2, <2>3, <2>8, <2>9, MatchIsExplained
<1> QED BY <1>5, <1>6

\* A gift costs the giver alone.
LEMMA GiftIsExplained ==
  ASSUME TypeOK, TypeOK', DuesAreTabled, DuesAreTabled',
         NEW v \in Wallets, NEW g \in Games, NEW k \in Mints,
         Donate(v, g, k) \/ (k \in Tokens /\ OpenVault(v, g, k)),
         NEW m \in Mints, NEW w \in Wallets
  PROVE  CostIsExplained(m, w)
<1>1. purse \in Books(Mints, Wallets) /\ NativeSol \in Mints /\ VaultRent \in Nat
  BY NativeSolIsMint, CoinflipAssumption DEF TypeOK, Books
<1>2. /\ UNCHANGED <<games, posted, vrf>> /\ gifts' = gifts + 1
      /\ \E n \in Mints, x \in Nat : x <= purse[n][v] /\ purse' = Debit(purse, n, v, x)
  <2>1. CASE Donate(v, g, k)
    <3>1. 1 <= purse[k][v] /\ purse' = Debit(purse, k, v, 1)
      BY <1>1, <2>1 DEF Donate, Books
    <3> QED BY <2>1, <3>1 DEF Donate
  <2>2. CASE OpenVault(v, g, k)
    <3>1. VaultRent <= purse[NativeSol][v] /\ purse' = Debit(purse, NativeSol, v, VaultRent)
      BY <1>1, <2>2 DEF OpenVault, Books
    <3> QED BY <1>1, <2>2, <3>1 DEF OpenVault
  <2> QED BY <2>1, <2>2
<1>3. PICK n \in Mints, x \in Nat : x <= purse[n][v] /\ purse' = Debit(purse, n, v, x)
  BY <1>2
<1>4. \A z \in Mints, u \in Wallets \ {v} : purse'[z][u] = purse[z][u]
  BY <1>1, <1>3, DebitBook
<1>5. \A h \in Games : Due(h, m, w)' = Due(h, m, w)
  BY <1>2, DueKept
<1>6. CASE w = v
  <2>1. Gives(w)
    BY <1>2, <1>4, <1>6 DEF Gives
  <2> QED BY <2>1 DEF CostIsExplained
<1>7. CASE w # v
  <2>1. Gain(m, w) = 0 /\ Due(g, m, w) \in Nat
    BY <1>1, <1>4, <1>7 DEF Gain, Books, DuesAreTabled
  <2>2. Due(g, m, w)' + Gain(m, w) >= Due(g, m, w)
    BY <1>5, <2>1
  <2> QED BY <1>5, <2>2, GainIsExplained
<1> QED BY <1>6, <1>7

\* An announced cancel moves no money and no due.
LEMMA InitiateCancelIsExplained ==
  ASSUME TypeOK, TypeOK', DuesAreTabled, DuesAreTabled',
         NEW g \in Games, NEW a, InitiateCancel(g, a),
         NEW m \in Mints, NEW w \in Wallets
  PROVE  CostIsExplained(m, w)
<1>1. /\ games[g].status = "Open" /\ games'[g].status = "Open"
      /\ games'[g].amount = games[g].amount /\ games'[g].mint = games[g].mint
      /\ \A h \in Games \ {g} : games'[h] = games[h]
      /\ UNCHANGED <<purse, posted, vrf>>
  BY DEF InitiateCancel, IsOpen, TypeOK, GameAccounts
<1>2. \A h \in Games \ {g} : Due(h, m, w)' = Due(h, m, w)
  BY <1>1, DueKept
<1>3. /\ ~IsReady(g) /\ ~IsReady(g)' /\ ~IsDrawn(g) /\ ~IsDrawn(g)'
      /\ RentsOf(g)' = RentsOf(g)
  BY <1>1 DEF IsDrawn, IsReady, RentsOf
<1>4. Due(g, m, w) =
        (IF m = games[g].mint /\ (w = Creator(g) \/ (IsReady(g) /\ w = games[g].joiner))
         THEN games[g].amount ELSE 0)
          + (IF m = NativeSol /\ w = Creator(g) THEN RentsOf(g) ELSE 0)
  BY <1>1, <1>3 DEF DuesAreTabled
<1>5. Due(g, m, w)' =
        (IF m = games'[g].mint /\ (w = Creator(g) \/ (IsReady(g)' /\ w = games'[g].joiner))
         THEN games'[g].amount ELSE 0)
          + (IF m = NativeSol /\ w = Creator(g) THEN RentsOf(g)' ELSE 0)
  BY <1>1, <1>3 DEF DuesAreTabled, Creator
<1>6. Due(g, m, w)' = Due(g, m, w)
  BY <1>1, <1>3, <1>4, <1>5
<1> QED BY <1>1, <1>2, <1>6, NothingIsMoved

\* No step costs a wallet worth without an excuse.
LEMMA EveryCostIsExplained ==
  ASSUME IInv, TypeOK', DealInv, EscrowIsExact, DuesAreTabled, DuesAreTabled',
         [Next]_vars, NEW m \in Mints, NEW w \in Wallets
  PROVE  CostIsExplained(m, w)
<1>0. TypeOK
  BY DEF IInv
<1>1. CASE \E c \in Creators, n \in Nonces, x \in Stakes, s \in CreatorSides,
              e \in Entropies, k \in Mints, h \in HouseOnlyChoices :
             Create(c, n, x, s, e, k, h)
  BY <1>0, <1>1, CreateIsExplained
<1>2. CASE \E g \in Games, j \in Wallets, s \in Sides, e \in Entropies, x \in Stakes :
             Join(g, j, s, e, x)
  BY <1>2, JoinIsExplained
<1>3. CASE \/ \E g \in Games : Resolve(g)
           \/ \E g \in Games, s \in Wallets : Cancel(g, s)
           \/ \E g \in Games : RefundExpired(g)
  <2>1. PICK g \in Games, s \in Wallets : Resolve(g) \/ Cancel(g, s) \/ RefundExpired(g)
    BY <1>3, CoinflipAssumption
  <2> QED BY <2>1, ClosingIsExplained
<1>4. CASE \E g \in Games, a \in Wallets : InitiateCancel(g, a)
  BY <1>0, <1>4, InitiateCancelIsExplained
<1>5. CASE Admin \/ Tick \/ UNCHANGED vars
  <2>1. UNCHANGED <<games, posted, vrf, purse>>
    BY <1>5 DEF Admin, Tick, vars
  <2>2. \A h \in Games : Due(h, m, w)' = Due(h, m, w)
    BY <2>1, DueKept
  <2> QED BY <1>0, <2>1, <2>2, NothingIsMoved
<1>6. CASE \E s \in JoinableSeeds : VrfStep(s)
  BY <1>6, AnswerIsExplained
<1>7. CASE \/ \E v \in Wallets, g \in Games, k \in Tokens : OpenVault(v, g, k)
           \/ \E v \in Wallets, g \in Games, k \in Mints : Donate(v, g, k)
  <2>1. PICK v \in Wallets, g \in Games, k \in Mints :
          Donate(v, g, k) \/ (k \in Tokens /\ OpenVault(v, g, k))
    BY <1>7 DEF Mints
  <2> QED BY <1>0, <2>1, GiftIsExplained
<1> QED BY <1>1, <1>2, <1>3, <1>4, <1>5, <1>6, <1>7 DEF Next

\* Over create, join, resolve, cancel, refund, every answer and every step of
\* administration, a wallet loses nothing but its stakes in lost draws and what
\* it gives away, for every value of the constants.
THEOREM OnlyLostDrawsCost == Spec => OnlyDrawsCost
<1>1. /\ IInv /\ TypeOK' /\ DealInv /\ EscrowIsExact /\ DuesAreTabled /\ DuesAreTabled'
      /\ [Next]_vars
      => \A w \in Wallets, m \in Mints : Worth(m, w)' < Worth(m, w) =>
           Gives(w) \/ \E g \in Games : LosesDraw(g, m, w)
  BY EveryCostIsExplained DEF CostIsExplained
<1> QED BY <1>1, Inductive, TypeCorrect, DealsStayGood, EscrowStaysExact, DuesStayTabled,
           PTL DEF Spec, OnlyDrawsCost

----
(* Settleable games come to an end *)

\* Unanswered for so long that refund.rs takes it.
IsRefundable(g) ==
  /\ IsReady(g)
  /\ ~Oracle!IsRequestFulfilled(SeedOf(g))
  /\ LookupJoinSlotHash(games[g].join_slot) = "Expired"

\* What FundsAreNeverStuck says of resolve and of refund.
CanResolve(g) == IsDrawn(g) => ENABLED <<Resolve(g)>>_vars
CanRefund(g) == IsRefundable(g) => ENABLED <<RefundExpired(g)>>_vars

\* A game that can be settled is settled.
EndsOnceSettleable(g) == IsSettleable(g) ~> ~IsReady(g)
SettleableGamesEnd == \A g \in Games : EndsOnceSettleable(g)

\* The invariant of the runs says both of every game.
LEMMA NeverStuckSays ==
  ASSUME NEW g \in Games
  PROVE  FundsAreNeverStuck => CanResolve(g) /\ CanRefund(g)
  BY DEF FundsAreNeverStuck, CanResolve, CanRefund, IsDrawn, IsRefundable

\* A drawn game stays drawn, and a refundable one refundable or drawn, until
\* it is closed.
LEMMA WaysOutStay ==
  ASSUME IInv, DealInv, [Next]_vars, NEW g \in Games
  PROVE  /\ IsDrawn(g) => IsDrawn(g)' \/ ~IsReady(g)'
         /\ IsRefundable(g) => IsRefundable(g)' \/ IsDrawn(g)' \/ ~IsReady(g)'
<1>1. TypeOK
  BY DEF IInv
<1>2. Closes(g) => ~IsReady(g)'
  BY DEF Closes, IsReady
<1>3. ASSUME IsDrawn(g), ~Closes(g)
      PROVE  IsDrawn(g)'
  <2>1. IsReady(g) /\ Oracle!IsRequestFulfilled(SeedOf(g)) /\ SeedOf(g) \in Seeds
    BY <1>3, ReadySeed DEF IsDrawn
  <2>2. games'[g] = games[g] /\ vrf'[SeedOf(g)] = vrf[SeedOf(g)]
    BY <1>1, <1>3, <2>1, ReadyGameStays, AnswersStay
  <2>3. SeedOf(g)' = SeedOf(g)
    BY <2>2 DEF SeedOf
  <2> QED BY <2>1, <2>2, <2>3 DEF IsDrawn, IsReady, Oracle!IsRequestFulfilled
<1>4. ASSUME IsRefundable(g), ~Closes(g)
      PROVE  IsRefundable(g)' \/ IsDrawn(g)'
  <2>1. IsSettleable(g)
    BY <1>4 DEF IsRefundable, IsSettleable
  <2>2. IsSettleable(g)'
    BY <1>4, <2>1, NextKeepsSettlement
  <2> QED BY <2>2 DEF IsRefundable, IsDrawn, IsSettleable
<1> QED BY <1>2, <1>3, <1>4

\* What settles a game ends the match.
LEMMA SettlingEnds ==
  ASSUME IInv, NEW g \in Games, <<Resolve(g)>>_vars \/ <<RefundExpired(g)>>_vars
  PROVE  ~IsReady(g)'
<1>1. games' = [games EXCEPT ![g] = NoGame]
  BY DEF Resolve, RefundExpired, CloseTo
<1>2. games'[g].status = "Closed"
  BY <1>1 DEF IInv, TypeOK, NoGame
<1> QED BY <1>2 DEF IsReady

\* One game, under the fairness that it is owed.
LEMMA SettleableGameEnds ==
  ASSUME NEW g \in Games
  PROVE  Spec /\ []FundsAreNeverStuck /\ IsSettledFairly(g)
           => EndsOnceSettleable(g)
<1>1. FundsAreNeverStuck => CanResolve(g) /\ CanRefund(g)
  BY NeverStuckSays
<1>2. IInv /\ DealInv /\ [Next]_vars =>
        /\ IsDrawn(g) => IsDrawn(g)' \/ ~IsReady(g)'
        /\ IsRefundable(g) => IsRefundable(g)' \/ IsDrawn(g)' \/ ~IsReady(g)'
  BY WaysOutStay
<1>3. IInv /\ <<Resolve(g)>>_vars => ~IsReady(g)'
  BY SettlingEnds
<1>4. IInv /\ <<RefundExpired(g)>>_vars => ~IsReady(g)'
  BY SettlingEnds
<1>5. IsSettleable(g) => IsDrawn(g) \/ IsRefundable(g)
  BY DEF IsSettleable, IsDrawn, IsRefundable
<1> QED BY <1>1, <1>2, <1>3, <1>4, <1>5, Inductive, DealsStayGood,
           PTL DEF Spec, IsSettledFairly, CanResolve, CanRefund, EndsOnceSettleable

\* A matched game whose answer has come, or whose wait is over, is closed by
\* resolve or by refund as long as neither is neglected for ever, for every
\* value of the constants, provided that the instruction the game waits for can
\* be executed, which is what FundsAreNeverStuck says and TLC checks.
THEOREM SettleableGamesAlwaysEnd ==
  FairSpec /\ []FundsAreNeverStuck => SettleableGamesEnd
<1> DEFINE Assumed == FairSpec /\ []FundsAreNeverStuck
<1>1. ASSUME NEW g \in Games
      PROVE  Assumed => EndsOnceSettleable(g)
  <2>1. Spec /\ []FundsAreNeverStuck /\ IsSettledFairly(g) => EndsOnceSettleable(g)
    BY SettleableGameEnds
  <2>2. Fairness => IsSettledFairly(g)
    BY DEF Fairness
  <2> QED BY <2>1, <2>2, PTL DEF FairSpec
<1> HIDE DEF Assumed
<1>2. Assumed => \A g \in Games : EndsOnceSettleable(g)
  BY <1>1
<1> QED BY <1>2 DEF Assumed, SettleableGamesEnd

----
(* The games implement FlipEscrow *)

\* The abstract deals of a state.
Deals == [g \in Games |-> DealAt(g)]

LEMMA DealCases ==
  ASSUME NEW g \in Games
  PROVE  /\ games[g].status = "Closed" => DealAt(g) = Escrow!NoDeal
         /\ games[g].status = "Open" =>
              DealAt(g) = Escrow!Posted(games[g].amount, games[g].mint, games[g].fee_bps)
         /\ games[g].status = "Ready" =>
              DealAt(g) = [phase |-> "Matched", stake |-> games[g].amount,
                           asset |-> games[g].mint, fee |-> games[g].fee_bps,
                           second |-> games[g].joiner, draw |-> SeedOf(g),
                           verdict |-> VerdictOn(g)]
  BY DEF DealAt, Escrow!NoDeal, Escrow!Posted

\* A verdict is there once the randomness is.
LEMMA VerdictCases ==
  ASSUME NEW g \in Games
  PROVE  /\ VerdictOn(g) \in Escrow!Verdicts
         /\ VerdictOn(g) = "Undrawn" <=> ~(vrf[SeedOf(g)] \in Randomness)
  BY DEF VerdictOn, Escrow!Verdicts, Oracle!IsRequestFulfilled

\* A game that keeps its account and its answer is the same deal.
LEMMA DealKept ==
  ASSUME NEW g \in Games, games'[g] = games[g],
         IsReady(g) => vrf'[SeedOf(g)] = vrf[SeedOf(g)]
  PROVE  DealAt(g)' = DealAt(g)
<1>1. SeedOf(g)' = SeedOf(g)
  BY DEF SeedOf
<1>2. IsReady(g) => VerdictOn(g)' = VerdictOn(g)
  BY <1>1 DEF VerdictOn, ResultWinner, Oracle!IsRequestFulfilled
<1>3. CASE IsReady(g)
  BY <1>1, <1>2, <1>3 DEF DealAt, IsReady
<1>4. CASE ~IsReady(g)
  BY <1>4 DEF DealAt, IsReady
<1> QED BY <1>3, <1>4

\* A step of one deal.
LEMMA DealUpdate ==
  ASSUME NEW g \in Games, NEW d, DealAt(g)' = d,
         \A h \in Games \ {g} : DealAt(h)' = DealAt(h)
  PROVE  Deals' = [Deals EXCEPT ![g] = d]
  BY DEF Deals

LEMMA ClosedDeal ==
  ASSUME TypeOK, NEW g \in Games, NEW heir, NEW payee, NEW cut,
         CloseTo(g, heir, payee, cut), UNCHANGED vrf
  PROVE  Deals' = [Deals EXCEPT ![g] = Escrow!NoDeal]
<1>1. games'[g].status = "Closed" /\ \A h \in Games \ {g} : games'[h] = games[h]
  BY DEF CloseTo, TypeOK, NoGame
<1>2. DealAt(g)' = Escrow!NoDeal
  BY <1>1 DEF DealAt, Escrow!NoDeal
<1>3. \A h \in Games \ {g} : DealAt(h)' = DealAt(h)
  BY <1>1, DealKept
<1> QED BY <1>2, <1>3, DealUpdate

LEMMA CreatePosts ==
  ASSUME TypeOK, DealInv, NEW c \in Creators, NEW n \in Nonces, NEW amount \in Stakes,
         NEW side, NEW e, NEW mint \in Mints, NEW h,
         Create(c, n, amount, side, e, mint, h)
  PROVE  Escrow!Post(<<c, n>>)
<1> DEFINE g == <<c, n>>
           new == NewGame(amount, side, e, mint, h)
<1>1. /\ g \in Games /\ games[g].status = "Closed" /\ amount \in Stakes \ {0}
      /\ games' = [games EXCEPT ![g] = new] /\ UNCHANGED <<vrf, settled>>
  BY U64Assumption, CoinflipAssumption DEF Create, Games, U64
<1>2. /\ new.status = "Open" /\ new.amount = amount /\ new.mint = mint
      /\ new.fee_bps = config.fee_bps
  BY DEF NewGame
<1> HIDE DEF g, new
<1>3. games'[g] = new /\ \A k \in Games \ {g} : games'[k] = games[k]
  BY <1>1 DEF TypeOK
<1>4. DealAt(g)' = Escrow!Posted(amount, mint, config.fee_bps)
  BY <1>2, <1>3 DEF DealAt, Escrow!Posted
<1>5. \A k \in Games \ {g} : DealAt(k)' = DealAt(k)
  BY <1>1, <1>3, DealKept
<1>6. Deals' = [Deals EXCEPT ![g] = Escrow!Posted(amount, mint, config.fee_bps)]
  BY <1>1, <1>4, <1>5, DealUpdate
<1>7. Deals[g].phase = "Empty"
  BY <1>1, DealCases DEF Deals, Escrow!NoDeal
<1> QED BY <1>1, <1>6, <1>7 DEF Escrow!Post, Deals, DealInv, FeeIsChosen, g

\* A match takes a draw that has decided nothing and that no deal waits for.
LEMMA JoinMatches ==
  ASSUME IInv, DealInv, NEW g \in Games, NEW w \in Wallets \ {Creator(g)}, NEW side,
         NEW e \in Entropies, NEW amount,
         ApplyJoin(g, w, side, e, amount), Oracle!RequestRandomness(<<g, w, e>>),
         UNCHANGED settled
  PROVE  Escrow!Match(g)
<1> DEFINE seed == <<g, w, e>>
<1>1. TypeOK /\ seed \in Seeds
  BY DEF IInv, Seeds
<1>2. /\ games[g].status = "Open" /\ games'[g].status = "Ready"
      /\ games'[g].joiner = w /\ games'[g].joiner_entropy = e
      /\ games'[g].amount = games[g].amount /\ games'[g].mint = games[g].mint
      /\ games'[g].fee_bps = games[g].fee_bps
      /\ \A h \in Games \ {g} : games'[h] = games[h]
  BY <1>1, AppliedJoin
<1>3. /\ vrf[seed] \in {"None", "Pending"}
      /\ vrf'[seed] \in IF InstantVrf THEN Randomness ELSE {"Pending"}
      /\ \A s \in Seeds \ {seed} : vrf'[s] = vrf[s]
  BY <1>1, CoinflipAssumption
  DEF DealInv, InstantNeverPends, Oracle!RequestRandomness, Oracle!RequestAnswers,
      TypeOK, Oracle!VrfTypeOK
<1>4. SeedOf(g)' = seed
  BY <1>2 DEF SeedOf
<1> DEFINE verdict == VerdictOn(g)'
<1>5. verdict \in IF InstantVrf THEN Escrow!Verdicts \ {"Undrawn"} ELSE {"Undrawn"}
  BY <1>3, <1>4, CoinflipAssumption DEF VerdictOn, Escrow!Verdicts, Oracle!IsRequestFulfilled
<1>6. \A h \in Games \ {g} : DealAt(h)' = DealAt(h)
  <2> SUFFICES ASSUME NEW h \in Games \ {g}
               PROVE  DealAt(h)' = DealAt(h)
    OBVIOUS
  <2>1. IsReady(h) => SeedOf(h) \in Seeds \ {seed}
    <3>1. SeedOf(h) # seed
      BY DEF SeedOf
    <3> QED BY <3>1, ReadySeed
  <2>2. IsReady(h) => vrf'[SeedOf(h)] = vrf[SeedOf(h)]
    BY <1>3, <2>1
  <2> QED BY <1>2, <2>2, DealKept
<1>7. /\ Deals[g] = Escrow!Posted(games[g].amount, games[g].mint, games[g].fee_bps)
      /\ Deals[g].phase = "Posted"
  BY <1>2, DealCases DEF Deals, Escrow!Posted
<1>8. DealAt(g)' = Escrow!Matched(Deals[g], w, seed, verdict)
  BY <1>2, <1>4, <1>7 DEF DealAt, Escrow!Matched, Escrow!Posted
<1> HIDE DEF verdict
<1>9. Deals' = [Deals EXCEPT ![g] = Escrow!Matched(Deals[g], w, seed, verdict)]
  BY <1>6, <1>8, DealUpdate
<1>10. seed \notin settled
  BY <1>3, CoinflipAssumption DEF IInv, SettledAreAnswered
<1>11. seed \notin Escrow!Pending
  <2> SUFFICES ASSUME NEW h \in Games, Deals[h].phase = "Matched", Deals[h].draw = seed
               PROVE  FALSE
    BY DEF Escrow!Pending, Deals
  <2>1. games[h].status = "Ready"
    <3>1. games[h].status \in {"Closed", "Open", "Ready"}
      BY <1>1 DEF TypeOK, GameAccounts
    <3> QED BY <3>1, DealCases DEF Deals, Escrow!NoDeal, Escrow!Posted
  <2>2. SeedOf(h) = seed
    BY <2>1, DealCases DEF Deals
  <2>3. h = g
    BY <2>2 DEF SeedOf
  <2> QED BY <1>2, <2>1, <2>3
<1>12. seed \in Seeds \ (settled \union Escrow!Pending)
  BY <1>1, <1>10, <1>11
<1>13. \E second \in Wallets \ {[k \in Games |-> Creator(k)][g]},
          draw \in Seeds \ (settled \union Escrow!Pending) :
         \E v \in IF InstantVrf THEN Escrow!Verdicts \ {"Undrawn"} ELSE {"Undrawn"} :
           Deals' = [Deals EXCEPT ![g] = Escrow!Matched(Deals[g], second, draw, v)]
  BY <1>5, <1>9, <1>12
<1> QED BY <1>7, <1>13 DEF Escrow!Match, Deals

\* What resolve awards, it awards by a verdict; cancel withdraws; a refund
\* unwinds what has no verdict.
LEMMA ClosingsRefine ==
  ASSUME IInv, NEW g \in Games
  PROVE  /\ Resolve(g) => Escrow!Award(g)
         /\ \A w : Cancel(g, w) => Escrow!Withdraw(g)
         /\ RefundExpired(g) => Escrow!Unwind(g)
<1>1. TypeOK
  BY DEF IInv
<1>2. ASSUME Resolve(g)
      PROVE  Escrow!Award(g)
  <2>1. Deals' = [Deals EXCEPT ![g] = Escrow!NoDeal]
    BY <1>1, <1>2, ClosedDeal DEF Resolve
  <2>2. /\ Deals[g].phase = "Matched" /\ Deals[g].verdict # "Undrawn"
        /\ Deals[g].draw = SeedOf(g)
    BY <1>2, DealCases, VerdictCases DEF Deals, Resolve, IsReady, Oracle!IsRequestFulfilled
  <2>3. settled' = settled \union {SeedOf(g)}
    BY <1>2 DEF Resolve
  <2> QED BY <2>1, <2>2, <2>3 DEF Escrow!Award, Deals
<1>3. ASSUME NEW w, Cancel(g, w)
      PROVE  Escrow!Withdraw(g)
  <2>1. Deals' = [Deals EXCEPT ![g] = Escrow!NoDeal]
    BY <1>1, <1>3, ClosedDeal DEF Cancel
  <2>2. Deals[g].phase = "Posted"
    BY <1>3, DealCases DEF Deals, Cancel, IsOpen, Escrow!Posted
  <2>3. settled' = settled
    BY <1>3 DEF Cancel
  <2> QED BY <2>1, <2>2, <2>3 DEF Escrow!Withdraw, Deals
<1>4. ASSUME RefundExpired(g)
      PROVE  Escrow!Unwind(g)
  <2>1. Deals' = [Deals EXCEPT ![g] = Escrow!NoDeal]
    BY <1>1, <1>4, ClosedDeal DEF RefundExpired
  <2>2. Deals[g].phase = "Matched" /\ Deals[g].verdict = "Undrawn"
    BY <1>4, DealCases, VerdictCases
    DEF Deals, RefundExpired, IsReady, Oracle!IsRequestFulfilled
  <2>3. settled' = settled
    BY <1>4 DEF RefundExpired
  <2> QED BY <2>1, <2>2, <2>3 DEF Escrow!Unwind, Deals
<1> QED BY <1>2, <1>3, <1>4

\* An answer to a request that a matched game waits for is that deal's draw;
\* any other is nobody's.
LEMMA AnswerDraws ==
  ASSUME IInv, NEW s \in JoinableSeeds, VrfStep(s)
  PROVE  (\E g \in Games : Escrow!Draw(g)) \/ UNCHANGED <<Deals, settled>>
<1>1. TypeOK /\ s \in Seeds
  BY DEF IInv, JoinableSeeds
<1>2. /\ Oracle!VrfRequest(s) \/ Oracle!VrfFulfil(s)
      /\ games' = games /\ settled' = settled
  BY DEF VrfStep
<1>3. \A t \in Seeds \ {s} : vrf'[t] = vrf[t]
  BY <1>1, <1>2 DEF Oracle!VrfRequest, Oracle!VrfFulfil, TypeOK, Oracle!VrfTypeOK
<1>4. \A h \in Games : IsReady(h) /\ SeedOf(h) # s => vrf'[SeedOf(h)] = vrf[SeedOf(h)]
  BY <1>3, ReadySeed
<1>5. CASE \A h \in Games : IsReady(h) => SeedOf(h) # s
  <2>1. \A h \in Games : DealAt(h)' = DealAt(h)
    BY <1>2, <1>4, <1>5, DealKept
  <2> QED BY <1>2, <2>1 DEF Deals
<1>6. ASSUME NEW g \in Games, IsReady(g), SeedOf(g) = s
      PROVE  Escrow!Draw(g)
  <2>1. vrf[s] = "Pending" /\ vrf'[s] \in Randomness
    <3>1. vrf[s] # "None"
      BY <1>6 DEF IInv, ReadyGameIsFair
    <3>2. Oracle!VrfFulfil(s)
      BY <1>2, <3>1 DEF Oracle!VrfRequest
    <3> QED BY <1>1, <3>2 DEF Oracle!VrfFulfil, TypeOK, Oracle!VrfTypeOK
  <2>2. SeedOf(g)' = s /\ games'[g].status = "Ready" /\ games[g].status = "Ready"
    BY <1>2, <1>6 DEF SeedOf, IsReady
  <2> DEFINE verdict == VerdictOn(g)'
  <2>3. verdict \in Escrow!Verdicts \ {"Undrawn"}
    BY <2>1, <2>2 DEF VerdictOn, Escrow!Verdicts, Oracle!IsRequestFulfilled
  <2>4. /\ Deals[g] = [phase |-> "Matched", stake |-> games[g].amount,
                       asset |-> games[g].mint, fee |-> games[g].fee_bps,
                       second |-> games[g].joiner, draw |-> SeedOf(g),
                       verdict |-> VerdictOn(g)]
        /\ VerdictOn(g) = "Undrawn"
    BY <1>6, <2>1, <2>2, DealCases, VerdictCases, CoinflipAssumption DEF Deals
  <2>5. DealAt(g)' = [Deals[g] EXCEPT !.verdict = verdict]
    <3>1. DealAt(g)' = [phase |-> "Matched", stake |-> games[g].amount,
                        asset |-> games[g].mint, fee |-> games[g].fee_bps,
                        second |-> games[g].joiner, draw |-> s, verdict |-> verdict]
      BY <1>2, <2>2 DEF DealAt
    <3> HIDE DEF verdict
    <3> QED BY <1>6, <2>4, <3>1
  <2>6. \A h \in Games \ {g} : DealAt(h)' = DealAt(h)
    <3>1. \A h \in Games \ {g} : IsReady(h) => SeedOf(h) # s
      BY <1>6 DEF SeedOf
    <3> QED BY <1>2, <1>4, <3>1, DealKept
  <2> HIDE DEF verdict
  <2>7. Deals' = [Deals EXCEPT ![g].verdict = verdict]
    BY <2>5, <2>6, DealUpdate
  <2>8. Deals[g].phase = "Matched" /\ Deals[g].verdict = "Undrawn"
    BY <2>4
  <2> QED BY <1>2, <2>3, <2>7, <2>8 DEF Escrow!Draw, Deals
<1> QED BY <1>5, <1>6

\* Every step of the games is a step of FlipEscrow or leaves the deals alone.
LEMMA NextRefines ==
  ASSUME IInv, DealInv, [Next]_vars
  PROVE  Escrow!Next \/ UNCHANGED <<Deals, settled>>
<1>1. CASE \E c \in Creators, n \in Nonces, x \in Stakes, s \in CreatorSides,
              e \in Entropies, m \in Mints, h \in HouseOnlyChoices :
             Create(c, n, x, s, e, m, h)
  <2>1. PICK c \in Creators, n \in Nonces : Escrow!Post(<<c, n>>)
    BY <1>1, CreatePosts DEF IInv
  <2>2. <<c, n>> \in Games
    BY DEF Games
  <2> QED BY <2>1, <2>2 DEF Escrow!Next
<1>2. CASE \E g \in Games, w \in Wallets, s \in Sides, e \in Entropies, x \in Stakes :
             Join(g, w, s, e, x)
  <2>1. PICK g \in Games : Escrow!Match(g)
    BY <1>2, JoinMatches DEF Join
  <2> QED BY <2>1 DEF Escrow!Next
<1>3. CASE \/ \E g \in Games : Resolve(g)
           \/ \E g \in Games, w \in Wallets : Cancel(g, w)
           \/ \E g \in Games : RefundExpired(g)
  <2>1. PICK g \in Games : Escrow!Award(g) \/ Escrow!Withdraw(g) \/ Escrow!Unwind(g)
    BY <1>3, ClosingsRefine
  <2> QED BY <2>1 DEF Escrow!Next
<1>4. CASE \E seed \in JoinableSeeds : VrfStep(seed)
  BY <1>4, AnswerDraws DEF Escrow!Next
<1>5. CASE \E g \in Games, w \in Wallets : InitiateCancel(g, w)
  <2>1. PICK g \in Games, w \in Wallets : InitiateCancel(g, w)
    BY <1>5
  <2>2. /\ games[g].status = "Open" /\ games'[g].status = "Open"
        /\ games'[g].amount = games[g].amount /\ games'[g].mint = games[g].mint
        /\ games'[g].fee_bps = games[g].fee_bps
        /\ \A h \in Games \ {g} : games'[h] = games[h]
        /\ vrf' = vrf /\ settled' = settled
    BY <2>1 DEF InitiateCancel, IsOpen, IInv, TypeOK, GameAccounts
  <2>3. DealAt(g)' = DealAt(g)
    BY <2>2 DEF DealAt
  <2>4. \A h \in Games \ {g} : DealAt(h)' = DealAt(h)
    BY <2>2, DealKept
  <2> QED BY <2>2, <2>3, <2>4 DEF Deals
<1>6. CASE \/ Admin \/ Tick \/ UNCHANGED vars
           \/ \E w \in Wallets, g \in Games, m \in Tokens : OpenVault(w, g, m)
           \/ \E w \in Wallets, g \in Games, m \in Mints : Donate(w, g, m)
  <2>1. UNCHANGED <<games, vrf, settled>>
    BY <1>6 DEF Admin, Tick, OpenVault, Donate, vars
  <2>2. \A h \in Games : DealAt(h)' = DealAt(h)
    BY <2>1, DealKept
  <2> QED BY <2>1, <2>2 DEF Deals
<1> QED BY <1>1, <1>2, <1>3, <1>4, <1>5, <1>6 DEF Next

LEMMA GamesInitRefines ==
  ASSUME GamesInit
  PROVE  Escrow!Init
<1>1. \A g \in Games : DealAt(g) = Escrow!NoDeal
  BY DealCases DEF GamesInit, NoGame
<1> QED BY <1>1 DEF Escrow!Init, GamesInit

\* create, join, resolve, cancel and refund, under any administration, oracle
\* and outsiders, implement FlipEscrow.
THEOREM GamesImplementFlipEscrow == Spec => RefinesFlipEscrow
<1>1. Init => Escrow!Init
  BY GamesInitRefines DEF Init
<1>2. IInv /\ DealInv /\ [Next]_vars
        => [Escrow!Next]_<<[g \in Games |-> DealAt(g)], settled>>
  BY NextRefines DEF Deals
<1> QED BY <1>1, <1>2, Inductive, DealsStayGood, PTL DEF Spec, RefinesFlipEscrow, Escrow!Spec
====
