\* One SOL game, with the joins, cancels, settlements and oracle answers that
\* race for it, while the authority, the fee and the pause change.
\* The behaviours end when the bounds are used up.
SPECIFICATION Spec
CONSTANTS
  house = house
  alice = alice
  bob = bob
  r0 = r0
  DefaultKey = DefaultKey
  WSOL_MINT = WSOL_MINT
  ORAO_VRF_ID = ORAO_VRF_ID
  ZeroEntropy = ZeroEntropy
  Wallets = {house, alice, bob}
  Signers = {house, alice, bob}
  Creators = {alice}
  Nonces = {1}
  Tokens = {}
  Pools = {pool}
  VrfPrograms = {ORAO_VRF_ID}
  Entropies = {ZeroEntropy, e1}
  Randomness = {r0, r1}
  InstantVrf = FALSE
  InitialAuthority = house
  Riches = 300
  U64_MAX = 1500
  DEFAULT_SOL_MIN_AMOUNT = 100
  DEFAULT_SOL_MAX_AMOUNT = 150
  AuthorityChoices = {bob}
  FeeChoices = {500}
  LimitChoices = {}
  PoolChoices = {}
  QuoteChoices = {}
  Stakes = {100}
  CreatorSides = {"Heads"}
  HouseOnlyChoices = {FALSE, TRUE}
  GameRent = 5
  VaultRent = 3
  AUTHORITY_CANCEL_DELAY_SLOTS = 2
  MAX_ENTRIES = 2
  Strides = {1}
  MaxSlot = 6
  LastJoinSlot = 7
  MaxCreates = 1
  MaxGifts = 0
  Endowment <- MCEndowment
  ResultBit <- MCResultBit
  InitialTokenConfig <- MCTokenConfig
INVARIANTS
  TypeOK
  ReadyGameIsFair
  AuthorityCancelIsDelayed
PROPERTIES
  WinnerTakesPot
  UnwindMakesWhole
  OracleHasItsWindow
  SettlementStaysOpen
  RefinesFlipEscrow
CHECK_DEADLOCK FALSE
