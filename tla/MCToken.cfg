\* One token game whose vault may be opened beforehand and sent dust; the
\* whole supply of the token is U64_MAX, the house plays itself.
SPECIFICATION Spec
CONSTANTS
  house = house
  alice = alice
  bob = bob
  r0 = r0
  DefaultKey = DefaultKey
  WSOL_MINT = WSOL_MINT
  ORAO_VRF_ID = ORAO_VRF_ID
  ZeroEntropy = ZeroEntropy
  Wallets = {alice, bob}
  Signers = {alice, bob}
  Creators = {alice}
  Nonces = {1}
  Tokens = {usd}
  Pools = {pool}
  VrfPrograms = {ORAO_VRF_ID}
  Entropies = {ZeroEntropy, e1}
  Randomness = {r0, r1}
  InstantVrf = FALSE
  InitialAuthority = bob
  Riches = 100
  U64_MAX = 400
  DEFAULT_SOL_MIN_AMOUNT = 100
  DEFAULT_SOL_MAX_AMOUNT = 150
  AuthorityChoices = {}
  FeeChoices = {}
  LimitChoices = {}
  PoolChoices = {}
  QuoteChoices = {}
  Stakes = {100, 300}
  CreatorSides = {"Open"}
  HouseOnlyChoices = {FALSE, TRUE}
  GameRent = 5
  VaultRent = 3
  AUTHORITY_CANCEL_DELAY_SLOTS = 1
  MAX_ENTRIES = 1
  Strides = {1}
  MaxSlot = 4
  LastJoinSlot = 4
  MaxCreates = 1
  MaxGifts = 2
  Endowment <- MCEndowment
  ResultBit <- MCResultBit
  InitialTokenConfig <- MCTokenConfig
INVARIANTS
  EscrowIsExact
  MoneyIsConserved
  PotNeverOverflows
  FundsAreNeverStuck
PROPERTIES
  WinnerTakesPot
  OnlyDrawsCost
CHECK_DEADLOCK FALSE
