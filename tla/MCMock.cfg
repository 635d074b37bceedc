\* Two SOL games of one creator against the mock VRF, which answers inside the
\* request: a join is refused when somebody asked for its seed first.
SPECIFICATION Spec
CONSTANTS
  house = house
  alice = alice
  bob = bob
  r0 = r0
  DefaultKey = DefaultKey
  WSOL_MINT = WSOL_MINT
  ORAO_VRF_ID = ORAO_VRF_ID
  ZeroEntropy = ZeroEntropy
  Wallets = {alice, bob}
  Signers = {alice, bob}
  Creators = {alice}
  Nonces = {1, 2}
  Tokens = {}
  Pools = {pool}
  VrfPrograms = {ORAO_VRF_ID}
  Entropies = {ZeroEntropy, e1}
  Randomness = {r0, r1}
  InstantVrf = TRUE
  InitialAuthority = bob
  Riches = 300
  U64_MAX = 1200
  DEFAULT_SOL_MIN_AMOUNT = 100
  DEFAULT_SOL_MAX_AMOUNT = 150
  AuthorityChoices = {}
  FeeChoices = {}
  LimitChoices = {}
  PoolChoices = {}
  QuoteChoices = {}
  Stakes = {100}
  CreatorSides = {"Open"}
  HouseOnlyChoices = {FALSE}
  GameRent = 5
  VaultRent = 3
  AUTHORITY_CANCEL_DELAY_SLOTS = 1
  MAX_ENTRIES = 1
  Strides = {1}
  MaxSlot = 2
  LastJoinSlot = 2
  MaxCreates = 2
  MaxGifts = 1
  Endowment <- MCEndowment
  ResultBit <- MCResultBit
  InitialTokenConfig <- MCTokenConfig
PROPERTIES
  RefinesFlipEscrow
  OnlyDrawsCost
CHECK_DEADLOCK FALSE
