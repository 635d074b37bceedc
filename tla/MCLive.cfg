\* Two games, an oracle that need not answer, skipped slots. LastJoinSlot leaves
\* every game joined the slots it takes its join slot to expire.
SPECIFICATION FairSpec
CONSTANTS
  house = house
  alice = alice
  bob = bob
  r0 = r0
  DefaultKey = DefaultKey
  WSOL_MINT = WSOL_MINT
  ORAO_VRF_ID = ORAO_VRF_ID
  ZeroEntropy = ZeroEntropy
  Wallets = {alice, bob}
  Signers = {alice, bob}
  Creators = {alice}
  Nonces = {1}
  Tokens = {}
  Pools = {pool}
  VrfPrograms = {ORAO_VRF_ID}
  Entropies = {ZeroEntropy, e1}
  Randomness = {r0, r1}
  InstantVrf = FALSE
  InitialAuthority = bob
  Riches = 300
  U64_MAX = 1200
  DEFAULT_SOL_MIN_AMOUNT = 100
  DEFAULT_SOL_MAX_AMOUNT = 150
  AuthorityChoices = {}
  FeeChoices = {}
  LimitChoices = {}
  PoolChoices = {}
  QuoteChoices = {}
  Stakes = {100}
  CreatorSides = {"Open"}
  HouseOnlyChoices = {FALSE}
  GameRent = 5
  VaultRent = 3
  AUTHORITY_CANCEL_DELAY_SLOTS = 2
  MAX_ENTRIES = 2
  Strides = {1, 2}
  MaxSlot = 8
  LastJoinSlot = 2
  MaxCreates = 2
  MaxGifts = 0
  Endowment <- MCEndowment
  ResultBit <- MCResultBit
  InitialTokenConfig <- MCTokenConfig
PROPERTIES
  EverySlotCounts
  ReadyGamesEnd
CHECK_DEADLOCK FALSE
