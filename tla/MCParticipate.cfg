\* One game in SOL or in any token, joined in every mint the configuration
\* admits, before and after the administrator changes over to another USDC.
SPECIFICATION ParticipateSpec
CONSTANTS
  alice = alice
  bob = bob
  usdc = usdc
  usdt = usdt
  tsla = tsla
  nvda = nvda
  sol_usdc = sol_usdc
  sol_usdt = sol_usdt
  sol_tsla = sol_tsla
  usdc_nvda = usdc_nvda
  r0 = r0
  DefaultKey = DefaultKey
  WSOL_MINT = WSOL_MINT
  ORAO_VRF_ID = ORAO_VRF_ID
  ZeroEntropy = ZeroEntropy
  Wallets = {alice, bob}
  Signers = {alice, bob}
  Creators = {alice}
  Nonces = {1}
  Tokens = {WSOL_MINT, usdc, usdt, tsla, nvda}
  Pools = {sol_usdc, sol_usdt, sol_tsla, usdc_nvda}
  VrfPrograms = {ORAO_VRF_ID}
  Entropies = {ZeroEntropy, e1}
  Randomness = {r0, r1}
  InstantVrf = FALSE
  InitialAuthority = bob
  U64_MAX = 100
  DEFAULT_SOL_MIN_AMOUNT = 10
  DEFAULT_SOL_MAX_AMOUNT = 20
  AuthorityChoices = {}
  FeeChoices = {}
  LimitChoices = {}
  PoolChoices = {sol_usdc, sol_usdt}
  QuoteChoices = {usdc, usdt}
  FirstUsdcMint = usdc
  FirstSolUsdcPool = sol_usdc
  SwapAmounts = {7, 12}
  MaxPays = {10, 15}
  QuoteOuts = {12}
  Stakes = {10}
  CreatorSides = {"Heads"}
  HouseOnlyChoices = {TRUE}
  GameRent = 2
  VaultRent = 1
  AUTHORITY_CANCEL_DELAY_SLOTS = 1
  MAX_ENTRIES = 1
  Strides = {1}
  MaxSlot = 3
  LastJoinSlot = 1
  MaxCreates = 1
  MaxGifts = 0
  PoolMints <- MCPoolMints
  Endowment <- MCEndowment
  ResultBit <- MCResultBit
  InitialTokenConfig <- MCTokenConfig
INVARIANTS
  EscrowIsExact
PROPERTIES
  ParticipantOutlayIsBounded
  RefinesFlipEscrow
  OnlyDrawsAndOwnSwapsCost
CHECK_DEADLOCK FALSE
