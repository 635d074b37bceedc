\* The README's statement about a SOL maximum of zero, against migrate_config.
SPECIFICATION ConfigSpec
CONSTANTS
  U64_MAX = 1000
  Wallets = {house, alice, nobody}
  Signers = {house, alice}
  DefaultKey = DefaultKey
  WSOL_MINT = WSOL_MINT
  Tokens = {tsla}
  Pools = {pool}
  VrfPrograms = {ORAO_VRF_ID}
  ORAO_VRF_ID = ORAO_VRF_ID
  DEFAULT_SOL_MIN_AMOUNT = 10
  DEFAULT_SOL_MAX_AMOUNT = 20
  AuthorityChoices = {house, alice, nobody, DefaultKey}
  FeeChoices = {0, 500, 501}
  LimitChoices = {0, 10, 30}
  PoolChoices = {pool, DefaultKey}
  QuoteChoices = {usdc, WSOL_MINT}
PROPERTIES
  NoCapUntilSet
CHECK_DEADLOCK FALSE
