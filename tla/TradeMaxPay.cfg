\* trade.rs says of max_pay that it is all a buyer spends.
SPECIFICATION TradeSpec
CONSTANTS
  house = house
  alice = alice
  usdc = usdc
  usdt = usdt
  tsla = tsla
  nvda = nvda
  spy = spy
  sol_usdc = sol_usdc
  sol_usdt = sol_usdt
  sol_tsla = sol_tsla
  usdc_nvda = usdc_nvda
  usdc_spy = usdc_spy
  U64_MAX = 1000
  DefaultKey = DefaultKey
  WSOL_MINT = WSOL_MINT
  ORAO_VRF_ID = ORAO_VRF_ID
  Wallets = {house, alice}
  Signers = {house, alice}
  Tokens = {WSOL_MINT, usdc, usdt, tsla, nvda, spy}
  Pools = {sol_usdc, sol_usdt, sol_tsla, usdc_nvda, usdc_spy}
  VrfPrograms = {ORAO_VRF_ID}
  DEFAULT_SOL_MIN_AMOUNT = 10
  DEFAULT_SOL_MAX_AMOUNT = 20
  AuthorityChoices = {alice}
  FeeChoices = {}
  LimitChoices = {}
  PoolChoices = {sol_usdc, sol_usdt}
  QuoteChoices = {usdc, usdt}
  SwapAmounts = {8, 100, 198}
  FirstUsdcMint = usdc
  FirstSolUsdcPool = sol_usdc
  Traders = {alice}
  Sizes = {10}
  Limits = {100, 200}
  Quotes = {0, 100}
  InitialAuthority = house
  MaxTrades = 1
  PoolMints <- MCPoolMints
  Endowment <- MCEndowment
  InitialTokenConfig <- MCTokenConfig
PROPERTIES
  MaxPayIsTotalSpend
