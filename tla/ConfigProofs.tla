---- MODULE ConfigProofs ----
(***************************************************************************)
(* Theorems about the configuration and its administration, for every      *)
(* value of the constants.                                                 *)
(***************************************************************************)
EXTENDS ConfigAdmin, TLAPS

\* Every instruction decodes a current config, whose authority can be paid.
ConfigIsCurrent == config.layout = "current" /\ config.authority \in Wallets

\* Administration keeps the config current and its authority a wallet.
LEMMA AdminTypes ==
  ASSUME ConfigTypeOK, ConfigIsCurrent, AdminStep
  PROVE  ConfigTypeOK' /\ ConfigIsCurrent'
<1> USE ConfigAssumption DEF ConfigTypeOK, ConfigIsCurrent, ConfigAccounts, Layouts
<1> PICK signer \in Signers :
      \/ \E w \in AuthorityChoices : SetAuthority(signer, w)
      \/ \E b \in BOOLEAN : SetPaused(signer, b)
      \/ \E bps \in FeeChoices : SetFeeBps(signer, bps)
      \/ \E m \in QuoteChoices, p \in PoolChoices : SetSolUsdcPool(signer, m, p)
      \/ \E x \in LimitChoices : SetSolMinAmount(signer, x)
      \/ \E x \in LimitChoices : SetSolMaxAmount(signer, x)
      \/ \E m \in Tokens, e \in TokenEntries : EnableToken(signer, m, e)
      \/ MigrateConfig(signer)
      \/ \E m \in Tokens : MigrateTokenConfig(signer, m)
  BY DEF AdminStep
<1>1. CASE \E w \in AuthorityChoices : SetAuthority(signer, w)
  BY <1>1 DEF SetAuthority
<1>2. CASE \E b \in BOOLEAN : SetPaused(signer, b)
  BY <1>2 DEF SetPaused
<1>3. CASE \E bps \in FeeChoices : SetFeeBps(signer, bps)
  BY <1>3 DEF SetFeeBps
<1>4. CASE \E m \in QuoteChoices, p \in PoolChoices : SetSolUsdcPool(signer, m, p)
  BY <1>4 DEF SetSolUsdcPool
<1>5. CASE \E x \in LimitChoices : SetSolMinAmount(signer, x)
  BY <1>5 DEF SetSolMinAmount
<1>6. CASE \E x \in LimitChoices : SetSolMaxAmount(signer, x)
  BY <1>6 DEF SetSolMaxAmount
<1>7. CASE \E m \in Tokens, e \in TokenEntries : EnableToken(signer, m, e)
  <2>1. TokenEntries \subseteq TokenConfigAccounts
    BY DEF TokenEntries, TokenConfigAccounts
  <2> QED BY <1>7, <2>1 DEF EnableToken
<1>8. CASE MigrateConfig(signer)
  <2> DEFINE least == IF config.sol_min_amount = 0 THEN DEFAULT_SOL_MIN_AMOUNT
                                                   ELSE config.sol_min_amount
             most  == IF config.sol_max_amount = 0 THEN DEFAULT_SOL_MAX_AMOUNT
                                                   ELSE config.sol_max_amount
             prog  == IF config.vrf_program = DefaultKey THEN ORAO_VRF_ID
                                                         ELSE config.vrf_program
  <2>1. config' = [config EXCEPT !.layout = "current", !.sol_min_amount = least,
                                 !.vrf_program = prog, !.sol_max_amount = most]
    BY <1>8, Zenon DEF MigrateConfig, FillNewFields
  <2>2. least \in U64 /\ most \in U64 /\ prog \in VrfPrograms \union {DefaultKey}
    OBVIOUS
  <2> HIDE DEF least, most, prog
  <2>3. token_config' = token_config
    BY <1>8 DEF MigrateConfig
  <2> QED BY <2>1, <2>2, <2>3
<1>9. CASE \E m \in Tokens : MigrateTokenConfig(signer, m)
  BY <1>9 DEF MigrateTokenConfig, TokenConfigAccounts
<1> QED BY <1>1, <1>2, <1>3, <1>4, <1>5, <1>6, <1>7, <1>8, <1>9

\* The fee is the one it was or one an administrator chose.
LEMMA FeeIsKeptOrChosen ==
  ASSUME ConfigTypeOK, AdminStep
  PROVE  config'.fee_bps \in {config.fee_bps} \union FeeChoices
<1> USE DEF ConfigTypeOK, ConfigAccounts
<1> PICK signer \in Signers :
      \/ \E w \in AuthorityChoices : SetAuthority(signer, w)
      \/ \E b \in BOOLEAN : SetPaused(signer, b)
      \/ \E bps \in FeeChoices : SetFeeBps(signer, bps)
      \/ \E m \in QuoteChoices, p \in PoolChoices : SetSolUsdcPool(signer, m, p)
      \/ \E x \in LimitChoices : SetSolMinAmount(signer, x)
      \/ \E x \in LimitChoices : SetSolMaxAmount(signer, x)
      \/ \E m \in Tokens, e \in TokenEntries : EnableToken(signer, m, e)
      \/ MigrateConfig(signer)
      \/ \E m \in Tokens : MigrateTokenConfig(signer, m)
  BY DEF AdminStep
<1>1. CASE \E bps \in FeeChoices : SetFeeBps(signer, bps)
  BY <1>1 DEF SetFeeBps
<1>2. CASE MigrateConfig(signer)
  BY <1>2 DEF MigrateConfig, FillNewFields
<1>3. CASE \/ \E w \in AuthorityChoices : SetAuthority(signer, w)
           \/ \E b \in BOOLEAN : SetPaused(signer, b)
           \/ \E m \in QuoteChoices, p \in PoolChoices : SetSolUsdcPool(signer, m, p)
  BY <1>3 DEF SetAuthority, SetPaused, SetSolUsdcPool
<1>4. CASE \/ \E x \in LimitChoices : SetSolMinAmount(signer, x)
           \/ \E x \in LimitChoices : SetSolMaxAmount(signer, x)
  BY <1>4 DEF SetSolMinAmount, SetSolMaxAmount
<1>5. CASE \/ \E m \in Tokens, e \in TokenEntries : EnableToken(signer, m, e)
           \/ \E m \in Tokens : MigrateTokenConfig(signer, m)
  BY <1>5 DEF EnableToken, MigrateTokenConfig
<1> QED BY <1>1, <1>2, <1>3, <1>4, <1>5
----
(* The life of the accounts on their own *)

\* What holds before there is a config account.
NothingIsQuoted == config.layout = "none" => config.usdc_mint = DefaultKey

\* What holds of an enabled token's account of whatever layout: a legacy one
\* is usable, too, once it is migrated.
EnabledTokensAreSound ==
  \A m \in Tokens :
    LET t == token_config[m]
    IN  t.layout # "none" /\ t.is_enabled =>
          /\ t.min_amount > 0
          /\ t.max_amount >= t.min_amount \/ t.max_amount = 0
          /\ t.pool # DefaultKey
          /\ ~IsSolMint(t.quote_mint) => config.usdc_mint # DefaultKey

\* The strengthening that administration preserves.
AccountsIInv ==
  /\ ConfigTypeOK
  /\ NothingIsQuoted
  /\ CurrentConfigIsComplete
  /\ EnabledTokensAreSound

LEMMA DefaultLimits ==
  /\ DEFAULT_SOL_MIN_AMOUNT \in U64 /\ DEFAULT_SOL_MIN_AMOUNT > 0
  /\ DEFAULT_SOL_MAX_AMOUNT \in U64 /\ DEFAULT_SOL_MAX_AMOUNT > 0
  /\ DEFAULT_SOL_MIN_AMOUNT <= DEFAULT_SOL_MAX_AMOUNT
  BY ConfigAssumption, U64Assumption DEF U64

\* Accounts of no layout and accounts of an earlier one.
LEMMA ConfigInitIInv ==
  ASSUME ConfigInit
  PROVE  AccountsIInv
<1> USE ConfigAssumption, U64Assumption
    DEF AccountsIInv, ConfigTypeOK, ConfigAccounts, TokenConfigAccounts, Layouts,
        NothingIsQuoted, CurrentConfigIsComplete, EnabledTokensAreSound, U64,
        NoConfig, NoTokenConfig
<1>1. CASE config = NoConfig /\ token_config = [m \in Tokens |-> NoTokenConfig]
  BY <1>1
<1>2. CASE /\ config \in LegacyConfigs
           /\ token_config \in [Tokens -> LegacyTokenConfigs(config.usdc_mint) \union {NoTokenConfig}]
  <2>0. LimitChoices \subseteq U64 /\ 0 \in U64 /\ PoolChoices \subseteq Pools \union {DefaultKey}
        /\ FeeChoices \subseteq Nat
    BY ConfigAssumption, U64Assumption
  <2>1. config \in ConfigAccounts /\ NothingIsQuoted /\ CurrentConfigIsComplete
    <3> HIDE DEF U64
    <3>1. config \in [layout : {"legacy"}, authority : Wallets \union {DefaultKey},
                      fee_bps : FeeChoices, paused : BOOLEAN,
                      usdc_mint : QuoteChoices \union {DefaultKey},
                      sol_usdc_pool : PoolChoices \union {DefaultKey},
                      sol_min_amount : LimitChoices \union {0},
                      vrf_program : VrfPrograms \union {DefaultKey}, sol_max_amount : {0}]
      BY <1>2 DEF LegacyConfigs
    <3>2. config \in ConfigAccounts /\ config.layout = "legacy"
      BY <2>0, <3>1
    <3> QED BY <3>2
  <2>2. \A t \in LegacyTokenConfigs(config.usdc_mint) \union {NoTokenConfig} :
          /\ t \in TokenConfigAccounts
          /\ t.layout # "none" /\ t.is_enabled =>
               /\ t.min_amount > 0 /\ t.max_amount = 0
               /\ t.pool # DefaultKey
               /\ ~IsSolMint(t.quote_mint) => config.usdc_mint # DefaultKey
    <3>1. ASSUME NEW t \in LegacyTokenConfigs(config.usdc_mint)
          PROVE  /\ t \in TokenConfigAccounts
                 /\ t.max_amount = 0
                 /\ t.is_enabled =>
                      /\ t.min_amount > 0 /\ t.pool # DefaultKey
                      /\ ~IsSolMint(t.quote_mint) => config.usdc_mint # DefaultKey
      <4> HIDE DEF U64
      <4> QED BY <2>0, <3>1 DEF LegacyTokenConfigs
    <3>2. NoTokenConfig \in TokenConfigAccounts /\ NoTokenConfig.layout = "none"
      OBVIOUS
    <3> QED BY <3>1, <3>2
  <2>3. \A m \in Tokens : token_config[m] \in LegacyTokenConfigs(config.usdc_mint) \union {NoTokenConfig}
    BY <1>2
  <2>4. EnabledTokensAreSound
    BY <2>2, <2>3
  <2>5. token_config \in [Tokens -> TokenConfigAccounts]
    BY <1>2, <2>2, <2>3
  <2> QED BY <2>1, <2>4, <2>5
<1> QED BY <1>1, <1>2 DEF ConfigInit

\* A migration fills what is missing and keeps the rest.
LEMMA Filled ==
  ASSUME NEW c \in ConfigAccounts
  PROVE  LET f == FillNewFields(c)
         IN  /\ f \in ConfigAccounts
             /\ f.layout = "current" /\ f.authority = c.authority
             /\ f.fee_bps = c.fee_bps /\ f.paused = c.paused
             /\ f.usdc_mint = c.usdc_mint /\ f.sol_usdc_pool = c.sol_usdc_pool
             /\ f.sol_min_amount = IF c.sol_min_amount = 0 THEN DEFAULT_SOL_MIN_AMOUNT
                                                           ELSE c.sol_min_amount
             /\ f.sol_max_amount = IF c.sol_max_amount = 0 THEN DEFAULT_SOL_MAX_AMOUNT
                                                           ELSE c.sol_max_amount
             /\ f.vrf_program = IF c.vrf_program = DefaultKey THEN ORAO_VRF_ID
                                                              ELSE c.vrf_program
<1> DEFINE least == IF c.sol_min_amount = 0 THEN DEFAULT_SOL_MIN_AMOUNT ELSE c.sol_min_amount
           most  == IF c.sol_max_amount = 0 THEN DEFAULT_SOL_MAX_AMOUNT ELSE c.sol_max_amount
           prog  == IF c.vrf_program = DefaultKey THEN ORAO_VRF_ID ELSE c.vrf_program
<1>1. FillNewFields(c) =
        [c EXCEPT !.layout = "current", !.sol_min_amount = least,
                  !.vrf_program = prog, !.sol_max_amount = most]
  BY Zenon DEF FillNewFields
<1>2. least \in U64 /\ most \in U64 /\ prog \in VrfPrograms \union {DefaultKey}
  BY ConfigAssumption DEF ConfigAccounts
<1>3. /\ least = IF c.sol_min_amount = 0 THEN DEFAULT_SOL_MIN_AMOUNT ELSE c.sol_min_amount
      /\ most = IF c.sol_max_amount = 0 THEN DEFAULT_SOL_MAX_AMOUNT ELSE c.sol_max_amount
      /\ prog = IF c.vrf_program = DefaultKey THEN ORAO_VRF_ID ELSE c.vrf_program
  OBVIOUS
<1> HIDE DEF least, most, prog
<1>4. LET f == FillNewFields(c)
      IN  /\ f \in ConfigAccounts
          /\ f.layout = "current" /\ f.authority = c.authority
          /\ f.fee_bps = c.fee_bps /\ f.paused = c.paused
             /\ f.usdc_mint = c.usdc_mint /\ f.sol_usdc_pool = c.sol_usdc_pool
          /\ f.sol_min_amount = least /\ f.sol_max_amount = most /\ f.vrf_program = prog
  BY <1>1, <1>2 DEF ConfigAccounts, Layouts
<1> QED BY <1>3, <1>4

\* The setters of the config account, one record field or two each.
LEMMA SettersKeep ==
  ASSUME AccountsIInv, NEW signer \in Signers,
         \/ \E w \in AuthorityChoices : SetAuthority(signer, w)
         \/ \E b \in BOOLEAN : SetPaused(signer, b)
         \/ \E bps \in FeeChoices : SetFeeBps(signer, bps)
         \/ \E m \in QuoteChoices, p \in PoolChoices : SetSolUsdcPool(signer, m, p)
         \/ \E x \in LimitChoices : SetSolMinAmount(signer, x)
         \/ \E x \in LimitChoices : SetSolMaxAmount(signer, x)
  PROVE  /\ AccountsIInv'
         /\ SolLimitsOrdered => SolLimitsOrdered'
<1> USE ConfigAssumption, U64Assumption
    DEF AccountsIInv, ConfigTypeOK, NothingIsQuoted, CurrentConfigIsComplete,
        EnabledTokensAreSound, IsAuthority, ConfigAccounts, U64, SolLimitsOrdered
<1>1. CASE \E w \in AuthorityChoices : SetAuthority(signer, w)
  BY <1>1 DEF SetAuthority
<1>2. CASE \E b \in BOOLEAN : SetPaused(signer, b)
  BY <1>2 DEF SetPaused
<1>3. CASE \E bps \in FeeChoices : SetFeeBps(signer, bps)
  BY <1>3 DEF SetFeeBps
<1>4. CASE \E m \in QuoteChoices, p \in PoolChoices : SetSolUsdcPool(signer, m, p)
  <2> PICK m \in QuoteChoices, p \in Pools :
        /\ m # DefaultKey /\ token_config' = token_config
        /\ config' = [config EXCEPT !.usdc_mint = m, !.sol_usdc_pool = p]
    BY <1>4 DEF SetSolUsdcPool
  <2>1. config' \in ConfigAccounts
    BY DEF Layouts
  <2>2. /\ config'.usdc_mint = m
        /\ config'.layout = config.layout /\ config'.authority = config.authority
        /\ config'.fee_bps = config.fee_bps /\ config'.vrf_program = config.vrf_program
        /\ config'.sol_min_amount = config.sol_min_amount
        /\ config'.sol_max_amount = config.sol_max_amount
        /\ config.layout # "none"
    BY <1>4 DEF SetSolUsdcPool
  <2>3. NothingIsQuoted' /\ CurrentConfigIsComplete' /\ EnabledTokensAreSound'
    BY <2>2
  <2> QED BY <2>1, <2>2, <2>3
<1>5. CASE \E x \in LimitChoices : SetSolMinAmount(signer, x)
  BY <1>5 DEF SetSolMinAmount
<1>6. CASE \E x \in LimitChoices : SetSolMaxAmount(signer, x)
  BY <1>6 DEF SetSolMaxAmount
<1> QED BY <1>1, <1>2, <1>3, <1>4, <1>5, <1>6

\* initialize, the migrations and enable_token.
LEMMA OthersKeep ==
  ASSUME AccountsIInv, NEW signer \in Signers,
         \/ \E p \in VrfPrograms \union {DefaultKey} : Initialize(signer, p)
         \/ MigrateConfig(signer)
         \/ \E m \in Tokens, e \in TokenEntries : EnableToken(signer, m, e)
         \/ \E m \in Tokens : MigrateTokenConfig(signer, m)
  PROVE  /\ AccountsIInv'
         /\ config.layout = "current" /\ SolLimitsOrdered => SolLimitsOrdered'
<1>1. CASE \E p \in VrfPrograms \union {DefaultKey} : Initialize(signer, p)
  <2> PICK p \in VrfPrograms : /\ config.layout = "none" /\ p # DefaultKey
                               /\ config' = InitialConfig(signer, p)
                               /\ token_config' = token_config
    BY <1>1 DEF Initialize
  <2>1. config' =
          [layout |-> "current", authority |-> signer,
           fee_bps |-> DEFAULT_FEE_BPS, paused |-> FALSE, usdc_mint |-> DefaultKey,
           sol_usdc_pool |-> DefaultKey, sol_min_amount |-> DEFAULT_SOL_MIN_AMOUNT,
           vrf_program |-> p, sol_max_amount |-> DEFAULT_SOL_MAX_AMOUNT]
    BY DEF InitialConfig, NoConfig
  <2>2. DEFAULT_FEE_BPS \in Nat /\ DEFAULT_FEE_BPS <= MAX_FEE_BPS
    BY DEF DEFAULT_FEE_BPS, MAX_FEE_BPS
  <2> QED
    <3>1. config' \in ConfigAccounts
      BY <2>1, <2>2, DefaultLimits, ConfigAssumption DEF ConfigAccounts, Layouts
    <3>2. NothingIsQuoted' /\ CurrentConfigIsComplete'
      BY <2>1, <2>2, DefaultLimits, ConfigAssumption DEF NothingIsQuoted, CurrentConfigIsComplete
    <3>3. EnabledTokensAreSound' /\ ConfigTypeOK'
      BY <3>1 DEF AccountsIInv, NothingIsQuoted, EnabledTokensAreSound, ConfigTypeOK
    <3> QED BY <3>2, <3>3 DEF AccountsIInv
<1>2. CASE MigrateConfig(signer)
  <2>1. /\ config.layout # "none" /\ config' = FillNewFields(config)
        /\ token_config' = token_config /\ config \in ConfigAccounts
    BY <1>2 DEF MigrateConfig, AccountsIInv, ConfigTypeOK
  <2>2. /\ config' \in ConfigAccounts
        /\ config'.layout = "current" /\ config'.authority = config.authority
        /\ config'.fee_bps = config.fee_bps /\ config'.usdc_mint = config.usdc_mint
        /\ config'.sol_min_amount = IF config.sol_min_amount = 0
                                    THEN DEFAULT_SOL_MIN_AMOUNT ELSE config.sol_min_amount
        /\ config'.sol_max_amount = IF config.sol_max_amount = 0
                                    THEN DEFAULT_SOL_MAX_AMOUNT ELSE config.sol_max_amount
        /\ config'.vrf_program = IF config.vrf_program = DefaultKey
                                 THEN ORAO_VRF_ID ELSE config.vrf_program
    BY <2>1, Filled
  <2>3. config.sol_min_amount \in Nat /\ config.sol_max_amount \in Nat
    BY <2>1, U64Assumption DEF ConfigAccounts, U64
  <2>7. config.authority # DefaultKey
    BY <1>2, ConfigAssumption DEF MigrateConfig
  <2>4. NothingIsQuoted' /\ CurrentConfigIsComplete'
    BY <2>1, <2>2, <2>3, <2>7, DefaultLimits, ConfigAssumption
    DEF AccountsIInv, NothingIsQuoted, CurrentConfigIsComplete
  <2>5. EnabledTokensAreSound' /\ ConfigTypeOK'
    BY <2>1, <2>2 DEF AccountsIInv, EnabledTokensAreSound, ConfigTypeOK
  <2>6. config.layout = "current" =>
          /\ config'.sol_min_amount = config.sol_min_amount
          /\ config'.sol_max_amount = config.sol_max_amount
    BY <2>2, <2>3 DEF AccountsIInv, CurrentConfigIsComplete
  <2> QED BY <2>4, <2>5, <2>6 DEF AccountsIInv, SolLimitsOrdered
<1>3. CASE \E m \in Tokens, e \in TokenEntries : EnableToken(signer, m, e)
  <2> PICK m \in Tokens, e \in TokenEntries : EnableToken(signer, m, e)
    BY <1>3
  <2>1. /\ config' = config /\ token_config' = [token_config EXCEPT ![m] = e]
        /\ e.is_enabled =>
             /\ e.min_amount > 0 /\ e.max_amount >= e.min_amount
             /\ e.pool # DefaultKey /\ QuoteAllowed(e.quote_mint)
    BY DEF EnableToken
  <2>2. e \in TokenConfigAccounts
    BY ConfigAssumption DEF TokenEntries, TokenConfigAccounts, Layouts
  <2>3. ConfigTypeOK'
    BY <2>1, <2>2 DEF AccountsIInv, ConfigTypeOK
  <2>4. \A n \in Tokens : token_config'[n] = IF n = m THEN e ELSE token_config[n]
    BY <2>1 DEF AccountsIInv, ConfigTypeOK
  <2>5. EnabledTokensAreSound'
    BY <2>1, <2>4 DEF AccountsIInv, EnabledTokensAreSound, QuoteAllowed
  <2> QED BY <2>1, <2>3, <2>5
          DEF AccountsIInv, NothingIsQuoted, CurrentConfigIsComplete, SolLimitsOrdered
<1>4. CASE \E m \in Tokens : MigrateTokenConfig(signer, m)
  <2> PICK m \in Tokens : MigrateTokenConfig(signer, m)
    BY <1>4
  <2>1. /\ config' = config
        /\ token_config' = [token_config EXCEPT ![m].layout = "current"]
        /\ token_config[m].layout # "none"
    BY DEF MigrateTokenConfig
  <2>2. token_config \in [Tokens -> TokenConfigAccounts]
    BY DEF AccountsIInv, ConfigTypeOK
  <2>3. ConfigTypeOK'
    BY <2>1, <2>2 DEF AccountsIInv, ConfigTypeOK, TokenConfigAccounts, Layouts
  <2>4. \A n \in Tokens :
          /\ token_config'[n].is_enabled = token_config[n].is_enabled
          /\ token_config'[n].min_amount = token_config[n].min_amount
          /\ token_config'[n].max_amount = token_config[n].max_amount
          /\ token_config'[n].pool = token_config[n].pool
          /\ token_config'[n].quote_mint = token_config[n].quote_mint
          /\ token_config'[n].layout # "none" => token_config[n].layout # "none"
    BY <2>1, <2>2 DEF TokenConfigAccounts
  <2>5. EnabledTokensAreSound'
    BY <2>1, <2>4 DEF AccountsIInv, EnabledTokensAreSound
  <2> QED BY <2>1, <2>3, <2>5
          DEF AccountsIInv, NothingIsQuoted, CurrentConfigIsComplete, SolLimitsOrdered
<1> QED BY <1>1, <1>2, <1>3, <1>4

\* Every step keeps the accounts sound and the SOL limits in order.
LEMMA ConfigStep ==
  ASSUME AccountsIInv, [ConfigNext]_configVars
  PROVE  /\ AccountsIInv'
         /\ config.layout = "current" /\ SolLimitsOrdered => SolLimitsOrdered'
<1>1. CASE UNCHANGED configVars
  BY <1>1 DEF configVars, AccountsIInv, ConfigTypeOK, NothingIsQuoted,
     CurrentConfigIsComplete, EnabledTokensAreSound, SolLimitsOrdered
<1>2. CASE ConfigNext
  BY <1>2, SettersKeep, OthersKeep DEF ConfigNext, AdminStep
<1> QED BY <1>1, <1>2

LEMMA AccountsStaySound == ConfigSpec => []AccountsIInv
<1>1. ConfigInit => AccountsIInv
  BY ConfigInitIInv
<1>2. AccountsIInv /\ [ConfigNext]_configVars => AccountsIInv'
  BY ConfigStep
<1> QED BY <1>1, <1>2, PTL DEF ConfigSpec

\* Whatever layout the program finds, whatever its accounts hold, and in
\* whatever order they are migrated and set (admin.rs), a config that decodes
\* has an authority other than the default key, limits and a VRF program.
THEOREM ConfigStaysComplete == ConfigSpec => []CurrentConfigIsComplete
<1>1. AccountsIInv => CurrentConfigIsComplete
  BY DEF AccountsIInv
<1> QED BY <1>1, AccountsStaySound, PTL

\* Nor does a token that create accepts (enable_token, migrate_token_config).
THEOREM EnabledTokensStayUsable == ConfigSpec => []EnabledTokensAreUsable
<1>1. AccountsIInv => EnabledTokensAreUsable
  BY DEF AccountsIInv, EnabledTokensAreSound, EnabledTokensAreUsable
<1> QED BY <1>1, AccountsStaySound, PTL

\* No order of the setters and the migrations of admin.rs puts the minimum of
\* a current config above its maximum.
THEOREM SolLimitsKeepOrder == ConfigSpec => SolLimitsStayOrdered
<1>1. AccountsIInv /\ [ConfigNext]_configVars
        => [config.layout = "current" /\ SolLimitsOrdered => SolLimitsOrdered']_configVars
  BY ConfigStep
<1> QED BY <1>1, AccountsStaySound, PTL DEF ConfigSpec, SolLimitsStayOrdered

\* A setter of the config account leaves the other settings alone.
LEMMA SettersSetOneThing ==
  ASSUME AccountsIInv, NEW signer \in Signers,
         \/ \E w \in AuthorityChoices : SetAuthority(signer, w)
         \/ \E b \in BOOLEAN : SetPaused(signer, b)
         \/ \E bps \in FeeChoices : SetFeeBps(signer, bps)
         \/ \E m \in QuoteChoices, p \in PoolChoices : SetSolUsdcPool(signer, m, p)
         \/ \E x \in LimitChoices : SetSolMinAmount(signer, x)
         \/ \E x \in LimitChoices : SetSolMaxAmount(signer, x)
  PROVE  OnlyBySetters
<1>1. config \in ConfigAccounts
  BY DEF AccountsIInv, ConfigTypeOK
<1>2. signer = config.authority /\ token_config' = token_config
  BY DEF SetAuthority, SetPaused, SetFeeBps, SetSolUsdcPool, SetSolMinAmount,
         SetSolMaxAmount, IsAuthority
<1>3. \A m \in Tokens : SameEntry(token_config'[m], token_config[m])
  BY <1>2 DEF SameEntry
<1>4. CASE \E w \in AuthorityChoices : SetAuthority(signer, w)
  <2> PICK w \in AuthorityChoices : SetAuthority(signer, w)
    BY <1>4
  <2>1. config' = [config EXCEPT !.authority = w]
    BY DEF SetAuthority
  <2>2. config'.authority = w
    BY <1>1, <2>1 DEF ConfigAccounts
  <2>3. SetAuthority(config.authority, config'.authority)
    BY <1>2, <2>2
  <2> QED BY <1>1, <1>2, <1>3, <2>1, <2>3 DEF OnlyBySetters, ConfigAccounts
<1>5. CASE \E b \in BOOLEAN : SetPaused(signer, b)
  <2> PICK b \in BOOLEAN : SetPaused(signer, b)
    BY <1>5
  <2>1. config' = [config EXCEPT !.paused = b]
    BY DEF SetPaused
  <2>2. config'.paused = b
    BY <1>1, <2>1 DEF ConfigAccounts
  <2>3. SetPaused(config.authority, config'.paused)
    BY <1>2, <2>2
  <2> QED BY <1>1, <1>2, <1>3, <2>1, <2>3 DEF OnlyBySetters, ConfigAccounts
<1>6. CASE \E bps \in FeeChoices : SetFeeBps(signer, bps)
  <2> PICK bps \in FeeChoices : SetFeeBps(signer, bps)
    BY <1>6
  <2>1. config' = [config EXCEPT !.fee_bps = bps]
    BY DEF SetFeeBps
  <2>2. config'.fee_bps = bps
    BY <1>1, <2>1 DEF ConfigAccounts
  <2>3. SetFeeBps(config.authority, config'.fee_bps)
    BY <1>2, <2>2
  <2> QED BY <1>1, <1>2, <1>3, <2>1, <2>3 DEF OnlyBySetters, ConfigAccounts
<1>7. CASE \E m \in QuoteChoices, p \in PoolChoices : SetSolUsdcPool(signer, m, p)
  <2> PICK m \in QuoteChoices, p \in PoolChoices : SetSolUsdcPool(signer, m, p)
    BY <1>7
  <2>1. config' = [config EXCEPT !.usdc_mint = m, !.sol_usdc_pool = p]
    BY DEF SetSolUsdcPool
  <2>2. config'.usdc_mint = m /\ config'.sol_usdc_pool = p
    BY <1>1, <2>1 DEF ConfigAccounts
  <2>3. SetSolUsdcPool(config.authority, config'.usdc_mint, config'.sol_usdc_pool)
    BY <1>2, <2>2
  <2> QED BY <1>1, <1>2, <1>3, <2>1, <2>3 DEF OnlyBySetters, ConfigAccounts
<1>8. CASE \E x \in LimitChoices : SetSolMinAmount(signer, x)
  <2> PICK x \in LimitChoices : SetSolMinAmount(signer, x)
    BY <1>8
  <2>1. config' = [config EXCEPT !.sol_min_amount = x]
    BY DEF SetSolMinAmount
  <2>2. config'.sol_min_amount = x
    BY <1>1, <2>1 DEF ConfigAccounts
  <2>3. SetSolMinAmount(config.authority, config'.sol_min_amount)
    BY <1>2, <2>2
  <2> QED BY <1>1, <1>2, <1>3, <2>1, <2>3 DEF OnlyBySetters, ConfigAccounts
<1>9. CASE \E x \in LimitChoices : SetSolMaxAmount(signer, x)
  <2> PICK x \in LimitChoices : SetSolMaxAmount(signer, x)
    BY <1>9
  <2>1. config' = [config EXCEPT !.sol_max_amount = x]
    BY DEF SetSolMaxAmount
  <2>2. config'.sol_max_amount = x
    BY <1>1, <2>1 DEF ConfigAccounts
  <2>3. SetSolMaxAmount(config.authority, config'.sol_max_amount)
    BY <1>2, <2>2
  <2> QED BY <1>1, <1>2, <1>3, <2>1, <2>3 DEF OnlyBySetters, ConfigAccounts
<1> QED BY <1>4, <1>5, <1>6, <1>7, <1>8, <1>9

\* A migration, of whatever account, and enable_token set nothing else.
LEMMA OthersSetNoSetting ==
  ASSUME AccountsIInv, NEW signer \in Signers,
         \/ MigrateConfig(signer)
         \/ \E m \in Tokens, e \in TokenEntries : EnableToken(signer, m, e)
         \/ \E m \in Tokens : MigrateTokenConfig(signer, m)
  PROVE  OnlyBySetters
<1>1. config \in ConfigAccounts /\ token_config \in [Tokens -> TokenConfigAccounts]
  BY DEF AccountsIInv, ConfigTypeOK
<1>2. signer = config.authority
  BY DEF MigrateConfig, EnableToken, MigrateTokenConfig, IsAuthority
<1>3. CASE MigrateConfig(signer)
  <2>1. config' = FillNewFields(config) /\ token_config' = token_config
    BY <1>3 DEF MigrateConfig
  <2>2. \A m \in Tokens : SameEntry(token_config'[m], token_config[m])
    BY <2>1 DEF SameEntry
  <2>3. /\ config'.authority = config.authority /\ config'.paused = config.paused
        /\ config'.fee_bps = config.fee_bps
        /\ config'.usdc_mint = config.usdc_mint
        /\ config'.sol_usdc_pool = config.sol_usdc_pool
        /\ config.sol_min_amount \in {0, config'.sol_min_amount}
        /\ config.sol_max_amount \in {0, config'.sol_max_amount}
        /\ config.vrf_program \in {DefaultKey, config'.vrf_program}
    BY <1>1, <2>1, Filled
  <2> QED BY <1>2, <2>2, <2>3 DEF OnlyBySetters
<1>4. CASE \E m \in Tokens, e \in TokenEntries : EnableToken(signer, m, e)
  <2> PICK m \in Tokens, e \in TokenEntries : EnableToken(signer, m, e)
    BY <1>4
  <2>1. config' = config /\ token_config' = [token_config EXCEPT ![m] = e]
    BY DEF EnableToken
  <2>2. token_config'[m] = e /\ \A n \in Tokens \ {m} : token_config'[n] = token_config[n]
    BY <1>1, <2>1
  <2>3. EnableToken(config.authority, m, token_config'[m])
    BY <1>2, <2>2
  <2>4. \A n \in Tokens \ {m} : SameEntry(token_config'[n], token_config[n])
    BY <2>2 DEF SameEntry
  <2> QED BY <1>2, <2>1, <2>3, <2>4 DEF OnlyBySetters
<1>5. CASE \E m \in Tokens : MigrateTokenConfig(signer, m)
  <2> PICK m \in Tokens : MigrateTokenConfig(signer, m)
    BY <1>5
  <2>1. /\ config' = config
        /\ token_config' = [token_config EXCEPT ![m].layout = "current"]
        /\ token_config[m].layout # "none"
    BY DEF MigrateTokenConfig
  <2>2. /\ token_config'[m] = [token_config[m] EXCEPT !.layout = "current"]
        /\ \A n \in Tokens \ {m} : token_config'[n] = token_config[n]
    BY <1>1, <2>1
  <2>3. \A t \in TokenConfigAccounts :
          t.layout # "none" => SameEntry([t EXCEPT !.layout = "current"], t)
    BY DEF SameEntry, TokenConfigAccounts
  <2>4. \A n \in Tokens : SameEntry(token_config'[n], token_config[n])
    <3>1. SameEntry(token_config'[m], token_config[m])
      BY <1>1, <2>1, <2>2, <2>3
    <3>2. ASSUME NEW n \in Tokens \ {m}
          PROVE  SameEntry(token_config'[n], token_config[n])
      BY <2>2 DEF SameEntry
    <3> QED BY <3>1, <3>2
  <2> QED BY <1>2, <2>1, <2>4 DEF OnlyBySetters
<1> QED BY <1>3, <1>4, <1>5

\* Whatever the accounts held when the program found them, and in whatever
\* order they are migrated and set (admin.rs), every change is the authority's
\* own, and what has been set stays until its setter is called.
THEOREM SettingsStaySet == ConfigSpec => SettingsChangeOnlyBySetters
<1>1. ASSUME AccountsIInv, ConfigNext, config.layout # "none"
      PROVE  OnlyBySetters
  <2>1. AdminStep
    BY <1>1 DEF ConfigNext, Initialize
  <2> QED BY <1>1, <2>1, SettersSetOneThing, OthersSetNoSetting DEF AdminStep
<1>2. AccountsIInv /\ [ConfigNext]_configVars
        => [config.layout # "none" => OnlyBySetters]_configVars
  BY <1>1
<1> QED BY <1>2, AccountsStaySound, PTL DEF ConfigSpec, SettingsChangeOnlyBySetters
====
