---- MODULE ConfigAdmin ----
(***************************************************************************)
(* The Config account, the TokenConfig accounts and the administration     *)
(* instructions of src/src/instructions/initialize.rs and admin.rs.        *)
(* An account whose layout is "legacy" was written by an earlier program:  *)
(* it is shorter than the current struct, so every instruction that takes  *)
(* it as Account<Config> or Account<TokenConfig> fails to decode it, and   *)
(* only the migrations, which read raw bytes, can touch it.                *)
(***************************************************************************)
EXTENDS Fees

CONSTANTS
  Wallets,                  \* the keys, all but the default one
  Signers,                  \* those that somebody holds and can sign with
  DefaultKey,               \* Pubkey::default()
  WSOL_MINT,
  Tokens,                   \* mints other than native SOL
  Pools,                    \* Raydium CLMM pools
  VrfPrograms,
  ORAO_VRF_ID,
  DEFAULT_SOL_MIN_AMOUNT,
  DEFAULT_SOL_MAX_AMOUNT,
  AuthorityChoices,         \* arguments the administrator may send
  FeeChoices,
  LimitChoices,
  PoolChoices,
  QuoteChoices              \* mints named as USDC or as a token's quote

ASSUME ConfigAssumption ==
  /\ Signers \subseteq Wallets
  /\ DefaultKey \notin Wallets \union Tokens \union Pools \union VrfPrograms
  /\ ORAO_VRF_ID \in VrfPrograms
  /\ DEFAULT_SOL_MIN_AMOUNT \in U64 \ {0}
  /\ DEFAULT_SOL_MAX_AMOUNT \in U64
  /\ DEFAULT_SOL_MIN_AMOUNT <= DEFAULT_SOL_MAX_AMOUNT
  /\ AuthorityChoices \subseteq Wallets \union {DefaultKey}
  /\ FeeChoices \subseteq Nat
  /\ LimitChoices \subseteq U64
  /\ PoolChoices \subseteq Pools \union {DefaultKey}

VARIABLES
  config,           \* the Config account
  token_config      \* the TokenConfig account of each mint

configVars == <<config, token_config>>

NativeSol == DefaultKey
IsNativeSol(mint) == mint = NativeSol
IsSolMint(mint) == mint \in {NativeSol, WSOL_MINT}
Mints == Tokens \union {NativeSol}

Layouts == {"none", "legacy", "current"}

ConfigAccounts ==
  [layout : Layouts, authority : Wallets \union {DefaultKey}, fee_bps : Nat,
   paused : BOOLEAN, usdc_mint : QuoteChoices \union {DefaultKey},
   sol_usdc_pool : Pools \union {DefaultKey}, sol_min_amount : U64,
   vrf_program : VrfPrograms \union {DefaultKey}, sol_max_amount : U64]

TokenConfigAccounts ==
  [layout : Layouts, min_amount : U64, is_enabled : BOOLEAN,
   pool : Pools \union {DefaultKey}, quote_mint : QuoteChoices \union {WSOL_MINT, DefaultKey},
   cross_disabled : BOOLEAN, max_amount : U64]

NoConfig ==
  [layout |-> "none", authority |-> DefaultKey, fee_bps |-> 0, paused |-> FALSE,
   usdc_mint |-> DefaultKey, sol_usdc_pool |-> DefaultKey, sol_min_amount |-> 0,
   vrf_program |-> DefaultKey, sol_max_amount |-> 0]

NoTokenConfig ==
  [layout |-> "none", min_amount |-> 0, is_enabled |-> FALSE, pool |-> DefaultKey,
   quote_mint |-> DefaultKey, cross_disabled |-> FALSE, max_amount |-> 0]

\* What initialize writes.
InitialConfig(authority, program) ==
  [NoConfig EXCEPT !.layout = "current", !.authority = authority,
                   !.fee_bps = DEFAULT_FEE_BPS, !.vrf_program = program,
                   !.sol_min_amount = DEFAULT_SOL_MIN_AMOUNT,
                   !.sol_max_amount = DEFAULT_SOL_MAX_AMOUNT]

Initialize(authority, program) ==
  /\ config.layout = "none"
  /\ program # DefaultKey
  /\ config' = InitialConfig(authority, program)
  /\ UNCHANGED token_config

\* has_one = authority on a config account that decodes.
IsAuthority(signer) ==
  /\ config.layout = "current"
  /\ signer = config.authority

\* A slip: the default key is accepted.
SetAnyAuthority(signer, authority) ==
  /\ IsAuthority(signer)
  /\ config' = [config EXCEPT !.authority = authority]
  /\ UNCHANGED token_config

SetAuthority(signer, authority) ==
  /\ IsAuthority(signer)
  /\ authority # DefaultKey
  /\ config' = [config EXCEPT !.authority = authority]
  /\ UNCHANGED token_config

SetPaused(signer, paused) ==
  /\ IsAuthority(signer)
  /\ config' = [config EXCEPT !.paused = paused]
  /\ UNCHANGED token_config

SetFeeBps(signer, fee_bps) ==
  /\ IsAuthority(signer)
  /\ fee_bps <= MAX_FEE_BPS
  /\ config' = [config EXCEPT !.fee_bps = fee_bps]
  /\ UNCHANGED token_config

SetSolUsdcPool(signer, usdc_mint, pool) ==
  /\ IsAuthority(signer)
  /\ usdc_mint # DefaultKey
  /\ pool # DefaultKey
  /\ config' = [config EXCEPT !.usdc_mint = usdc_mint, !.sol_usdc_pool = pool]
  /\ UNCHANGED token_config

\* A slip: the maximum is not looked at.
SetAnySolMinAmount(signer, sol_min_amount) ==
  /\ IsAuthority(signer)
  /\ sol_min_amount > 0
  /\ config' = [config EXCEPT !.sol_min_amount = sol_min_amount]
  /\ UNCHANGED token_config

SetSolMinAmount(signer, sol_min_amount) ==
  /\ IsAuthority(signer)
  /\ sol_min_amount > 0
  /\ config.sol_max_amount > 0 => sol_min_amount <= config.sol_max_amount
  /\ config' = [config EXCEPT !.sol_min_amount = sol_min_amount]
  /\ UNCHANGED token_config

SetSolMaxAmount(signer, sol_max_amount) ==
  /\ IsAuthority(signer)
  /\ sol_max_amount > 0
  /\ sol_max_amount >= config.sol_min_amount
  /\ config' = [config EXCEPT !.sol_max_amount = sol_max_amount]
  /\ UNCHANGED token_config

\* A token may be quoted in SOL, or in USDC once its mint is known.
QuoteAllowed(quote_mint) ==
  \/ IsSolMint(quote_mint)
  \/ /\ config.usdc_mint # DefaultKey
     /\ quote_mint = config.usdc_mint

\* A slip: enabling does not validate the maximum.
EnableTokenAnyMax(signer, mint, entry) ==
  /\ IsAuthority(signer)
  /\ token_config[mint].layout \in {"none", "current"}
  /\ entry.is_enabled =>
       entry.min_amount > 0 /\ entry.pool # DefaultKey /\ QuoteAllowed(entry.quote_mint)
  /\ token_config' = [token_config EXCEPT ![mint] = entry]
  /\ UNCHANGED config

\* init_if_needed creates the account, reuses a current one, and refuses a
\* legacy one because its size differs.  A disabling call is not validated.
EnableToken(signer, mint, entry) ==
  /\ IsAuthority(signer)
  /\ token_config[mint].layout \in {"none", "current"}
  /\ entry.is_enabled =>
       /\ entry.min_amount > 0
       /\ entry.max_amount >= entry.min_amount
       /\ entry.pool # DefaultKey
       /\ QuoteAllowed(entry.quote_mint)
  /\ token_config' = [token_config EXCEPT ![mint] = entry]
  /\ UNCHANGED config

\* A slip: migration writes the defaults over what is there.
ResetNewFields(c) ==
  [c EXCEPT !.layout = "current", !.sol_min_amount = DEFAULT_SOL_MIN_AMOUNT,
            !.vrf_program = ORAO_VRF_ID, !.sol_max_amount = DEFAULT_SOL_MAX_AMOUNT]

\* init_new_config_fields: a zero field is taken for one that was never set.
FillNewFields(c) ==
  [c EXCEPT
    !.layout = "current",
    !.sol_min_amount = IF @ = 0 THEN DEFAULT_SOL_MIN_AMOUNT ELSE @,
    !.vrf_program = IF @ = DefaultKey THEN ORAO_VRF_ID ELSE @,
    !.sol_max_amount = IF @ = 0 THEN DEFAULT_SOL_MAX_AMOUNT ELSE @]

\* The authority is read from the raw bytes, so a legacy account will do.
MigrateConfig(signer) ==
  /\ config.layout # "none"
  /\ signer = config.authority
  /\ config' = FillNewFields(config)
  /\ UNCHANGED token_config

\* The new max_amount is the zero realloc leaves behind.
MigrateTokenConfig(signer, mint) ==
  /\ config.layout # "none"
  /\ signer = config.authority
  /\ token_config[mint].layout # "none"
  /\ token_config' = [token_config EXCEPT ![mint].layout = "current"]
  /\ UNCHANGED config

\* The arguments of an enable_token call.
TokenEntries ==
  [layout : {"current"}, min_amount : LimitChoices, is_enabled : BOOLEAN,
   pool : PoolChoices, quote_mint : QuoteChoices, cross_disabled : BOOLEAN,
   max_amount : LimitChoices]

AdminStep ==
  \E signer \in Signers :
    \/ \E w \in AuthorityChoices : SetAuthority(signer, w)
    \/ \E b \in BOOLEAN : SetPaused(signer, b)
    \/ \E bps \in FeeChoices : SetFeeBps(signer, bps)
    \/ \E m \in QuoteChoices, p \in PoolChoices : SetSolUsdcPool(signer, m, p)
    \/ \E x \in LimitChoices : SetSolMinAmount(signer, x)
    \/ \E x \in LimitChoices : SetSolMaxAmount(signer, x)
    \/ \E m \in Tokens, e \in TokenEntries : EnableToken(signer, m, e)
    \/ MigrateConfig(signer)
    \/ \E m \in Tokens : MigrateTokenConfig(signer, m)

ConfigTypeOK ==
  /\ config \in ConfigAccounts
  /\ token_config \in [Tokens -> TokenConfigAccounts]
----
(* The life of the accounts on their own *)

\* Accounts of earlier layouts hold whatever an earlier program put into the
\* fields they have; the fields the struct has gained since (sol_min_amount,
\* then vrf_program, then sol_max_amount; max_amount for tokens) are zero from
\* where the old layout ended.
LegacyConfigs ==
  {c \in [layout : {"legacy"}, authority : Wallets \union {DefaultKey},
          fee_bps : FeeChoices, paused : BOOLEAN,
          usdc_mint : QuoteChoices \union {DefaultKey},
          sol_usdc_pool : PoolChoices \union {DefaultKey},
          sol_min_amount : LimitChoices \union {0},
          vrf_program : VrfPrograms \union {DefaultKey}, sol_max_amount : {0}] :
     c.sol_min_amount = 0 => c.vrf_program = DefaultKey}

\* What an earlier enable_token let through as enabled had a minimum, a pool
\* and a quote in SOL or, once there was one, in USDC.
LegacyTokenConfigs(usdc_mint) ==
  {t \in [layout : {"legacy"}, min_amount : LimitChoices, is_enabled : BOOLEAN,
          pool : PoolChoices, quote_mint : QuoteChoices,
          cross_disabled : BOOLEAN, max_amount : {0}] :
     t.is_enabled =>
       /\ t.min_amount > 0
       /\ t.pool # DefaultKey
       /\ ~IsSolMint(t.quote_mint) => usdc_mint # DefaultKey}

ConfigInit ==
  \/ /\ config = NoConfig
     /\ token_config = [m \in Tokens |-> NoTokenConfig]
  \/ /\ config \in LegacyConfigs
     /\ token_config \in [Tokens -> LegacyTokenConfigs(config.usdc_mint) \union {NoTokenConfig}]

ConfigNext ==
  \/ \E signer \in Signers, p \in VrfPrograms \union {DefaultKey} : Initialize(signer, p)
  \/ AdminStep

ConfigSpec == ConfigInit /\ [][ConfigNext]_configVars

\* A config that decodes has an authority other than the default key, a VRF
\* program, a minimum and a maximum, whatever its account held before it was
\* migrated.  (Nothing keeps the authority from being a key nobody holds, nor
\* a fee written before there was a cap from being above it.)
CurrentConfigIsComplete ==
  config.layout = "current" =>
    /\ config.authority # DefaultKey
    /\ config.sol_min_amount > 0
    /\ config.sol_max_amount > 0
    /\ config.vrf_program # DefaultKey

SolLimitsOrdered == config.sol_min_amount <= config.sol_max_amount

\* Once a current config admits a house-only SOL stake it always does: no
\* order of setters, and no later migration, puts the minimum above the
\* maximum.  (The first migration can: the old minimum meets a default.)
SolLimitsStayOrdered ==
  [][config.layout = "current" /\ SolLimitsOrdered => SolLimitsOrdered']_configVars

\* A token that create accepts has a positive minimum, a pool, a maximum that
\* admits the minimum or, after a migration, none, and a quote in SOL unless
\* the config names a USDC mint.
EnabledTokensAreUsable ==
  \A m \in Tokens :
    LET t == token_config[m]
    IN  t.layout = "current" /\ t.is_enabled =>
          /\ t.min_amount > 0
          /\ t.max_amount >= t.min_amount \/ t.max_amount = 0
          /\ t.pool # DefaultKey
          /\ ~IsSolMint(t.quote_mint) => config.usdc_mint # DefaultKey

\* Two token configs that differ at most in their layout, and not in whether
\* there is an account.
SameEntry(t, u) ==
  /\ [t EXCEPT !.layout = "none"] = [u EXCEPT !.layout = "none"]
  /\ t.layout = "none" <=> u.layout = "none"

\* The step is signed by the authority, and each thing that has been set and
\* becomes another does so by the instruction that sets it to what it becomes.
OnlyBySetters ==
  /\ config.authority \in Signers
  /\ \/ config'.authority = config.authority
     \/ SetAuthority(config.authority, config'.authority)
  /\ \/ config'.paused = config.paused
     \/ SetPaused(config.authority, config'.paused)
  /\ \/ config'.fee_bps = config.fee_bps
     \/ SetFeeBps(config.authority, config'.fee_bps)
  /\ \/ /\ config'.usdc_mint = config.usdc_mint
        /\ config'.sol_usdc_pool = config.sol_usdc_pool
     \/ SetSolUsdcPool(config.authority, config'.usdc_mint, config'.sol_usdc_pool)
  /\ \/ config.sol_min_amount \in {0, config'.sol_min_amount}
     \/ SetSolMinAmount(config.authority, config'.sol_min_amount)
  /\ \/ config.sol_max_amount \in {0, config'.sol_max_amount}
     \/ SetSolMaxAmount(config.authority, config'.sol_max_amount)
  /\ config.vrf_program \in {DefaultKey, config'.vrf_program}
  /\ \A m \in Tokens :
       \/ SameEntry(token_config'[m], token_config[m])
       \/ EnableToken(config.authority, m, token_config'[m])

\* From the moment there is a config, every change is signed by the authority
\* of that moment, so that under a key nobody holds nothing changes any more;
\* and what has been set, the fee, the USDC mint, its pool and the tokens
\* included, changes by its own setter only, never by a migration, a first or
\* a repeated one, and never by the setting of something else.
SettingsChangeOnlyBySetters ==
  [][config.layout # "none" => OnlyBySetters]_configVars

\* README.md:22: "`0` means no cap (until you set one after migrate)": a SOL
\* maximum of 0 stays until set_sol_max_amount replaces it.
NoCapUntilSet ==
  [][config.layout # "none" /\ config.sol_max_amount = 0
       => \/ config'.sol_max_amount = 0
          \/ \E s \in Signers, x \in LimitChoices : SetSolMaxAmount(s, x)]_configVars
====
