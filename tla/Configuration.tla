--------------------------- MODULE Configuration ---------------------------
(***************************************************************************)
(* How a process arrives at its configuration: the built-in defaults, the  *)
(* YAML file over them, the AUTHPLANE_* variables over both, the folding   *)
(* of a deprecated key, and the refusals of Load, Validate,                *)
(* ValidateAdminAPIKey and SelfCheck (src/internal/config/).               *)
(*                                                                         *)
(* A configuration is a function from setting names to strings.  Only the  *)
(* values the code tells apart are kept: a secret is "", "weak", "short"   *)
(* or "good", a duration "0" or "ok", a boolean "true" or "false".  What   *)
(* an operator provides is a record of                                     *)
(*   file   the settings the YAML file gives; "${}" is a value that still  *)
(*          holds a ${VAR}, which nothing expands,                         *)
(*   flaws  what else is in the file: "legacy" for a retired key,          *)
(*   env    the raw text of the AUTHPLANE_* variables that are set,        *)
(*   os     the other variables of the process, by name; "" when unset.    *)
(* The lists of seeded providers (slugs) and resources (records) are       *)
(* sequences, the only settings that are not strings.                      *)
(***************************************************************************)
EXTENDS Naturals, Sequences, TLC

(***************************************************************************)
(* Defaults, and the settings the environment reaches with the reader each *)
(* one uses.  oidc_secret_ref, oidc_secret_env and old_key_env have no     *)
(* variable.                                                               *)
(***************************************************************************)
CfDefaultConfig ==
    [ issuer |-> "local", address |-> "a", driver |-> "sqlite",
      sqlite_path |-> "set", dsn |-> "", pool |-> "ok",
      algorithm |-> "ES256", key_store |-> "keyfile", key_path |-> "set",
      vt_address |-> "", vt_mount |-> "transit", vt_token |-> "", vt_role |-> "",
      vt_secret |-> "",
      dcr_mode |-> "open", approved |-> "",
      xaa |-> "true", subject_mode |-> "auto_map",
      cimd |-> "true", cimd_https |-> "true", cimd_private |-> "false",
      session_secret |-> "", session_secure |-> "false",
      session_age |-> "ok", same_site |-> "lax",
      rl |-> "true", rl_rps |-> "ok", rl_burst |-> "ok", fail_max |-> "ok",
      fail_window |-> "ok", lockout |-> "ok", tracked |-> "ok",
      state_age |-> "ok", default_scope |-> "",
      oidc |-> "false", oidc_issuer |-> "", oidc_client |-> "",
      oidc_secret |-> "", oidc_secret_ref |-> "", oidc_secret_env |-> "",
      oidc_redirect |-> "", connector |-> "",
      cc |-> "true", cc_expiry |-> "ok",
      dpop |-> "true", nonce_ttl |-> "ok", proof_lifetime |-> "ok",
      tx |-> "true", tx_depth |-> "ok", tx_expiry |-> "ok",
      admin |-> "true", admin_address |-> "b", api_key |-> "",
      lookback |-> "ok", max_lookback |-> "ok",
      log_level |-> "info", log_format |-> "json",
      log_otel |-> "false", log_endpoint |-> "",
      metrics |-> "prometheus", metrics_endpoint |-> "",
      tracing |-> "false", tracing_endpoint |-> "", sample_rate |-> "ok",
      enc_driver |-> "", key_env |-> "", old_key_env |-> "",
      vte_address |-> "", vte_mount |-> "", vte_key |-> "", vte_auth |-> "",
      vte_token_env |-> "", vte_role_env |-> "", vte_secret_env |-> "",
      connect_secret |-> "", connect_url |-> "", return_urls |-> "",
      providers |-> << >>, resources |-> << >> ]

CfServerFromEnv == [issuer |-> "string", address |-> "string"]

CfStorageFromEnv ==
    [driver |-> "string", sqlite_path |-> "string", dsn |-> "string",
     pool |-> "int"]

CfSigningFromEnv ==
    [algorithm |-> "string", key_store |-> "string", key_path |-> "string",
     vt_address |-> "string", vt_mount |-> "string", vt_token |-> "string",
     vt_role |-> "string", vt_secret |-> "string"]

CfDCRFromEnv == [dcr_mode |-> "string", approved |-> "list"]

CfCIMDFromEnv ==
    [cimd |-> "bool", cimd_https |-> "bool", cimd_private |-> "bool"]

CfXAAFromEnv == [xaa |-> "bool", subject_mode |-> "string"]

CfSessionFromEnv ==
    [session_age |-> "strict", session_secure |-> "bool",
     same_site |-> "string", session_secret |-> "string"]

CfRateLimitFromEnv ==
    [rl |-> "bool", rl_rps |-> "int", rl_burst |-> "int", fail_max |-> "int",
     fail_window |-> "duration", lockout |-> "duration", tracked |-> "int"]

CfAdminFromEnv ==
    [admin |-> "bool", admin_address |-> "string", api_key |-> "string",
     lookback |-> "strict", max_lookback |-> "strict"]

CfOAuthFromEnv == [default_scope |-> "string", state_age |-> "strict"]

CfOIDCFromEnv ==
    [oidc |-> "bool", oidc_issuer |-> "string", oidc_client |-> "string",
     oidc_secret |-> "string", oidc_redirect |-> "string",
     connector |-> "string"]

CfObservabilityFromEnv ==
    [log_level |-> "string", log_format |-> "string",
     log_otel |-> "bool", log_endpoint |-> "string",
     metrics |-> "string", metrics_endpoint |-> "string",
     tracing |-> "bool", tracing_endpoint |-> "string",
     sample_rate |-> "int"]

CfClientCredentialsFromEnv == [cc |-> "bool", cc_expiry |-> "duration"]

CfDPoPFromEnv ==
    [dpop |-> "bool", nonce_ttl |-> "duration", proof_lifetime |-> "duration"]

CfTokenExchangeFromEnv ==
    [tx |-> "bool", tx_depth |-> "int", tx_expiry |-> "duration"]

CfDataEncryptionFromEnv ==
    [enc_driver |-> "string", key_env |-> "string", vte_address |-> "string",
     vte_mount |-> "string", vte_auth |-> "string",
     vte_token_env |-> "string", vte_key |-> "string",
     vte_role_env |-> "string", vte_secret_env |-> "string"]

CfConnectFromEnv ==
    [connect_secret |-> "string", connect_url |-> "string",
     return_urls |-> "list"]

\* deriveSlugFromURI: the slug is made of the host alone, so two URIs of one
\* host get one slug, and a URI without a host gets none.
CfDeriveSlugFromURI(uri) ==
    CASE uri \in {"uri1", "uri1/path"} -> "s1"
      [] uri = "uri2"                  -> "s2"
      [] OTHER                         -> ""

\* AUTHPLANE_RESOURCE_URI (loadResourcesFromEnv): one Mint resource is added
\* to what the file lists, unless the file lists that URI already.
CfResourcesFromEnv(resources, uri) ==
    IF uri = "" \/ \E k \in DOMAIN resources : resources[k].uri = uri
    THEN resources
    ELSE Append(resources, [slug |-> CfDeriveSlugFromURI(uri), uri |-> uri,
                            kind |-> "mint", provider |-> "",
                            returns |-> FALSE])

\* AUTHPLANE_BROKER_PROVIDER_SLUG (loadBrokerProviderFromEnv): one provider is
\* added to, or completes, the ones of the file.
CfBrokerProviderFromEnv(providers, slug) ==
    IF slug = "" \/ \E k \in DOMAIN providers : providers[k] = slug
    THEN providers
    ELSE Append(providers, slug)

CfEnvReaders ==
    CfServerFromEnv @@ CfStorageFromEnv @@ CfSigningFromEnv @@ CfDCRFromEnv
    @@ CfCIMDFromEnv @@ CfSessionFromEnv @@ CfRateLimitFromEnv
    @@ CfAdminFromEnv @@ CfOAuthFromEnv @@ CfOIDCFromEnv
    @@ CfObservabilityFromEnv @@ CfClientCredentialsFromEnv @@ CfDPoPFromEnv
    @@ CfTokenExchangeFromEnv @@ CfXAAFromEnv @@ CfDataEncryptionFromEnv
    @@ CfConnectFromEnv

(***************************************************************************)
(* The readers.  A variable that is set to the empty string counts as set, *)
(* except for the durations whose reader reports errors.                   *)
(***************************************************************************)
CfGetEnvBool(raw) ==
    IF raw \in {"true", "1", "yes"} THEN "true" ELSE "false"

\* getEnvInt, getEnvFloat64 and getEnvDuration: what does not parse is as if
\* it were not set.
CfGetEnvDuration(raw, current) ==
    IF raw \in {"garbage", ""} THEN current ELSE raw

\* getEnvDurationE: what does not parse refuses the boot.
CfGetEnvDurationE(raw, current) ==
    CASE raw = ""        -> current
      [] raw = "garbage" -> "refused"
      [] OTHER           -> raw

CfRead(reader, raw, current) ==
    CASE reader = "bool"               -> CfGetEnvBool(raw)
      [] reader \in {"int", "duration"} -> CfGetEnvDuration(raw, current)
      [] reader = "strict"             -> CfGetEnvDurationE(raw, current)
      [] OTHER                         -> raw

\* The text of a variable; "" when it is not set.
CfGetEnv(env, s) == IF s \in DOMAIN env THEN env[s] ELSE ""

CfLoadFromEnv(cfg, env) ==
    [s \in DOMAIN cfg |->
        CASE s = "resources" ->
                CfResourcesFromEnv(cfg[s], CfGetEnv(env, "resource_uri"))
          [] s = "providers" ->
                CfBrokerProviderFromEnv(cfg[s], CfGetEnv(env, "provider_slug"))
          [] s \in DOMAIN env \cap DOMAIN CfEnvReaders ->
                CfRead(CfEnvReaders[s], env[s], cfg[s])
          [] OTHER -> cfg[s]]

\* oidc.client_secret_env of v0.1.x becomes oidc.client_secret_ref; the inline
\* secret gives way when both name the same variable.
CfNormalizeDeprecated(cfg) ==
    LET ref == IF cfg.oidc_secret_ref = "" THEN cfg.oidc_secret_env
               ELSE cfg.oidc_secret_ref
    IN  IF cfg.oidc_secret_env = "" THEN cfg
        ELSE [cfg EXCEPT !.oidc_secret_ref = ref,
                         !.oidc_secret = IF ref = cfg.oidc_secret_env THEN ""
                                         ELSE @]

CfLegacyOIDCSecretRef(cfg) ==
    IF cfg.oidc_secret_env # "" /\ cfg.oidc_secret_ref = cfg.oidc_secret_env
    THEN cfg.oidc_secret_env
    ELSE ""

(***************************************************************************)
(* Validate, by the blocks of its text.  A production issuer is one that   *)
(* is not on the local host.                                               *)
(***************************************************************************)
CfIsLocalhostIssuer(url) == url = "local"

CfIsWeakSecret(value) == value = "weak"

CfValidServer(cfg) == cfg.issuer # "" /\ cfg.address # ""

CfValidStorage(cfg) ==
    \/ cfg.driver = "sqlite" /\ cfg.sqlite_path # ""
    \/ cfg.driver = "postgres" /\ cfg.dsn # "" /\ cfg.pool # "inverted"

CfValidSigning(cfg) ==
    /\ cfg.algorithm \in {"ES256", "RS256"}
    /\ \/ cfg.key_store \in {"keyfile", ""} /\ cfg.key_path # ""
       \/ /\ cfg.key_store = "vault_transit"
          /\ cfg.vt_address # ""
          /\ (cfg.vt_token = "") # (cfg.vt_role = "")
          /\ cfg.vt_role # "" => cfg.vt_secret # ""
       \/ /\ cfg.key_store = "postgres_key"
          /\ cfg.driver = "postgres"
          /\ cfg.enc_driver # ""

CfValidDCR(cfg) ==
    \/ cfg.dcr_mode \in {"open", "admin_only"}
    \/ cfg.dcr_mode = "approved_redirects" /\ cfg.approved # ""

CfValidSessionSecret(cfg) ==
    /\ ~CfIsWeakSecret(cfg.session_secret)
    /\ CfIsLocalhostIssuer(cfg.issuer) \/ cfg.session_secret \notin {"", "short"}

CfValidSessionCookie(cfg) ==
    /\ cfg.session_secure = "true" \/ CfIsLocalhostIssuer(cfg.issuer)
    /\ cfg.same_site \in {"lax", "strict", "none"}

CfValidXAA(cfg) == cfg.subject_mode \in {"", "auto_map", "strict"}

CfValidCIMD(cfg) ==
    \/ CfIsLocalhostIssuer(cfg.issuer)
    \/ /\ cfg.cimd_https = "true"
       /\ cfg.cimd = "false" \/ cfg.cimd_private = "false"

CfValidObservability(cfg) ==
    /\ cfg.log_level \in {"debug", "info", "warn", "error"}
    /\ cfg.log_format \in {"json", "text"}
    /\ cfg.sample_rate # "bad"
    /\ cfg.log_otel = "true" => cfg.log_endpoint # ""
    /\ cfg.metrics \in {"prometheus", "otel", "both", "none"}
    /\ cfg.tracing = "true" => cfg.tracing_endpoint # ""
    /\ cfg.metrics \in {"otel", "both"} => cfg.metrics_endpoint # ""

CfValidOIDC(cfg) ==
    cfg.oidc = "true" =>
        /\ cfg.oidc_issuer \in {"https", "local"}
        /\ cfg.oidc_client # ""
        /\ (cfg.oidc_secret = "") # (cfg.oidc_secret_ref = "")
        /\ \/ cfg.oidc_redirect = "https"
           \/ cfg.oidc_redirect # "" /\ CfIsLocalhostIssuer(cfg.issuer)
        /\ cfg.connector # "bad"

CfValidLimits(cfg) ==
    /\ ~(cfg.admin = "true" /\ cfg.admin_address # "" /\ cfg.address = cfg.admin_address)
    /\ cfg.cc = "true" => cfg.cc_expiry # "0"
    /\ cfg.state_age # "0" /\ cfg.session_age # "0"
    /\ cfg.lookback # "0" /\ cfg.max_lookback # "0"
    /\ ~(cfg.lookback = "ok" /\ cfg.max_lookback = "less")
    /\ cfg.dpop = "true" => cfg.nonce_ttl # "0" /\ cfg.proof_lifetime = "ok"
    /\ cfg.tx = "true" => cfg.tx_depth = "ok" /\ cfg.tx_expiry # "0"

\* validateAESMasterConfig reads the variables that hold the keys.
CfValidAESMaster(cfg, os) ==
    /\ cfg.key_env # ""
    /\ CfGetEnv(os, cfg.key_env) \in {"hex1", "hex2"}
    /\ cfg.old_key_env # "" =>
          /\ CfGetEnv(os, cfg.old_key_env) \in {"hex1", "hex2"}
          /\ CfGetEnv(os, cfg.old_key_env) # CfGetEnv(os, cfg.key_env)

\* validateVaultTransitEncryptConfig does not ask for a token.
CfValidVaultTransitEncrypt(cfg) ==
    /\ cfg.vte_address # "" /\ cfg.vte_key # ""
    /\ \/ cfg.vte_auth \in {"", "token"}
       \/ /\ cfg.vte_auth = "approle"
          /\ cfg.vte_role_env # "" /\ cfg.vte_secret_env # ""

CfValidDataEncryption(cfg, os) ==
    \/ cfg.enc_driver = ""
    \/ cfg.enc_driver = "aes_master" /\ CfValidAESMaster(cfg, os)
    \/ cfg.enc_driver = "vault_transit_encrypt" /\ CfValidVaultTransitEncrypt(cfg)

CfValidConnect(cfg) ==
    cfg.connect_secret # "short" /\ cfg.connect_url \in {"", "https", "local"}

\* validateRateLimit returns no error at all once the lockout is off: what it
\* found about the limiter before that return is dropped with it.
CfValidRateLimit(cfg) ==
    \/ cfg.fail_max = "0"
    \/ /\ cfg.rl = "true" => cfg.rl_rps # "0" /\ cfg.rl_burst # "0"
       /\ cfg.tracked # "few"
       /\ cfg.lockout # "0" /\ cfg.fail_window # "0"

CfValidate(cfg, os) ==
    /\ CfValidServer(cfg) /\ CfValidStorage(cfg) /\ CfValidSigning(cfg)
    /\ CfValidDCR(cfg) /\ CfValidSessionSecret(cfg) /\ CfValidXAA(cfg)
    /\ CfValidCIMD(cfg) /\ CfValidSessionCookie(cfg)
    /\ CfValidObservability(cfg) /\ CfValidOIDC(cfg) /\ CfValidLimits(cfg)
    /\ CfValidDataEncryption(cfg, os) /\ CfValidConnect(cfg)
    /\ CfValidRateLimit(cfg)

\* Load: what it returns, and when it refuses.
CfResolved(in) ==
    CfNormalizeDeprecated(CfLoadFromEnv(in.file @@ CfDefaultConfig, in.env))

\* rejectUnexpandedPlaceholders looks at what is left once the environment has
\* had its say.
CfHasPlaceholder(cfg) ==
    \E s \in DOMAIN cfg \ {"providers", "resources"} : cfg[s] = "${}"

CfLoads(in) ==
    LET cfg == CfResolved(in)
    IN  /\ in.flaws = {}
        /\ \A s \in DOMAIN CfEnvReaders : cfg[s] # "refused"
        /\ \A k \in DOMAIN cfg.resources : cfg.resources[k].slug # ""
        /\ ~CfHasPlaceholder(cfg)
        /\ CfValidate(cfg, in.os)

\* loadConfig of the commands adds the admin API-key policy.
CfValidateAdminAPIKey(cfg) ==
    cfg.admin = "true" =>
        /\ ~CfIsWeakSecret(cfg.api_key)
        /\ CfIsLocalhostIssuer(cfg.issuer) \/ cfg.api_key \notin {"", "short"}

CfLoadConfig(in) == CfLoads(in) /\ CfValidateAdminAPIKey(CfResolved(in))

(***************************************************************************)
(* SelfCheck: the features a server refuses to start with.  Every check    *)
(* that returns FeatureMisconfigured is one conjunct.                      *)
(***************************************************************************)
CfBrokerResourceConfigured(cfg) ==
    \E k \in DOMAIN cfg.resources : cfg.resources[k].kind = "broker"

CfConnectFeatureRequested(cfg) ==
    \/ cfg.connect_secret # "" \/ cfg.connect_url # "" \/ cfg.return_urls # ""
    \/ CfBrokerResourceConfigured(cfg)

CfDataEncryptionChecked(cfg) ==
    \/ cfg.enc_driver = "" /\ ~CfConnectFeatureRequested(cfg)
    \/ cfg.enc_driver = "aes_master" /\ cfg.key_env # ""
    \/ /\ cfg.enc_driver = "vault_transit_encrypt"
       /\ cfg.vte_address # "" /\ cfg.vte_key # ""

CfConnectChecked(cfg) ==
    CfConnectFeatureRequested(cfg) =>
        cfg.connect_secret = "long" /\ cfg.connect_url # ""

CfTokenExchangeChecked(cfg) ==
    cfg.tx = "true" => cfg.tx_depth = "ok" /\ cfg.tx_expiry # "0"

CfClientCredentialsChecked(cfg) == cfg.cc = "true" => cfg.cc_expiry # "0"

CfDPoPChecked(cfg) ==
    cfg.dpop = "true" => cfg.proof_lifetime # "0" /\ cfg.nonce_ttl # "0"

CfDCRChecked(cfg) ==
    /\ cfg.dcr_mode \in {"", "open", "approved_redirects", "admin_only", "disabled"}
    /\ cfg.dcr_mode = "approved_redirects" => cfg.approved # ""

CfDefaultClientScopeChecked(cfg) == cfg.default_scope \notin {"comma", "bad"}

CfResourcesChecked(cfg) ==
    \A k \in DOMAIN cfg.resources :
        cfg.resources[k].kind = "broker" => cfg.resources[k].returns

CfSelfCheck(cfg) ==
    /\ CfDataEncryptionChecked(cfg) /\ CfConnectChecked(cfg)
    /\ CfTokenExchangeChecked(cfg) /\ CfClientCredentialsChecked(cfg)
    /\ CfDPoPChecked(cfg) /\ CfDCRChecked(cfg)
    /\ CfDefaultClientScopeChecked(cfg) /\ CfResourcesChecked(cfg)

(***************************************************************************)
(* The grants the configuration turns on, as registrations and discovery   *)
(* are told of them.                                                       *)
(***************************************************************************)
CfEnabledGrantTypes(cfg) ==
    {"authorization_code", "refresh_token"}
    \cup {g \in {"client_credentials"} : cfg.cc = "true"}
    \cup {g \in {"token_exchange"} : cfg.tx = "true"}
    \cup {g \in {"jwt_bearer"} : cfg.xaa = "true"}
=============================================================================
