------------------------------- MODULE Boot -------------------------------
(***************************************************************************)
(* Processes of the authserver binary that start, die and start again on   *)
(* one PostgreSQL database: servers (runServe), `migrate`, the admin       *)
(* commands (openAdminCLI) and `keys rotate` (openKeyRotationCLI).  All of *)
(* them read one configuration; each opens what it names, in the order of  *)
(* the code, and leaves with an error at the first step that fails.        *)
(*                                                                         *)
(* Nothing serialises two boots.  Migrations are transactions of their     *)
(* own, recorded under a primary key; the seeds are a look-up and, in a    *)
(* second call, an insert under a unique slug.                             *)
(***************************************************************************)
EXTENDS Configuration, FiniteSets, FiniteSetsExt

CONSTANTS
    BtServers, BtMigrators, BtAdmins, BtRotators,  \* the processes, by command
    BtEmbedded,     \* the migrations the binary of each process carries
    BtScenarios,    \* [in, starts, edits, crashes]: what the operator provides,
                    \* how often each process is started, how many rows
                    \* administrators change, how many processes are killed
    BtNone          \* no transaction, no secret, no reason

BtProcs == BtServers \cup BtMigrators \cup BtAdmins \cup BtRotators

BtVersions == UNION {BtEmbedded[p] : p \in BtProcs}

ASSUME BtConstants ==
    /\ IsFiniteSet(BtProcs)
    /\ \A p \in BtProcs : BtEmbedded[p] \in SUBSET (Nat \ {0})
    /\ \A s \in BtScenarios : s.edits \in Nat /\ s.crashes \in Nat

VARIABLES
    btIn,           \* what the operator provides
    btCfg,          \* what Load makes of it, the same in every process
    bt,             \* the processes
    btApplied,      \* how often the body of each migration is in the schema
    btRecorded,     \* the rows of schema_migrations
    btProviders,    \* the rows of broker_providers
    btResources,    \* the rows of resources
    btEdits,        \* changes administrators may still make
    btCrashes,      \* kills still to come
    btDeleted       \* history: an administrator deleted a row

btTables == <<btApplied, btRecorded, btProviders, btResources>>
btBudget == <<btEdits, btCrashes, btDeleted>>
btVars == <<btIn, btCfg, bt, btTables, btBudget>>

\* No process is up and the database is empty.
BtBegin(s) ==
    /\ btIn = s.in /\ btCfg = CfResolved(s.in)
    /\ bt = [p \in BtProcs |->
                [at |-> "down", starts |-> s.starts[p], why |-> BtNone,
                 pending |-> {}, tx |-> BtNone, next |-> 1, index |-> {},
                 raced |-> FALSE, secret |-> BtNone, wired |-> BtNone]]
    /\ btApplied = [v \in BtVersions |-> 0]
    /\ btRecorded = {}
    /\ btProviders = {} /\ btResources = {}
    /\ btEdits = s.edits /\ btCrashes = s.crashes /\ btDeleted = FALSE

BtInit == \E s \in BtScenarios : BtBegin(s)

(***************************************************************************)
(* The commands, each by the order of its steps.  The commands other than  *)
(* `serve` make no self-check and seed nothing; `keys rotate` runs no      *)
(* migration.                                                              *)
(***************************************************************************)
BtRunServe ==
    <<"load", "selfcheck", "encrypt", "probe", "migrate", "keys", "oidc",
      "providers", "resources", "wire", "serving">>

BtMigrateCmd == <<"load", "migrate", "done">>

BtOpenAdminCLI == <<"load", "encrypt", "migrate", "commands">>

BtOpenKeyRotationCLI == <<"load", "encrypt", "keys", "done">>

BtSteps(p) ==
    CASE p \in BtServers   -> BtRunServe
      [] p \in BtMigrators -> BtMigrateCmd
      [] p \in BtAdmins    -> BtOpenAdminCLI
      [] OTHER             -> BtOpenKeyRotationCLI

BtAfter(p, at) ==
    LET steps == BtSteps(p)
        k == CHOOSE k \in 1 .. Len(steps) : steps[k] = at
    IN  steps[k + 1]

BtBooting(p) == bt[p].at \notin {"down", "failed", "done", "serving"}

(***************************************************************************)
(* Steps of a boot.  BtGo moves on, BtFail is the return of an error: the  *)
(* open transaction is rolled back and the process exits.                  *)
(***************************************************************************)
BtGo(p, label) == bt' = [bt EXCEPT ![p].at = label]

BtFail(p, why) ==
    bt' = [bt EXCEPT ![p].at = "failed", ![p].why = why, ![p].tx = BtNone]

\* A change of the tables by p: every other boot under way is raced.
BtRaces(p, procs) ==
    [q \in BtProcs |-> IF q # p /\ BtBooting(q)
                       THEN [procs[q] EXCEPT !.raced = TRUE] ELSE procs[q]]

BtStart(p) ==
    /\ bt[p].at \in {"down", "failed", "done"} /\ bt[p].starts > 0
    /\ bt' = [bt EXCEPT ![p] = [@ EXCEPT !.at = "load", !.starts = @ - 1,
                                !.why = BtNone, !.pending = {}, !.next = 1,
                                !.index = {}, !.raced = FALSE,
                                !.secret = BtNone, !.wired = BtNone]]
    /\ UNCHANGED <<btIn, btCfg, btTables, btBudget>>

\* loadConfig is the first step of every command.
BtLoadConfig(p) ==
    /\ bt[p].at = "load"
    /\ IF ~CfLoadConfig(btIn) THEN BtFail(p, "config")
       ELSE BtGo(p, BtAfter(p, "load"))
    /\ UNCHANGED <<btIn, btCfg, btTables, btBudget>>

BtSelfCheck(p) ==
    /\ bt[p].at = "selfcheck"
    /\ IF CfSelfCheck(btCfg) THEN BtGo(p, BtAfter(p, "selfcheck")) ELSE BtFail(p, "config")
    /\ UNCHANGED <<btIn, btCfg, btTables, btBudget>>

\* hcvault.NewClient wants a token or an AppRole; the login of an AppRole is in
\* BtKeysNeedOthers, because the encryptor hands over the token of its variable and
\* never an AppRole.
BtNewVaultClient(token, role) == token # "" \/ role # ""

BtOpenVaultTransit(cfg, os) ==
    BtNewVaultClient(CfGetEnv(os, cfg.vte_token_env), "")

BtEncryptorOpens(cfg, os) ==
    \/ cfg.enc_driver = ""
    \/ /\ cfg.enc_driver = "aes_master"
       /\ CfGetEnv(os, cfg.key_env) \in {"hex1", "hex2"}
       /\ CfGetEnv(os, cfg.old_key_env) \in {"", "hex1", "hex2"}
    \/ /\ cfg.enc_driver = "vault_transit_encrypt"
       /\ BtOpenVaultTransit(cfg, os)

BtOpenEncryptor(p) ==
    /\ bt[p].at = "encrypt"
    /\ IF ~BtEncryptorOpens(btCfg, btIn.os) THEN BtFail(p, "encrypt")
       ELSE BtGo(p, BtAfter(p, "encrypt"))
    /\ UNCHANGED <<btIn, btCfg, btTables, btBudget>>

\* brokerproto.ValidEnvVarName.
BtValidEnvVarName(name) == name = "CONNECTOR_X"

BtProbeSecretRefs(cfg, os) ==
    \/ cfg.oidc_secret_ref = ""
    \/ /\ \/ cfg.oidc_secret_ref = CfLegacyOIDCSecretRef(cfg)
          \/ BtValidEnvVarName(cfg.oidc_secret_ref)
       /\ CfGetEnv(os, cfg.oidc_secret_ref) # ""

BtProbe(p) ==
    /\ bt[p].at = "probe"
    /\ IF BtProbeSecretRefs(btCfg, btIn.os) THEN BtGo(p, BtAfter(p, "probe"))
       ELSE BtFail(p, "config")
    /\ UNCHANGED <<btIn, btCfg, btTables, btBudget>>

(***************************************************************************)
(* Migrate.  The versions already recorded are read once; each pending one *)
(* then runs, lowest first, in a transaction with its own record.          *)
(***************************************************************************)
BtAppliedMigrations(p) ==
    btRecorded

BtListPending(p) ==
    LET pending == BtEmbedded[p] \ BtAppliedMigrations(p)
    IN  /\ bt[p].at = "migrate"
        /\ bt' = [bt EXCEPT ![p].pending = pending,
                            ![p].at = IF pending = {} THEN BtAfter(p, "migrate")
                                      ELSE "apply"]
        /\ UNCHANGED <<btIn, btCfg, btTables, btBudget>>

\* The body runs in a transaction.  It may already stumble over what another
\* process committed, for example a column that is there.
BtRunBody(p) ==
    LET v == Min(bt[p].pending)
    IN  /\ bt[p].at = "apply"
        /\ \/ bt' = [bt EXCEPT ![p].at = "record", ![p].tx = v]
           \/ v \in btRecorded /\ BtFail(p, "migrate")
        /\ UNCHANGED <<btIn, btCfg, btTables, btBudget>>

\* The insert into schema_migrations and the commit.  The primary key refuses
\* a version another process has committed meanwhile, and the body with it.
BtRecordMigration(p) ==
    LET v == bt[p].tx
        left == bt[p].pending \ {v}
    IN  /\ bt[p].at = "record"
        /\ IF v \in btRecorded
           THEN BtFail(p, "migrate") /\ UNCHANGED <<btApplied, btRecorded>>
           ELSE /\ bt' = BtRaces(p, [bt EXCEPT ![p].tx = BtNone, ![p].pending = left,
                                     ![p].at = IF left = {} THEN BtAfter(p, "migrate")
                                               ELSE "apply"])
                /\ btApplied' = [btApplied EXCEPT ![v] = @ + 1]
                /\ btRecorded' = btRecorded \cup {v}
        /\ UNCHANGED <<btIn, btCfg, btProviders, btResources, btBudget>>

(***************************************************************************)
(* The signing keys, and the discovery of the upstream identity provider.  *)
(***************************************************************************)
\* openVaultTransit: the client of the encryptor serves the keys as well when it
\* goes to the same address and the same mount.
BtSharesClient(cfg) ==
    LET mount == IF cfg.vte_mount = "" THEN "transit" ELSE cfg.vte_mount
    IN  /\ cfg.enc_driver = "vault_transit_encrypt"
        /\ cfg.vte_address = cfg.vt_address /\ mount = cfg.vt_mount

\* What signing.Open decides from the configuration alone.
BtKeysOpen(cfg) ==
    \/ cfg.key_store \in {"keyfile", ""}
    \/ /\ cfg.key_store = "vault_transit"
       /\ \/ BtSharesClient(cfg)
          \/ cfg.vt_address # "" /\ BtNewVaultClient(cfg.vt_token, cfg.vt_role)
    \/ /\ cfg.key_store = "postgres_key"
       /\ cfg.driver = "postgres"
       /\ cfg.enc_driver # ""

\* Where it depends on somebody else: the directory of the key files may refuse to be
\* made, and a client with an AppRole logs in to Vault before it is handed out.
BtKeysNeedOthers(cfg) ==
    \/ cfg.key_store \in {"keyfile", ""}
    \/ cfg.key_store = "vault_transit" /\ ~BtSharesClient(cfg) /\ cfg.vt_role # ""

BtOpenKeys(p) ==
    /\ bt[p].at = "keys"
    /\ \/ BtKeysOpen(btCfg) /\ BtGo(p, BtAfter(p, "keys"))
       \/ ~BtKeysOpen(btCfg) /\ BtFail(p, "keys")
       \/ BtKeysNeedOthers(btCfg) /\ BtFail(p, "others")
    /\ UNCHANGED <<btIn, btCfg, btTables, btBudget>>

\* Validate fetches the provider's discovery document and key set.
BtValidateOIDC(p) ==
    /\ bt[p].at = "oidc"
    /\ \/ BtGo(p, BtAfter(p, "oidc"))
       \/ btCfg.oidc = "true" /\ BtFail(p, "oidc")
    /\ UNCHANGED <<btIn, btCfg, btTables, btBudget>>

(***************************************************************************)
(* Seeding.  A row that exists is left alone; one that does not is created *)
(* in a call of its own.  Ids are named after the boot that made the row.  *)
(***************************************************************************)
BtHas(rows, slug) == \E r \in rows : r.slug = slug

\* GetBySlug before a create.
BtExisting(rows, slug) ==
    BtHas(rows, slug)

\* `continue`.
BtAfterExisting(k, len) ==
    k + 1

BtSeedProvider(p) ==
    LET k == bt[p].next
        list == btCfg.providers
    IN  /\ bt[p].at = "providers"
        /\ bt' = [bt EXCEPT ![p] =
              IF k > Len(list)
              THEN [@ EXCEPT !.at = BtAfter(p, "providers"), !.next = 1, !.index = btProviders]
              ELSE IF BtExisting(btProviders, list[k])
                   THEN [@ EXCEPT !.next = BtAfterExisting(k, Len(list))]
                   ELSE [@ EXCEPT !.at = "createProvider"]]
        /\ UNCHANGED <<btIn, btCfg, btTables, btBudget>>

BtCreateProvider(p) ==
    LET slug == btCfg.providers[bt[p].next]
    IN  /\ bt[p].at = "createProvider"
        /\ IF BtHas(btProviders, slug)
           THEN BtFail(p, "seed") /\ UNCHANGED btProviders
           ELSE /\ btProviders' = btProviders \cup
                      {[slug |-> slug, id |-> <<p, bt[p].starts>>, edited |-> FALSE]}
                /\ bt' = BtRaces(p, [bt EXCEPT ![p].at = "providers", ![p].next = @ + 1])
        /\ UNCHANGED <<btIn, btCfg, btApplied, btRecorded, btResources, btBudget>>

\* resourceConfigUnifiedToDomain: the provider's slug is looked up in the index
\* built after the provider loop.
BtResourceToDomain(p, r) ==
    LET ids == {x.id : x \in {y \in bt[p].index : y.slug = r.provider}}
    IN  IF r.kind = "mint" THEN {<<>>} ELSE ids

BtSeedResource(p) ==
    LET k == bt[p].next
        list == btCfg.resources
    IN  /\ bt[p].at = "resources"
        /\ bt' = [bt EXCEPT ![p] =
              IF k > Len(list) THEN [@ EXCEPT !.at = BtAfter(p, "resources")]
              ELSE IF BtExisting(btResources, list[k].slug)
                   THEN [@ EXCEPT !.next = BtAfterExisting(k, Len(list))]
                   ELSE IF BtResourceToDomain(p, list[k]) = {}
                        THEN [@ EXCEPT !.at = "failed", !.why = "seed"]
                        ELSE [@ EXCEPT !.at = "createResource"]]
        /\ UNCHANGED <<btIn, btCfg, btTables, btBudget>>

\* Mutant: a row that appeared since the look-up is replaced.
BtInsertResource_Upsert(rows, row) ==
    {r \in rows : r.slug # row.slug} \cup {row}

\* The unique slug refuses a second row: the set is unchanged.
BtInsertResource(rows, row) ==
    IF BtHas(rows, row.slug) THEN rows ELSE rows \cup {row}

BtCreateResource(p) ==
    LET r == btCfg.resources[bt[p].next]
        row == [slug |-> r.slug, edited |-> FALSE,
                provider |-> CHOOSE id \in BtResourceToDomain(p, r) : TRUE]
        known == r.kind = "mint" \/ \E x \in btProviders : x.id = row.provider
    IN  /\ bt[p].at = "createResource"
        /\ IF ~known THEN BtFail(p, "seed") /\ UNCHANGED btResources
           ELSE /\ btResources' = BtInsertResource(btResources, row)
                /\ IF btResources' = btResources
                   THEN BtFail(p, "seed")
                   ELSE bt' = BtRaces(p, [bt EXCEPT ![p].at = "resources", ![p].next = @ + 1])
        /\ UNCHANGED <<btIn, btCfg, btApplied, btRecorded, btProviders, btBudget>>

(***************************************************************************)
(* Wiring.  What the public server is given, as a set of capabilities:     *)
(* the token endpoint answers for a grant whose service it holds, and a    *)
(* service that was given the nonce store checks DPoP proofs.              *)
(***************************************************************************)
BtGrantServices(cfg) ==
    {"authorization_code", "refresh_token"}
    \cup {g \in {"client_credentials"} : cfg.cc = "true"}
    \cup {g \in {"token_exchange"} : cfg.tx = "true"}

BtAssertionService(cfg) == {g \in {"jwt_bearer"} : cfg.xaa = "true"}

BtProofCheckers(cfg) ==
    IF cfg.dpop = "true"
    THEN BtGrantServices(cfg) \cup BtAssertionService(cfg)
    ELSE {}

BtDiscoverers(cfg) == {c \in {"cimd"} : cfg.cimd = "true"}

BtConnectService(cfg) ==
    {c \in {"connect"} : cfg.enc_driver # "" /\ cfg.connect_secret # ""}

BtSessionSecret(p) ==
    IF btCfg.session_secret = "" THEN <<p, bt[p].starts>> ELSE <<>>

BtWire(p) ==
    /\ bt[p].at = "wire"
    /\ bt' = [bt EXCEPT ![p] = [@ EXCEPT
                  !.at = BtAfter(p, "wire"), !.secret = BtSessionSecret(p),
                  !.wired = [grants |-> BtGrantServices(btCfg)
                                        \cup BtAssertionService(btCfg),
                             proofs |-> BtProofCheckers(btCfg),
                             others |-> BtDiscoverers(btCfg)
                                        \cup BtConnectService(btCfg)]]]
    /\ UNCHANGED <<btIn, btCfg, btTables, btBudget>>

\* The dispatch of the token endpoint: a known grant type whose service is there.
BtHandleToken(wired) ==
    wired.grants \cap {"authorization_code", "refresh_token", "client_credentials",
                       "token_exchange", "jwt_bearer"}

\* ASMetadataService.Metadata: the grants and flags of the discovery document.
BtMetadata(cfg) ==
    [grants |-> CfEnabledGrantTypes(cfg),
     idjag |-> "jwt_bearer" \in CfEnabledGrantTypes(cfg),
     cimd |-> cfg.cimd = "true", dpop |-> cfg.dpop = "true"]

\* SIGTERM, or the error of a listener: the process leaves.
BtStop(p) ==
    /\ bt[p].at = "serving"
    /\ BtGo(p, "down")
    /\ UNCHANGED <<btIn, btCfg, btTables, btBudget>>

\* A kill at any point of a boot: an open transaction is rolled back.  A database that
\* stops answering ends a boot in the same way.
BtCrash(p) ==
    /\ BtBooting(p) /\ btCrashes > 0
    /\ bt' = [bt EXCEPT ![p].at = "down", ![p].tx = BtNone]
    /\ btCrashes' = btCrashes - 1
    /\ UNCHANGED <<btIn, btCfg, btTables, btEdits, btDeleted>>

(***************************************************************************)
(* Administrators, through a serving process or an admin command, change   *)
(* or delete the rows.  A provider a resource refers to stays.             *)
(***************************************************************************)
BtEditRows(p) ==
    \/ \E r \in btProviders :
          /\ btProviders' = (btProviders \ {r}) \cup {[r EXCEPT !.edited = TRUE]}
          /\ UNCHANGED <<btResources, btDeleted>>
    \/ \E r \in btResources :
          /\ btResources' = (btResources \ {r}) \cup {[r EXCEPT !.edited = TRUE]}
          /\ UNCHANGED <<btProviders, btDeleted>>
    \/ \E r \in btProviders :
          /\ \A x \in btResources : x.provider # r.id
          /\ btProviders' = btProviders \ {r} /\ btDeleted' = TRUE
          /\ UNCHANGED btResources
    \/ \E r \in btResources :
          /\ btResources' = btResources \ {r} /\ btDeleted' = TRUE
          /\ UNCHANGED btProviders

BtAdmin(p) ==
    /\ bt[p].at = "commands" \/ (bt[p].at = "serving" /\ btCfg.admin = "true")
    /\ btEdits > 0 /\ btEdits' = btEdits - 1
    /\ BtEditRows(p)
    /\ bt' = BtRaces(p, [bt EXCEPT ![p].at = IF @ = "commands" THEN "done" ELSE @])
    /\ UNCHANGED <<btIn, btCfg, btApplied, btRecorded, btCrashes>>

BtNext ==
    \E p \in BtProcs :
        \/ BtStart(p) \/ BtLoadConfig(p) \/ BtSelfCheck(p) \/ BtOpenEncryptor(p)
        \/ BtProbe(p) \/ BtListPending(p) \/ BtRunBody(p) \/ BtRecordMigration(p)
        \/ BtOpenKeys(p) \/ BtValidateOIDC(p)
        \/ BtSeedProvider(p) \/ BtCreateProvider(p)
        \/ BtSeedResource(p) \/ BtCreateResource(p)
        \/ BtWire(p) \/ BtStop(p) \/ BtCrash(p) \/ BtAdmin(p)

BtSpec == BtInit /\ [][BtNext]_btVars

(***************************************************************************)
(* Properties                                                              *)
(***************************************************************************)
\* Every setting a process resolves is one of the values the code tells apart:
\* nothing unparsed reaches a configuration that loads, and the rows and
\* processes are well formed.
BtTypeOK ==
    /\ \A p \in BtProcs :
          /\ bt[p].starts \in Nat /\ bt[p].pending \subseteq BtVersions
          /\ bt[p].at \in {"selfcheck", "encrypt", "migrate", "serving"} =>
                \A s \in DOMAIN CfEnvReaders : btCfg[s] \notin {"garbage", "refused"}
    /\ btRecorded \subseteq BtVersions
    /\ \A r, x \in btResources : r.slug = x.slug => r = x

\* What an accepted configuration names, the process can open as far as it depends on
\* the configuration: after loadConfig and SelfCheck the encryptor and the key store
\* are refused only where the Vault encryptor was left without a token
\* (encryption.Open, signing.Open).  A Vault that does not let the AppRole in and a key
\* directory that cannot be made are failures of others ("others"), and no
\* configuration prevents them.
AcceptedConfigurationOpens ==
    \A p \in BtProcs :
        bt[p].why \in {"encrypt", "keys"} =>
            /\ btCfg.enc_driver = "vault_transit_encrypt"
            /\ CfGetEnv(btIn.os, btCfg.vte_token_env) = ""

\* Every broker resource of the configuration names a provider of it.
BtSeedsWellFormed ==
    \A k \in DOMAIN btCfg.resources :
        btCfg.resources[k].kind = "broker" =>
            \E j \in DOMAIN btCfg.providers :
                btCfg.providers[j] = btCfg.resources[k].provider

\* A boot that nobody disturbs gets through its migrations and its seeds,
\* whatever earlier boots, kills and administrators left behind: a failure
\* there always means that another process or an administrator changed the
\* tables during this very boot, so the next start is clean again.
UnracedBootSucceeds ==
    \A p \in BtProcs :
        bt[p].why \in {"migrate", "seed"} /\ BtSeedsWellFormed => bt[p].raced

\* The body of a migration is in the schema exactly when its version is
\* recorded, and once: two boots at the same time, or a kill between body and
\* record, never run a migration twice or record one that did not run.
MigrationsRunOnce ==
    \A v \in BtVersions : btApplied[v] = IF v \in btRecorded THEN 1 ELSE 0

\* A server that serves has every migration its binary carries, also one that
\* was added on a patch line below a version already recorded.
ServingSchemaIsComplete ==
    \A p \in BtServers : bt[p].at = "serving" => BtEmbedded[p] \subseteq btRecorded

\* A server that serves has all the rows its configuration seeds, even if an
\* earlier boot was killed between two of them, unless an administrator
\* deleted some.
SeedsAreComplete ==
    \A p \in BtServers :
        bt[p].at = "serving" /\ ~btDeleted =>
            /\ \A k \in DOMAIN btCfg.providers :
                  BtHas(btProviders, btCfg.providers[k])
            /\ \A k \in DOMAIN btCfg.resources :
                  BtHas(btResources, btCfg.resources[k].slug)

\* What an administrator edited stays edited: no boot replaces a row, however
\* its look-up and its insert are interleaved with the edit.
EditsSurviveBoots ==
    [][\A r \in btResources \cup btProviders :
         r.edited => \/ r \in btResources' \cup btProviders'
                     \/ btEdits' < btEdits]_btVars

\* The discovery document of a serving process announces exactly the grants
\* its token endpoint dispatches to, DPoP exactly if every one of their
\* services checks proofs, and client documents exactly if they are fetched.
AdvertisedIsServed ==
    \A p \in BtServers :
        bt[p].at = "serving" =>
            LET md == BtMetadata(btCfg)
                served == BtHandleToken(bt[p].wired)
            IN  /\ md.grants = served
                /\ md.dpop <=> served \subseteq bt[p].wired.proofs
                /\ md.cimd <=> "cimd" \in bt[p].wired.others
                /\ md.idjag <=> "jwt_bearer" \in served

\* Behind a public issuer a cookie signed by one process is good at every
\* other one and after a restart: the secret is configured, never drawn at
\* boot.
CookiesOutliveTheProcess ==
    \A p, q \in BtServers :
        /\ bt[p].at = "serving" /\ bt[q].at = "serving"
        /\ ~CfIsLocalhostIssuer(btCfg.issuer)
        => bt[p].secret = bt[q].secret /\ bt[p].secret = <<>>

\* ConfigSecretBackend.Resolve, as the OIDC adapter calls it at a sign-in.
BtResolveOIDCSecret(cfg, os) ==
    IF cfg.oidc_secret # "" THEN cfg.oidc_secret
    ELSE IF \/ BtValidEnvVarName(cfg.oidc_secret_ref)
            \/ cfg.oidc_secret_ref = CfLegacyOIDCSecretRef(cfg)
    THEN CfGetEnv(os, cfg.oidc_secret_ref)
    ELSE ""

\* A server that offers upstream sign-in can resolve its client secret at the
\* first one: the probe at boot and the resolver at sign-in agree on which
\* names they accept, the deprecated ones included.
OidcSecretResolves ==
    \A p \in BtServers :
        bt[p].at = "serving" /\ btCfg.oidc = "true" =>
            BtResolveOIDCSecret(btCfg, btIn.os) # ""

\* What every state of a deployment under boot shows, whichever configuration it is
\* given and whoever boots beside it.
BootStatesSound ==
    /\ BtTypeOK
    /\ AcceptedConfigurationOpens
    /\ UnracedBootSucceeds
    /\ MigrationsRunOnce
    /\ ServingSchemaIsComplete
    /\ SeedsAreComplete
    /\ AdvertisedIsServed
    /\ CookiesOutliveTheProcess
    /\ OidcSecretResolves

\* Boots as a whole: the states above, and no boot takes back an administrator's edit
\* (runServe, runMigrations, seedResources).
BootSound == []BootStatesSound /\ EditsSurviveBoots
=============================================================================
