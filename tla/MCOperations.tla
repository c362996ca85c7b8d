---------------------------- MODULE MCOperations ----------------------------
(***************************************************************************)
(* Keys and boots, for TLC.  A behaviour is about one part, chosen at the  *)
(* start; the others stay as they are.                                     *)
(*                                                                         *)
(*   "rotation"  KeyRotation: two rotators at once, connections that hold  *)
(*   "listening" KeyRotation: rotations in turn, connections that break    *)
(*   "files"     KeyFile: a signer, a rotator, a command and one crash     *)
(*   "vault"     VaultKeys: three calls on two instances, one fault        *)
(*   "lease"     VaultKeys: one login token, leases below the floor too    *)
(*   "fields"    FieldEncryption: two owners, two instances, four keys     *)
(*   "boot"      Boot: one server goes through families of configurations, *)
(*               each a product of the settings that belong together; two  *)
(*               servers, a migrate and an admin command race with a few   *)
(***************************************************************************)
EXTENDS KeyRotation, KeyFile, VaultKeys, FieldEncryption, Boot

CONSTANTS i1, i2, t1, t2, n1, n2, n3, s1, s2, m1, a1, r1

VARIABLE part

operationVars == <<part, vars, kfVars, vkVars, vlVars, feVars, btVars>>

-----------------------------------------------------------------------------
\* Rotations: while two overlap, t1 starts first and the second is the command
\* line's; where connections break, and reloads of i2 fail, the command line rotates
\* again and again.
RotationBound ==
    /\ ~ (pc'[t1] = "idle" /\ pc'[t2] # "idle")
    /\ at'[t2] = None
    /\ part = "rotation" => disconnects' = disconnects /\ failed' = failed
    /\ part = "listening" => pc'[t2] = "idle" /\ at'[t1] = None /\ failed' \subseteq {i2}

-----------------------------------------------------------------------------
\* Calls on the instances of a server with Vault keys; only a rotation may come
\* from the command line.  Calls and instances are interchangeable: the calls are
\* in the order of their kinds and places, and the first instance is i1.  The three
\* are not all alike, and no two reload or serve.
KindOrder(k) == CASE k = "reload" -> 1 [] k = "rotate" -> 2 [] k = "serve" -> 3 [] k = "sign" -> 4
PlaceOrder(i) == CASE i = i1 -> 1 [] i = i2 -> 2 [] OTHER -> 3

VaultCalls ==
    {w \in [kind : {"reload", "rotate", "serve", "sign"}, at : {i1, i2, VkNone}] :
        w.at = VkNone => w.kind = "rotate"}

Ordered(w, m, n) ==
    /\ KindOrder(w[m].kind) =< KindOrder(w[n].kind)
    /\ w[m].kind = w[n].kind =>
          w[m].kind \in {"rotate", "sign"} /\ PlaceOrder(w[m].at) =< PlaceOrder(w[n].at)

MCVkWorkloads ==
    {w \in [{n1, n2, n3} -> VaultCalls] :
        /\ Ordered(w, n1, n2) /\ Ordered(w, n2, n3)
        /\ w[n1].at # i2
        /\ w[n1].at = VkNone => w[n2].at # i2
        /\ w[n1].kind # w[n3].kind}

-----------------------------------------------------------------------------
\* Boots.

BootProcs == {s1, s2, m1, a1, r1}

\* s2 is the newer binary: it carries version 2, added below version 3.
MCEmbedded == [p \in BootProcs |-> IF p = s2 THEN {1, 2, 3} ELSE {1, 3}]

Bool == {"true", "false"}

Public == [issuer |-> "public", session_secret |-> "good", session_secure |-> "true",
           api_key |-> "good"]

Pg == [driver |-> "postgres", dsn |-> "set"]

Os == [K1 |-> "hex1", K2 |-> "hex2", K3 |-> "short", T |-> "tok", R |-> "role",
       S |-> "sec", CONNECTOR_X |-> "pw", OIDC_X |-> "pw"]

Broker == [slug |-> "s1", uri |-> "", kind |-> "broker", provider |-> "p1", returns |-> TRUE]
Mint == [slug |-> "s2", uri |-> "uri2", kind |-> "mint", provider |-> "", returns |-> FALSE]

FileOnly(f) == [file |-> f, flaws |-> {}, env |-> <<>>, os |-> Os]

\* Signing keys and data encryption, with and without PostgreSQL and Vault.
SigningFiles ==
    {[driver |-> d, dsn |-> "set", key_store |-> k, vt_address |-> "v1", vt_token |-> t,
      vt_role |-> r, vt_secret |-> s] @@ e :
        d \in {"sqlite", "postgres"}, k \in {"keyfile", "vault_transit", "postgres_key", "other"},
        t \in {"", "tok"}, r \in {"", "role"}, s \in {"", "sec"},
        e \in {[enc_driver |-> ""], [enc_driver |-> "aes_master", key_env |-> "K1"],
               [enc_driver |-> "vault_transit_encrypt", vte_address |-> "v1", vte_key |-> "k",
                vte_token_env |-> "T"],
               [enc_driver |-> "vault_transit_encrypt", vte_address |-> "v1", vte_key |-> "k",
                vte_mount |-> "other", vte_token_env |-> "T"]}}

EncryptionFiles ==
    {[enc_driver |-> "aes_master", key_env |-> k, old_key_env |-> o] :
        k \in {"", "K1", "K3", "K9"}, o \in {"", "K1", "K2", "K3", "K9"}}
    \cup
    {[enc_driver |-> "vault_transit_encrypt", vte_address |-> a, vte_key |-> k,
      vte_auth |-> m, vte_token_env |-> t, vte_role_env |-> r, vte_secret_env |-> "S"] :
        a \in {"", "v1"}, k \in {"", "k"}, m \in {"", "token", "approle", "other"},
        t \in {"", "T", "T9"}, r \in {"", "R"}}

SessionFiles ==
    {[issuer |-> i, session_secret |-> s, session_secure |-> c, api_key |-> a, admin |-> d,
      cimd_https |-> h, cimd_private |-> v] :
        i \in {"", "local", "public"}, s \in {"", "weak", "short", "good"}, c \in Bool,
        a \in {"", "weak", "short", "good"}, d \in Bool, h \in Bool, v \in Bool}

OidcFiles ==
    {f @@ g : f \in {<<>>, Public},
        g \in {[oidc |-> o, oidc_issuer |-> i, oidc_client |-> "id", oidc_secret |-> s,
                oidc_secret_ref |-> r, oidc_secret_env |-> e, oidc_redirect |-> u] :
               o \in Bool, i \in {"https", "http", ""}, s \in {"", "pw"},
               r \in {"", "CONNECTOR_X", "OIDC_X", "CONNECTOR_9"},
               e \in {"", "OIDC_X", "CONNECTOR_X", "OIDC_9"}, u \in {"https", "local"}}}

FeatureFiles ==
    {[cc |-> c, cc_expiry |-> x, tx |-> t, tx_depth |-> n, xaa |-> a, dpop |-> d,
      proof_lifetime |-> l, cimd |-> m] :
        c \in Bool, x \in {"0", "ok"}, t \in Bool, n \in {"ok", "many"}, a \in Bool,
        d \in Bool, l \in {"0", "ok", "long"}, m \in Bool}

ConnectFiles ==
    {[connect_secret |-> s, connect_url |-> u, return_urls |-> l, dcr_mode |-> d,
      approved |-> "", default_scope |-> c, resources |-> r,
      providers |-> <<"p1">>] @@ e :
        s \in {"", "short", "long"}, u \in {"", "https", "http"}, l \in {"", "set"},
        d \in {"open", "approved_redirects", "disabled"}, c \in {"", "ok", "comma"},
        r \in {<< >>, <<Broker>>, <<[Broker EXCEPT !.returns = FALSE]>>,
               <<[Broker EXCEPT !.provider = "p9"]>>},
        e \in {[enc_driver |-> ""], [enc_driver |-> "aes_master", key_env |-> "K1"]}}

LimitFiles ==
    {[rl |-> e, rl_rps |-> r, rl_burst |-> b, fail_max |-> m, lockout |-> l,
      fail_window |-> "ok", tracked |-> t] :
        e \in Bool, r \in {"0", "ok"}, b \in {"0", "ok"}, m \in {"0", "ok"},
        l \in {"0", "ok"}, t \in {"few", "ok"}}

\* What an environment adds to a file: overrides, malformed values, a resource
\* and a provider of its own; and files that are refused before that.
EnvInputs ==
    {[file |-> f, flaws |-> w, env |-> e, os |-> Os] :
        f \in {<<>>, Public, [driver |-> "postgres"], [resources |-> <<Mint>>],
               [driver |-> "postgres", dsn |-> "${}"], [api_key |-> "${}"]},
        w \in {{}, {"legacy"}},
        e \in {[session_age |-> "garbage"], [session_age |-> ""], [nonce_ttl |-> "garbage"],
               [cc |-> "garbage"], [dsn |-> "set", tx |-> "false"],
               [log_level |-> "loud"], [log_format |-> "odd"], [metrics |-> "otel", tracing |-> "yes"],
               [provider_slug |-> "p1", resource_uri |-> "uri1"],
               [resource_uri |-> "uri2"], [resource_uri |-> "nohost"],
               [admin_address |-> "a"], [same_site |-> "odd", subject_mode |-> "odd"],
               [algorithm |-> "odd"], [pool |-> "inverted", driver |-> "postgres", dsn |-> "set"]}}

Once(p) == [q \in BootProcs |-> IF q = p THEN 1 ELSE 0]

Sweep ==
    {[in |-> i, starts |-> Once(p), edits |-> 0, crashes |-> 0] :
        i \in {FileOnly(f) : f \in SigningFiles \cup EncryptionFiles \cup SessionFiles
                                   \cup OidcFiles \cup FeatureFiles \cup ConnectFiles
                                   \cup LimitFiles} \cup EnvInputs,
        p \in {s2}}
    \cup
    {[in |-> FileOnly(f), starts |-> Once(r1), edits |-> 0, crashes |-> 0] :
        f \in SigningFiles \cup EncryptionFiles}

\* A deployment with two seeded rows that refer to one another, and one more.
Deployed ==
    Public @@ Pg @@
    [enc_driver |-> "aes_master", key_env |-> "K1", key_store |-> "postgres_key",
     connect_secret |-> "long", connect_url |-> "https",
     providers |-> <<"p1">>, resources |-> <<Broker, Mint>>]

Starts(a, b, c, d) ==
    [q \in BootProcs |-> CASE q = s1 -> a [] q = s2 -> b [] q = m1 -> c
                                      [] q = a1 -> d [] OTHER -> 0]

Races ==
    {[in |-> FileOnly(Deployed), starts |-> Starts(1, 1, 0, 1), edits |-> 2, crashes |-> 0],
     [in |-> FileOnly(Deployed), starts |-> Starts(2, 1, 0, 0), edits |-> 1, crashes |-> 1],
     [in |-> FileOnly(Deployed), starts |-> Starts(1, 1, 1, 0), edits |-> 0, crashes |-> 1]}

MCScenarios == Sweep \cup Races

Calm == [in |-> FileOnly(Deployed), starts |-> Once(s2), edits |-> 0, crashes |-> 0]

-----------------------------------------------------------------------------
\* A part that rests does so in one of its initial states.
Rests(p, state) == part # p => state

OperationInit ==
    /\ part \in {"rotation", "listening", "files", "vault", "lease", "fields", "boot"}
    /\ Init /\ KfInit
    /\ VkInit /\ Rests("vault", vkAtBoot = 0 /\ vkWork = CHOOSE w \in VkWorkloads : TRUE)
    /\ VlInit /\ Rests("lease", vlToken.lease = VlFloor)
    /\ FeInit /\ Rests("fields", feRow = [o \in FeOwners |-> FeLegacy(o)])
    /\ IF part = "boot" THEN BtInit ELSE BtBegin(Calm)

OperationNext ==
    /\ UNCHANGED part
    /\ \/ /\ part \in {"rotation", "listening"} /\ Next /\ RotationBound
          /\ UNCHANGED <<kfVars, vkVars, vlVars, feVars, btVars>>
       \/ /\ part = "files" /\ KfNext
          /\ UNCHANGED <<vars, vkVars, vlVars, feVars, btVars>>
       \/ /\ part = "vault" /\ VkNext
          /\ UNCHANGED <<vars, kfVars, vlVars, feVars, btVars>>
       \/ /\ part = "lease" /\ VlNext
          /\ UNCHANGED <<vars, kfVars, vkVars, feVars, btVars>>
       \/ /\ part = "fields" /\ FeNext
          /\ UNCHANGED <<vars, kfVars, vkVars, vlVars, btVars>>
       \/ /\ part = "boot" /\ BtNext
          /\ UNCHANGED <<vars, kfVars, vkVars, vlVars, feVars>>

OperationSpec == OperationInit /\ [][OperationNext]_operationVars
=============================================================================
