------------------------- MODULE BrokerProviderAdmin -------------------------
(***************************************************************************)
(* BrokerProviderAdminService (internal/services/broker_provider_admin.go) *)
(* and where it puts the secret of a provider: an encrypted column, or a   *)
(* reference in config_data.                                               *)
(***************************************************************************)
EXTENDS Registry

CONSTANTS HasEncryptor,   \* whether a field encryptor is configured
          ProviderInputs, \* bound: providers to create, [slug, protocol, ref, value]
          ProviderPatches \* bound: patches, functions on some of these fields

ASSUME ProviderInputsAssumption ==
    /\ HasEncryptor \in BOOLEAN
    /\ ProviderInputs \subseteq [slug : Slugs, protocol : Protocols,
                                 ref : RgSecrets \cup {RgNone}, value : RgSecrets \cup {RgNone}]
    /\ \A c \in ProviderPatches :
          /\ DOMAIN c \subseteq {"slug", "protocol", "ref", "value"}
          /\ "slug" \in DOMAIN c => c["slug"] \in Slugs
          /\ "protocol" \in DOMAIN c => c["protocol"] \in Protocols
          /\ \A f \in DOMAIN c \cap {"ref", "value"} : c[f] \in RgSecrets \cup {RgNone}

\* secretRefFields: the protocols with a secret in their configuration.
HasSecretField(protocol) == protocol \in {"oauth", "service_account"}

\* ConfigSecretBackend.Encode: a value needs an encryptor, a reference does not.
EncodeAccepted(ref, value) == value # RgNone => HasEncryptor

\* routeSecretFields: a value moves to the column and no key of it stays, a
\* reference empties the column, and neither leaves the column as it is.
RouteSecretFields(row, ref, value) ==
    [row EXCEPT !.ref = IF value # RgNone THEN RgNone ELSE ref,
                !.enc = IF value # RgNone THEN value ELSE IF ref # RgNone THEN RgNone ELSE @]

\* What it refuses: both at once, a value it cannot encrypt, and a raw secret in
\* the configuration of a protocol that has no such field.
SecretInputAccepted(protocol, ref, value) ==
    IF HasSecretField(protocol)
    THEN (ref = RgNone \/ value = RgNone) /\ EncodeAccepted(ref, value)
    ELSE value = RgNone

\* ConfigSecretBackend.Resolve: the column goes first.
ResolveSecret(row) ==
    IF row.enc # RgNone THEN IF HasEncryptor THEN row.enc ELSE RgNone ELSE row.ref

\* Create: a slug that is free and a secret that can be stored ...
CreateProvider(p) ==
    /\ RgMayAsk(p, "createProvider")
    /\ \E c \in ProviderInputs :
           /\ ProvidersNamed(c.slug) = {}
           /\ SecretInputAccepted(c.protocol, c.ref, c.value)
           /\ LET row == [slug |-> c.slug, protocol |-> c.protocol, ref |-> c.ref, enc |-> RgNone] IN
              RgArrive(p, [NoRequest EXCEPT !.op = "createProvider",
                   !.prov = IF HasSecretField(c.protocol) THEN RouteSecretFields(row, c.ref, c.value) ELSE row,
                   !.secret = IF c.value # RgNone THEN c.value ELSE c.ref], "provInsert")
           /\ UNCHANGED <<rgRes, rgLinks, rgProv, rgStale, rgRaced, rgSecret>>

\* ... and the insert.
InsertProvider(p) ==
    /\ rgAt[p] = "provInsert"
    /\ RgFinish(p)
    /\ IF ProviderInsertAccepted(rgIn[p].prov)
       THEN /\ rgProv' = [rgProv EXCEPT ![p] = rgIn[p].prov]
            /\ rgSecret' = [rgSecret EXCEPT ![p] = rgIn[p].secret]
            /\ RgWrote(p, {p})
       ELSE UNCHANGED <<rgProv, rgSecret, rgStale>>
    /\ UNCHANGED <<rgRes, rgLinks, rgRaced>>

PatchesConfig(c) == {"ref", "value"} \cap DOMAIN c # {}
FieldOr(c, f, default) == IF f \in DOMAIN c THEN c[f] ELSE default

\* Patch: the row with the touched fields; the secret is routed only when the patch
\* has a config_data, by the protocol the row then has.
PatchedProvider(row, c) ==
    LET ref == FieldOr(c, "ref", RgNone)
        value == FieldOr(c, "value", RgNone)
        next == [row EXCEPT !.slug = FieldOr(c, "slug", @), !.protocol = FieldOr(c, "protocol", @)]
    IN IF ~PatchesConfig(c) THEN next
       ELSE IF HasSecretField(next.protocol) THEN RouteSecretFields(next, ref, value)
       ELSE [next EXCEPT !.ref = ref]

PatchProvider(p) ==
    /\ RgMayAsk(p, "patchProvider")
    /\ \E i \in ProvIds, c \in ProviderPatches :
           /\ rgProv[i] # RgNone /\ DOMAIN c # {}
           /\ LET row == rgProv[i]
                  next == PatchedProvider(row, c)
                  ref == FieldOr(c, "ref", RgNone)
                  value == FieldOr(c, "value", RgNone)
              IN /\ PatchesConfig(c) => SecretInputAccepted(next.protocol, ref, value)
                 /\ "slug" \in DOMAIN c => ProvidersNamed(next.slug) \subseteq {i}
                 /\ RgArrive(p, [NoRequest EXCEPT !.op = "patchProvider", !.id = i, !.prov = next,
                        !.secret = IF value # RgNone THEN value ELSE ref], "provUpdate")
           /\ UNCHANGED <<rgRes, rgLinks, rgProv, rgStale, rgRaced, rgSecret>>

\* The whole row is written.  What is known of its secret afterwards: nothing when
\* the write overtook another or the protocol, and with it the field, changed.
UpdateProvider(p) ==
    /\ rgAt[p] = "provUpdate"
    /\ RgFinish(p)
    /\ LET i == rgIn[p].id
           row == rgIn[p].prov
       IN IF ProviderUpdateAccepted(i, row)
          THEN /\ rgProv' = [rgProv EXCEPT ![i] = row]
               /\ rgSecret' = [rgSecret EXCEPT ![i] =
                     IF i \in rgStale[p] \/ row.protocol # rgProv[i].protocol \/ ~HasSecretField(row.protocol)
                     THEN "unknown"
                     ELSE IF rgIn[p].secret # RgNone THEN rgIn[p].secret ELSE @]
               /\ RgWrote(p, {i})
          ELSE UNCHANGED <<rgProv, rgSecret, rgStale>>
    /\ UNCHANGED <<rgRes, rgLinks, rgRaced>>

\* Delete.
DeleteProvider(p) ==
    /\ RgMayAsk(p, "deleteProvider")
    /\ \E i \in ProvIds :
           /\ ProviderDeleteAccepted(i)
           /\ RgAtOnce(p, "deleteProvider")
           /\ rgProv' = [rgProv EXCEPT ![i] = RgNone]
           /\ rgSecret' = [rgSecret EXCEPT ![i] = "unknown"]
           /\ RgWrote(p, {i})
           /\ UNCHANGED <<rgRes, rgLinks, rgRaced>>

ProviderStep(p) ==
    \/ CreateProvider(p) \/ InsertProvider(p)
    \/ PatchProvider(p) \/ UpdateProvider(p) \/ DeleteProvider(p)
=============================================================================
