-------------------------- MODULE SQLiteDirectory --------------------------
(***************************************************************************)
(* The SQLite stores whose rows are configured rather than issued: users,  *)
(* clients and settings; trusted IdPs, policies and subject mappings;      *)
(* resources, providers, consents, broker grants and fronting links.       *)
(*                                                                         *)
(* A store method is one statement and one step.  A caller that edits a    *)
(* row reads it, keeps the copy for as long as it likes and writes it back.*)
(* A statement that would break a UNIQUE index or a foreign key is refused *)
(* and changes nothing.  A behaviour exercises the tables of one theme.    *)
(***************************************************************************)
EXTENDS Naturals, FiniteSets

CONSTANTS DirProcs,       \* callers that hold copies
          DirIds,         \* ids a caller draws for new rows
          DirKeys,        \* emails, subjects, issuers, slugs, CIMD URLs
          DirMaxVersion,  \* bound on the versions of a row
          DirEmpty,       \* the empty string
          DirNull         \* SQL NULL; no row, no copy

ASSUME DirNullAssumption == DirNull \notin DirIds /\ DirEmpty \notin DirKeys /\ DirNull \notin DirKeys
ASSUME DirVersionAssumption == DirMaxVersion \in Nat \ {0}

VARIABLES dirTheme,  \* the tables this behaviour is about
          dir,       \* the tables, a set of rows each
          dirHeld,   \* the copy of a row each caller holds
          dirDrawn   \* the random ids given to users and clients so far

dirVars == <<dirTheme, dir, dirHeld, dirDrawn>>

DirTables == {"users", "clients", "settings", "idps", "policies", "mappings",
              "providers", "resources", "links", "consents", "bgrants"}

DirVals == {1, 2}

-----------------------------------------------------------------------------
(* The schema *)

\* The references of a row: parent table, parent column, value.
References(t, r) ==
    CASE t \in {"policies", "mappings"} -> {<<"idps", "id", r.idp>>}
      [] t = "consents"  -> {<<"users", "id", r.user>>, <<"clients", "id", r.client>>,
                             <<"resources", "id", r.res>>}
      [] t = "bgrants"   -> {<<"users", "id", r.user>>, <<"providers", "id", r.provider>>}
      [] t = "resources" -> IF r.provider = DirNull THEN {} ELSE {<<"providers", "id", r.provider>>}
      [] t = "links"     -> {<<"resources", "slug", r.src>>, <<"resources", "slug", r.dst>>}
      [] OTHER           -> {}

\* ON DELETE CASCADE; every other reference is ON DELETE RESTRICT.
DirCascading == {<<"idps", "policies">>, <<"idps", "mappings">>, <<"users", "consents">>,
              <<"clients", "consents">>, <<"users", "bgrants">>}

Resolves(d, ref) == \E q \in d[ref[1]] : q[ref[2]] = ref[3]

ForeignKeysHold(d) == \A t \in DirTables : \A r \in d[t] : \A ref \in References(t, r) : Resolves(d, ref)

\* What no two rows of a table may share.  NULL equals nothing, and the
\* index on (provider, provider_sub) leaves local users out.
UniqueKeys(t, r) ==
    {<<"id", r.id>>} \cup
    CASE t = "users"    -> {k \in {<<"email", r.email>>, <<"sub", r.sub>>} : k[2] \notin {DirNull, DirEmpty}}
      [] t = "idps"     -> {<<"issuer", r.issuer>>}
      [] t = "mappings" -> {<<"subject", r.idp, r.subject>>}
      [] t \in {"providers", "resources"} -> {<<"slug", r.slug>>}
      [] t = "consents" -> {<<"key", r.user, r.client, r.res>>}
      [] t = "bgrants"  -> {<<"key", r.user, r.provider>>}
      [] OTHER          -> {}

UniqueHolds(t, rows) == \A r \in rows : \A q \in rows \ {r} : UniqueKeys(t, r) \cap UniqueKeys(t, q) = {}

\* A statement that leaves rows for the rows of table t.
Execute(t, rows) ==
    LET d == [dir EXCEPT ![t] = rows]
        swept == [c \in DirTables |->
                    {r \in d[c] : \A ref \in References(c, r) :
                        <<ref[1], c>> \in DirCascading => Resolves(d, ref)}]
        e == IF rows \subseteq dir[t] THEN swept ELSE d
    IN  /\ UniqueHolds(t, rows)
        /\ ForeignKeysHold(e)
        /\ dir' = e

Insert(t, r) == Execute(t, dir[t] \cup {r})
Replace(t, old, r) == Execute(t, (dir[t] \ {old}) \cup {r})
RemoveRows(t, rows) == rows # {} /\ Execute(t, dir[t] \ rows)

ById(t, id) == {r \in dir[t] : r.id = id}
Keep(p, t, r) == dirHeld' = [dirHeld EXCEPT ![p] = [t |-> t, row |-> r]]
Release(p) == dirHeld' = [dirHeld EXCEPT ![p] = DirNull]
Holds(p, t) == dirHeld[p] # DirNull /\ dirHeld[p].t = t
Stateless == UNCHANGED dirHeld

-----------------------------------------------------------------------------
(* users *)

\* "" is stored as NULL: any number of users may have no email.
EmailParam(e) == IF e = DirEmpty THEN DirNull ELSE e

ScanUser(r) == [r EXCEPT !.email = IF @ = DirNull THEN DirEmpty ELSE @]

UserCreate(id, email, sub) ==
    Insert("users", [id |-> id, email |-> EmailParam(email), sub |-> sub, ver |-> 1])

UserGetByID(p, id) == \E r \in ById("users", id) : Keep(p, "users", ScanUser(r))

UserGetByEmail(e) ==
    IF e = DirEmpty THEN {} ELSE {ScanUser(r) : r \in {q \in dir.users : q.email = e}}

UserGetByProviderSub(s) == {ScanUser(r) : r \in {q \in dir.users : q.sub = s}}

\* WHERE id = ? AND version = ?: the whole copy, with the edit, is written.
UserUpdate(p, email) ==
    /\ Holds(p, "users")
    /\ \E r \in ById("users", dirHeld[p].row.id) :
          /\ r.ver = dirHeld[p].row.ver
          /\ Replace("users", r, [dirHeld[p].row EXCEPT !.email = EmailParam(email), !.ver = r.ver + 1])
    /\ Release(p)

UserList == {ScanUser(r) : r \in dir.users}
UserCount == Cardinality(dir.users)

UserDelete(id) == RemoveRows("users", ById("users", id))

-----------------------------------------------------------------------------
(* clients and runtime_settings *)

ClientCreate(id, url) ==
    Insert("clients", [id |-> id, url |-> url, status |-> "active", agent |-> id \in DirKeys, ver |-> 1])

ClientGetByID(p, id) == \E r \in ById("clients", id) : Keep(p, "clients", r)

\* The index on cimd_url is not unique; a client without one is not found.
ClientGetByCIMDURL(url) == {r \in dir.clients : r.url = url /\ r.url # DirEmpty}

ClientUpdate(p, status) ==
    /\ Holds(p, "clients")
    /\ \E r \in ById("clients", dirHeld[p].row.id) :
          /\ r.ver = dirHeld[p].row.ver
          /\ Replace("clients", r, [dirHeld[p].row EXCEPT !.status = status, !.ver = r.ver + 1])
    /\ Release(p)

ClientList(status) == {r \in dir.clients : status = DirEmpty \/ r.status = status}
ClientCount(status) == Cardinality({r \in dir.clients : status = DirEmpty \/ r.status = status})
ClientListAgents == {r \in dir.clients : r.agent /\ r.status = "active"}

ClientDelete(id) == RemoveRows("clients", ById("clients", id))

SettingGet(k) == {r.val : r \in ById("settings", k)}

\* ON CONFLICT(key) DO UPDATE.
SettingSet(k, v) == Execute("settings", {r \in dir.settings : r.id # k} \cup {[id |-> k, val |-> v]})

-----------------------------------------------------------------------------
(* trusted_idps, xaa_policies and subject_mappings: Save is an upsert by id *)

SaveById(t, r) == Execute(t, {q \in dir[t] : q.id # r.id} \cup {r})

IDPSave(id, issuer) == SaveById("idps", [id |-> id, issuer |-> issuer])
IDPGetByID(id) == ById("idps", id)
IDPGetByIssuer(issuer) == {r \in dir.idps : r.issuer = issuer}
IDPList == dir.idps
IDPDelete(id) == RemoveRows("idps", ById("idps", id))

\* A list without members is stored as NULL and read back as no list.
MarshalJSONArray(s) == IF s = {} THEN DirNull ELSE s

UnmarshalJSONArray(x) == IF x = DirNull THEN {} ELSE x

PolicySave(id, idp, scopes) ==
    SaveById("policies", [id |-> id, idp |-> idp, scopes |-> MarshalJSONArray(scopes)])

PolicyScan(r) == [r EXCEPT !.scopes = UnmarshalJSONArray(@)]
PolicyGetByID(id) == {PolicyScan(r) : r \in ById("policies", id)}
PolicyListByIDP(idp) == {PolicyScan(r) : r \in {q \in dir.policies : q.idp = idp}}
PolicyList == {PolicyScan(r) : r \in dir.policies}
PolicyDelete(id) == RemoveRows("policies", ById("policies", id))

\* A local user of "" is stored as NULL.
MappingSave(id, idp, subject, local) ==
    SaveById("mappings", [id |-> id, idp |-> idp, subject |-> subject, local |-> EmailParam(local)])

GetMapping(idp, subject) == {r \in dir.mappings : r.idp = idp /\ r.subject = subject}
MappingListByIDP(idp) == {r \in dir.mappings : idp = DirEmpty \/ r.idp = idp}
MappingDelete(id) == RemoveRows("mappings", ById("mappings", id))

-----------------------------------------------------------------------------
(* broker_providers, resources and fronting_links *)

ProviderCreate(id, slug) == Insert("providers", [id |-> id, slug |-> slug])
ProviderGetByID(p, id) == \E r \in ById("providers", id) : Keep(p, "providers", r)
ProviderGetBySlug(slug) == {r \in dir.providers : r.slug = slug}
ProviderList == dir.providers

\* No version: the last copy written stays.
ProviderUpdate(p, slug) ==
    /\ Holds(p, "providers")
    /\ \E r \in ById("providers", dirHeld[p].row.id) :
          Replace("providers", r, [dirHeld[p].row EXCEPT !.slug = slug])
    /\ Release(p)

ProviderDelete(id) == RemoveRows("providers", ById("providers", id))

ResourceCreate(id, slug, provider) ==
    Insert("resources", [id |-> id, slug |-> slug, provider |-> provider, runtime |-> {}])

ResourceGetByID(p, id) == \E r \in ById("resources", id) : Keep(p, "resources", r)
ResourceGetBySlug(slug) == {r \in dir.resources : r.slug = slug}
ResourceList(provider) == {r \in dir.resources : provider = DirEmpty \/ r.provider = provider}

ResourceUpdate(p, slug, runtime) ==
    /\ Holds(p, "resources")
    /\ \E r \in ById("resources", dirHeld[p].row.id) :
          Replace("resources", r, [dirHeld[p].row EXCEPT !.slug = slug, !.runtime = runtime])
    /\ Release(p)

\* LIMIT 2 tells one match from several.
FindByRuntimeClientID(client) ==
    LET matches == {r \in dir.resources : client \in r.runtime}
    IN  IF Cardinality(matches) = 1 THEN matches ELSE {}

ResourceDelete(id) == RemoveRows("resources", ById("resources", id))

LinkCreate(src, dst) == Insert("links", [id |-> <<src, dst>>, src |-> src, dst |-> dst, map |-> 1])
LinkGet(src, dst) == ById("links", <<src, dst>>)
LinkList(src, dst) ==
    {r \in dir.links : (src = DirEmpty \/ r.src = src) /\ (dst = DirEmpty \/ r.dst = dst)}
LinkListForResource(slug) == {r \in dir.links : slug \in {r.src, r.dst}}
LinkUpdate(src, dst, m) == \E r \in LinkGet(src, dst) : Replace("links", r, [r EXCEPT !.map = m])
LinkDelete(src, dst) == RemoveRows("links", LinkGet(src, dst))
LinkDeleteForResource(slug) == RemoveRows("links", LinkListForResource(slug))

-----------------------------------------------------------------------------
(* consent_grants and broker_grants *)

\* ON CONFLICT (user, client, resource): the row keeps its id and is active
\* again.
ConsentUpsert(id, u, c, r, scopes) ==
    LET old == {g \in dir.consents : <<g.user, g.client, g.res>> = <<u, c, r>>}
        new == [id |-> id, user |-> u, client |-> c, res |-> r, scopes |-> scopes, revoked |-> FALSE]
    IN  Execute("consents", (dir.consents \ old) \cup
            (IF old = {} THEN {new} ELSE {[g EXCEPT !.scopes = scopes, !.revoked = FALSE] : g \in old}))

ConsentGet(u, c, r) ==
    {g \in dir.consents : <<g.user, g.client, g.res>> = <<u, c, r>> /\ ~g.revoked}
ConsentGetByID(p, id) == \E g \in ById("consents", id) : Keep(p, "consents", g)
ConsentListForUser(u) == {g \in dir.consents : g.user = u}

\* By the id of a copy that may be old.
ConsentRevoke(p) ==
    /\ Holds(p, "consents")
    /\ \E g \in ById("consents", dirHeld[p].row.id) : Replace("consents", g, [g EXCEPT !.revoked = TRUE])
    /\ Release(p)

BrokerGrantUpsert(id, u, provider, cred) ==
    LET old == {g \in dir.bgrants : <<g.user, g.provider>> = <<u, provider>>}
        new == [id |-> id, user |-> u, provider |-> provider, cred |-> cred, ver |-> 1, revoked |-> FALSE]
    IN  Execute("bgrants", (dir.bgrants \ old) \cup
            (IF old = {} THEN {new}
             ELSE {[g EXCEPT !.cred = cred, !.ver = @ + 1, !.revoked = FALSE] : g \in old}))

BrokerGrantGet(u, provider) ==
    {g \in dir.bgrants : g.user = u /\ g.provider = provider /\ ~g.revoked}
BrokerGrantGetByID(p, id) == \E g \in ById("bgrants", id) : Keep(p, "bgrants", g)
BrokerGrantListForUser(u) == {g \in dir.bgrants : g.user = u}

\* Mutant: every column of the copy is written.
BrokerGrantUpdateWithVersion_WholeRow(p, cred) ==
    /\ Holds(p, "bgrants")
    /\ \E g \in ById("bgrants", dirHeld[p].row.id) :
          /\ g.ver = dirHeld[p].row.ver
          /\ Replace("bgrants", g, [dirHeld[p].row EXCEPT !.cred = cred, !.ver = g.ver + 1])
    /\ Release(p)

\* Writes the credential alone; a revocation does not change the version.
BrokerGrantUpdateWithVersion(p, cred) ==
    /\ Holds(p, "bgrants")
    /\ \E g \in ById("bgrants", dirHeld[p].row.id) :
          /\ g.ver = dirHeld[p].row.ver
          /\ Replace("bgrants", g, [g EXCEPT !.cred = cred, !.ver = g.ver + 1])
    /\ Release(p)

BrokerGrantRevoke(id) ==
    \E g \in ById("bgrants", id) : Replace("bgrants", g, [g EXCEPT !.revoked = TRUE])

-----------------------------------------------------------------------------
Theme(t) == dirTheme = t /\ UNCHANGED dirTheme

\* UUIDs: no id is drawn twice.
Fresh(id) == id \notin dirDrawn /\ dirDrawn' = dirDrawn \cup {id}
NoneDrawn == UNCHANGED dirDrawn

Reads(p) == dirHeld[p] = DirNull /\ UNCHANGED dir

UsersNext == Theme("users") /\
    \/ \E p \in DirProcs, id \in DirIds : NoneDrawn /\ Reads(p) /\ UserGetByID(p, id)
    \/ \E p \in DirProcs, k \in DirKeys \cup {DirEmpty} : NoneDrawn /\ UserUpdate(p, k)
    \/ Stateless /\ \E id \in DirIds :
          \/ \E k, s \in DirKeys \cup {DirEmpty} : Fresh(id) /\ UserCreate(id, k, s)
          \/ NoneDrawn /\ UserDelete(id)

ClientsNext == Theme("clients") /\
    \/ \E p \in DirProcs, id \in DirIds : NoneDrawn /\ Reads(p) /\ ClientGetByID(p, id)
    \/ \E p \in DirProcs, s \in {"active", "suspended"} : NoneDrawn /\ ClientUpdate(p, s)
    \/ Stateless /\ \E id \in DirIds :
          \/ \E k \in DirKeys \cup {DirEmpty} : Fresh(id) /\ ClientCreate(id, k)
          \/ NoneDrawn /\ ClientDelete(id)

SettingsNext == Theme("settings") /\ NoneDrawn /\ Stateless
                /\ \E k \in DirKeys, v \in DirVals : SettingSet(k, v)

TrustNext == Theme("trust") /\ NoneDrawn /\ Stateless /\ \E id \in DirIds :
    \/ \E k \in DirKeys : IDPSave(id, k)
    \/ \E i \in DirIds, s \in {{}, {1}} : PolicySave(id, i, s)
    \/ \E i \in DirIds, k \in DirKeys, u \in {DirEmpty, id} : MappingSave(id, i, k, u)
    \/ IDPDelete(id)
    \/ PolicyDelete(id)
    \/ MappingDelete(id)

RegistryNext == Theme("registry") /\ NoneDrawn /\
    \/ \E p \in DirProcs, id \in DirIds : Reads(p) /\ ResourceGetByID(p, id)
    \/ \E p \in DirProcs, k \in DirKeys, c \in {{}, {DirEmpty}} : ResourceUpdate(p, k, c)
    \/ Stateless /\ \E id \in DirIds :
          \/ \E k \in DirKeys : ResourceCreate(id, k, DirNull)
          \/ ResourceDelete(id)
    \/ Stateless /\ \E k, l \in DirKeys : k # l /\
          \/ LinkCreate(k, l)
          \/ LinkDelete(k, l)
          \/ \E v \in DirVals : LinkUpdate(k, l, v)
    \/ Stateless /\ \E k \in DirKeys : LinkDeleteForResource(k)

ConsentNext == Theme("consents") /\ NoneDrawn /\
    \/ \E p \in DirProcs, id \in DirIds : Reads(p) /\ ConsentGetByID(p, id)
    \/ \E p \in DirProcs : ConsentRevoke(p)
    \/ Stateless /\ \E id \in DirIds :
          \/ \E u \in DirIds, r \in DirIds, v \in DirVals : ConsentUpsert(id, u, u, r, v)
          \/ \E k \in DirKeys : ResourceCreate(id, k, DirNull)
          \/ ResourceDelete(id)
          \/ UserDelete(id)

ProviderNext == Theme("providers") /\ NoneDrawn /\
    \/ \E p \in DirProcs, id \in DirIds : Reads(p) /\ ProviderGetByID(p, id)
    \/ \E p \in DirProcs, k \in DirKeys : ProviderUpdate(p, k)
    \/ Stateless /\ \E id \in DirIds :
          \/ \E k \in DirKeys : ProviderCreate(id, k)
          \/ \E k \in DirKeys, b \in DirIds : dir.resources = {} /\ ResourceCreate(id, k, b)
          \/ ProviderDelete(id)
          \/ ResourceDelete(id)

BrokerNext == Theme("brokers") /\ NoneDrawn /\
    \/ \E p \in DirProcs, id \in DirIds : Reads(p) /\ BrokerGrantGetByID(p, id)
    \/ \E p \in DirProcs, v \in DirVals : BrokerGrantUpdateWithVersion(p, v)
    \/ Stateless /\ \E id \in DirIds :
          \/ \E u, b \in DirIds, v \in DirVals : BrokerGrantUpsert(id, u, b, v)
          \/ BrokerGrantRevoke(id)
          \/ ProviderDelete(id)
          \/ UserDelete(id)

\* The bound on versions.
VersionsBounded == \A t \in {"users", "clients", "bgrants"} : \A r \in dir'[t] : r.ver <= DirMaxVersion

\* The themes about grants start with a user, a client and a provider.
DirInit ==
    /\ dirTheme \in {"users", "clients", "settings", "trust", "registry", "providers",
                    "consents", "brokers"}
    /\ \E id \in DirIds :
          dir = [t \in DirTables |->
                   IF dirTheme \notin {"consents", "brokers"} THEN {}
                   ELSE CASE t = "users"     -> {[id |-> id, email |-> DirNull, sub |-> DirEmpty, ver |-> 1]}
                          [] t = "clients"   -> {[id |-> id, url |-> DirEmpty, status |-> "active",
                                                  agent |-> FALSE, ver |-> 1]}
                          [] t = "providers" -> {[id |-> id, slug |-> CHOOSE k \in DirKeys : TRUE]}
                          [] OTHER           -> {}]
    /\ dirHeld = [p \in DirProcs |-> DirNull]
    /\ dirDrawn = {}

DirNext ==
    /\ \/ UsersNext \/ ClientsNext \/ SettingsNext \/ TrustNext
       \/ RegistryNext \/ ProviderNext \/ ConsentNext \/ BrokerNext
    /\ VersionsBounded

DirSpec == DirInit /\ [][DirNext]_dirVars

-----------------------------------------------------------------------------
\* Rows have their columns, keys are unique and references resolve.
DirTypeOK ==
    /\ \A t \in DirTables : UniqueHolds(t, dir[t])
    /\ ForeignKeysHold(dir)
    /\ \A r \in dir.users : r.email \in DirKeys \cup {DirNull} /\ r.ver \in 1 .. DirMaxVersion
    /\ \A r \in dir.policies : r.scopes # {}
    /\ \A p \in DirProcs : dirHeld[p] = DirNull \/ dirHeld[p].t \in DirTables

\* A copy that was read before another caller's edit is never written over
\* it: an update of a user or a client (Update, WHERE version = ?) replaces
\* the very row the writer holds.
EditsReplaceWhatTheyRead ==
    [][\A t \in {"users", "clients"} : \A r \in dir[t] :
         (\E q \in dir'[t] : q.id = r.id /\ q # r) =>
            \E p \in DirProcs : /\ dirHeld[p] # DirNull /\ dirHeld'[p] = DirNull
                                /\ dirHeld[p].row = IF t = "users" THEN ScanUser(r) ELSE r]_dirVars

\* A vend that writes a refreshed credential back (UpdateWithVersion) after
\* the user has disconnected does not connect the user again: only a new
\* connection clears revoked_at.
WriteBackNeverReconnects ==
    [][\A g \in dir.bgrants : g.revoked /\ dirHeld' # dirHeld =>
         \A h \in dir'.bgrants : h.id = g.id => h.revoked]_dirVars

\* A consent or a connection that is renewed keeps its id, so what names it
\* (admin pages, a revocation under way) still reaches it; it disappears
\* only with its user.
GrantsKeepTheirId ==
    [][\A t \in {"consents", "bgrants"} : \A g \in dir[t] :
         (\E u \in dir'.users : u.id = g.user) =>
            \E h \in dir'[t] : h.id = g.id /\ h.user = g.user]_dirVars

AtMostOne(rows) == Cardinality(rows) <= 1

\* Every lookup by a key finds one row at most, and the one that has it:
\* an address, a federated subject, an issuer, a mapping, a slug, a consent,
\* a connection, a runtime client.  No address finds nobody, however many
\* users have none; the counters and lists agree with the lookups.
LookupsAreKeyed ==
    /\ \A k \in DirKeys : /\ AtMostOne(UserGetByEmail(k)) /\ AtMostOne(UserGetByProviderSub(k))
                          /\ AtMostOne(IDPGetByIssuer(k)) /\ AtMostOne(ProviderGetBySlug(k))
                          /\ AtMostOne(ResourceGetBySlug(k))
                          /\ AtMostOne(SettingGet(k))
    /\ UserGetByEmail(DirEmpty) = {} /\ ClientGetByCIMDURL(DirEmpty) = {}
    /\ \A u \in UserList : u.email # DirEmpty => UserGetByEmail(u.email) = {u}
    /\ UserCount = Cardinality(UserList) /\ ClientCount(DirEmpty) = Cardinality(ClientList(DirEmpty))
    /\ ClientListAgents \subseteq ClientList("active")
    /\ \A i \in IDPList : IDPGetByID(i.id) = {i} /\ IDPGetByIssuer(i.issuer) = {i}
    /\ \A x \in PolicyList : PolicyGetByID(x.id) = {x} /\ x \in PolicyListByIDP(x.idp)
    /\ \A m \in MappingListByIDP(DirEmpty) : /\ GetMapping(m.idp, m.subject) = {m}
                                             /\ m \in MappingListByIDP(m.idp)
    /\ \A x \in ProviderList : ProviderGetBySlug(x.slug) = {x}
    /\ \A r \in ResourceList(DirEmpty) : /\ ResourceGetBySlug(r.slug) = {r}
                                         /\ \A c \in r.runtime : FindByRuntimeClientID(c) \subseteq {r}
                                         /\ LinkListForResource(r.slug) =
                                              LinkList(r.slug, DirEmpty) \cup LinkList(DirEmpty, r.slug)
    /\ \A u \in DirIds : /\ \A g \in ConsentListForUser(u) : ConsentGet(u, g.client, g.res) \subseteq {g}
                         /\ \A g \in BrokerGrantListForUser(u) : BrokerGrantGet(u, g.provider) \subseteq {g}

\* The steps of the directory tables, together: a versioned write replaces the row it
\* read, a late write-back does not reconnect, and a grant keeps its id
\* (adapters/sqlite).
DirectoryEditsSound ==
    /\ EditsReplaceWhatTheyRead
    /\ WriteBackNeverReconnects
    /\ GrantsKeepTheirId
=============================================================================
