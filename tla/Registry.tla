------------------------------ MODULE Registry ------------------------------
(***************************************************************************)
(* The tables of the resource registry (resources, fronting_links and      *)
(* broker_providers of migrations/postgres/001_initial.up.sql), the calls  *)
(* that the stores offer on them, and the requests of administrators at    *)
(* work on them.  The services are in ResourceAdmin and                    *)
(* BrokerProviderAdmin.                                                    *)
(*                                                                         *)
(* A service reads a whole row, edits its copy and writes the copy back:   *)
(* no row has a version.  rgStale notes, for each request, what others     *)
(* wrote since it read.                                                    *)
(***************************************************************************)
EXTENDS Naturals, FiniteSets, TLC

CONSTANTS RgRequests,
          SeedIds,       \* ids of the resources that are there at first
          SeedProviders, \* ids of the providers that are there at first
          Slugs,         \* canonical slugs of resources and of providers
          ResScopes,     \* scope names
          RgClients,     \* client ids that callers name
          KnownClients,  \* ... of which these exist
          ReturnURLs,    \* return URLs that callers name
          ValidURLs,     \* ... of which validateReturnURL accepts these
          RgSecrets,     \* secrets of providers
          SeedTable, SeedLinks, SeedProviderTable,
          RgOps,         \* bound: what each request may be
          RgNone

\* The operations of the three services; a deletion that takes links with it is "cascade".
RgOpNames ==
    {"createResource", "patchResource", "addClient", "removeClient", "addRuntime",
     "removeRuntime", "addURL", "removeURL", "deleteResource", "cascade", "createLink",
     "patchLink", "deleteLink", "createProvider", "patchProvider", "deleteProvider"}

ResIds == SeedIds \cup RgRequests
ProvIds == SeedProviders \cup RgRequests
Protocols == {"oauth", "api_key", "service_account"}

ResRow == [slug : Slugs, kind : {"mint", "broker"}, provider : ProvIds \cup {RgNone},
           scopes : SUBSET ResScopes, allowed : SUBSET RgClients,
           runtime : SUBSET RgClients, returns : SUBSET ReturnURLs]
ScopeMaps == [ResScopes -> SUBSET ResScopes]
ProvRow == [slug : Slugs, protocol : Protocols, ref : RgSecrets \cup {RgNone},
            enc : RgSecrets \cup {RgNone}]

\* A new row has an id of its own, drawn by its request.
ASSUME RgIdsAssumption == RgRequests \cap (SeedIds \cup SeedProviders) = {}
ASSUME RgNoneAssumption ==
    /\ RgNone \notin ResIds \cup ProvIds \cup Slugs \cup RgSecrets \cup ResScopes
    /\ RgNone \notin ResRow \cup ProvRow \cup ScopeMaps /\ RgNone # "unknown"
ASSUME RgSeedAssumption ==
    /\ SeedTable \in [SeedIds -> ResRow]
    /\ SeedLinks \in [Slugs \X Slugs -> ScopeMaps \cup {RgNone}]
    /\ SeedProviderTable \in [SeedProviders -> ProvRow]
    /\ KnownClients \subseteq RgClients /\ ValidURLs \subseteq ReturnURLs
    /\ RgOps \in [RgRequests -> SUBSET RgOpNames]

VARIABLES
    rgAt, rgIn,  \* the requests: next call, and what they carry
    rgRes,       \* resources, by id
    rgLinks,     \* fronting_links, by source and target slug
    rgProv,      \* broker_providers, by id
    rgStale,     \* history: what others wrote since a request read
    rgRaced,     \* history: a request wrote a resource or link it had read before another's write
    rgSecret     \* history: the secret last supplied for a provider

rgVars == <<rgAt, rgIn, rgRes, rgLinks, rgProv, rgStale, rgRaced, rgSecret>>

NoRequest == [op |-> "none", id |-> RgNone, row |-> RgNone, touched |-> {},
              link |-> <<>>, map |-> RgNone, prov |-> RgNone, secret |-> RgNone]
RgLabels == {"idle", "insert", "check", "update", "delete", "link", "relink",
             "provInsert", "provUpdate", "done"}
Fields == {"slug", "kind", "provider", "scopes", "allowed", "runtime", "returns"}
RgInput == [op : RgOpNames \cup {"none"}, id : ResIds \cup ProvIds \cup {RgNone},
            row : ResRow \cup {RgNone}, touched : SUBSET Fields,
            link : (Slugs \X Slugs) \cup {<<>>}, map : ScopeMaps \cup {RgNone},
            prov : ProvRow \cup {RgNone}, secret : RgSecrets \cup {RgNone}]

RegTypeOK ==
    /\ rgAt \in [RgRequests -> RgLabels]
    /\ \A p \in RgRequests : rgIn[p] \in RgInput
    /\ DOMAIN rgRes = ResIds /\ \A i \in ResIds : rgRes[i] \in ResRow \cup {RgNone}
    /\ DOMAIN rgLinks = Slugs \X Slugs
    /\ \A l \in Slugs \X Slugs : rgLinks[l] \in ScopeMaps \cup {RgNone}
    /\ DOMAIN rgProv = ProvIds /\ \A i \in ProvIds : rgProv[i] \in ProvRow \cup {RgNone}
    /\ rgStale \in [RgRequests -> SUBSET (ResIds \cup ProvIds \cup {"links"})]
    /\ rgRaced \in BOOLEAN
    /\ rgSecret \in [ProvIds -> RgSecrets \cup {RgNone, "unknown"}]

RegInit ==
    /\ rgAt = [p \in RgRequests |-> "idle"]
    /\ rgIn = [p \in RgRequests |-> NoRequest]
    /\ rgRes = [i \in ResIds |-> IF i \in SeedIds THEN SeedTable[i] ELSE RgNone]
    /\ rgLinks = SeedLinks
    /\ rgProv = [i \in ProvIds |-> IF i \in SeedProviders THEN SeedProviderTable[i] ELSE RgNone]
    /\ rgStale = [p \in RgRequests |-> {}]
    /\ rgRaced = FALSE
    /\ rgSecret = [i \in ProvIds |-> "unknown"]

RgGoto(p, label) == rgAt' = [rgAt EXCEPT ![p] = label]

RgFinish(p) == RgGoto(p, "done") /\ rgIn' = [rgIn EXCEPT ![p] = NoRequest]

RgMayAsk(p, op) == rgAt[p] = "idle" /\ op \in RgOps[p]

\* A request arrives, passes its checks and goes on to the call that writes.
RgArrive(p, i, label) ==
    /\ RgMayAsk(p, i.op)
    /\ rgIn' = [rgIn EXCEPT ![p] = i]
    /\ RgGoto(p, label)

\* A request of one call.
RgAtOnce(p, op) ==
    RgMayAsk(p, op) /\ RgGoto(p, "done") /\ UNCHANGED rgIn

RgActive(p) == rgAt[p] \notin {"idle", "done"}

\* A write by p of what: the others that are on their way have read before it.
RgWrote(p, what) ==
    rgStale' = [q \in RgRequests |->
        IF q = p THEN {} ELSE IF RgActive(q) THEN rgStale[q] \cup what ELSE {}]

\* A write by p is a race when it rests on one of these, overtaken.
RgRacing(p, what) == rgRaced' = (rgRaced \/ rgStale[p] \cap what # {})

-----------------------------------------------------------------------------
(* ResourceStore *)

\* GetByID, GetBySlug.
ResourceExists(i) == rgRes[i] # RgNone
ResourcesNamed(slug) == {i \in ResIds : ResourceExists(i) /\ rgRes[i].slug = slug}

\* The foreign keys of fronting_links: the links that name a slug.
ListForResource(slug) ==
    {l \in Slugs \X Slugs : rgLinks[l] # RgNone /\ slug \in {l[1], l[2]}}

\* The CHECK and the foreign key of the provider column.
ProviderKeyHolds(row) ==
    IF row.kind = "mint" THEN row.provider = RgNone
    ELSE row.provider # RgNone /\ rgProv[row.provider] # RgNone

\* Create: the slug is UNIQUE.
InsertAccepted(row) == ResourcesNamed(row.slug) = {} /\ ProviderKeyHolds(row)

\* Update: the whole row by id; the slug is UNIQUE, and links hold on to the old one.
UpdateAccepted(i, row) ==
    /\ ResourceExists(i) /\ ResourcesNamed(row.slug) \subseteq {i} /\ ProviderKeyHolds(row)
    /\ rgRes[i].slug # row.slug => ListForResource(rgRes[i].slug) = {}

\* Delete: ON DELETE RESTRICT of the links.
DeleteAccepted(i) == ResourceExists(i) /\ ListForResource(rgRes[i].slug) = {}

-----------------------------------------------------------------------------
(* FrontingLinkStore *)

\* Get.
LinkExists(s, t) == rgLinks[<<s, t>>] # RgNone

\* List with a source filter: the outgoing edges.
Outgoing(s) == {t \in Slugs : LinkExists(s, t)}

\* Create: the pair is the primary key, both ends are foreign keys.
LinkAccepted(s, t) ==
    ~LinkExists(s, t) /\ ResourcesNamed(s) # {} /\ ResourcesNamed(t) # {}

\* DeleteForResource.
WithoutLinksOf(slug) ==
    [l \in Slugs \X Slugs |-> IF slug \in {l[1], l[2]} THEN RgNone ELSE rgLinks[l]]

-----------------------------------------------------------------------------
(* BrokerProviderStore *)

\* GetBySlug.
ProvidersNamed(slug) == {i \in ProvIds : rgProv[i] # RgNone /\ rgProv[i].slug = slug}

\* Create, Update: the slug is UNIQUE.
ProviderInsertAccepted(row) == ProvidersNamed(row.slug) = {}
ProviderUpdateAccepted(i, row) == rgProv[i] # RgNone /\ ProvidersNamed(row.slug) \subseteq {i}

\* Delete: a provider that a resource names stays.
ProviderDeleteAccepted(i) ==
    rgProv[i] # RgNone /\ \A r \in ResIds : ResourceExists(r) => rgRes[r].provider # i
=============================================================================
