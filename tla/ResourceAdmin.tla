---------------------------- MODULE ResourceAdmin ----------------------------
(***************************************************************************)
(* ResourceAdminService (internal/services/resource_admin.go): resources,  *)
(* their policy lists, and their deletion with the links that name them;   *)
(* and FrontingService (internal/services/fronting.go): links from a       *)
(* source resource to a target resource, with a map from scopes of the one *)
(* to scopes of the other, and what they forbid of the edits of a          *)
(* resource.  The specification puts them together with the providers.     *)
(***************************************************************************)
EXTENDS BrokerProviderAdmin

-----------------------------------------------------------------------------
(* FrontingService *)

CONSTANTS LinkInputs   \* bound: the links that callers ask for, <<source, target, map>>

ASSUME LinkInputsAssumption == LinkInputs \subseteq Slugs \X Slugs \X ScopeMaps

\* The source scopes of a map, and all of its target scopes.
MapKeys(m) == {s \in ResScopes : m[s] # {}}
MapValues(m) == UNION {m[s] : s \in ResScopes}

\* FrontingLink.Validate: no self-loop, and a map that maps something.
LinkShaped(s, t, m) == s # t /\ MapKeys(m) # {}

\* assertScopeMapMembership.
MapDeclared(m, source, target) ==
    MapKeys(m) \subseteq source.scopes /\ MapValues(m) \subseteq target.scopes

\* validateForPatch: both ends exist, the source mints, the map is of their scopes.
ValidateForPatch(s, t, m) ==
    /\ LinkShaped(s, t, m)
    /\ \E i \in ResourcesNamed(s), j \in ResourcesNamed(t) :
          /\ rgRes[i].kind = "mint"
          /\ MapDeclared(m, rgRes[i], rgRes[j])
          /\ rgRes[j].kind = "broker" => rgRes[j].provider # RgNone

\* b is reached from a along links: every set with a in it that the links do not
\* leave has b in it too.
Reaches(a, b) ==
    \A S \in SUBSET Slugs : a \in S /\ (\A s \in S : Outgoing(s) \subseteq S) => b \in S

\* Mutant: only the link back is looked for.
AssertNoCycle_Direct(s, t) == s \notin Outgoing(t)

\* assertNoCycle: the search from the target does not meet the source.
AssertNoCycle(s, t) == ~Reaches(t, s)

\* validate: the same, for a pair that is new and closes no cycle.
ValidateLink(s, t, m) ==
    ValidateForPatch(s, t, m) /\ ~LinkExists(s, t) /\ AssertNoCycle(s, t)

\* Create: the checks ...
CreateLink(p) ==
    /\ RgMayAsk(p, "createLink")
    /\ \E l \in LinkInputs :
           /\ ValidateLink(l[1], l[2], l[3])
           /\ RgArrive(p, [NoRequest EXCEPT !.op = "createLink", !.link = <<l[1], l[2]>>,
                                            !.map = l[3]], "link")
           /\ UNCHANGED <<rgRes, rgLinks, rgProv, rgStale, rgRaced, rgSecret>>

\* ... and the insert.
InsertLink(p) ==
    /\ rgAt[p] = "link"
    /\ RgFinish(p)
    /\ IF LinkAccepted(rgIn[p].link[1], rgIn[p].link[2])
       THEN /\ rgLinks' = [rgLinks EXCEPT ![rgIn[p].link] = rgIn[p].map]
            /\ RgWrote(p, {"links"}) /\ RgRacing(p, ResIds \cup {"links"})
       ELSE UNCHANGED <<rgLinks, rgStale, rgRaced>>
    /\ UNCHANGED <<rgRes, rgProv, rgSecret>>

\* Patch: the link is read and its new map checked ...
PatchLink(p) ==
    /\ RgMayAsk(p, "patchLink")
    /\ \E l \in LinkInputs :
           /\ LinkExists(l[1], l[2]) /\ ValidateForPatch(l[1], l[2], l[3])
           /\ RgArrive(p, [NoRequest EXCEPT !.op = "patchLink", !.link = <<l[1], l[2]>>,
                                            !.map = l[3]], "relink")
           /\ UNCHANGED <<rgRes, rgLinks, rgProv, rgStale, rgRaced, rgSecret>>

\* ... and written if the link is still there.
UpdateLink(p) ==
    /\ rgAt[p] = "relink"
    /\ RgFinish(p)
    /\ IF rgLinks[rgIn[p].link] # RgNone
       THEN /\ rgLinks' = [rgLinks EXCEPT ![rgIn[p].link] = rgIn[p].map]
            /\ RgWrote(p, {"links"}) /\ RgRacing(p, ResIds \cup {"links"})
       ELSE UNCHANGED <<rgLinks, rgStale, rgRaced>>
    /\ UNCHANGED <<rgRes, rgProv, rgSecret>>

\* Delete.
DeleteLink(p) ==
    /\ RgMayAsk(p, "deleteLink")
    /\ \E l \in Slugs \X Slugs :
           /\ rgLinks[l] # RgNone
           /\ RgAtOnce(p, "deleteLink")
           /\ rgLinks' = [rgLinks EXCEPT ![l] = RgNone]
           /\ RgWrote(p, {"links"})
           /\ UNCHANGED <<rgRes, rgProv, rgRaced, rgSecret>>

\* ValidateResourceUpdate: with links, the kind stays, and so does every scope they
\* name and the resource had.
ValidateResourceUpdate(prev, next) ==
    LET links == ListForResource(prev.slug) IN
    /\ links # {} => prev.kind = next.kind
    /\ \A l \in links :
          /\ l[1] = prev.slug => MapKeys(rgLinks[l]) \cap prev.scopes \subseteq next.scopes
          /\ l[2] = prev.slug => MapValues(rgLinks[l]) \cap prev.scopes \subseteq next.scopes

LinkStep(p) == CreateLink(p) \/ InsertLink(p) \/ PatchLink(p) \/ UpdateLink(p) \/ DeleteLink(p)

-----------------------------------------------------------------------------
(* ResourceAdminService *)

CONSTANTS AskedSlugs,   \* slugs as callers spell them
          Canonical,    \* their canonical form, RgNone when they have none
          NewResources, \* bound: resources to create, their slugs as spelt
          ResPatches    \* bound: patches, functions on some of the fields

\* The fields of a row that make up its Policy.
PolicyFields == {"allowed", "runtime", "returns"}

ASSUME ResInputsAssumption ==
    /\ Canonical \in [AskedSlugs -> Slugs \cup {RgNone}]
    /\ NewResources \subseteq
          [slug : AskedSlugs, kind : {"mint", "broker"}, provider : ProvIds \cup {RgNone},
           scopes : SUBSET ResScopes, allowed : SUBSET RgClients,
           runtime : SUBSET RgClients, returns : SUBSET ReturnURLs]
    /\ \A c \in ResPatches :
          /\ DOMAIN c \subseteq Fields
          /\ PolicyFields \cap DOMAIN c \in {{}, PolicyFields}
          /\ "slug" \in DOMAIN c => c["slug"] \in AskedSlugs
          /\ "kind" \in DOMAIN c => c["kind"] \in {"mint", "broker"}
          /\ "provider" \in DOMAIN c => c["provider"] \in ProvIds \cup {RgNone}
          /\ "scopes" \in DOMAIN c => c["scopes"] \subseteq ResScopes
          /\ \A f \in DOMAIN c \cap {"allowed", "runtime"} : c[f] \subseteq RgClients
          /\ "returns" \in DOMAIN c => c["returns"] \subseteq ReturnURLs

\* NormalizeSlug: lower case, or refused.
NormalizeSlug(slug) == Canonical[slug]

\* Resource.Validate: the provider belongs to a broker, and to no other.
Validate(row) == (row.kind = "mint") <=> (row.provider = RgNone)

\* validateBrokerProviderRef.
ValidateBrokerProviderRef(row) ==
    row.kind = "broker" => row.provider # RgNone /\ rgProv[row.provider] # RgNone

\* validatePolicyClients.
ValidatePolicyClients(row) == row.allowed \cup row.runtime \subseteq KnownClients

\* assertSlugAvailable: no row, or the row itself.
AssertSlugAvailable(slug, self) == ResourcesNamed(slug) \subseteq {self}

\* stripMintConnectPolicy.
StripMintConnectPolicy(row) ==
    IF row.kind = "mint" THEN [row EXCEPT !.returns = {}] ELSE row

\* Create: the checks ...
CreateResource(p) ==
    /\ RgMayAsk(p, "createResource")
    /\ \E c \in NewResources :
           /\ NormalizeSlug(c.slug) # RgNone
           /\ LET row == [c EXCEPT !.slug = NormalizeSlug(c.slug)] IN
              /\ Validate(row) /\ ValidateBrokerProviderRef(row) /\ ValidatePolicyClients(row)
              /\ AssertSlugAvailable(row.slug, RgNone)
              /\ RgArrive(p, [NoRequest EXCEPT !.op = "createResource", !.id = p,
                                               !.row = StripMintConnectPolicy(row)], "insert")
           /\ UNCHANGED <<rgRes, rgLinks, rgProv, rgStale, rgRaced, rgSecret>>

\* ... and the insert; who loses the slug to another fails here.
InsertResource(p) ==
    /\ rgAt[p] = "insert"
    /\ RgFinish(p)
    /\ IF InsertAccepted(rgIn[p].row)
       THEN rgRes' = [rgRes EXCEPT ![p] = rgIn[p].row] /\ RgWrote(p, {p})
       ELSE UNCHANGED <<rgRes, rgStale>>
    /\ UNCHANGED <<rgLinks, rgProv, rgRaced, rgSecret>>

\* The copy of the row with the fields of the patch.  A policy is replaced as a
\* whole: the three fields of it are patched together or not at all.
ApplyPatch(row, c) ==
    [slug |-> IF "slug" \in DOMAIN c THEN NormalizeSlug(c["slug"]) ELSE row.slug,
     kind |-> FieldOr(c, "kind", row.kind), provider |-> FieldOr(c, "provider", row.provider),
     scopes |-> FieldOr(c, "scopes", row.scopes), allowed |-> FieldOr(c, "allowed", row.allowed),
     runtime |-> FieldOr(c, "runtime", row.runtime), returns |-> FieldOr(c, "returns", row.returns)]

\* Patch: the row is read, the patch applied to the copy and checked ...
PatchResource(p) ==
    /\ RgMayAsk(p, "patchResource")
    /\ \E i \in ResIds, c \in ResPatches :
           /\ ResourceExists(i) /\ DOMAIN c # {}
           /\ "slug" \in DOMAIN c => NormalizeSlug(c["slug"]) # RgNone
           /\ LET row == ApplyPatch(rgRes[i], c) IN
              /\ Validate(row)
              /\ DOMAIN c \cap {"kind", "provider"} # {} => ValidateBrokerProviderRef(row)
              /\ DOMAIN c \cap PolicyFields # {} => ValidatePolicyClients(row)
              /\ "slug" \in DOMAIN c => AssertSlugAvailable(row.slug, i)
              /\ RgArrive(p, [NoRequest EXCEPT !.op = "patchResource", !.id = i, !.row = row,
                                               !.touched = DOMAIN c], "check")
           /\ UNCHANGED <<rgRes, rgLinks, rgProv, rgStale, rgRaced, rgSecret>>

\* ... compared with the row as it now is, for the links it may hurt ...
CheckPatch(p) ==
    /\ rgAt[p] = "check"
    /\ LET i == rgIn[p].id
           next == rgIn[p].row
           ok == /\ ResourceExists(i)
                 /\ ("slug" \in rgIn[p].touched /\ rgRes[i].slug # next.slug)
                       => ListForResource(rgRes[i].slug) = {}
                 /\ ValidateResourceUpdate(rgRes[i], next)
       IN IF ok THEN /\ RgGoto(p, "update")
                     /\ rgIn' = [rgIn EXCEPT ![p].row = StripMintConnectPolicy(next)]
          ELSE RgFinish(p)
    /\ UNCHANGED <<rgRes, rgLinks, rgProv, rgStale, rgRaced, rgSecret>>

\* ... and the whole copy is written.
UpdateResource(p) ==
    /\ rgAt[p] = "update"
    /\ RgFinish(p)
    /\ IF UpdateAccepted(rgIn[p].id, rgIn[p].row)
       THEN /\ rgRes' = [rgRes EXCEPT ![rgIn[p].id] = rgIn[p].row]
            /\ RgWrote(p, {rgIn[p].id}) /\ RgRacing(p, {rgIn[p].id, "links"})
       ELSE UNCHANGED <<rgRes, rgStale, rgRaced>>
    /\ UNCHANGED <<rgLinks, rgProv, rgSecret>>

-----------------------------------------------------------------------------
(* The policy lists: one read by slug, one write of the whole row *)

\* A list that is as asked for is not written.
EditList(p, op, i, list, next) ==
    /\ next # rgRes[i][list]
    /\ RgArrive(p, [NoRequest EXCEPT !.op = op, !.id = i, !.touched = {list},
                                     !.row = [rgRes[i] EXCEPT ![list] = next]], "update")
    /\ UNCHANGED <<rgRes, rgLinks, rgProv, rgStale, rgRaced, rgSecret>>

AddAllowedClient(p) ==
    \E i \in ResIds, c \in KnownClients : ResourceExists(i) /\
        EditList(p, "addClient", i, "allowed", rgRes[i].allowed \cup {c})

RemoveAllowedClient(p) ==
    \E i \in ResIds, c \in RgClients : ResourceExists(i) /\
        EditList(p, "removeClient", i, "allowed", rgRes[i].allowed \ {c})

AddRuntimeClientID(p) ==
    \E i \in ResIds, c \in KnownClients : ResourceExists(i) /\
        EditList(p, "addRuntime", i, "runtime", rgRes[i].runtime \cup {c})

RemoveRuntimeClientID(p) ==
    \E i \in ResIds, c \in RgClients : ResourceExists(i) /\
        EditList(p, "removeRuntime", i, "runtime", rgRes[i].runtime \ {c})

AddAllowedReturnURL(p) ==
    \E i \in ResIds, u \in ValidURLs : ResourceExists(i) /\ rgRes[i].kind = "broker" /\
        EditList(p, "addURL", i, "returns", rgRes[i].returns \cup {u})

RemoveAllowedReturnURL(p) ==
    \E i \in ResIds, u \in ReturnURLs : ResourceExists(i) /\ rgRes[i].kind = "broker" /\
        EditList(p, "removeURL", i, "returns", rgRes[i].returns \ {u})

-----------------------------------------------------------------------------
(* Deletion *)

\* DeleteWithCascade: the row and its links are read; with links it takes cascade.
DeleteResource(p) ==
    \E i \in ResIds, cascade \in BOOLEAN :
        /\ ResourceExists(i)
        /\ LET links == ListForResource(rgRes[i].slug) IN
           /\ links # {} => cascade
           /\ RgArrive(p, [NoRequest EXCEPT !.op = IF links # {} THEN "cascade" ELSE "deleteResource",
                                            !.id = i, !.row = rgRes[i]], "delete")
        /\ UNCHANGED <<rgRes, rgLinks, rgProv, rgStale, rgRaced, rgSecret>>

\* The transaction: the links as they are by now, then the row; all or nothing.
DeleteTransaction(p) ==
    LET i == rgIn[p].id
        cascade == rgIn[p].op = "cascade"
        slug == rgIn[p].row.slug
        left == IF cascade THEN WithoutLinksOf(slug) ELSE rgLinks
        ok == ResourceExists(i) /\ \A l \in Slugs \X Slugs :
                  left[l] # RgNone => rgRes[i].slug \notin {l[1], l[2]}
    IN IF ok THEN /\ rgLinks' = left
                  /\ rgRes' = [rgRes EXCEPT ![i] = RgNone]
                  /\ RgWrote(p, IF cascade THEN {i, "links"} ELSE {i})
       ELSE UNCHANGED <<rgLinks, rgRes, rgStale>>

CommitDelete(p) ==
    /\ rgAt[p] = "delete"
    /\ RgFinish(p)
    /\ DeleteTransaction(p)
    /\ UNCHANGED <<rgProv, rgRaced, rgSecret>>

ResourceStep(p) ==
    \/ CreateResource(p) \/ InsertResource(p)
    \/ PatchResource(p) \/ CheckPatch(p) \/ UpdateResource(p)
    \/ AddAllowedClient(p) \/ RemoveAllowedClient(p)
    \/ AddRuntimeClientID(p) \/ RemoveRuntimeClientID(p)
    \/ AddAllowedReturnURL(p) \/ RemoveAllowedReturnURL(p)
    \/ DeleteResource(p) \/ CommitDelete(p)

RegNext == \E p \in RgRequests : ResourceStep(p) \/ LinkStep(p) \/ ProviderStep(p)

\* The resources and links that are there at first are some that the services let in.
ASSUME RgSeedsSound ==
    /\ \A i, j \in SeedIds : SeedTable[i].slug = SeedTable[j].slug => i = j
    /\ \A i \in SeedIds : IF SeedTable[i].kind = "mint"
                          THEN SeedTable[i].provider = RgNone /\ SeedTable[i].returns = {}
                          ELSE SeedTable[i].provider \in SeedProviders
    /\ \A l \in Slugs \X Slugs : SeedLinks[l] # RgNone =>
          /\ \E i, j \in SeedIds :
                /\ SeedTable[i].slug = l[1] /\ SeedTable[j].slug = l[2]
                /\ SeedTable[i].kind = "mint" /\ MapDeclared(SeedLinks[l], SeedTable[i], SeedTable[j])
          /\ \E S \in SUBSET Slugs :
                /\ l[2] \in S /\ l[1] \notin S
                /\ \A s \in S, t \in Slugs : SeedLinks[<<s, t>>] # RgNone => t \in S

RegSpec == RegInit /\ [][RegNext]_rgVars

-----------------------------------------------------------------------------
(* Properties *)

\* fronting.go:389, 522: as long as no request wrote over what it had not read, the
\* links close no cycle and name only scopes that their two ends declare, of a
\* source that mints.
LinksSoundUnlessRaced ==
    ~rgRaced =>
        /\ \A s \in Slugs : \A t \in Outgoing(s) : ~Reaches(t, s)
        /\ \A l \in Slugs \X Slugs : rgLinks[l] # RgNone =>
              \A i \in ResourcesNamed(l[1]), j \in ResourcesNamed(l[2]) :
                  rgRes[i].kind = "mint" /\ MapDeclared(rgLinks[l], rgRes[i], rgRes[j])

\* resource_admin.go:538, 428, 510: whatever the interleaving of creates, renames and
\* deletes, a slug names one resource, both ends of every link exist, and so does
\* the provider of every broker resource.
ReferencesResolve ==
    /\ \A s \in Slugs : Cardinality(ResourcesNamed(s)) \in {0, 1}
    /\ \A s \in Slugs : \A t \in Outgoing(s) : ResourcesNamed(s) # {} /\ ResourcesNamed(t) # {}
    /\ \A i \in ResIds : ResourceExists(i) /\ rgRes[i].kind = "broker" =>
          rgRes[i].provider \in ProvIds /\ rgProv[rgRes[i].provider] # RgNone

\* resource_admin.go:561: a mint resource has neither provider nor connect policy,
\* also when stale copies are written over conversions of its kind.
KindDecidesShape ==
    \A i \in ResIds : ResourceExists(i) /\ rgRes[i].kind = "mint" =>
        rgRes[i].provider = RgNone /\ rgRes[i].returns = {}

\* resource_admin.go:567: an edit is lost only to a request that had read the row
\* before it: any other write of a row changes just what its request names.
OnlyOverlapLosesEdits ==
    [][\A p \in RgRequests, i \in ResIds :
          /\ rgAt[p] = "update" /\ rgAt'[p] = "done" /\ i = rgIn[p].id /\ i \notin rgStale[p]
          /\ rgRes[i] # rgRes'[i]
          => \A f \in Fields : rgRes[i][f] # rgRes'[i][f] =>
                f \in rgIn[p].touched \/ (f = "returns" /\ rgRes'[i].kind = "mint")]_rgVars

\* broker_provider_admin.go:215: the secret a vend resolves is the one supplied last,
\* or none: after a reference replaces a stored value the old value is not used.
LastSecretWins ==
    \A i \in ProvIds : rgProv[i] # RgNone /\ rgSecret[i] # "unknown" =>
        ResolveSecret(rgProv[i]) \in {rgSecret[i], RgNone}

\* The registry as a whole: rows of the right shape, whose references and links
\* resolve and whose secret is the last one set (ResourceAdminService, FrontingService,
\* BrokerProviderAdminService).
RegistrySound ==
    /\ RegTypeOK
    /\ LinksSoundUnlessRaced
    /\ ReferencesResolve
    /\ KindDecidesShape
    /\ LastSecretWins
=============================================================================
