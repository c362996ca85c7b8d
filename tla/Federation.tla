----------------------------- MODULE Federation -----------------------------
(***************************************************************************)
(* Enterprise-managed authorization: the JWT bearer grant that turns an    *)
(* identity assertion into a token (internal/services/jwt_bearer.go), the  *)
(* trusted IdP it comes from (xaa_idp.go), the cache of the IdP's keys     *)
(* (internal/adapters/idpjwks/cache.go), the policies and the subject      *)
(* mappings that decide what it is worth (xaa_policy.go,                   *)
(* subject_mapping.go).                                                    *)
(*                                                                         *)
(* There is one issuer, and one subject that it vouches for.  Rows are     *)
(* named by the request that created them, or "seed".  The issuer          *)
(* publishes one key at a time.                                            *)
(***************************************************************************)
EXTENDS DPoP

CONSTANTS Assertions,    \* records: jti, iat, exp, key, client, resource, scopes
          Ceiling,       \* client to the scopes it is registered for
          Resources,     \* the registered resources, by URI
          AskedResources, \* bound: the resource parameters of the grants
          PolicyEdits,   \* bound: what an administrator writes into a policy
          Keys,          \* the issuer's keys are 1 .. Keys, in their order
          TTL, MaxStale, \* of a cached key set
          Skew,          \* clock tolerance of ValidateIDJAG
          JTIBuffer,     \* how long the jti of an assertion outlives its exp
          MaxAge,        \* xaa.max_assertion_age
          MaxLag,        \* bound: ticks between a check and the store call after it
          RequireResource, \* xaa.require_resource
          Workloads,     \* bound: which operations each request may be, the
                         \* scopes and assertions they send, the values of xaa.subject_mode
                         \* and what happens around them
          FdNone

FdIds == DpRequests \cup {"seed"}
FdOps == {"grant", "proof", "resource", "register", "updateIdp", "deleteIdp", "refresh",
          "createPolicy", "updatePolicy", "deletePolicy", "createMapping",
          "deleteMapping"}
FdStatuses == {"active", "disabled", "gone"}
\* Time, purges, key rotation, changes of the user; failing calls; proofs.
FdEvents == {"time", "purge", "rotation", "user", "fetchFails", "mappingFails",
             "insertFails", "proofs"}
Client == DOMAIN Ceiling
Scope == UNION {Ceiling[c] : c \in Client}
\* A scope list of a policy: none at all, or a set that may be empty.
ScopeList == (SUBSET Scope) \cup {FdNone}

ASSUME FdAssumption ==
    /\ Assertions \subseteq [jti : Jtis, iat : 0 .. MaxClock, exp : 0 .. MaxClock,
                             key : 1 .. Keys, client : Client,
                             resource : Resources \cup {FdNone}, scopes : SUBSET Scope]
    /\ PolicyEdits \subseteq [enabled : BOOLEAN, clients : SUBSET Client,
                              resources : SUBSET Resources, scopes : ScopeList]
    /\ Workloads \subseteq [ops : [DpRequests -> SUBSET FdOps], asks : SUBSET SUBSET Scope,
                            with : SUBSET Assertions,
                            modes : SUBSET {"strict", "auto_map"}, world : SUBSET FdEvents]
ASSUME FdTimes == \A n \in {TTL, MaxStale, Skew, JTIBuffer, MaxAge, MaxLag, Keys} : n \in Nat
ASSUME FdTTL == TTL > 0 /\ Keys > 0
ASSUME FdSeed == "seed" \notin DpRequests
\* An issuer names an assertion by its jti: copies of one expire together.
ASSUME FdJtis == \A a, b \in Assertions : a.jti = b.jti => a.exp = b.exp
\* The row of a jti outlives the last acceptance of its assertion (30 s after
\* exp) by the time a request may take to reach the table.
ASSUME FdBuffer == Skew + MaxLag <= JTIBuffer

VARIABLES
    fdAt, fdIn,    \* requests: next call, and what they carry
    fdWork,        \* the workload, and the subject mode
    fdMode,
    fdIdp,         \* trusted_idps: the row of the issuer
    fdPolicies,    \* xaa_policies
    fdMappings,    \* subject_mappings of the subject
    fdUser,        \* the local user that mappings name: the status of its row, and
                   \* earlier ones that the user cache may still hold
    fdCache,       \* the cached key set and its expiry
    fdWithdrawn,   \* the issuer: key to the instant it stopped publishing it
    fdOut,         \* history: the tokens issued, by request
    fdPast,        \* history: requests that got past the jti gate
    fdSpent,       \* history: proofs consumed
    fdGone,        \* history: rows deleted, and those deleted under an update
    fdWritten      \* history: the scope list last written to a policy

fdVars == <<fdAt, fdIn, fdWork, fdMode, fdIdp, fdPolicies, fdMappings, fdUser, fdCache,
            fdWithdrawn, fdOut, fdPast, fdSpent, fdGone, fdWritten, dpVars>>

\* The key the issuer publishes now.
Published == CHOOSE k \in 1 .. Keys :
                 fdWithdrawn[k] = FdNone /\ \A j \in 1 .. k - 1 : fdWithdrawn[j] # FdNone

Idle == [op |-> "none", a |-> FdNone, proof |-> DpNone, res |-> FdNone, ask |-> {},
         id |-> FdNone, row |-> FdNone, now |-> 0, key |-> FdNone, scopes |-> {},
         bound |-> FdNone, sub |-> FdNone, gone |-> FALSE]
FdLabels == {"idle", "load", "fetch", "store", "validate", "consume", "policy", "proof",
             "spend", "subject", "issue", "save", "delete", "invalidate", "done"}
IdpRow == [id : FdIds, enabled : BOOLEAN]
PolicyRow == [idp : FdIds, enabled : BOOLEAN, clients : SUBSET Client,
              resources : SUBSET Resources, scopes : ScopeList]
MappingRow == [idp : FdIds, user : BOOLEAN]
ASSUME FdNoneAssumption ==
    /\ FdNone \notin Nat /\ FdNone # {} /\ FdNone # "local"
    /\ FdNone \notin IdpRow \cup PolicyRow \cup MappingRow
FdToken == [a : Assertions, sub : {"local", "pair"}, scopes : SUBSET Scope,
            bound : ScopeList, gone : BOOLEAN]

FederationTypeOK ==
    /\ DPoPTypeOK
    /\ fdAt \in [DpRequests -> FdLabels]
    /\ fdIdp \in IdpRow \cup {FdNone}
    /\ fdPolicies \in [FdIds -> [idp : FdIds, enabled : BOOLEAN, clients : SUBSET Client,
                                 resources : SUBSET Resources,
                                 scopes : ScopeList \ {{}}] \cup {FdNone}]
    /\ fdMappings \in [FdIds -> MappingRow \cup {FdNone}]
    /\ Cardinality({i \in FdIds : fdMappings[i] # FdNone}) <= 1
    /\ \A i \in FdIds : \A row \in {fdPolicies[i], fdMappings[i]} \ {FdNone} :
           fdIdp # FdNone /\ row.idp = fdIdp.id
    /\ \A j \in Jtis : xaJtis[j] # DpNone => xaJtis[j] <= MaxClock + JTIBuffer
    /\ fdCache \in [key : 1 .. Keys, exp : TTL .. MaxClock + TTL] \cup {FdNone}
    /\ fdOut \in [DpRequests -> FdToken \cup {FdNone}]
    /\ fdGone \in [rows : SUBSET ({"idp", "policy"} \X FdIds),
                  overlapped : SUBSET ({"idp", "policy"} \X FdIds)]

FederationInit ==
    /\ DPoPInit
    /\ fdAt = [p \in DpRequests |-> "idle"] /\ fdIn = [p \in DpRequests |-> Idle]
    /\ fdWork \in Workloads /\ fdMode \in fdWork.modes
    /\ fdIdp = [id |-> "seed", enabled |-> TRUE]
    /\ fdPolicies = [i \in FdIds |-> IF i = "seed"
                       THEN [idp |-> "seed", enabled |-> TRUE, clients |-> {},
                             resources |-> {}, scopes |-> FdNone]
                       ELSE FdNone]
    /\ fdMappings = [i \in FdIds |-> IF i = "seed" THEN [idp |-> "seed", user |-> TRUE] ELSE FdNone]
    /\ fdUser = [row |-> "active", stale |-> {}]
    /\ fdCache = FdNone
    /\ fdWithdrawn = [k \in 1 .. Keys |-> FdNone]
    /\ fdOut = [p \in DpRequests |-> FdNone]
    /\ fdPast = {} /\ fdSpent = {}
    /\ fdGone = [rows |-> {}, overlapped |-> {}]
    /\ fdWritten = [i \in FdIds |-> FdNone]

FdGoto(p, label) == fdAt' = [fdAt EXCEPT ![p] = label]
\* A request that ends leaves nothing behind in memory.
FdEnd(p) == FdGoto(p, "done") /\ fdIn' = [fdIn EXCEPT ![p] = Idle]
FdStep(p, in, label) == FdGoto(p, label) /\ fdIn' = [fdIn EXCEPT ![p] = in]

FdArrive(p, op) == fdAt[p] = "idle" /\ op \in fdWork.ops[p]

fdAdminVars == <<fdIdp, fdPolicies, fdMappings, fdGone, fdWritten>>
fdHistory == <<fdOut, fdPast, fdSpent>>
fdWorld == <<fdWork, fdMode, fdUser, fdWithdrawn>>

-----------------------------------------------------------------------------
(* idp_store.go, xaa_policy_store.go, subject_mapping_store.go *)

IdpHas(i) == fdIdp # FdNone /\ fdIdp.id = i

\* Save of an IdP: INSERT ... ON CONFLICT(id) DO UPDATE, and one row an issuer.
SaveIdp(row) ==
    /\ fdIdp = FdNone \/ IdpHas(row.id)
    /\ fdIdp' = row

\* Delete of an IdP takes its policies and its mappings along.
DeleteIdpRow(i) ==
    /\ fdIdp' = FdNone
    /\ fdPolicies' = [j \in FdIds |-> FdNone]
    /\ fdMappings' = [j \in FdIds |-> FdNone]

\* marshalNullableStringSlice, unmarshalNullableStringSlice: an empty list is
\* stored as NULL and comes back as none at all.
StoredScopes(list) == IF list = {} THEN FdNone ELSE list

\* Save of a policy: an upsert on the id; the IdP it names must have a row.
SavePolicy(i, row) ==
    /\ IdpHas(row.idp)
    /\ fdPolicies' = [fdPolicies EXCEPT ![i] = [row EXCEPT !.scopes = StoredScopes(@)]]
    /\ fdWritten' = [fdWritten EXCEPT ![i] = row.scopes]

\* GetByID and ListByIDP of the policies.
HasPolicy(i) == fdPolicies[i] # FdNone
PoliciesOf(idp) == {i \in FdIds : HasPolicy(i) /\ fdPolicies[i].idp = idp}

DeletePolicyRow(i) ==
    /\ HasPolicy(i)
    /\ fdPolicies' = [fdPolicies EXCEPT ![i] = FdNone]

\* Save of a mapping: unique for an IdP and a subject.
SaveMapping(i, row) ==
    /\ \A j \in FdIds : fdMappings[j] = FdNone
    /\ fdMappings' = [fdMappings EXCEPT ![i] = row]

DeleteMappingRow(i) ==
    /\ fdMappings[i] # FdNone
    /\ fdMappings' = [fdMappings EXCEPT ![i] = FdNone]

\* GetByID of the users, behind the cache of WithUserCache.
UserAnswers == {fdUser.row} \cup fdUser.stale

\* GetMapping, by IdP and subject.
MappingOf(i) == {row \in {fdMappings[j] : j \in FdIds} \ {FdNone} : row.idp = i}

-----------------------------------------------------------------------------
(* The cache of key sets.  A caller reads the entry and the time, then asks
   the issuer, then stores what it got. *)

Fresh(e, now) == e # FdNone /\ now < e.exp
StaleButServed(e, now) == e # FdNone /\ now < e.exp + MaxStale

\* GetKeys, the fast path, or the entry and the time the rest of it works with.
LoadKeys(p) ==
    /\ fdAt[p] = "load"
    /\ LET in == [fdIn[p] EXCEPT !.now = clock, !.row = fdCache] IN
       IF Fresh(fdCache, clock)
       THEN FdStep(p, [in EXCEPT !.key = fdCache.key, !.row = FdNone], "validate")
       ELSE FdStep(p, in, "fetch")
    /\ UNCHANGED <<fdCache, fdAdminVars, fdHistory, fdWorld, dpVars>>

\* fetchJWKS: the row of the issuer, then the keys it publishes.
FetchKeys(p) ==
    /\ fdAt[p] = "fetch" /\ fdIdp # FdNone
    /\ FdStep(p, [fdIn[p] EXCEPT !.key = Published, !.row = FdNone], "store")
    /\ UNCHANGED <<fdCache, fdAdminVars, fdHistory, fdWorld, dpVars>>

\* A failed fetch serves the entry that was read, while it is stale enough; an
\* issuer without a row gets nothing.
FetchFails(p) ==
    /\ fdAt[p] = "fetch" /\ (fdIdp = FdNone \/ "fetchFails" \in fdWork.world)
    /\ LET in == fdIn[p] IN
       IF fdIdp # FdNone /\ StaleButServed(in.row, in.now)
       THEN FdStep(p, [in EXCEPT !.key = in.row.key, !.row = FdNone], "validate")
       ELSE FdEnd(p)
    /\ UNCHANGED <<fdCache, fdAdminVars, fdHistory, fdWorld, dpVars>>

\* The expiry counts from the time read before the fetch.
StoreKeys(p) ==
    /\ fdAt[p] = "store"
    /\ fdCache' = [key |-> fdIn[p].key, exp |-> fdIn[p].now + TTL]
    /\ FdGoto(p, "validate") /\ UNCHANGED fdIn
    /\ UNCHANGED <<fdAdminVars, fdHistory, fdWorld, dpVars>>

-----------------------------------------------------------------------------
(* JWTBearerService *)

\* The client, the grant type and the assertion have been looked at; the issuer
\* must have a row that is enabled.
GrantJWTBearer(p) ==
    /\ FdArrive(p, "grant")
    /\ fdIdp # FdNone /\ fdIdp.enabled
    /\ \E a \in fdWork.with : \E r \in AskedResources : \E ask \in fdWork.asks :
       \E q \in (IF "proofs" \in fdWork.world THEN Proofs ELSE {}) \cup {DpNone} :
           /\ FdStep(p, [Idle EXCEPT !.op = "grant", !.a = a, !.proof = q, !.res = r,
                                     !.ask = ask, !.id = fdIdp.id,
                                     !.gone = "active" \notin UserAnswers], "load")
           /\ DPoPNonceMiddleware(p, q)
    /\ UNCHANGED <<fdCache, fdAdminVars, fdHistory, fdWorld, clock, dpJtis, xaJtis>>

\* ValidateIDJAG: the key verifies it, and exp and iat are acceptable.
ValidateIDJAG(a, key) ==
    /\ a.key = key
    /\ clock <= a.exp + Skew
    /\ a.iat <= clock + Skew /\ (MaxAge > 0 => clock <= a.iat + MaxAge)

\* Steps 7 to 9: what the request and the assertion say must agree, and a
\* resource must be named where the server requires one.
Acceptable(in) ==
    /\ ValidateIDJAG(in.a, in.key)
    /\ in.res # FdNone /\ in.a.resource # FdNone => in.res = in.a.resource
    /\ RequireResource => in.res # FdNone \/ in.a.resource # FdNone

EffectiveResource(in) == IF in.res = FdNone THEN in.a.resource ELSE in.res

ValidateAssertion(p) ==
    /\ fdAt[p] = "validate"
    /\ IF fdIn[p].op = "grant" /\ Acceptable(fdIn[p])
       THEN FdStep(p, [fdIn[p] EXCEPT !.res = EffectiveResource(fdIn[p]), !.now = clock], "consume")
       ELSE FdEnd(p)
    /\ UNCHANGED <<fdCache, fdAdminVars, fdHistory, fdWorld, dpVars>>

\* Step 11: the client's scopes, cut down to the assertion's, and a request
\* that asks for no more.
ScopeCeiling(a) ==
    IF a.scopes = {} THEN Ceiling[a.client] ELSE Ceiling[a.client] \cap a.scopes
EffectiveScopes(in) == IF in.ask = {} THEN ScopeCeiling(in.a) ELSE in.ask

\* isKnownResource: a resource with that URI.
KnownResource(r) == r \in Resources

\* Mutant: the row goes when the assertion expires.
AssertionRowExpiry_AtExp(a) == a.exp

\* Step 10: the row is kept a minute past exp.
AssertionRowExpiry(a) == a.exp + JTIBuffer

\* Steps 10 to 12: the jti is spent before anything that tells of the server.
ConsumeAssertion(p) ==
    LET in == fdIn[p] IN
    /\ fdAt[p] = "consume"
    /\ \/ /\ ConsumeJTI(in.a.jti, AssertionRowExpiry(in.a))
          /\ fdPast' = fdPast \cup {<<in.a.jti, p>>}
          /\ IF /\ ScopeCeiling(in.a) # {} /\ EffectiveScopes(in) \subseteq ScopeCeiling(in.a)
                /\ in.res = FdNone \/ KnownResource(in.res)
             THEN FdStep(p, [in EXCEPT !.scopes = EffectiveScopes(in)], "policy")
             ELSE FdEnd(p)
       \/ /\ xaJtis[in.a.jti] # DpNone
          /\ FdEnd(p) /\ UNCHANGED <<xaJtis, fdPast>>
    /\ UNCHANGED <<fdCache, fdAdminVars, fdOut, fdSpent, fdWorld, clock, dpJtis, dpNonces>>

\* EvaluatePolicy, for one policy: a list that is not there restricts nothing.
PolicyAllows(row, in) ==
    /\ row.enabled
    /\ row.clients = {} \/ in.a.client \in row.clients
    /\ row.resources = {} \/ in.res \in row.resources
    /\ row.scopes = FdNone \/ in.scopes \subseteq row.scopes

\* EvaluatePolicy: any policy of the IdP that allows the request.
EvaluatePolicy(p) ==
    LET in == fdIn[p]
        allowing == {i \in PoliciesOf(in.id) : PolicyAllows(fdPolicies[i], in)} IN
    /\ fdAt[p] = "policy"
    /\ \/ \E i \in allowing :
             FdStep(p, [in EXCEPT !.row = i, !.bound = fdPolicies[i].scopes],
                    IF in.proof = DpNone THEN "subject" ELSE "proof")
       \/ allowing = {} /\ FdEnd(p)
    /\ UNCHANGED <<fdCache, fdAdminVars, fdHistory, fdWorld, dpVars>>

\* A grant other than JWT bearer that carries a proof: only its proof matters here.
OtherGrant(p) ==
    /\ FdArrive(p, "proof")
    /\ \E q \in Proofs :
           /\ FdStep(p, [Idle EXCEPT !.op = "proof", !.proof = q], "proof")
           /\ DPoPNonceMiddleware(p, q)
    /\ UNCHANGED <<fdCache, fdAdminVars, fdHistory, fdWorld, clock, dpJtis, xaJtis>>

\* validateDPoP: the proof, and the nonce where one is required.
CheckProof(p) ==
    LET in == fdIn[p] IN
    /\ fdAt[p] = "proof"
    /\ IF ValidateProof(in.proof) /\ (RequireNonce => ValidateNonce(in.proof))
       THEN FdStep(p, [in EXCEPT !.now = clock], "spend")
       ELSE FdEnd(p)
    /\ UNCHANGED <<fdCache, fdAdminVars, fdHistory, fdWorld, dpVars>>

\* validateDPoPBinding, up to the proof store: the scheme, the proof and its key.
BindingHolds(q, scheme, binding) ==
    /\ scheme = "DPoP" /\ q # DpNone /\ ValidateProof(q)
    /\ binding # "another key"

\* JWTMiddleware.Wrap, of a resource server on the same proof store: a token that
\* verifies for this audience. One that is neither bound nor presented under the
\* DPoP scheme needs no proof; every other spends one.
GuardResource(p) ==
    /\ FdArrive(p, "resource")
    /\ \E q \in Proofs \cup {DpNone}, scheme \in {"Bearer", "DPoP"},
          binding \in {"none", "the proof's key", "another key"} :
           IF (binding # "none" \/ scheme = "DPoP") /\ BindingHolds(q, scheme, binding)
           THEN FdStep(p, [Idle EXCEPT !.op = "resource", !.proof = q, !.now = clock], "spend")
           ELSE FdEnd(p)
    /\ UNCHANGED <<fdCache, fdAdminVars, fdHistory, fdWorld, dpVars>>

\* validateDPoP and validateDPoPBinding: the jti of the proof is consumed.
SpendProof(p) ==
    LET in == fdIn[p] IN
    /\ fdAt[p] = "spend"
    /\ \/ /\ ConsumeProof(in.proof)
          /\ fdSpent' = fdSpent \cup {in.proof}
          /\ IF in.op = "grant" THEN FdGoto(p, "subject") /\ UNCHANGED fdIn ELSE FdEnd(p)
       \/ dpJtis[in.proof] # DpNone /\ FdEnd(p) /\ UNCHANGED <<dpJtis, fdSpent>>
    /\ UNCHANGED <<fdCache, fdAdminVars, fdOut, fdPast, fdWorld, clock, dpNonces, xaJtis>>

\* checkLocalUserActive: the user has a row and is active, or not, or the lookup fails.
LocalUserActive == "active" \in UserAnswers
LocalUserInactive == UserAnswers # {"active"} \/ "mappingFails" \in fdWork.world

\* ResolveSubject: the mapped user while it is active; without a mapping, or
\* when the lookup fails, the pair of issuer and subject unless the mode is strict.
ResolveSubject(p) ==
    LET in == fdIn[p]
        refused == FdEnd(p)
        unmapped == IF fdMode = "strict" THEN refused
                    ELSE FdStep(p, [in EXCEPT !.sub = "pair"], "issue") IN
    /\ fdAt[p] = "subject"
    /\ \/ \E m \in MappingOf(in.id) :
              \/ ~m.user /\ FdStep(p, [in EXCEPT !.sub = "pair"], "issue")
              \/ m.user /\ LocalUserActive /\ FdStep(p, [in EXCEPT !.sub = "local"], "issue")
              \/ m.user /\ LocalUserInactive /\ refused
       \/ (MappingOf(in.id) = {} \/ "mappingFails" \in fdWork.world) /\ unmapped
    /\ UNCHANGED <<fdCache, fdAdminVars, fdHistory, fdWorld, dpVars>>

\* The issuance row and the machine token; a failed insert costs the token.
IssueBearer(p) ==
    LET in == fdIn[p] IN
    /\ fdAt[p] = "issue"
    /\ FdEnd(p)
    /\ \/ fdOut' = [fdOut EXCEPT ![p] = [a |-> in.a, sub |-> in.sub, scopes |-> in.scopes,
                                         bound |-> in.bound, gone |-> in.gone]]
       \/ "insertFails" \in fdWork.world /\ UNCHANGED fdOut
    /\ UNCHANGED <<fdCache, fdAdminVars, fdPast, fdSpent, fdWorld, dpVars>>

-----------------------------------------------------------------------------
(* Administration of IdPs, policies and mappings *)

Updating(kind, i) ==
    \E p \in DpRequests : fdAt[p] = "save" /\ fdIn[p].op = kind /\ fdIn[p].id = i
Deleted(rows, under) ==
    fdGone' = [rows |-> fdGone.rows \cup rows, overlapped |-> fdGone.overlapped \cup under]

\* RegisterIDP: the keys' address has been discovered; the row is new.
RegisterIDP(p) ==
    /\ FdArrive(p, "register")
    /\ SaveIdp([id |-> p, enabled |-> TRUE]) /\ fdIdp = FdNone
    /\ FdEnd(p)
    /\ UNCHANGED <<fdCache, fdPolicies, fdMappings, fdGone, fdWritten, fdHistory, fdWorld, dpVars>>

\* UpdateIDP starts from the row.
ReadIdpForUpdate(i) == IdpHas(i)

UpdateIDP(p) ==
    /\ FdArrive(p, "updateIdp")
    /\ \E i \in FdIds : \E b \in BOOLEAN :
          /\ ReadIdpForUpdate(i)
          /\ FdStep(p, [Idle EXCEPT !.op = "idp", !.id = i,
                                    !.row = [id |-> i, enabled |-> b]], "save")
    /\ UNCHANGED <<fdCache, fdAdminVars, fdHistory, fdWorld, dpVars>>

\* UpdateIDP, its Save; another row of the issuer makes it fail.
SaveUpdatedIdp(p) ==
    /\ fdAt[p] = "save" /\ fdIn[p].op = "idp"
    /\ SaveIdp(fdIn[p].row) \/ (fdIdp # FdNone /\ ~IdpHas(fdIn[p].id) /\ UNCHANGED fdIdp)
    /\ FdEnd(p)
    /\ UNCHANGED <<fdCache, fdPolicies, fdMappings, fdGone, fdWritten, fdHistory, fdWorld, dpVars>>

\* DeleteIDP and RefreshKeys read the row for its issuer.
ReadIdp(p) ==
    /\ fdIdp # FdNone
    /\ \E op \in {"deleteIdp", "refresh"} :
          /\ FdArrive(p, op)
          /\ FdStep(p, [Idle EXCEPT !.op = op, !.id = fdIdp.id],
                    IF op = "refresh" THEN "invalidate" ELSE "delete")
    /\ UNCHANGED <<fdCache, fdAdminVars, fdHistory, fdWorld, dpVars>>

DeleteIDP(p) ==
    LET i == fdIn[p].id
        rows == {<<"idp", i>>} \cup {<<"policy", j>> : j \in {j \in FdIds : fdPolicies[j] # FdNone}} IN
    /\ fdAt[p] = "delete"
    /\ IF IdpHas(i)
       THEN /\ DeleteIdpRow(i)
            /\ Deleted(rows, {r \in rows : Updating(r[1], r[2])})
            /\ FdGoto(p, "invalidate") /\ UNCHANGED fdIn
       ELSE FdEnd(p) /\ UNCHANGED <<fdIdp, fdPolicies, fdMappings, fdGone>>
    /\ UNCHANGED <<fdCache, fdWritten, fdHistory, fdWorld, dpVars>>

\* InvalidateCache; RefreshKeys then fetches through GetKeys.
InvalidateKeys(p) ==
    /\ fdAt[p] = "invalidate"
    /\ fdCache' = FdNone
    /\ IF fdIn[p].op = "refresh" THEN FdGoto(p, "load") /\ UNCHANGED fdIn ELSE FdEnd(p)
    /\ UNCHANGED <<fdAdminVars, fdHistory, fdWorld, dpVars>>

\* CreatePolicy: the IdP has a row; the new policy is enabled.
CreatePolicy(p) ==
    /\ FdArrive(p, "createPolicy")
    /\ fdIdp # FdNone
    /\ \E e \in PolicyEdits :
          FdStep(p, [Idle EXCEPT !.op = "policy", !.id = p,
                       !.row = [idp |-> fdIdp.id, enabled |-> TRUE, clients |-> e.clients,
                                resources |-> e.resources, scopes |-> e.scopes]], "save")
    /\ UNCHANGED <<fdCache, fdAdminVars, fdHistory, fdWorld, dpVars>>

\* UpdatePolicy: the row with the edit laid over it; a list that is not sent
\* keeps what was read.
UpdatePolicy(p) ==
    /\ FdArrive(p, "updatePolicy")
    /\ \E i \in FdIds : \E e \in PolicyEdits :
          /\ HasPolicy(i)
          /\ FdStep(p, [Idle EXCEPT !.op = "policy", !.id = i,
                          !.row = [fdPolicies[i] EXCEPT
                                     !.enabled = e.enabled, !.clients = e.clients,
                                     !.resources = e.resources,
                                     !.scopes = IF e.scopes = FdNone THEN fdPolicies[i].scopes
                                                ELSE e.scopes]], "save")
    /\ UNCHANGED <<fdCache, fdAdminVars, fdHistory, fdWorld, dpVars>>

SaveWrittenPolicy(p) ==
    /\ fdAt[p] = "save" /\ fdIn[p].op = "policy"
    /\ \/ SavePolicy(fdIn[p].id, fdIn[p].row)
       \/ ~IdpHas(fdIn[p].row.idp) /\ UNCHANGED <<fdPolicies, fdWritten>>
    /\ FdEnd(p)
    /\ UNCHANGED <<fdCache, fdIdp, fdMappings, fdGone, fdHistory, fdWorld, dpVars>>

DeletePolicy(p) ==
    /\ FdArrive(p, "deletePolicy")
    /\ \E i \in FdIds :
          /\ DeletePolicyRow(i)
          /\ Deleted({<<"policy", i>>}, {r \in {<<"policy", i>>} : Updating("policy", i)})
    /\ FdEnd(p)
    /\ UNCHANGED <<fdCache, fdIdp, fdMappings, fdWritten, fdHistory, fdWorld, dpVars>>

\* CreateMapping: the IdP has a row, and so has the user that is named, by GetByID.
CreateMapping(p) ==
    /\ FdArrive(p, "createMapping")
    /\ fdIdp # FdNone
    /\ \E user \in BOOLEAN :
          /\ user => UserAnswers # {"gone"}
          /\ FdStep(p, [Idle EXCEPT !.op = "mapping", !.row = [idp |-> fdIdp.id, user |-> user]], "save")
    /\ UNCHANGED <<fdCache, fdAdminVars, fdHistory, fdWorld, dpVars>>

SaveCreatedMapping(p) ==
    /\ fdAt[p] = "save" /\ fdIn[p].op = "mapping"
    /\ IF IdpHas(fdIn[p].row.idp) /\ \A j \in FdIds : fdMappings[j] = FdNone
       THEN SaveMapping(p, fdIn[p].row)
       ELSE UNCHANGED fdMappings
    /\ FdEnd(p)
    /\ UNCHANGED <<fdCache, fdIdp, fdPolicies, fdGone, fdWritten, fdHistory, fdWorld, dpVars>>

DeleteMapping(p) ==
    /\ FdArrive(p, "deleteMapping")
    /\ \E i \in FdIds : DeleteMappingRow(i)
    /\ FdEnd(p)
    /\ UNCHANGED <<fdCache, fdIdp, fdPolicies, fdGone, fdWritten, fdHistory, fdWorld, dpVars>>

-----------------------------------------------------------------------------
(* The surroundings *)

fdSystem == <<fdAt, fdIn, fdWork, fdMode, fdCache, fdAdminVars, fdHistory>>

\* An administrator disables, enables or deletes the user (UserDirectory).
UserChanges ==
    /\ "user" \in fdWork.world /\ fdUser.row # "gone"
    /\ \E to \in FdStatuses \ {fdUser.row} :
          /\ fdUser' = [row |-> to, stale |-> UserAnswers \ {to}]
          /\ fdIn' = [p \in DpRequests |-> [fdIn[p] EXCEPT !.gone = @ /\ to # "active"]]
    /\ UNCHANGED <<fdAt, fdWork, fdMode, fdCache, fdAdminVars, fdHistory, fdWithdrawn, dpVars>>

\* The TTL of the user cache passes without a change: every answer is the row's.
UserCacheLapses ==
    /\ "user" \in fdWork.world /\ fdUser.stale # {}
    /\ fdUser' = [row |-> fdUser.row, stale |-> {}]
    /\ UNCHANGED <<fdSystem, fdWithdrawn, dpVars>>

\* The issuer publishes its next key instead of the current one.
IssuerRotates ==
    /\ "rotation" \in fdWork.world /\ Published < Keys
    /\ fdWithdrawn' = [fdWithdrawn EXCEPT ![Published] = clock]
    /\ UNCHANGED <<fdSystem, fdUser, dpVars>>

\* Time passes; no request is left between a check and its store call for long.
FdTick ==
    /\ "time" \in fdWork.world /\ clock < MaxClock
    /\ \A p \in DpRequests : fdAt[p] \in {"consume", "spend"} => clock < fdIn[p].now + MaxLag
    /\ clock' = clock + 1
    /\ UNCHANGED <<fdSystem, fdUser, fdWithdrawn, dpJtis, dpNonces, xaJtis>>

Purge ==
    /\ "purge" \in fdWork.world
    /\ PurgeProofs \/ PurgeAssertions
    /\ UNCHANGED <<fdSystem, fdUser, fdWithdrawn>>

FederationNext ==
    \/ \E p \in DpRequests :
         \/ GrantJWTBearer(p) \/ LoadKeys(p) \/ FetchKeys(p) \/ FetchFails(p) \/ StoreKeys(p)
         \/ ValidateAssertion(p) \/ ConsumeAssertion(p) \/ EvaluatePolicy(p)
         \/ OtherGrant(p) \/ GuardResource(p) \/ CheckProof(p) \/ SpendProof(p) \/ ResolveSubject(p) \/ IssueBearer(p)
         \/ RegisterIDP(p) \/ UpdateIDP(p) \/ SaveUpdatedIdp(p) \/ ReadIdp(p) \/ DeleteIDP(p)
         \/ InvalidateKeys(p) \/ CreatePolicy(p) \/ UpdatePolicy(p) \/ SaveWrittenPolicy(p)
         \/ DeletePolicy(p) \/ CreateMapping(p) \/ SaveCreatedMapping(p) \/ DeleteMapping(p)
    \/ UserChanges \/ UserCacheLapses \/ IssuerRotates \/ FdTick \/ Purge

FederationSpec == FederationInit /\ [][FederationNext]_fdVars

-----------------------------------------------------------------------------
(* Properties *)

\* Of all the requests that ever present one assertion, one gets past the jti
\* gate: it alone learns of ceilings, policies and mappings, and may get a token.
\* Purges of the table do not change that (jwt_bearer.go:278, the minute of
\* buffer against the 30 s of clock tolerance).
OneProbePerAssertion ==
    \A x \in fdPast : \A y \in fdPast : x[1] = y[1] => x[2] = y[2]

\* A proof that comes a second time is refused, however the clocks of client and
\* server differ and whatever was purged (validateDPoP keeps two lifetimes),
\* unless the request was held up between the check and the table.
ProofBuysOnce ==
    [][\A p \in DpRequests :
          fdAt[p] = "spend" /\ fdIn[p].now = clock /\ dpJtis' # dpJtis /\ fdAt'[p] # fdAt[p]
          => fdIn[p].proof \notin fdSpent]_fdVars

\* A key that the issuer has withdrawn verifies nothing once a TTL and the
\* tolerated staleness have gone by (idpjwks/cache.go, bounded
\* stale-while-revalidate): the keys a request works with were asked for no later.
WithdrawnKeyDies ==
    \A p \in DpRequests :
        fdAt[p] \in {"validate", "store"} /\ fdIn[p].key # FdNone /\ fdWithdrawn[fdIn[p].key] # FdNone
        => fdIn[p].now < fdWithdrawn[fdIn[p].key] + TTL + MaxStale

\* No token names a local user who had been disabled or deleted for the TTL of the
\* user cache when its request came, and was not enabled since (checkLocalUserActive
\* reads through WithUserCache; mappings outlive their users).
NoTokenForGoneUser ==
    \A p \in DpRequests : fdOut[p] # FdNone /\ fdOut[p].gone => fdOut[p].sub = "pair"

\* A row that was deleted is back only when an update had read it before
\* (UpdateIDP and UpdatePolicy save with an upsert).
OnlyOverlapRevives ==
    /\ \A i \in FdIds : IdpHas(i) /\ <<"idp", i>> \in fdGone.rows => <<"idp", i>> \in fdGone.overlapped
    /\ \A i \in FdIds : fdPolicies[i] # FdNone /\ <<"policy", i>> \in fdGone.rows
                        => <<"policy", i>> \in fdGone.overlapped

\* A token carries no scope that its client is not registered for, that its
\* assertion withholds, or that the policy that let it through leaves out
\* (steps 11 and 13 of GrantJWTBearer).
BearerWithinCeilings ==
    \A p \in DpRequests : fdOut[p] # FdNone =>
        /\ fdOut[p].scopes \subseteq ScopeCeiling(fdOut[p].a)
        /\ fdOut[p].bound # FdNone => fdOut[p].scopes \subseteq fdOut[p].bound

\* "non-nil but empty Scopes = deny-all (skip this policy)" (xaa_policy.go:232).
EmptyListDeniesAll ==
    [][\A p \in DpRequests : fdAt[p] = "policy" /\ fdAt'[p] \in {"proof", "subject"}
                             => fdWritten[fdIn'[p].row] # {}]_fdVars

\* What an identity assertion buys, together: one token, under a key, a user and
\* ceilings that stand (JWTBearerService.Exchange, idpjwks/cache.go).
FederationSound ==
    /\ FederationTypeOK
    /\ OneProbePerAssertion
    /\ WithdrawnKeyDies
    /\ NoTokenForGoneUser
    /\ OnlyOverlapRevives
    /\ BearerWithinCeilings
=============================================================================
