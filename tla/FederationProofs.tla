-------------------------- MODULE FederationProofs --------------------------
(***************************************************************************)
(* Identity assertions and proofs of possession (Federation over DPoP),    *)
(* for every number of requests, assertions, proofs, keys and rows: what   *)
(* GrantJWTBearer, the two replay tables, the issuer's key cache and the   *)
(* administration of issuers, policies and mappings promise together.      *)
(*                                                                         *)
(* The invariant says of each request what the checks it has passed have   *)
(* established and still holds at its next call (FdLocal), and of each     *)
(* table what its rows stand for. Two parts carry the argument. FdChecked, *)
(* FdProbed and FdSpends are the arithmetic of replay: the row of a jti or *)
(* of a proof is there for as long as the check would let the thing itself *)
(* through. FdKeyed and FdCached say when a key was last published, so     *)
(* that a withdrawn one dies with its entry.                               *)
(***************************************************************************)
EXTENDS Federation, FiniteSetTheorems, TLAPS

FdCopy == [key : 1 .. Keys, exp : TTL .. MaxClock + TTL]

\* What a request carries; its row is that of the label it is at.
FdRequest(r) ==
    r \in [op : {"none", "grant", "proof", "resource", "idp", "deleteIdp", "refresh",
                 "policy", "mapping"},
           a : Assertions \cup {FdNone}, proof : Proofs \cup {DpNone}, res : {r.res},
           ask : SUBSET Scope, id : FdIds \cup {FdNone}, row : {r.row},
           now : 0 .. MaxClock, key : (1 .. Keys) \cup {FdNone}, scopes : SUBSET Scope,
           bound : ScopeList, sub : {"local", "pair", FdNone}, gone : BOOLEAN]

\* The requests.
FdRequests ==
    /\ fdAt \in [DpRequests -> FdLabels]
    /\ DOMAIN fdIn = DpRequests /\ \A p \in DpRequests : FdRequest(fdIn[p])

\* The tables, the cache, and the histories.
FdStored ==
    /\ DPoPTypeOK
    /\ fdWork \in Workloads
    /\ fdIdp \in IdpRow \cup {FdNone}
    /\ fdPolicies \in [FdIds -> [idp : FdIds, enabled : BOOLEAN, clients : SUBSET Client,
                                 resources : SUBSET Resources,
                                 scopes : ScopeList \ {{}}] \cup {FdNone}]
    /\ fdMappings \in [FdIds -> MappingRow \cup {FdNone}]
    /\ fdCache \in FdCopy \cup {FdNone}
    /\ fdWithdrawn \in [1 .. Keys -> (0 .. MaxClock) \cup {FdNone}]
    /\ fdOut \in [DpRequests -> FdToken \cup {FdNone}]
    /\ fdGone \in [rows : SUBSET ({"idp", "policy"} \X FdIds),
                   overlapped : SUBSET ({"idp", "policy"} \X FdIds)]

\* What a request carries fits its label.
FdFits(p) ==
    /\ fdAt[p] \in {"load", "fetch", "store", "validate", "consume", "policy", "subject",
                    "issue", "proof", "spend"} /\ fdIn[p].op = "grant" =>
          fdIn[p].a \in Assertions
    /\ fdAt[p] \in {"consume", "policy", "subject", "issue"} => fdIn[p].op = "grant"
    /\ fdAt[p] \in {"proof", "spend"} => fdIn[p].proof \in Proofs
    /\ fdAt[p] = "issue" => fdIn[p].sub \in {"local", "pair"}
    /\ fdAt[p] = "fetch" => fdIn[p].row \in FdCopy \cup {FdNone}
    /\ fdAt[p] = "store" => fdIn[p].key \in 1 .. Keys
    /\ fdAt[p] = "save" =>
          /\ fdIn[p].op = "idp" => fdIn[p].row \in IdpRow /\ fdIn[p].row.id = fdIn[p].id
          /\ fdIn[p].op = "policy" => fdIn[p].row \in PolicyRow /\ fdIn[p].id \in FdIds
          /\ fdIn[p].op = "mapping" => fdIn[p].row \in MappingRow
    /\ fdAt[p] = "delete" => fdIn[p].id \in FdIds
    /\ fdIn[p].now <= clock

\* Policies and mappings are those of the issuer's row, and there is one mapping.
FdLinked ==
    /\ \A i \in FdIds : fdPolicies[i] # FdNone => fdIdp # FdNone /\ fdPolicies[i].idp = fdIdp.id
    /\ \A i \in FdIds : fdMappings[i] # FdNone => fdIdp # FdNone /\ fdMappings[i].idp = fdIdp.id
    /\ \A i, j \in FdIds : fdMappings[i] # FdNone /\ fdMappings[j] # FdNone => i = j

\* The jti of an assertion that got past the gate has its row until no copy of it can
\* reach the gate any more.
FdWaits(p) ==
    fdAt[p] = "consume" =>
        /\ fdIn[p].now <= fdIn[p].a.exp + Skew
        /\ clock <= fdIn[p].now + MaxLag

FdProbed ==
    /\ \A j \in Jtis : xaJtis[j] # DpNone => xaJtis[j] <= MaxClock + JTIBuffer
    /\ \A x \in fdPast : \A a \in Assertions : x[1] = a.jti =>
          xaJtis[a.jti] = a.exp + JTIBuffer \/ clock > a.exp + JTIBuffer
    /\ OneProbePerAssertion

\* A proof that was consumed has its row until it is too old for the check.
FdChecked(p) ==
    fdAt[p] = "spend" =>
        /\ fdIn[p].now <= ProofIat[fdIn[p].proof] + ProofLifetime
        /\ ProofIat[fdIn[p].proof] <= fdIn[p].now + ProofLifetime

FdSpends ==
    \A q \in fdSpent :
        /\ q \in Proofs
        /\ \/ dpJtis[q] # DpNone /\ ProofIat[q] + ProofLifetime <= dpJtis[q]
           \/ clock > ProofIat[q] + ProofLifetime

\* The issuer withdraws its keys in order; the last one it keeps.
FdPublishes ==
    \E k \in 1 .. Keys : /\ \A j \in 1 .. k - 1 : fdWithdrawn[j] # FdNone
                         /\ \A j \in k .. Keys : fdWithdrawn[j] = FdNone

\* Key k, withdrawn or not, was published until `slack` before `at` at least.
FdPublishedAt(k, at, slack) == fdWithdrawn[k] # FdNone => at <= fdWithdrawn[k] + slack

\* The keys a request works with were published when, at the latest, it says.
FdKeyed(p) ==
    /\ fdAt[p] = "fetch" /\ fdIn[p].row # FdNone =>
          /\ fdIn[p].row.exp <= clock + TTL
          /\ FdPublishedAt(fdIn[p].row.key, fdIn[p].row.exp, TTL)
    /\ fdAt[p] = "store" => FdPublishedAt(fdIn[p].key, fdIn[p].now, 0)
    /\ fdAt[p] = "validate" /\ fdIn[p].key # FdNone /\ fdWithdrawn[fdIn[p].key] # FdNone =>
          fdIn[p].now < fdWithdrawn[fdIn[p].key] + TTL + MaxStale

FdCached ==
    /\ FdPublishes
    /\ fdCache # FdNone =>
          fdCache.exp <= clock + TTL /\ FdPublishedAt(fdCache.key, fdCache.exp, TTL)

\* A request that never saw the user active has not resolved to it.
FdStanding(p) ==
    /\ fdIn[p].gone => "active" \notin UserAnswers
    /\ fdIn[p].sub = "local" => ~fdIn[p].gone

\* The rows that have been: "seed", and those of requests that are done.
FdOld(i) == i = "seed" \/ (i \in DpRequests /\ fdAt[i] = "done")

\* A row about to be written is new, or its deletion saw the update.
FdSaving(p) ==
    fdAt[p] = "save" =>
        /\ fdIn[p].op = "idp" =>
              /\ FdOld(fdIn[p].id)
              /\ <<"idp", fdIn[p].id>> \in fdGone.rows => <<"idp", fdIn[p].id>> \in fdGone.overlapped
        /\ fdIn[p].op = "policy" =>
              /\ FdOld(fdIn[p].id) \/ fdIn[p].id = p
              /\ <<"policy", fdIn[p].id>> \in fdGone.rows =>
                    <<"policy", fdIn[p].id>> \in fdGone.overlapped

FdRows ==
    /\ fdIdp # FdNone => FdOld(fdIdp.id)
    /\ \A i \in FdIds : fdPolicies[i] # FdNone => FdOld(i)
    /\ \A i \in FdIds : <<"idp", i>> \in fdGone.rows \/ <<"policy", i>> \in fdGone.rows => FdOld(i)
    /\ OnlyOverlapRevives

\* What a request may carry away once the ceilings and the policy have been applied.
FdAllowed(p) ==
    /\ fdAt[p] \in {"policy", "proof", "spend", "subject", "issue"} /\ fdIn[p].op = "grant" =>
          fdIn[p].scopes \subseteq ScopeCeiling(fdIn[p].a)
    /\ fdAt[p] \in {"proof", "spend", "subject", "issue"} /\ fdIn[p].op = "grant" =>
          (fdIn[p].bound # FdNone => fdIn[p].scopes \subseteq fdIn[p].bound)

\* What one request carries, and may still do.
FdLocal(p) ==
    /\ FdFits(p) /\ FdWaits(p) /\ FdChecked(p) /\ FdKeyed(p)
    /\ FdStanding(p) /\ FdSaving(p) /\ FdAllowed(p)

\* The tokens that are out.
FdTokens == NoTokenForGoneUser /\ BearerWithinCeilings

FdInv ==
    /\ FdRequests
    /\ \A p \in DpRequests : FdLocal(p)
    /\ FdStored
    /\ FdLinked
    /\ FdProbed
    /\ FdSpends
    /\ FdCached
    /\ FdRows
    /\ FdTokens

-----------------------------------------------------------------------------
\* Request p, and only p, goes to `label`.
FdTo(p, label) ==
    /\ fdAt' \in [DpRequests -> FdLabels] /\ fdAt'[p] = label
    /\ DOMAIN fdIn' = DpRequests /\ FdRequest(fdIn'[p])
    /\ \A b \in DpRequests \ {p} : fdAt'[b] = fdAt[b] /\ fdIn'[b] = fdIn[b]

\* r is the request s, further on.
FdOf(r, s) ==
    /\ r.op = s.op /\ r.a = s.a /\ r.proof = s.proof /\ r.ask = s.ask
    /\ r.id = s.id /\ r.gone = s.gone

\* FdStep moves one request.
LEMMA StepsTo ==
    ASSUME FdRequests, NEW p \in DpRequests, NEW label \in FdLabels, NEW in, FdRequest(in),
           FdStep(p, in, label)
    PROVE  FdTo(p, label) /\ fdIn'[p] = in
  BY DEF FdRequests, FdStep, FdGoto, FdTo

\* FdGoto moves one request, which carries on.
LEMMA GoesTo ==
    ASSUME FdRequests, NEW p \in DpRequests, NEW label \in FdLabels,
           FdGoto(p, label), UNCHANGED fdIn
    PROVE  FdTo(p, label) /\ fdIn'[p] = fdIn[p]
  BY DEF FdRequests, FdGoto, FdTo

\* A request that comes, or ends, carries nothing.
LEMMA IdleRequest ==
    /\ FdRequest(Idle)
    /\ Idle.op = "none" /\ Idle.proof = DpNone /\ Idle.now = 0 /\ Idle.key = FdNone
    /\ Idle.row = FdNone /\ Idle.sub = FdNone /\ Idle.gone = FALSE /\ Idle.scopes = {}
  BY DPoPAssumption DEF FdRequest, Idle, ScopeList

\* FdEnd ends one request.
LEMMA EndsTo ==
    ASSUME FdRequests, NEW p \in DpRequests, FdEnd(p)
    PROVE  FdTo(p, "done") /\ fdIn'[p] = Idle
<1>1. FdStep(p, Idle, "done") /\ "done" \in FdLabels
  BY DEF FdEnd, FdStep, FdLabels
<1> QED BY <1>1, IdleRequest, StepsTo

-----------------------------------------------------------------------------
\* A deletion records the updates that it overlaps.
FdSeesUpdates ==
    /\ fdGone.overlapped \subseteq fdGone'.overlapped
    /\ \A kind \in {"idp", "policy"}, i \in FdIds :
          <<kind, i>> \in fdGone'.rows \ fdGone.rows /\ Updating(kind, i) =>
              <<kind, i>> \in fdGone'.overlapped

\* A request that is done stays done, so what was an old row stays one.
LEMMA OldStays ==
    ASSUME NEW p \in DpRequests, NEW label, FdTo(p, label), fdAt[p] # "done"
    PROVE  \A i : FdOld(i) => FdOld(i)'
  BY DEF FdTo, FdOld

\* A step of one request leaves the others as they are.
LEMMA OthersKeep ==
    ASSUME FdInv, NEW p \in DpRequests, NEW label, FdTo(p, label), fdAt[p] # "done",
           UNCHANGED <<clock, fdUser, fdWithdrawn>>, FdSeesUpdates
    PROVE  \A q \in DpRequests \ {p} : FdRequest(fdIn'[q]) /\ FdLocal(q)'
<1> SUFFICES ASSUME NEW q \in DpRequests \ {p} PROVE FdRequest(fdIn'[q]) /\ FdLocal(q)'
  OBVIOUS
<1>1. fdAt'[q] = fdAt[q] /\ fdIn'[q] = fdIn[q] /\ FdRequest(fdIn[q]) /\ FdLocal(q)
  BY DEF FdTo, FdInv, FdRequests
<1>2. FdFits(q)' /\ FdWaits(q)' /\ FdChecked(q)'
  BY <1>1 DEF FdLocal, FdFits, FdWaits, FdChecked
<1>3. FdKeyed(q)' /\ FdStanding(q)' /\ FdAllowed(q)'
  BY <1>1 DEF FdLocal, FdKeyed, FdPublishedAt, FdStanding, UserAnswers, FdAllowed
<1>4. ASSUME fdAt[q] = "save", NEW kind \in {"idp", "policy"}, fdIn[q].op = kind,
             <<kind, fdIn[q].id>> \in fdGone'.rows
      PROVE  <<kind, fdIn[q].id>> \in fdGone'.overlapped
  <2>1. fdIn[q].id \in FdIds
    BY <1>1, <1>4 DEF FdLocal, FdFits, IdpRow
  <2>2. Updating(kind, fdIn[q].id)
    BY <1>4 DEF Updating
  <2>3. CASE <<kind, fdIn[q].id>> \in fdGone.rows
    BY <1>1, <1>4, <2>3 DEF FdLocal, FdSaving, FdSeesUpdates
  <2> QED BY <1>4, <2>1, <2>2, <2>3 DEF FdSeesUpdates
<1>5. FdSaving(q)'
  BY <1>1, <1>4, OldStays DEF FdLocal, FdSaving
<1> QED BY <1>1, <1>2, <1>3, <1>5 DEF FdLocal

\* A request that ends leaves nothing to ask of it.
LEMMA EndKeeps ==
    ASSUME FdRequests, FdStored, NEW p \in DpRequests, FdEnd(p), UNCHANGED clock
    PROVE  FdTo(p, "done") /\ FdLocal(p)'
<1>1. FdTo(p, "done") /\ fdIn'[p] = Idle /\ fdAt'[p] = "done"
  BY EndsTo DEF FdTo
<1>2. clock' >= 0
  BY DEF FdStored, DPoPTypeOK
<1>3. /\ Idle.op = "none" /\ Idle.now = 0 /\ Idle.sub = FdNone /\ Idle.gone = FALSE
  BY IdleRequest
<1>4. FdFits(p)' /\ FdWaits(p)' /\ FdChecked(p)' /\ FdKeyed(p)'
  BY <1>1, <1>2, <1>3 DEF FdFits, FdWaits, FdChecked, FdKeyed
<1>5. FdStanding(p)' /\ FdSaving(p)' /\ FdAllowed(p)'
  BY <1>1, <1>3 DEF FdStanding, FdSaving, FdAllowed
<1> QED BY <1>1, <1>4, <1>5 DEF FdLocal

\* The key that the issuer publishes is one it has not withdrawn.
LEMMA PublishedKey ==
    ASSUME FdPublishes
    PROVE  Published \in 1 .. Keys /\ fdWithdrawn[Published] = FdNone
           /\ \A j \in 1 .. Published - 1 : fdWithdrawn[j] # FdNone
<1>1. PICK k \in 1 .. Keys : /\ \A j \in 1 .. k - 1 : fdWithdrawn[j] # FdNone
                             /\ \A j \in k .. Keys : fdWithdrawn[j] = FdNone
  BY DEF FdPublishes
<1>2. k \in k .. Keys
  BY FdTimes
<1>3. \E x \in 1 .. Keys :
         fdWithdrawn[x] = FdNone /\ \A j \in 1 .. x - 1 : fdWithdrawn[j] # FdNone
  BY <1>1, <1>2
<1> QED BY <1>3 DEF Published

-----------------------------------------------------------------------------
\* GetKeys reads the entry, which was published while the expiry says.
LEMMA LoadKeysGoes ==
    ASSUME FdInv, NEW p \in DpRequests, LoadKeys(p)
    PROVE  fdAt[p] # "done" /\ \E label \in FdLabels : FdTo(p, label) /\ FdLocal(p)'
<1> DEFINE r == fdIn[p]
<1>0. /\ FdRequests /\ FdStored /\ FdRequest(r) /\ FdLocal(p)
      /\ clock \in 0 .. MaxClock /\ DPoPTypeOK
  BY DEF FdInv, FdRequests, FdStored, DPoPTypeOK

<1>1. fdAt[p] = "load" /\ UNCHANGED <<clock, fdUser, fdWithdrawn>>
  BY DEF LoadKeys, fdWorld, dpVars
<1> DEFINE in == [r EXCEPT !.now = clock, !.row = fdCache]
           ready == [in EXCEPT !.key = fdCache.key, !.row = FdNone]
<1>2. /\ FdRequest(in) /\ FdOf(in, r) /\ in.now = clock /\ in.row = fdCache
      /\ in.sub = r.sub /\ in.key = r.key
  BY <1>0 DEF FdRequest, FdOf
<1>3. IF Fresh(fdCache, clock) THEN FdStep(p, ready, "validate") ELSE FdStep(p, in, "fetch")
  BY DEF LoadKeys
<1> HIDE DEF in
<1>4. CASE Fresh(fdCache, clock)
  <2>1. /\ fdCache.key \in 1 .. Keys /\ fdCache \in FdCopy
        /\ clock < fdCache.exp /\ FdPublishedAt(fdCache.key, fdCache.exp, TTL)
    BY <1>4 DEF Fresh, FdInv, FdStored, FdCached, FdCopy
  <2>2. /\ FdRequest(ready) /\ FdOf(ready, in) /\ ready.now = in.now
        /\ ready.sub = in.sub /\ ready.key = fdCache.key
    BY <1>2, <2>1 DEF FdRequest, FdOf
  <2> HIDE DEF ready
  <2>3. FdTo(p, "validate") /\ fdIn'[p] = ready /\ fdAt'[p] = "validate"
    BY <1>0, <1>3, <1>4, <2>2, StepsTo DEF FdLabels, FdTo
  <2>4. fdWithdrawn[fdCache.key] # FdNone => clock < fdWithdrawn[fdCache.key] + TTL + MaxStale
    BY <2>1, FdTimes, <1>0 DEF FdPublishedAt, FdStored, FdCopy
  <2>5. FdLocal(p)'
    BY <1>0, <1>1, <1>2, <2>2, <2>3, <2>4
        DEF FdOf, FdLocal, FdFits, FdWaits, FdChecked, FdKeyed, FdPublishedAt, FdStanding, FdSaving,
            UserAnswers, FdAllowed
  <2> QED BY <1>1, <2>3, <2>5 DEF FdLabels
<1>5. CASE ~Fresh(fdCache, clock)
  <2>1. FdTo(p, "fetch") /\ fdIn'[p] = in /\ fdAt'[p] = "fetch"
    BY <1>0, <1>2, <1>3, <1>5, StepsTo DEF FdLabels, FdTo
  <2>2. fdCache \in FdCopy \cup {FdNone}
        /\ (fdCache # FdNone =>
              fdCache.exp <= clock + TTL /\ FdPublishedAt(fdCache.key, fdCache.exp, TTL))
    BY DEF FdInv, FdStored, FdCached
  <2>3. FdLocal(p)'
    BY <1>0, <1>1, <1>2, <2>1, <2>2
        DEF FdOf, FdLocal, FdFits, FdWaits, FdChecked, FdKeyed, FdPublishedAt, FdStanding, FdSaving,
            UserAnswers, FdAllowed
  <2> QED BY <1>1, <2>1, <2>3 DEF FdLabels
<1> QED BY <1>4, <1>5

\* What fetchJWKS brings is published now.
LEMMA FetchKeysGoes ==
    ASSUME FdInv, NEW p \in DpRequests, FetchKeys(p)
    PROVE  fdAt[p] # "done" /\ \E label \in FdLabels : FdTo(p, label) /\ FdLocal(p)'
<1> DEFINE r == fdIn[p]
<1>0. /\ FdRequests /\ FdStored /\ FdRequest(r) /\ FdLocal(p)
      /\ clock \in 0 .. MaxClock /\ DPoPTypeOK
  BY DEF FdInv, FdRequests, FdStored, DPoPTypeOK

<1>1. fdAt[p] = "fetch" /\ UNCHANGED <<clock, fdUser, fdWithdrawn>>
  BY DEF FetchKeys, fdWorld, dpVars
<1>2. Published \in 1 .. Keys /\ fdWithdrawn[Published] = FdNone
  BY PublishedKey DEF FdInv, FdCached
<1> DEFINE new == [r EXCEPT !.key = Published, !.row = FdNone]
<1>3. FdRequest(new) /\ FdOf(new, r) /\ new.key = Published /\ new.now = r.now
      /\ new.sub = r.sub
  BY <1>0, <1>2 DEF FdRequest, FdOf
<1>4. FdStep(p, new, "store")
  BY DEF FetchKeys
<1> HIDE DEF new
<1>5. FdTo(p, "store") /\ fdIn'[p] = new /\ fdAt'[p] = "store"
  BY <1>0, <1>3, <1>4, StepsTo DEF FdLabels, FdTo
<1>6. FdLocal(p)'
  BY <1>0, <1>1, <1>2, <1>3, <1>5
      DEF FdOf, FdLocal, FdFits, FdWaits, FdChecked, FdKeyed, FdPublishedAt, FdStanding, FdSaving,
          UserAnswers, FdAllowed
<1> QED BY <1>1, <1>5, <1>6 DEF FdLabels

\* A stale entry is served no longer than its bound allows.
LEMMA FetchFailsGoes ==
    ASSUME FdInv, NEW p \in DpRequests, FetchFails(p)
    PROVE  fdAt[p] # "done" /\ \E label \in FdLabels : FdTo(p, label) /\ FdLocal(p)'
<1> DEFINE r == fdIn[p]
<1>0. /\ FdRequests /\ FdStored /\ FdRequest(r) /\ FdLocal(p)
      /\ clock \in 0 .. MaxClock /\ DPoPTypeOK
  BY DEF FdInv, FdRequests, FdStored, DPoPTypeOK

<1>1. fdAt[p] = "fetch" /\ UNCHANGED <<clock, fdUser, fdWithdrawn>>
  BY DEF FetchFails, fdWorld, dpVars
<1>E. CASE FdEnd(p)
  BY <1>0, <1>1, <1>E, EndKeeps DEF FdLabels
<1>2. CASE StaleButServed(r.row, r.now) /\ ~FdEnd(p)
  <2>1. /\ r.row \in FdCopy /\ r.now < r.row.exp + MaxStale
        /\ FdPublishedAt(r.row.key, r.row.exp, TTL)
    BY <1>0, <1>1, <1>2 DEF FdLocal, FdFits, FdKeyed, StaleButServed
  <2>2. r.row.key \in 1 .. Keys
    BY <2>1 DEF FdCopy
  <2> DEFINE new == [r EXCEPT !.key = r.row.key, !.row = FdNone]
  <2>3. FdRequest(new) /\ FdOf(new, r) /\ new.key = r.row.key /\ new.now = r.now
        /\ new.sub = r.sub
    BY <1>0, <2>2 DEF FdRequest, FdOf
  <2>4. FdStep(p, new, "validate")
    BY <1>2 DEF FetchFails
  <2> HIDE DEF new
  <2>5. FdTo(p, "validate") /\ fdIn'[p] = new /\ fdAt'[p] = "validate"
    BY <1>0, <2>3, <2>4, StepsTo DEF FdLabels, FdTo
  <2>6. fdWithdrawn[r.row.key] # FdNone => r.now < fdWithdrawn[r.row.key] + TTL + MaxStale
    BY <2>1, <2>2, FdTimes, <1>0 DEF FdPublishedAt, FdStored, FdCopy, FdRequest
  <2>7. FdLocal(p)'
    BY <1>0, <1>1, <2>3, <2>5, <2>6
        DEF FdOf, FdLocal, FdFits, FdWaits, FdChecked, FdKeyed, FdPublishedAt, FdStanding, FdSaving,
            UserAnswers, FdAllowed
  <2> QED BY <1>1, <2>5, <2>7 DEF FdLabels
<1> QED BY <1>E, <1>2 DEF FetchFails

\* The keys stored were published at the time that is stored with them.
LEMMA StoreKeysGoes ==
    ASSUME FdInv, NEW p \in DpRequests, StoreKeys(p)
    PROVE  fdAt[p] # "done" /\ \E label \in FdLabels : FdTo(p, label) /\ FdLocal(p)'
<1> DEFINE r == fdIn[p]
<1>0. /\ FdRequests /\ FdStored /\ FdRequest(r) /\ FdLocal(p)
      /\ clock \in 0 .. MaxClock /\ DPoPTypeOK
  BY DEF FdInv, FdRequests, FdStored, DPoPTypeOK

<1>1. fdAt[p] = "store" /\ UNCHANGED <<clock, fdUser, fdWithdrawn>>
  BY DEF StoreKeys, fdWorld, dpVars
<1>2. FdTo(p, "validate") /\ fdIn'[p] = r /\ fdAt'[p] = "validate"
  BY <1>0, GoesTo DEF StoreKeys, FdLabels, FdTo
<1>3. r.key \in 1 .. Keys /\ FdPublishedAt(r.key, r.now, 0)
  BY <1>0, <1>1 DEF FdLocal, FdFits, FdKeyed
<1>4. fdWithdrawn[r.key] # FdNone => r.now < fdWithdrawn[r.key] + TTL + MaxStale
  BY <1>3, FdTimes, FdTTL, <1>0 DEF FdPublishedAt, FdStored, FdRequest
<1>5. FdLocal(p)'
  BY <1>0, <1>1, <1>2, <1>4
      DEF FdLocal, FdFits, FdWaits, FdChecked, FdKeyed, FdPublishedAt, FdStanding, FdSaving,
          UserAnswers, FdAllowed
<1> QED BY <1>1, <1>2, <1>5 DEF FdLabels

\* ValidateIDJAG lets an assertion through until Skew after its exp.
LEMMA ValidateAssertionGoes ==
    ASSUME FdInv, NEW p \in DpRequests, ValidateAssertion(p)
    PROVE  fdAt[p] # "done" /\ \E label \in FdLabels : FdTo(p, label) /\ FdLocal(p)'
<1> DEFINE r == fdIn[p]
<1>0. /\ FdRequests /\ FdStored /\ FdRequest(r) /\ FdLocal(p)
      /\ clock \in 0 .. MaxClock /\ DPoPTypeOK
  BY DEF FdInv, FdRequests, FdStored, DPoPTypeOK

<1>1. fdAt[p] = "validate" /\ UNCHANGED <<clock, fdUser, fdWithdrawn>>
  BY DEF ValidateAssertion, fdWorld, dpVars
<1>E. CASE FdEnd(p)
  BY <1>0, <1>1, <1>E, EndKeeps DEF FdLabels
<1>2. CASE r.op = "grant" /\ Acceptable(r) /\ ~FdEnd(p)
  <2> DEFINE new == [r EXCEPT !.res = EffectiveResource(r), !.now = clock]
  <2>1. FdRequest(new) /\ FdOf(new, r) /\ new.now = clock /\ new.sub = r.sub
    BY <1>0 DEF FdRequest, FdOf
  <2>2. FdStep(p, new, "consume")
    BY <1>2 DEF ValidateAssertion
  <2> HIDE DEF new
  <2>3. FdTo(p, "consume") /\ fdIn'[p] = new /\ fdAt'[p] = "consume"
    BY <1>0, <2>1, <2>2, StepsTo DEF FdLabels, FdTo
  <2>4. clock <= r.a.exp + Skew
    BY <1>2 DEF Acceptable, ValidateIDJAG
  <2>5. FdLocal(p)'
    BY <1>0, <1>1, <1>2, <2>1, <2>3, <2>4, FdTimes
        DEF FdOf, FdLocal, FdFits, FdWaits, FdChecked, FdKeyed, FdPublishedAt, FdStanding, FdSaving,
            UserAnswers, FdAllowed
  <2> QED BY <1>1, <2>3, <2>5 DEF FdLabels
<1> QED BY <1>E, <1>2 DEF ValidateAssertion

\* Step 11: the ceiling is of the client's scopes.
LEMMA CeilingIsScope ==
    ASSUME NEW a \in Assertions
    PROVE  ScopeCeiling(a) \subseteq Scope
<1>1. a.client \in Client
  BY FdAssumption
<1>2. Ceiling[a.client] \subseteq Scope
  BY <1>1 DEF Scope
<1> QED BY <1>2 DEF ScopeCeiling

\* What a request asks for is within the ceiling once it is past step 11.
LEMMA ConsumeAssertionGoes ==
    ASSUME FdInv, NEW p \in DpRequests, ConsumeAssertion(p)
    PROVE  fdAt[p] # "done" /\ \E label \in FdLabels : FdTo(p, label) /\ FdLocal(p)'
<1> DEFINE r == fdIn[p]
<1>0. /\ FdRequests /\ FdStored /\ FdRequest(r) /\ FdLocal(p)
      /\ clock \in 0 .. MaxClock /\ DPoPTypeOK
  BY DEF FdInv, FdRequests, FdStored, DPoPTypeOK

<1>1. fdAt[p] = "consume" /\ UNCHANGED <<clock, fdUser, fdWithdrawn>>
  BY DEF ConsumeAssertion, fdWorld
<1>E. CASE FdEnd(p)
  BY <1>0, <1>1, <1>E, EndKeeps DEF FdLabels
<1>2. CASE ~FdEnd(p)
  <2> DEFINE new == [r EXCEPT !.scopes = EffectiveScopes(r)]
  <2>1. FdStep(p, new, "policy") /\ EffectiveScopes(r) \subseteq ScopeCeiling(r.a)
    BY <1>2 DEF ConsumeAssertion
  <2>2. r.op = "grant" /\ r.a \in Assertions
    BY <1>0, <1>1 DEF FdLocal, FdFits
  <2>3. EffectiveScopes(r) \in SUBSET Scope
    BY <2>1, <2>2, CeilingIsScope
  <2>4. /\ FdRequest(new) /\ FdOf(new, r) /\ new.now = r.now /\ new.sub = r.sub
        /\ new.scopes = EffectiveScopes(r)
    BY <1>0, <2>3 DEF FdRequest, FdOf
  <2> HIDE DEF new
  <2>5. FdTo(p, "policy") /\ fdIn'[p] = new /\ fdAt'[p] = "policy"
    BY <1>0, <2>1, <2>4, StepsTo DEF FdLabels, FdTo
  <2>6. FdLocal(p)'
    BY <1>0, <1>1, <2>1, <2>2, <2>4, <2>5
        DEF FdOf, FdLocal, FdFits, FdWaits, FdChecked, FdKeyed, FdPublishedAt, FdStanding, FdSaving,
            UserAnswers, FdAllowed
  <2> QED BY <1>1, <2>5, <2>6 DEF FdLabels
<1> QED BY <1>E, <1>2

\* The policy that lets a request through allows all that it asks for.
LEMMA EvaluatePolicyGoes ==
    ASSUME FdInv, NEW p \in DpRequests, EvaluatePolicy(p)
    PROVE  fdAt[p] # "done" /\ \E label \in FdLabels : FdTo(p, label) /\ FdLocal(p)'
<1> DEFINE r == fdIn[p]
<1>0. /\ FdRequests /\ FdStored /\ FdRequest(r) /\ FdLocal(p)
      /\ clock \in 0 .. MaxClock /\ DPoPTypeOK
  BY DEF FdInv, FdRequests, FdStored, DPoPTypeOK

<1>1. fdAt[p] = "policy" /\ UNCHANGED <<clock, fdUser, fdWithdrawn>>
  BY DEF EvaluatePolicy, fdWorld, dpVars
<1>E. CASE FdEnd(p)
  BY <1>0, <1>1, <1>E, EndKeeps DEF FdLabels
<1>2. CASE ~FdEnd(p)
  <2>1. PICK i \in PoliciesOf(r.id) :
           /\ PolicyAllows(fdPolicies[i], r)
           /\ FdStep(p, [r EXCEPT !.row = i, !.bound = fdPolicies[i].scopes],
                     IF r.proof = DpNone THEN "subject" ELSE "proof")
    BY <1>2 DEF EvaluatePolicy
  <2> DEFINE label == IF r.proof = DpNone THEN "subject" ELSE "proof"
             new == [r EXCEPT !.row = i, !.bound = fdPolicies[i].scopes]
  <2>2. fdPolicies[i].scopes \in ScopeList
    BY <1>0 DEF FdStored, PoliciesOf, HasPolicy
  <2>3. /\ FdRequest(new) /\ FdOf(new, r) /\ new.now = r.now /\ new.sub = r.sub
        /\ new.scopes = r.scopes /\ new.bound = fdPolicies[i].scopes
    BY <1>0, <2>2 DEF FdRequest, FdOf
  <2>4. r.op = "grant" /\ r.a \in Assertions /\ r.scopes \subseteq ScopeCeiling(r.a)
        /\ (r.proof # DpNone => r.proof \in Proofs)
    BY <1>0, <1>1 DEF FdLocal, FdFits, FdAllowed, FdRequest
  <2>5. fdPolicies[i].scopes # FdNone => r.scopes \subseteq fdPolicies[i].scopes
    BY <2>1 DEF PolicyAllows
  <2> HIDE DEF new
  <2>6. FdTo(p, label) /\ fdIn'[p] = new /\ fdAt'[p] = label /\ label \in FdLabels
    BY <1>0, <2>1, <2>3, StepsTo DEF FdLabels, FdTo, new
  <2>7. FdLocal(p)'
    BY <1>0, <1>1, <2>3, <2>4, <2>5, <2>6
        DEF FdOf, FdLocal, FdFits, FdWaits, FdChecked, FdKeyed, FdPublishedAt, FdStanding, FdSaving,
            UserAnswers, FdAllowed
  <2> QED BY <1>1, <2>6, <2>7
<1> QED BY <1>E, <1>2

\* validateDPoP sends on a proof whose iat is a lifetime away at most.
LEMMA CheckProofGoes ==
    ASSUME FdInv, NEW p \in DpRequests, CheckProof(p)
    PROVE  fdAt[p] # "done" /\ \E label \in FdLabels : FdTo(p, label) /\ FdLocal(p)'
<1> DEFINE r == fdIn[p]
<1>0. /\ FdRequests /\ FdStored /\ FdRequest(r) /\ FdLocal(p)
      /\ clock \in 0 .. MaxClock /\ DPoPTypeOK
  BY DEF FdInv, FdRequests, FdStored, DPoPTypeOK

<1>1. fdAt[p] = "proof" /\ UNCHANGED <<clock, fdUser, fdWithdrawn>>
  BY DEF CheckProof, fdWorld, dpVars
<1>E. CASE FdEnd(p)
  BY <1>0, <1>1, <1>E, EndKeeps DEF FdLabels
<1>2. CASE ValidateProof(r.proof) /\ ~FdEnd(p)
  <2> DEFINE new == [r EXCEPT !.now = clock]
  <2>1. /\ FdRequest(new) /\ FdOf(new, r) /\ new.now = clock /\ new.sub = r.sub
        /\ new.scopes = r.scopes /\ new.bound = r.bound
    BY <1>0 DEF FdRequest, FdOf
  <2>2. FdStep(p, new, "spend")
    BY <1>2 DEF CheckProof
  <2> HIDE DEF new
  <2>3. FdTo(p, "spend") /\ fdIn'[p] = new /\ fdAt'[p] = "spend"
    BY <1>0, <2>1, <2>2, StepsTo DEF FdLabels, FdTo
  <2>4. FdLocal(p)'
    BY <1>0, <1>1, <1>2, <2>1, <2>3
        DEF FdOf, ValidateProof, FdLocal, FdFits, FdWaits, FdChecked, FdKeyed, FdPublishedAt,
            FdStanding, UserAnswers, FdSaving, FdAllowed
  <2> QED BY <1>1, <2>3, <2>4 DEF FdLabels
<1> QED BY <1>E, <1>2 DEF CheckProof

\* A grant whose proof is consumed goes on; a resource's request is over.
LEMMA SpendProofGoes ==
    ASSUME FdInv, NEW p \in DpRequests, SpendProof(p)
    PROVE  fdAt[p] # "done" /\ \E label \in FdLabels : FdTo(p, label) /\ FdLocal(p)'
<1> DEFINE r == fdIn[p]
<1>0. /\ FdRequests /\ FdStored /\ FdRequest(r) /\ FdLocal(p)
      /\ clock \in 0 .. MaxClock /\ DPoPTypeOK
  BY DEF FdInv, FdRequests, FdStored, DPoPTypeOK

<1>1. fdAt[p] = "spend" /\ UNCHANGED <<clock, fdUser, fdWithdrawn>>
  BY DEF SpendProof, fdWorld
<1>E. CASE FdEnd(p)
  BY <1>0, <1>1, <1>E, EndKeeps DEF FdLabels
<1>2. CASE ~FdEnd(p)
  <2>1. r.op = "grant" /\ FdGoto(p, "subject") /\ UNCHANGED fdIn
    BY <1>2 DEF SpendProof
  <2>2. FdTo(p, "subject") /\ fdIn'[p] = r /\ fdAt'[p] = "subject"
    BY <1>0, <2>1, GoesTo DEF FdLabels, FdTo
  <2>3. FdLocal(p)'
    BY <1>0, <1>1, <2>1, <2>2
        DEF FdLocal, FdFits, FdWaits, FdChecked, FdKeyed, FdPublishedAt, FdStanding, FdSaving,
            UserAnswers, FdAllowed
  <2> QED BY <1>1, <2>2, <2>3 DEF FdLabels
<1> QED BY <1>E, <1>2

\* checkLocalUserActive: a request that resolves to the user has seen it active.
LEMMA ResolveSubjectGoes ==
    ASSUME FdInv, NEW p \in DpRequests, ResolveSubject(p)
    PROVE  fdAt[p] # "done" /\ \E label \in FdLabels : FdTo(p, label) /\ FdLocal(p)'
<1> DEFINE r == fdIn[p]
<1>0. /\ FdRequests /\ FdStored /\ FdRequest(r) /\ FdLocal(p)
      /\ clock \in 0 .. MaxClock /\ DPoPTypeOK
  BY DEF FdInv, FdRequests, FdStored, DPoPTypeOK

<1>1. fdAt[p] = "subject" /\ UNCHANGED <<clock, fdUser, fdWithdrawn>>
  BY DEF ResolveSubject, fdWorld, dpVars
<1>E. CASE FdEnd(p)
  BY <1>0, <1>1, <1>E, EndKeeps DEF FdLabels
<1>2. CASE ~FdEnd(p)
  <2>1. PICK sub \in {"local", "pair"} :
           /\ sub = "local" => "active" \in UserAnswers
           /\ FdStep(p, [r EXCEPT !.sub = sub], "issue")
    <3>1. CASE FdStep(p, [r EXCEPT !.sub = "pair"], "issue")
      BY <3>1
    <3>2. CASE LocalUserActive /\ FdStep(p, [r EXCEPT !.sub = "local"], "issue")
      BY <3>2 DEF LocalUserActive
    <3> QED BY <1>2, <3>1, <3>2 DEF ResolveSubject
  <2> DEFINE new == [r EXCEPT !.sub = sub]
  <2>2. /\ FdRequest(new) /\ FdOf(new, r) /\ new.now = r.now /\ new.sub = sub
        /\ new.scopes = r.scopes /\ new.bound = r.bound
    BY <1>0 DEF FdRequest, FdOf
  <2>3. FdStep(p, new, "issue")
    BY <2>1
  <2> HIDE DEF new
  <2>4. FdTo(p, "issue") /\ fdIn'[p] = new /\ fdAt'[p] = "issue"
    BY <1>0, <2>2, <2>3, StepsTo DEF FdLabels, FdTo
  <2>5. FdLocal(p)'
    BY <1>0, <1>1, <2>1, <2>2, <2>4
        DEF FdOf, FdLocal, FdFits, FdWaits, FdChecked, FdKeyed, FdPublishedAt, FdStanding, FdSaving,
            UserAnswers, FdAllowed
  <2> QED BY <1>1, <2>4, <2>5 DEF FdLabels
<1> QED BY <1>E, <1>2

\* The request for a token ends with the insert of its issuance.
LEMMA IssueBearerGoes ==
    ASSUME FdInv, NEW p \in DpRequests, IssueBearer(p)
    PROVE  fdAt[p] # "done" /\ \E label \in FdLabels : FdTo(p, label) /\ FdLocal(p)'
<1> DEFINE r == fdIn[p]
<1>0. /\ FdRequests /\ FdStored /\ FdRequest(r) /\ FdLocal(p)
      /\ clock \in 0 .. MaxClock /\ DPoPTypeOK
  BY DEF FdInv, FdRequests, FdStored, DPoPTypeOK

<1>1. fdAt[p] # "done" /\ UNCHANGED clock /\ FdEnd(p)
  BY DEF IssueBearer, dpVars
<1> QED BY <1>0, <1>1, EndKeeps DEF FdLabels

\* Registration is one call of the store.
LEMMA RegisterIDPGoes ==
    ASSUME FdInv, NEW p \in DpRequests, RegisterIDP(p)
    PROVE  fdAt[p] # "done" /\ \E label \in FdLabels : FdTo(p, label) /\ FdLocal(p)'
<1> DEFINE r == fdIn[p]
<1>0. /\ FdRequests /\ FdStored /\ FdRequest(r) /\ FdLocal(p)
      /\ clock \in 0 .. MaxClock /\ DPoPTypeOK
  BY DEF FdInv, FdRequests, FdStored, DPoPTypeOK

<1>1. fdAt[p] # "done" /\ UNCHANGED clock /\ FdEnd(p)
  BY DEF RegisterIDP, FdArrive, dpVars
<1> QED BY <1>0, <1>1, EndKeeps DEF FdLabels

\* UpdateIDP ends with its Save.
LEMMA SaveUpdatedIdpGoes ==
    ASSUME FdInv, NEW p \in DpRequests, SaveUpdatedIdp(p)
    PROVE  fdAt[p] # "done" /\ \E label \in FdLabels : FdTo(p, label) /\ FdLocal(p)'
<1> DEFINE r == fdIn[p]
<1>0. /\ FdRequests /\ FdStored /\ FdRequest(r) /\ FdLocal(p)
      /\ clock \in 0 .. MaxClock /\ DPoPTypeOK
  BY DEF FdInv, FdRequests, FdStored, DPoPTypeOK

<1>1. fdAt[p] # "done" /\ UNCHANGED clock /\ FdEnd(p)
  BY DEF SaveUpdatedIdp, dpVars
<1> QED BY <1>0, <1>1, EndKeeps DEF FdLabels

\* CreatePolicy and UpdatePolicy end with their Save.
LEMMA SaveWrittenPolicyGoes ==
    ASSUME FdInv, NEW p \in DpRequests, SaveWrittenPolicy(p)
    PROVE  fdAt[p] # "done" /\ \E label \in FdLabels : FdTo(p, label) /\ FdLocal(p)'
<1> DEFINE r == fdIn[p]
<1>0. /\ FdRequests /\ FdStored /\ FdRequest(r) /\ FdLocal(p)
      /\ clock \in 0 .. MaxClock /\ DPoPTypeOK
  BY DEF FdInv, FdRequests, FdStored, DPoPTypeOK

<1>1. fdAt[p] # "done" /\ UNCHANGED clock /\ FdEnd(p)
  BY DEF SaveWrittenPolicy, dpVars
<1> QED BY <1>0, <1>1, EndKeeps DEF FdLabels

\* DeletePolicy is one call of the store.
LEMMA DeletePolicyGoes ==
    ASSUME FdInv, NEW p \in DpRequests, DeletePolicy(p)
    PROVE  fdAt[p] # "done" /\ \E label \in FdLabels : FdTo(p, label) /\ FdLocal(p)'
<1> DEFINE r == fdIn[p]
<1>0. /\ FdRequests /\ FdStored /\ FdRequest(r) /\ FdLocal(p)
      /\ clock \in 0 .. MaxClock /\ DPoPTypeOK
  BY DEF FdInv, FdRequests, FdStored, DPoPTypeOK

<1>1. fdAt[p] # "done" /\ UNCHANGED clock /\ FdEnd(p)
  BY DEF DeletePolicy, FdArrive, dpVars
<1> QED BY <1>0, <1>1, EndKeeps DEF FdLabels

\* CreateMapping ends with its Save.
LEMMA SaveCreatedMappingGoes ==
    ASSUME FdInv, NEW p \in DpRequests, SaveCreatedMapping(p)
    PROVE  fdAt[p] # "done" /\ \E label \in FdLabels : FdTo(p, label) /\ FdLocal(p)'
<1> DEFINE r == fdIn[p]
<1>0. /\ FdRequests /\ FdStored /\ FdRequest(r) /\ FdLocal(p)
      /\ clock \in 0 .. MaxClock /\ DPoPTypeOK
  BY DEF FdInv, FdRequests, FdStored, DPoPTypeOK

<1>1. fdAt[p] # "done" /\ UNCHANGED clock /\ FdEnd(p)
  BY DEF SaveCreatedMapping, dpVars
<1> QED BY <1>0, <1>1, EndKeeps DEF FdLabels

\* DeleteMapping is one call of the store.
LEMMA DeleteMappingGoes ==
    ASSUME FdInv, NEW p \in DpRequests, DeleteMapping(p)
    PROVE  fdAt[p] # "done" /\ \E label \in FdLabels : FdTo(p, label) /\ FdLocal(p)'
<1> DEFINE r == fdIn[p]
<1>0. /\ FdRequests /\ FdStored /\ FdRequest(r) /\ FdLocal(p)
      /\ clock \in 0 .. MaxClock /\ DPoPTypeOK
  BY DEF FdInv, FdRequests, FdStored, DPoPTypeOK

<1>1. fdAt[p] # "done" /\ UNCHANGED clock /\ FdEnd(p)
  BY DEF DeleteMapping, FdArrive, dpVars
<1> QED BY <1>0, <1>1, EndKeeps DEF FdLabels

\* DeleteIDP goes on to the cache.
LEMMA DeleteIDPGoes ==
    ASSUME FdInv, NEW p \in DpRequests, DeleteIDP(p)
    PROVE  fdAt[p] # "done" /\ \E label \in FdLabels : FdTo(p, label) /\ FdLocal(p)'
<1> DEFINE r == fdIn[p]
<1>0. /\ FdRequests /\ FdStored /\ FdRequest(r) /\ FdLocal(p)
      /\ clock \in 0 .. MaxClock /\ DPoPTypeOK
  BY DEF FdInv, FdRequests, FdStored, DPoPTypeOK

<1>1. fdAt[p] = "delete" /\ UNCHANGED <<clock, fdUser, fdWithdrawn>>
  BY DEF DeleteIDP, fdWorld, dpVars
<1>E. CASE FdEnd(p)
  BY <1>0, <1>1, <1>E, EndKeeps DEF FdLabels
<1>2. CASE FdGoto(p, "invalidate") /\ UNCHANGED fdIn
  <2>2. FdTo(p, "invalidate") /\ fdIn'[p] = r /\ fdAt'[p] = "invalidate"
    BY <1>0, <1>2, GoesTo DEF FdLabels, FdTo
  <2>3. FdLocal(p)'
    BY <1>0, <1>1, <2>2
        DEF FdLocal, FdFits, FdWaits, FdChecked, FdKeyed, FdPublishedAt, FdStanding, FdSaving,
            UserAnswers, FdAllowed
  <2> QED BY <1>1, <2>2, <2>3 DEF FdLabels
<1> QED BY <1>E, <1>2 DEF DeleteIDP

\* RefreshKeys goes on to GetKeys; it carries no assertion.
LEMMA InvalidateKeysGoes ==
    ASSUME FdInv, NEW p \in DpRequests, InvalidateKeys(p)
    PROVE  fdAt[p] # "done" /\ \E label \in FdLabels : FdTo(p, label) /\ FdLocal(p)'
<1> DEFINE r == fdIn[p]
<1>0. /\ FdRequests /\ FdStored /\ FdRequest(r) /\ FdLocal(p)
      /\ clock \in 0 .. MaxClock /\ DPoPTypeOK
  BY DEF FdInv, FdRequests, FdStored, DPoPTypeOK

<1>1. fdAt[p] = "invalidate" /\ UNCHANGED <<clock, fdUser, fdWithdrawn>>
  BY DEF InvalidateKeys, fdWorld, dpVars
<1>E. CASE FdEnd(p)
  BY <1>0, <1>1, <1>E, EndKeeps DEF FdLabels
<1>2. CASE r.op = "refresh" /\ FdGoto(p, "load") /\ UNCHANGED fdIn
  <2>2. FdTo(p, "load") /\ fdIn'[p] = r /\ fdAt'[p] = "load"
    BY <1>0, <1>2, GoesTo DEF FdLabels, FdTo
  <2>3. FdLocal(p)'
    BY <1>0, <1>1, <1>2, <2>2
        DEF FdLocal, FdFits, FdWaits, FdChecked, FdKeyed, FdPublishedAt, FdStanding, FdSaving,
            UserAnswers, FdAllowed
  <2> QED BY <1>1, <2>2, <2>3 DEF FdLabels
<1> QED BY <1>E, <1>2 DEF InvalidateKeys

\* A grant comes; it notes whether the user stands.
LEMMA GrantJWTBearerGoes ==
    ASSUME FdInv, NEW p \in DpRequests, GrantJWTBearer(p)
    PROVE  fdAt[p] # "done" /\ \E label \in FdLabels : FdTo(p, label) /\ FdLocal(p)'
<1> DEFINE r == fdIn[p]
<1>0. /\ FdRequests /\ FdStored /\ FdRequest(r) /\ FdLocal(p)
      /\ clock \in 0 .. MaxClock /\ DPoPTypeOK
  BY DEF FdInv, FdRequests, FdStored, DPoPTypeOK

<1>1. fdAt[p] = "idle" /\ UNCHANGED <<clock, fdUser, fdWithdrawn>>
  BY DEF GrantJWTBearer, FdArrive, fdWorld
<1>2. PICK a \in fdWork.with, res \in AskedResources, ask \in fdWork.asks,
           q \in Proofs \cup {DpNone}, id \in FdIds, gone \in BOOLEAN :
         /\ gone = ("active" \notin UserAnswers)
         /\ FdStep(p, [Idle EXCEPT !.op = "grant", !.a = a, !.proof = q, !.res = res,
                                   !.ask = ask, !.id = id, !.gone = gone], "load")
  <2>1. fdIdp.id \in FdIds
    BY <1>0 DEF GrantJWTBearer, FdStored, IdpRow
  <2>2. ("active" \notin UserAnswers) \in BOOLEAN
    OBVIOUS
  <2>3. PICK a \in fdWork.with, res \in AskedResources, ask \in fdWork.asks,
             q \in (IF "proofs" \in fdWork.world THEN Proofs ELSE {}) \cup {DpNone} :
           FdStep(p, [Idle EXCEPT !.op = "grant", !.a = a, !.proof = q, !.res = res,
                                  !.ask = ask, !.id = fdIdp.id,
                                  !.gone = "active" \notin UserAnswers], "load")
    BY Zenon DEF GrantJWTBearer
  <2>4. q \in Proofs \cup {DpNone}
    BY <2>3
  <2> QED BY <2>1, <2>2, <2>3, <2>4, Zenon
<1>3. a \in Assertions /\ ask \in SUBSET Scope
  BY <1>0, FdAssumption DEF FdStored
<1> DEFINE new == [Idle EXCEPT !.op = "grant", !.a = a, !.proof = q, !.res = res,
                               !.ask = ask, !.id = id, !.gone = gone]
<1>4. /\ new.op = "grant" /\ new.a = a /\ new.proof = q /\ new.now = 0 /\ new.gone = gone
      /\ new.sub = FdNone /\ new.sub # "local"
  BY FdNoneAssumption DEF Idle
<1>5. FdRequest(new)
  BY <1>2, <1>3, IdleRequest DEF FdRequest
<1>6. FdStep(p, new, "load")
  BY <1>2
<1> HIDE DEF new
<1>7. FdTo(p, "load") /\ fdIn'[p] = new /\ fdAt'[p] = "load"
  BY <1>0, <1>5, <1>6, StepsTo DEF FdLabels, FdTo
<1>8. gone => "active" \notin UserAnswers
  BY <1>2, Zenon
<1>9. FdLocal(p)'
  BY <1>0, <1>1, <1>3, <1>4, <1>7, <1>8
      DEF FdLocal, FdFits, FdWaits, FdChecked, FdKeyed, FdPublishedAt, FdStanding, FdSaving,
          UserAnswers, FdAllowed
<1> QED BY <1>1, <1>7, <1>9 DEF FdLabels

\* A grant of another kind comes with its proof.
LEMMA OtherGrantGoes ==
    ASSUME FdInv, NEW p \in DpRequests, OtherGrant(p)
    PROVE  fdAt[p] # "done" /\ \E label \in FdLabels : FdTo(p, label) /\ FdLocal(p)'
<1> DEFINE r == fdIn[p]
<1>0. /\ FdRequests /\ FdStored /\ FdRequest(r) /\ FdLocal(p)
      /\ clock \in 0 .. MaxClock /\ DPoPTypeOK
  BY DEF FdInv, FdRequests, FdStored, DPoPTypeOK

<1>1. fdAt[p] = "idle" /\ UNCHANGED <<clock, fdUser, fdWithdrawn>>
  BY DEF OtherGrant, FdArrive, fdWorld
<1>2. PICK q \in Proofs : FdStep(p, [Idle EXCEPT !.op = "proof", !.proof = q], "proof")
  BY Zenon DEF OtherGrant
<1> DEFINE new == [Idle EXCEPT !.op = "proof", !.proof = q]
<1>4. /\ new.now = 0 /\ new.gone = FALSE /\ new.sub = FdNone
      /\ new.op = "proof" /\ new.proof = q
  BY DEF Idle
<1>5. FdRequest(new)
  BY IdleRequest DEF FdRequest
<1>6. FdStep(p, new, "proof")
  BY <1>2
<1> HIDE DEF new
<1>7. FdTo(p, "proof") /\ fdIn'[p] = new /\ fdAt'[p] = "proof" /\ "proof" \in FdLabels
  BY <1>0, <1>2, <1>5, <1>6, StepsTo DEF FdLabels, FdTo
<1>8. clock >= 0
  BY <1>0
<1>9. FdLocal(p)'
  BY <1>0, <1>1, <1>2, <1>4, <1>7, <1>8
      DEF FdLocal, FdFits, FdWaits, FdChecked, FdKeyed, FdPublishedAt, FdStanding, FdSaving,
          UserAnswers, FdAllowed
<1> QED BY <1>1, <1>7, <1>9

\* A resource's request comes, and its proof is checked.
LEMMA GuardResourceGoes ==
    ASSUME FdInv, NEW p \in DpRequests, GuardResource(p)
    PROVE  fdAt[p] # "done" /\ \E label \in FdLabels : FdTo(p, label) /\ FdLocal(p)'
<1> DEFINE r == fdIn[p]
<1>0. /\ FdRequests /\ FdStored /\ FdRequest(r) /\ FdLocal(p)
      /\ clock \in 0 .. MaxClock /\ DPoPTypeOK
  BY DEF FdInv, FdRequests, FdStored, DPoPTypeOK

<1>1. fdAt[p] = "idle" /\ UNCHANGED <<clock, fdUser, fdWithdrawn>>
  BY DEF GuardResource, FdArrive, fdWorld, dpVars
<1>E. CASE FdEnd(p)
  BY <1>0, <1>1, <1>E, EndKeeps DEF FdLabels
<1>2. CASE ~FdEnd(p)
  <2>2. PICK q \in Proofs :
           /\ ValidateProof(q)
           /\ FdStep(p, [Idle EXCEPT !.op = "resource", !.proof = q, !.now = clock], "spend")
    <3>1. PICK q \in Proofs \cup {DpNone}, scheme \in {"Bearer", "DPoP"},
               binding \in {"none", "the proof's key", "another key"} :
             IF (binding # "none" \/ scheme = "DPoP") /\ BindingHolds(q, scheme, binding)
             THEN FdStep(p, [Idle EXCEPT !.op = "resource", !.proof = q, !.now = clock], "spend")
             ELSE FdEnd(p)
      BY Zenon DEF GuardResource
    <3> QED BY <1>2, <3>1, Zenon DEF BindingHolds
  <2> DEFINE new == [Idle EXCEPT !.op = "resource", !.proof = q, !.now = clock]
  <2>3. /\ new.now = clock /\ new.gone = FALSE /\ new.sub = FdNone
        /\ new.op = "resource" /\ new.proof = q
    BY DEF Idle
  <2>4. clock \in 0 .. MaxClock /\ clock' = clock
    BY <1>0, <1>1
  <2>8. FdRequest(new)
    BY <2>2, <2>4, IdleRequest DEF FdRequest
  <2>5. FdStep(p, new, "spend")
    BY <2>2
  <2> HIDE DEF new
  <2>6. FdTo(p, "spend") /\ fdIn'[p] = new /\ fdAt'[p] = "spend"
    BY <1>0, <2>8, <2>5, StepsTo DEF FdLabels, FdTo
  <2>7. FdLocal(p)'
    BY <1>0, <1>1, <2>2, <2>3, <2>6
        DEF ValidateProof, FdLocal, FdFits, FdWaits, FdChecked, FdKeyed, FdPublishedAt, FdStanding,
            FdSaving, FdAllowed
  <2> QED BY <1>1, <2>6, <2>7 DEF FdLabels
<1> QED BY <1>E, <1>2

\* UpdateIDP carries the row it read.
LEMMA UpdateIDPGoes ==
    ASSUME FdInv, NEW p \in DpRequests, UpdateIDP(p)
    PROVE  fdAt[p] # "done" /\ \E label \in FdLabels : FdTo(p, label) /\ FdLocal(p)'
<1> DEFINE r == fdIn[p]
<1>0. /\ FdRequests /\ FdStored /\ FdRequest(r) /\ FdLocal(p)
      /\ clock \in 0 .. MaxClock /\ DPoPTypeOK
  BY DEF FdInv, FdRequests, FdStored, DPoPTypeOK

<1>1. fdAt[p] = "idle" /\ UNCHANGED <<clock, fdUser, fdWithdrawn>>
  BY DEF UpdateIDP, FdArrive, fdWorld, dpVars
<1>2. PICK i \in FdIds, b \in BOOLEAN :
         /\ ReadIdpForUpdate(i)
         /\ FdStep(p, [Idle EXCEPT !.op = "idp", !.id = i,
                                   !.row = [id |-> i, enabled |-> b]], "save")
  BY Zenon DEF UpdateIDP
<1> DEFINE new == [Idle EXCEPT !.op = "idp", !.id = i, !.row = [id |-> i, enabled |-> b]]
<1>4. /\ new.now = 0 /\ new.gone = FALSE /\ new.sub = FdNone
      /\ new.op = "idp" /\ new.id = i /\ new.row = [id |-> i, enabled |-> b]
  BY DEF Idle
<1>5. FdRequest(new)
  BY IdleRequest DEF FdRequest
<1>6. FdStep(p, new, "save")
  BY <1>2
<1> HIDE DEF new
<1>7. FdTo(p, "save") /\ fdIn'[p] = new /\ fdAt'[p] = "save" /\ "save" \in FdLabels
  BY <1>0, <1>2, <1>5, <1>6, StepsTo DEF FdLabels, FdTo
<1>8. /\ clock >= 0 /\ new.row \in IdpRow /\ new.row.id = i
      /\ FdOld(i)' /\ UNCHANGED fdGone
      /\ <<"idp", i>> \in fdGone.rows => <<"idp", i>> \in fdGone.overlapped
  BY <1>0, <1>1, <1>2, <1>4, <1>7, OldStays
     DEF IdpRow, FdInv, FdRows, ReadIdpForUpdate, IdpHas, OnlyOverlapRevives, UpdateIDP,
         fdAdminVars
<1>9. FdLocal(p)'
  BY <1>0, <1>1, <1>2, <1>4, <1>7, <1>8
      DEF FdLocal, FdFits, FdWaits, FdChecked, FdKeyed, FdPublishedAt, FdStanding, FdSaving,
          UserAnswers, FdAllowed
<1> QED BY <1>1, <1>7, <1>9

\* DeleteIDP and RefreshKeys carry the id of the row.
LEMMA ReadIdpGoes ==
    ASSUME FdInv, NEW p \in DpRequests, ReadIdp(p)
    PROVE  fdAt[p] # "done" /\ \E label \in FdLabels : FdTo(p, label) /\ FdLocal(p)'
<1> DEFINE r == fdIn[p]
<1>0. /\ FdRequests /\ FdStored /\ FdRequest(r) /\ FdLocal(p)
      /\ clock \in 0 .. MaxClock /\ DPoPTypeOK
  BY DEF FdInv, FdRequests, FdStored, DPoPTypeOK

<1>1. fdAt[p] = "idle" /\ UNCHANGED <<clock, fdUser, fdWithdrawn>>
  BY DEF ReadIdp, FdArrive, fdWorld, dpVars
<1>2. PICK op \in {"deleteIdp", "refresh"} :
         FdStep(p, [Idle EXCEPT !.op = op, !.id = fdIdp.id],
                IF op = "refresh" THEN "invalidate" ELSE "delete")
  BY Zenon DEF ReadIdp
<1>3. fdIdp.id \in FdIds
  BY <1>0 DEF ReadIdp, FdStored, IdpRow
<1> DEFINE label == IF op = "refresh" THEN "invalidate" ELSE "delete"
<1> DEFINE new == [Idle EXCEPT !.op = op, !.id = fdIdp.id]
<1>4. /\ new.now = 0 /\ new.gone = FALSE /\ new.sub = FdNone
      /\ new.op = op /\ new.id = fdIdp.id
  BY DEF Idle
<1>5. FdRequest(new)
  BY <1>3, IdleRequest DEF FdRequest
<1>6. FdStep(p, new, label)
  BY <1>2
<1> HIDE DEF new
<1>7. FdTo(p, label) /\ fdIn'[p] = new /\ fdAt'[p] = label /\ label \in FdLabels
  BY <1>0, <1>2, <1>5, <1>6, StepsTo DEF FdLabels, FdTo
<1>8. clock >= 0 /\ new.id \in FdIds
  BY <1>0, <1>3, <1>4
<1>9. FdLocal(p)'
  BY <1>0, <1>1, <1>2, <1>4, <1>7, <1>8
      DEF FdLocal, FdFits, FdWaits, FdChecked, FdKeyed, FdPublishedAt, FdStanding, FdSaving,
          UserAnswers, FdAllowed
<1> QED BY <1>1, <1>7, <1>9

\* A policy that is created has an id of its own.
LEMMA CreatePolicyGoes ==
    ASSUME FdInv, NEW p \in DpRequests, CreatePolicy(p)
    PROVE  fdAt[p] # "done" /\ \E label \in FdLabels : FdTo(p, label) /\ FdLocal(p)'
<1> DEFINE r == fdIn[p]
<1>0. /\ FdRequests /\ FdStored /\ FdRequest(r) /\ FdLocal(p)
      /\ clock \in 0 .. MaxClock /\ DPoPTypeOK
  BY DEF FdInv, FdRequests, FdStored, DPoPTypeOK

<1>1. fdAt[p] = "idle" /\ UNCHANGED <<clock, fdUser, fdWithdrawn>>
  BY DEF CreatePolicy, FdArrive, fdWorld, dpVars
<1>2. PICK row : /\ row \in PolicyRow
                 /\ FdStep(p, [Idle EXCEPT !.op = "policy", !.id = p, !.row = row], "save")
  <2>1. fdIdp.id \in FdIds
    BY <1>0 DEF CreatePolicy, FdStored, IdpRow
  <2>2. PICK e \in PolicyEdits :
          FdStep(p, [Idle EXCEPT !.op = "policy", !.id = p,
                       !.row = [idp |-> fdIdp.id, enabled |-> TRUE, clients |-> e.clients,
                                resources |-> e.resources, scopes |-> e.scopes]], "save")
    BY Zenon DEF CreatePolicy
  <2>3. [idp |-> fdIdp.id, enabled |-> TRUE, clients |-> e.clients,
         resources |-> e.resources, scopes |-> e.scopes] \in PolicyRow
    BY <2>1, FdAssumption DEF PolicyRow
  <2> QED BY <2>2, <2>3, Zenon
<1>3. p \in FdIds
  BY DEF FdIds
<1> DEFINE new == [Idle EXCEPT !.op = "policy", !.id = p, !.row = row]
<1>4. /\ new.now = 0 /\ new.gone = FALSE /\ new.sub = FdNone
      /\ new.op = "policy" /\ new.id = p /\ new.row = row
  BY DEF Idle
<1>5. FdRequest(new)
  BY <1>3, IdleRequest DEF FdRequest
<1>6. FdStep(p, new, "save")
  BY <1>2
<1> HIDE DEF new
<1>7. FdTo(p, "save") /\ fdIn'[p] = new /\ fdAt'[p] = "save" /\ "save" \in FdLabels
  BY <1>0, <1>2, <1>5, <1>6, StepsTo DEF FdLabels, FdTo
<1>8. /\ clock >= 0 /\ p \in FdIds /\ UNCHANGED fdGone
      /\ <<"policy", p>> \notin fdGone.rows
  <2>1. ~FdOld(p) /\ p \in FdIds
    BY <1>1, FdSeed DEF FdOld, FdIds
  <2>2. UNCHANGED fdGone
    BY DEF CreatePolicy, fdAdminVars
  <2>3. <<"policy", p>> \notin fdGone.rows
    BY <2>1 DEF FdInv, FdRows
  <2> QED BY <1>0, <2>1, <2>2, <2>3
<1>9. FdLocal(p)'
  BY <1>0, <1>1, <1>2, <1>4, <1>7, <1>8
      DEF FdLocal, FdFits, FdWaits, FdChecked, FdKeyed, FdPublishedAt, FdStanding, FdSaving,
          UserAnswers, FdAllowed
<1> QED BY <1>1, <1>7, <1>9

\* UpdatePolicy carries the row it read, with the edit laid over it.
LEMMA UpdatePolicyGoes ==
    ASSUME FdInv, NEW p \in DpRequests, UpdatePolicy(p)
    PROVE  fdAt[p] # "done" /\ \E label \in FdLabels : FdTo(p, label) /\ FdLocal(p)'
<1> DEFINE r == fdIn[p]
<1>0. /\ FdRequests /\ FdStored /\ FdRequest(r) /\ FdLocal(p)
      /\ clock \in 0 .. MaxClock /\ DPoPTypeOK
  BY DEF FdInv, FdRequests, FdStored, DPoPTypeOK

<1>1. fdAt[p] = "idle" /\ UNCHANGED <<clock, fdUser, fdWithdrawn>>
  BY DEF UpdatePolicy, FdArrive, fdWorld, dpVars
<1>2. PICK i \in FdIds, row \in PolicyRow :
         /\ fdPolicies[i] # FdNone
         /\ FdStep(p, [Idle EXCEPT !.op = "policy", !.id = i, !.row = row], "save")
  <2>1. PICK i \in FdIds, e \in PolicyEdits :
          /\ HasPolicy(i)
          /\ FdStep(p, [Idle EXCEPT !.op = "policy", !.id = i,
                          !.row = [fdPolicies[i] EXCEPT
                                     !.enabled = e.enabled, !.clients = e.clients,
                                     !.resources = e.resources,
                                     !.scopes = IF e.scopes = FdNone THEN fdPolicies[i].scopes
                                                ELSE e.scopes]], "save")
    BY Zenon DEF UpdatePolicy
  <2>2. fdPolicies[i] \in PolicyRow /\ fdPolicies[i] # FdNone
    BY <1>0, <2>1 DEF FdStored, HasPolicy, PolicyRow
  <2>3. [fdPolicies[i] EXCEPT !.enabled = e.enabled, !.clients = e.clients,
                              !.resources = e.resources,
                              !.scopes = IF e.scopes = FdNone THEN fdPolicies[i].scopes
                                         ELSE e.scopes] \in PolicyRow
    BY <2>2, FdAssumption DEF PolicyRow
  <2> QED BY <2>1, <2>2, <2>3, Zenon
<1> DEFINE new == [Idle EXCEPT !.op = "policy", !.id = i, !.row = row]
<1>4. /\ new.now = 0 /\ new.gone = FALSE /\ new.sub = FdNone
      /\ new.op = "policy" /\ new.id = i /\ new.row = row
  BY DEF Idle
<1>5. FdRequest(new)
  BY IdleRequest DEF FdRequest
<1>6. FdStep(p, new, "save")
  BY <1>2
<1> HIDE DEF new
<1>7. FdTo(p, "save") /\ fdIn'[p] = new /\ fdAt'[p] = "save" /\ "save" \in FdLabels
  BY <1>0, <1>2, <1>5, <1>6, StepsTo DEF FdLabels, FdTo
<1>8. /\ clock >= 0 /\ FdOld(i)' /\ UNCHANGED fdGone
      /\ <<"policy", i>> \in fdGone.rows => <<"policy", i>> \in fdGone.overlapped
  BY <1>0, <1>1, <1>2, <1>7, OldStays
     DEF FdInv, FdRows, OnlyOverlapRevives, UpdatePolicy, fdAdminVars
<1>9. FdLocal(p)'
  BY <1>0, <1>1, <1>2, <1>4, <1>7, <1>8
      DEF FdLocal, FdFits, FdWaits, FdChecked, FdKeyed, FdPublishedAt, FdStanding, FdSaving,
          UserAnswers, FdAllowed
<1> QED BY <1>1, <1>7, <1>9

\* A mapping that is created names the issuer's row.
LEMMA CreateMappingGoes ==
    ASSUME FdInv, NEW p \in DpRequests, CreateMapping(p)
    PROVE  fdAt[p] # "done" /\ \E label \in FdLabels : FdTo(p, label) /\ FdLocal(p)'
<1> DEFINE r == fdIn[p]
<1>0. /\ FdRequests /\ FdStored /\ FdRequest(r) /\ FdLocal(p)
      /\ clock \in 0 .. MaxClock /\ DPoPTypeOK
  BY DEF FdInv, FdRequests, FdStored, DPoPTypeOK

<1>1. fdAt[p] = "idle" /\ UNCHANGED <<clock, fdUser, fdWithdrawn>>
  BY DEF CreateMapping, FdArrive, fdWorld, dpVars
<1>2. PICK row : /\ row \in MappingRow
                 /\ FdStep(p, [Idle EXCEPT !.op = "mapping", !.row = row], "save")
  <2>1. fdIdp.id \in FdIds
    BY <1>0 DEF CreateMapping, FdStored, IdpRow
  <2>2. PICK user \in BOOLEAN :
          FdStep(p, [Idle EXCEPT !.op = "mapping", !.row = [idp |-> fdIdp.id, user |-> user]],
                 "save")
    BY Zenon DEF CreateMapping
  <2>3. [idp |-> fdIdp.id, user |-> user] \in MappingRow
    BY <2>1 DEF MappingRow
  <2> QED BY <2>2, <2>3, Zenon
<1> DEFINE new == [Idle EXCEPT !.op = "mapping", !.row = row]
<1>4. /\ new.now = 0 /\ new.gone = FALSE /\ new.sub = FdNone
      /\ new.op = "mapping" /\ new.row = row
  BY DEF Idle
<1>5. FdRequest(new)
  BY IdleRequest DEF FdRequest
<1>6. FdStep(p, new, "save")
  BY <1>2
<1> HIDE DEF new
<1>7. FdTo(p, "save") /\ fdIn'[p] = new /\ fdAt'[p] = "save" /\ "save" \in FdLabels
  BY <1>0, <1>2, <1>5, <1>6, StepsTo DEF FdLabels, FdTo
<1>8. clock >= 0
  BY <1>0
<1>9. FdLocal(p)'
  BY <1>0, <1>1, <1>2, <1>4, <1>7, <1>8
      DEF FdLocal, FdFits, FdWaits, FdChecked, FdKeyed, FdPublishedAt, FdStanding, FdSaving,
          UserAnswers, FdAllowed
<1> QED BY <1>1, <1>7, <1>9

-----------------------------------------------------------------------------
\* The tables, the cache and the histories, where a step writes none of them.
LEMMA StoredKeep ==
    ASSUME FdStored,
           UNCHANGED <<fdWork, fdIdp, fdPolicies, fdMappings, fdCache, fdWithdrawn, fdOut, fdGone, dpVars>>
    PROVE  FdStored'
  BY DEF FdStored, dpVars, DPoPTypeOK

\* Policies and mappings, where a step writes neither them nor the issuer's row.
LEMMA LinkedKeep ==
    ASSUME FdLinked, UNCHANGED <<fdIdp, fdPolicies, fdMappings>>
    PROVE  FdLinked'
  BY DEF FdLinked

\* The jti gate, where a step leaves its table alone.
LEMMA ProbedKeep ==
    ASSUME FdProbed, UNCHANGED <<xaJtis, fdPast, clock>>
    PROVE  FdProbed'
  BY DEF FdProbed, OneProbePerAssertion

\* The proofs spent, where a step leaves their table alone.
LEMMA SpendsKeep ==
    ASSUME FdSpends, UNCHANGED <<fdSpent, dpJtis, clock>>
    PROVE  FdSpends'
  BY DEF FdSpends

\* The cached keys, where a step leaves the cache alone.
LEMMA CachedKeep ==
    ASSUME FdCached, UNCHANGED <<fdWithdrawn, fdCache, clock>>
    PROVE  FdCached'
  BY DEF FdCached, FdPublishes, FdPublishedAt

\* The rows that have been, where a step writes and deletes none.
LEMMA RowsKeep ==
    ASSUME FdRows, UNCHANGED <<fdIdp, fdPolicies, fdGone>>, \A i : FdOld(i) => FdOld(i)'
    PROVE  FdRows'
  BY DEF FdRows, OnlyOverlapRevives, IdpHas

\* The tokens that are out, where a step issues none.
LEMMA TokensKeep ==
    ASSUME FdTokens, UNCHANGED <<fdOut>>
    PROVE  FdTokens'
  BY DEF FdTokens, NoTokenForGoneUser, BearerWithinCeilings

\* A step of one request, put together.
LEMMA StepKeeps ==
    ASSUME FdInv, NEW p \in DpRequests, NEW label, FdTo(p, label), fdAt[p] # "done",
           FdLocal(p)', UNCHANGED <<clock, fdUser, fdWithdrawn>>, FdSeesUpdates,
           FdStored', FdLinked', FdProbed', FdSpends', FdCached', FdRows', FdTokens'
    PROVE  FdInv'
<1>1. \A q \in DpRequests \ {p} : FdRequest(fdIn'[q]) /\ FdLocal(q)'
  BY OthersKeep
<1>2. FdRequests'
  <2>1. fdAt' \in [DpRequests -> FdLabels] /\ DOMAIN fdIn' = DpRequests
        /\ FdRequest(fdIn'[p])
    BY DEF FdTo
  <2>2. \A q \in DpRequests : FdRequest(fdIn'[q])
    BY <1>1, <2>1
  <2> QED BY <2>1, <2>2 DEF FdRequests, FdRequest
<1>3. (\A q \in DpRequests : FdLocal(q))'
  <2>1. \A q \in DpRequests : FdLocal(q)'
    BY <1>1
  <2> QED BY <2>1
<1> QED BY <1>2, <1>3 DEF FdInv

\* Where rows are not deleted, no deletion overlaps an update.
LEMMA NothingDeleted ==
    ASSUME UNCHANGED fdGone
    PROVE  FdSeesUpdates
  BY DEF FdSeesUpdates

\* A step that only takes one request further.
LEMMA QuietKeeps ==
    ASSUME FdInv, NEW p \in DpRequests, NEW label, FdTo(p, label), fdAt[p] # "done",
           FdLocal(p)',
           UNCHANGED <<fdCache, fdAdminVars, fdHistory, fdWorld, dpVars>>
    PROVE  FdInv'
<1>1. /\ UNCHANGED <<fdWork, fdIdp, fdPolicies, fdMappings, fdCache, fdWithdrawn, fdOut,
                     fdGone, dpVars>>
      /\ UNCHANGED <<clock, fdUser, fdWithdrawn>> /\ UNCHANGED <<xaJtis, fdPast, clock>>
      /\ UNCHANGED <<fdSpent, dpJtis, clock>>
  BY DEF fdAdminVars, fdHistory, fdWorld, dpVars
<1>2. \A i : FdOld(i) => FdOld(i)'
  BY OldStays
<1>3. FdStored' /\ FdLinked' /\ FdProbed'
  BY <1>1, StoredKeep, LinkedKeep, ProbedKeep DEF FdInv
<1>4. FdSpends' /\ FdCached' /\ FdRows' /\ FdTokens'
  BY <1>1, <1>2, SpendsKeep, CachedKeep, RowsKeep, TokensKeep DEF FdInv
<1> QED BY <1>1, <1>3, <1>4, StepKeeps, NothingDeleted

\* The middleware hands a nonce to a grant with a proof.
LEMMA GrantJWTBearerKeeps ==
    ASSUME FdInv, NEW p \in DpRequests, GrantJWTBearer(p)
    PROVE  FdInv'
<1> DEFINE r == fdIn[p]
<1>0. /\ FdRequests /\ FdStored /\ FdRequest(r) /\ FdLocal(p)
  BY DEF FdInv, FdRequests
<1>1. PICK label \in FdLabels : FdTo(p, label) /\ FdLocal(p)'
  BY GrantJWTBearerGoes
<1>2. fdAt[p] # "done" /\ UNCHANGED <<clock, fdUser, fdWithdrawn, fdWork>>
  BY GrantJWTBearerGoes DEF GrantJWTBearer, fdWorld, dpVars
<1>3. \A i : FdOld(i) => FdOld(i)'
  BY <1>1, <1>2, OldStays
<1>4. FdStored'
  <2>1. UNCHANGED <<fdWork, fdIdp, fdPolicies, fdMappings, fdCache, fdWithdrawn, fdOut, fdGone,
                    clock, dpJtis, xaJtis>>
    BY DEF GrantJWTBearer, fdAdminVars, fdHistory, fdWorld
  <2>2. dpNonces' \in [DpRequests -> (0 .. MaxClock + NonceTTL) \cup {DpNone}]
    <3>1. dpNonces' = dpNonces \/ dpNonces' = [dpNonces EXCEPT ![p] = clock + NonceTTL]
      BY Zenon DEF GrantJWTBearer, DPoPNonceMiddleware, IssueNonce
    <3>2. clock + NonceTTL \in 0 .. MaxClock + NonceTTL
      BY <1>0, DPoPAssumption DEF FdStored, DPoPTypeOK
    <3> QED BY <1>0, <3>1, <3>2 DEF FdStored, DPoPTypeOK
  <2> QED BY <1>0, <2>1, <2>2 DEF FdStored, DPoPTypeOK
<1>5. FdLinked'
  <2>1. UNCHANGED <<fdIdp, fdPolicies, fdMappings>>
    BY DEF GrantJWTBearer, fdAdminVars, fdHistory, fdWorld, dpVars
  <2> QED BY <2>1, LinkedKeep DEF FdInv
<1>6. FdProbed'
  <2>1. UNCHANGED <<xaJtis, fdPast, clock>>
    BY DEF GrantJWTBearer, fdAdminVars, fdHistory, fdWorld, dpVars
  <2> QED BY <2>1, ProbedKeep DEF FdInv
<1>7. FdSpends'
  <2>1. UNCHANGED <<fdSpent, dpJtis, clock>>
    BY DEF GrantJWTBearer, fdAdminVars, fdHistory, fdWorld, dpVars
  <2> QED BY <2>1, SpendsKeep DEF FdInv
<1>8. FdCached'
  <2>1. UNCHANGED <<fdWithdrawn, fdCache, clock>>
    BY DEF GrantJWTBearer, fdAdminVars, fdHistory, fdWorld, dpVars
  <2> QED BY <2>1, CachedKeep DEF FdInv
<1>9. FdRows'
  <2>1. UNCHANGED <<fdIdp, fdPolicies, fdGone>>
    BY DEF GrantJWTBearer, fdAdminVars, fdHistory, fdWorld, dpVars
  <2> QED BY <2>1, <1>3, RowsKeep DEF FdInv
<1>10. FdTokens'
  <2>1. UNCHANGED <<fdOut>>
    BY DEF GrantJWTBearer, fdAdminVars, fdHistory, fdWorld, dpVars
  <2> QED BY <2>1, TokensKeep DEF FdInv
<1>11. FdSeesUpdates
  BY NothingDeleted DEF GrantJWTBearer, fdAdminVars
<1> QED BY <1>1, <1>2, <1>4, <1>5, <1>6, <1>7, <1>8, <1>9, <1>10, <1>11, StepKeeps

\* The middleware hands a nonce to a grant with a proof.
LEMMA OtherGrantKeeps ==
    ASSUME FdInv, NEW p \in DpRequests, OtherGrant(p)
    PROVE  FdInv'
<1> DEFINE r == fdIn[p]
<1>0. /\ FdRequests /\ FdStored /\ FdRequest(r) /\ FdLocal(p)
  BY DEF FdInv, FdRequests
<1>1. PICK label \in FdLabels : FdTo(p, label) /\ FdLocal(p)'
  BY OtherGrantGoes
<1>2. fdAt[p] # "done" /\ UNCHANGED <<clock, fdUser, fdWithdrawn, fdWork>>
  BY OtherGrantGoes DEF OtherGrant, fdWorld, dpVars
<1>3. \A i : FdOld(i) => FdOld(i)'
  BY <1>1, <1>2, OldStays
<1>4. FdStored'
  <2>1. UNCHANGED <<fdWork, fdIdp, fdPolicies, fdMappings, fdCache, fdWithdrawn, fdOut, fdGone,
                    clock, dpJtis, xaJtis>>
    BY DEF OtherGrant, fdAdminVars, fdHistory, fdWorld
  <2>2. dpNonces' \in [DpRequests -> (0 .. MaxClock + NonceTTL) \cup {DpNone}]
    <3>1. dpNonces' = dpNonces \/ dpNonces' = [dpNonces EXCEPT ![p] = clock + NonceTTL]
      BY Zenon DEF OtherGrant, DPoPNonceMiddleware, IssueNonce
    <3>2. clock + NonceTTL \in 0 .. MaxClock + NonceTTL
      BY <1>0, DPoPAssumption DEF FdStored, DPoPTypeOK
    <3> QED BY <1>0, <3>1, <3>2 DEF FdStored, DPoPTypeOK
  <2> QED BY <1>0, <2>1, <2>2 DEF FdStored, DPoPTypeOK
<1>5. FdLinked'
  <2>1. UNCHANGED <<fdIdp, fdPolicies, fdMappings>>
    BY DEF OtherGrant, fdAdminVars, fdHistory, fdWorld, dpVars
  <2> QED BY <2>1, LinkedKeep DEF FdInv
<1>6. FdProbed'
  <2>1. UNCHANGED <<xaJtis, fdPast, clock>>
    BY DEF OtherGrant, fdAdminVars, fdHistory, fdWorld, dpVars
  <2> QED BY <2>1, ProbedKeep DEF FdInv
<1>7. FdSpends'
  <2>1. UNCHANGED <<fdSpent, dpJtis, clock>>
    BY DEF OtherGrant, fdAdminVars, fdHistory, fdWorld, dpVars
  <2> QED BY <2>1, SpendsKeep DEF FdInv
<1>8. FdCached'
  <2>1. UNCHANGED <<fdWithdrawn, fdCache, clock>>
    BY DEF OtherGrant, fdAdminVars, fdHistory, fdWorld, dpVars
  <2> QED BY <2>1, CachedKeep DEF FdInv
<1>9. FdRows'
  <2>1. UNCHANGED <<fdIdp, fdPolicies, fdGone>>
    BY DEF OtherGrant, fdAdminVars, fdHistory, fdWorld, dpVars
  <2> QED BY <2>1, <1>3, RowsKeep DEF FdInv
<1>10. FdTokens'
  <2>1. UNCHANGED <<fdOut>>
    BY DEF OtherGrant, fdAdminVars, fdHistory, fdWorld, dpVars
  <2> QED BY <2>1, TokensKeep DEF FdInv
<1>11. FdSeesUpdates
  BY NothingDeleted DEF OtherGrant, fdAdminVars
<1> QED BY <1>1, <1>2, <1>4, <1>5, <1>6, <1>7, <1>8, <1>9, <1>10, <1>11, StepKeeps

\* The entry that is stored lives a TTL from the time read before the fetch.
LEMMA StoreKeysKeeps ==
    ASSUME FdInv, NEW p \in DpRequests, StoreKeys(p)
    PROVE  FdInv'
<1> DEFINE r == fdIn[p]
<1>0. /\ FdRequests /\ FdStored /\ FdRequest(r) /\ FdLocal(p)
  BY DEF FdInv, FdRequests
<1>1. PICK label \in FdLabels : FdTo(p, label) /\ FdLocal(p)'
  BY StoreKeysGoes
<1>2. fdAt[p] # "done" /\ UNCHANGED <<clock, fdUser, fdWithdrawn, fdWork>>
  BY StoreKeysGoes DEF StoreKeys, fdWorld, dpVars
<1>3. \A i : FdOld(i) => FdOld(i)'
  BY <1>1, <1>2, OldStays
<1>F. /\ fdCache' = [key |-> r.key, exp |-> r.now + TTL] /\ r.key \in 1 .. Keys
      /\ r.now <= clock /\ r.now \in 0 .. MaxClock /\ r.now + TTL \in TTL .. MaxClock + TTL
      /\ FdPublishedAt(r.key, r.now, 0)
  BY <1>0, FdTimes, DPoPAssumption
     DEF StoreKeys, FdLocal, FdFits, FdKeyed, FdRequest, FdStored, DPoPTypeOK
<1>4. FdStored'
  <2>1. UNCHANGED <<fdWork, fdIdp, fdPolicies, fdMappings, fdWithdrawn, fdOut, fdGone,
                    clock, dpJtis, dpNonces, xaJtis>>
    BY DEF StoreKeys, fdAdminVars, fdHistory, fdWorld, dpVars
  <2>2. fdCache' \in FdCopy
    BY <1>F DEF FdCopy
  <2> QED BY <1>0, <2>1, <2>2 DEF FdStored, DPoPTypeOK
<1>5. FdLinked'
  <2>1. UNCHANGED <<fdIdp, fdPolicies, fdMappings>>
    BY DEF StoreKeys, fdAdminVars, fdHistory, fdWorld, dpVars
  <2> QED BY <2>1, LinkedKeep DEF FdInv
<1>6. FdProbed'
  <2>1. UNCHANGED <<xaJtis, fdPast, clock>>
    BY DEF StoreKeys, fdAdminVars, fdHistory, fdWorld, dpVars
  <2> QED BY <2>1, ProbedKeep DEF FdInv
<1>7. FdSpends'
  <2>1. UNCHANGED <<fdSpent, dpJtis, clock>>
    BY DEF StoreKeys, fdAdminVars, fdHistory, fdWorld, dpVars
  <2> QED BY <2>1, SpendsKeep DEF FdInv
<1>8. FdCached'
  <2>1. fdCache'.exp <= clock' + TTL
    BY <1>0, <1>2, <1>F, FdTimes, DPoPAssumption DEF FdStored, DPoPTypeOK
  <2>2. FdPublishedAt(fdCache.key, fdCache.exp, TTL)'
    <3>1. fdCache'.key = r.key /\ fdCache'.exp = r.now + TTL /\ fdWithdrawn' = fdWithdrawn
      BY <1>2, <1>F
    <3>2. fdWithdrawn[r.key] # FdNone => fdWithdrawn[r.key] \in 0 .. MaxClock
      BY <1>0, <1>F DEF FdStored
    <3>3. r.now \in Nat /\ TTL \in Nat /\ MaxClock \in Nat
      BY <1>F, FdTimes, DPoPAssumption
    <3>4. fdWithdrawn[r.key] # FdNone => r.now + TTL <= fdWithdrawn[r.key] + TTL
      BY <1>F, <3>2, <3>3 DEF FdPublishedAt
    <3> QED BY <3>1, <3>4 DEF FdPublishedAt
  <2>3. FdPublishes'
    BY <1>2 DEF FdInv, FdCached, FdPublishes
  <2> QED BY <2>1, <2>2, <2>3 DEF FdCached
<1>9. FdRows'
  <2>1. UNCHANGED <<fdIdp, fdPolicies, fdGone>>
    BY DEF StoreKeys, fdAdminVars, fdHistory, fdWorld, dpVars
  <2> QED BY <2>1, <1>3, RowsKeep DEF FdInv
<1>10. FdTokens'
  <2>1. UNCHANGED <<fdOut>>
    BY DEF StoreKeys, fdAdminVars, fdHistory, fdWorld, dpVars
  <2> QED BY <2>1, TokensKeep DEF FdInv
<1>11. FdSeesUpdates
  BY NothingDeleted DEF StoreKeys, fdAdminVars
<1> QED BY <1>1, <1>2, <1>4, <1>5, <1>6, <1>7, <1>8, <1>9, <1>10, <1>11, StepKeeps

\* InvalidateCache drops the entry.
LEMMA InvalidateKeysKeeps ==
    ASSUME FdInv, NEW p \in DpRequests, InvalidateKeys(p)
    PROVE  FdInv'
<1> DEFINE r == fdIn[p]
<1>0. /\ FdRequests /\ FdStored /\ FdRequest(r) /\ FdLocal(p)
  BY DEF FdInv, FdRequests
<1>1. PICK label \in FdLabels : FdTo(p, label) /\ FdLocal(p)'
  BY InvalidateKeysGoes
<1>2. fdAt[p] # "done" /\ UNCHANGED <<clock, fdUser, fdWithdrawn, fdWork>>
  BY InvalidateKeysGoes DEF InvalidateKeys, fdWorld, dpVars
<1>3. \A i : FdOld(i) => FdOld(i)'
  BY <1>1, <1>2, OldStays
<1>4. FdStored'
  <2>1. UNCHANGED <<fdWork, fdIdp, fdPolicies, fdMappings, fdWithdrawn, fdOut, fdGone,
                    clock, dpJtis, dpNonces, xaJtis>>
    BY DEF InvalidateKeys, fdAdminVars, fdHistory, fdWorld, dpVars
  <2>2. fdCache' = FdNone
    BY DEF InvalidateKeys
  <2> QED BY <1>0, <2>1, <2>2 DEF FdStored, DPoPTypeOK
<1>5. FdLinked'
  <2>1. UNCHANGED <<fdIdp, fdPolicies, fdMappings>>
    BY DEF InvalidateKeys, fdAdminVars, fdHistory, fdWorld, dpVars
  <2> QED BY <2>1, LinkedKeep DEF FdInv
<1>6. FdProbed'
  <2>1. UNCHANGED <<xaJtis, fdPast, clock>>
    BY DEF InvalidateKeys, fdAdminVars, fdHistory, fdWorld, dpVars
  <2> QED BY <2>1, ProbedKeep DEF FdInv
<1>7. FdSpends'
  <2>1. UNCHANGED <<fdSpent, dpJtis, clock>>
    BY DEF InvalidateKeys, fdAdminVars, fdHistory, fdWorld, dpVars
  <2> QED BY <2>1, SpendsKeep DEF FdInv
<1>8. FdCached'
  <2>1. fdCache' = FdNone
    BY DEF InvalidateKeys
  <2> QED BY <1>2, <2>1 DEF FdInv, FdCached, FdPublishes
<1>9. FdRows'
  <2>1. UNCHANGED <<fdIdp, fdPolicies, fdGone>>
    BY DEF InvalidateKeys, fdAdminVars, fdHistory, fdWorld, dpVars
  <2> QED BY <2>1, <1>3, RowsKeep DEF FdInv
<1>10. FdTokens'
  <2>1. UNCHANGED <<fdOut>>
    BY DEF InvalidateKeys, fdAdminVars, fdHistory, fdWorld, dpVars
  <2> QED BY <2>1, TokensKeep DEF FdInv
<1>11. FdSeesUpdates
  BY NothingDeleted DEF InvalidateKeys, fdAdminVars
<1> QED BY <1>1, <1>2, <1>4, <1>5, <1>6, <1>7, <1>8, <1>9, <1>10, <1>11, StepKeeps

\* ConsumeJTI refuses a jti whose row is there; it is there as long as it matters.
LEMMA ConsumeAssertionKeeps ==
    ASSUME FdInv, NEW p \in DpRequests, ConsumeAssertion(p)
    PROVE  FdInv'
<1> DEFINE r == fdIn[p]
<1>0. /\ FdRequests /\ FdStored /\ FdRequest(r) /\ FdLocal(p)
  BY DEF FdInv, FdRequests
<1>1. PICK label \in FdLabels : FdTo(p, label) /\ FdLocal(p)'
  BY ConsumeAssertionGoes
<1>2. fdAt[p] # "done" /\ UNCHANGED <<clock, fdUser, fdWithdrawn, fdWork>>
  BY ConsumeAssertionGoes DEF ConsumeAssertion, fdWorld, dpVars
<1>3. \A i : FdOld(i) => FdOld(i)'
  BY <1>1, <1>2, OldStays
<1>F. /\ r.a \in Assertions /\ r.a.jti \in Jtis /\ r.a.exp \in 0 .. MaxClock
      /\ r.now \in 0 .. MaxClock /\ r.now <= r.a.exp + Skew /\ clock <= r.now + MaxLag
      /\ r.a.exp + JTIBuffer \in Nat
  <2>1. /\ r.a \in Assertions /\ r.now \in 0 .. MaxClock
        /\ r.now <= r.a.exp + Skew /\ clock <= r.now + MaxLag
    BY <1>0 DEF ConsumeAssertion, FdLocal, FdFits, FdWaits, FdRequest
  <2> QED BY <2>1, FdAssumption, FdTimes, DPoPAssumption
<1>G. \/ xaJtis' = xaJtis /\ fdPast' = fdPast
      \/ /\ xaJtis[r.a.jti] = DpNone
         /\ xaJtis' = [xaJtis EXCEPT ![r.a.jti] = r.a.exp + JTIBuffer]
         /\ fdPast' = fdPast \cup {<<r.a.jti, p>>}
  BY DEF ConsumeAssertion, ConsumeJTI, AssertionRowExpiry
<1>4. FdStored'
  <2>1. UNCHANGED <<fdWork, fdIdp, fdPolicies, fdMappings, fdCache, fdWithdrawn, fdOut,
                    fdGone, clock, dpJtis, dpNonces>>
    BY DEF ConsumeAssertion, fdAdminVars, fdHistory, fdWorld, dpVars
  <2>2. xaJtis' \in [Jtis -> Nat \cup {DpNone}]
    BY <1>0, <1>F, <1>G DEF FdStored, DPoPTypeOK
  <2> QED BY <1>0, <2>1, <2>2 DEF FdStored, DPoPTypeOK
<1>5. FdLinked'
  <2>1. UNCHANGED <<fdIdp, fdPolicies, fdMappings>>
    BY DEF ConsumeAssertion, fdAdminVars, fdHistory, fdWorld, dpVars
  <2> QED BY <2>1, LinkedKeep DEF FdInv
<1>6. FdProbed'
  <2>1. CASE xaJtis' = xaJtis /\ fdPast' = fdPast
    BY <1>2, <2>1, ProbedKeep DEF FdInv
  <2>2. CASE /\ xaJtis[r.a.jti] = DpNone
             /\ xaJtis' = [xaJtis EXCEPT ![r.a.jti] = r.a.exp + JTIBuffer]
             /\ fdPast' = fdPast \cup {<<r.a.jti, p>>}
    <3>1. xaJtis \in [Jtis -> Nat \cup {DpNone}] /\ clock \in Nat
      BY <1>0 DEF FdStored, DPoPTypeOK
    <3>2. \A x \in fdPast : x[1] # r.a.jti
      <4>1. DpNone # r.a.exp + JTIBuffer
        BY <1>F, DpNoneAssumption
      <4>2. clock <= r.a.exp + JTIBuffer
        BY <1>F, <3>1, FdTimes, FdBuffer
      <4> QED BY <1>F, <2>2, <3>1, <4>1, <4>2 DEF FdInv, FdProbed
    <3>3. \A j \in Jtis : xaJtis'[j] = IF j = r.a.jti THEN r.a.exp + JTIBuffer ELSE xaJtis[j]
      BY <2>2, <3>1
    <3>4. \A j \in Jtis : xaJtis'[j] # DpNone => xaJtis'[j] <= MaxClock + JTIBuffer
      BY <1>F, <3>3, FdTimes, DPoPAssumption DEF FdInv, FdProbed
    <3>5. ASSUME NEW x \in fdPast', NEW a \in Assertions, x[1] = a.jti
          PROVE  xaJtis'[a.jti] = a.exp + JTIBuffer \/ clock' > a.exp + JTIBuffer
      <4>1. a.jti \in Jtis
        BY FdAssumption
      <4>2. CASE a.jti = r.a.jti
        <5>1. a.exp = r.a.exp
          BY <1>F, <4>2, FdJtis
        <5> QED BY <3>3, <4>1, <4>2, <5>1
      <4>3. CASE a.jti # r.a.jti
        <5>1. x \in fdPast
          BY <2>2, <3>5, <4>3
        <5>2. xaJtis[a.jti] = a.exp + JTIBuffer \/ clock > a.exp + JTIBuffer
          BY <3>5, <5>1 DEF FdInv, FdProbed
        <5> QED BY <1>2, <3>3, <4>1, <4>3, <5>2
      <4> QED BY <4>2, <4>3
    <3>6. OneProbePerAssertion'
      BY <2>2, <3>2 DEF FdInv, FdProbed, OneProbePerAssertion
    <3> QED BY <3>4, <3>5, <3>6 DEF FdProbed
  <2> QED BY <1>G, <2>1, <2>2
<1>7. FdSpends'
  <2>1. UNCHANGED <<fdSpent, dpJtis, clock>>
    BY DEF ConsumeAssertion, fdAdminVars, fdHistory, fdWorld, dpVars
  <2> QED BY <2>1, SpendsKeep DEF FdInv
<1>8. FdCached'
  <2>1. UNCHANGED <<fdWithdrawn, fdCache, clock>>
    BY DEF ConsumeAssertion, fdAdminVars, fdHistory, fdWorld, dpVars
  <2> QED BY <2>1, CachedKeep DEF FdInv
<1>9. FdRows'
  <2>1. UNCHANGED <<fdIdp, fdPolicies, fdGone>>
    BY DEF ConsumeAssertion, fdAdminVars, fdHistory, fdWorld, dpVars
  <2> QED BY <2>1, <1>3, RowsKeep DEF FdInv
<1>10. FdTokens'
  <2>1. UNCHANGED <<fdOut>>
    BY DEF ConsumeAssertion, fdAdminVars, fdHistory, fdWorld, dpVars
  <2> QED BY <2>1, TokensKeep DEF FdInv
<1>11. FdSeesUpdates
  BY NothingDeleted DEF ConsumeAssertion, fdAdminVars
<1> QED BY <1>1, <1>2, <1>4, <1>5, <1>6, <1>7, <1>8, <1>9, <1>10, <1>11, StepKeeps

\* The row of a proof lives until the proof is too old for the check.
LEMMA SpendProofKeeps ==
    ASSUME FdInv, NEW p \in DpRequests, SpendProof(p)
    PROVE  FdInv'
<1> DEFINE r == fdIn[p]
<1>0. /\ FdRequests /\ FdStored /\ FdRequest(r) /\ FdLocal(p)
  BY DEF FdInv, FdRequests
<1>1. PICK label \in FdLabels : FdTo(p, label) /\ FdLocal(p)'
  BY SpendProofGoes
<1>2. fdAt[p] # "done" /\ UNCHANGED <<clock, fdUser, fdWithdrawn, fdWork>>
  BY SpendProofGoes DEF SpendProof, fdWorld, dpVars
<1>3. \A i : FdOld(i) => FdOld(i)'
  BY <1>1, <1>2, OldStays
<1>F. /\ r.proof \in Proofs /\ r.now \in 0 .. MaxClock /\ r.now <= clock
      /\ ProofIat[r.proof] <= r.now + ProofLifetime
  BY <1>0 DEF SpendProof, FdLocal, FdFits, FdChecked, FdRequest
<1>G. \/ dpJtis' = dpJtis /\ fdSpent' = fdSpent
      \/ /\ dpJtis' = [dpJtis EXCEPT ![r.proof] = clock + 2 * ProofLifetime]
         /\ fdSpent' = fdSpent \cup {r.proof}
  BY DEF SpendProof, ConsumeProof, ProofRowExpiry
<1>4. FdStored'
  <2>1. UNCHANGED <<fdWork, fdIdp, fdPolicies, fdMappings, fdCache, fdWithdrawn, fdOut,
                    fdGone, clock, dpNonces, xaJtis>>
    BY DEF SpendProof, fdAdminVars, fdHistory, fdWorld, dpVars
  <2>2. dpJtis' \in [Proofs -> (0 .. MaxClock + 2 * ProofLifetime) \cup {DpNone}]
    <3>1. clock + 2 * ProofLifetime \in 0 .. MaxClock + 2 * ProofLifetime
      BY <1>0, DPoPAssumption DEF FdStored, DPoPTypeOK
    <3> QED BY <1>0, <1>F, <1>G, <3>1 DEF FdStored, DPoPTypeOK
  <2> QED BY <1>0, <2>1, <2>2 DEF FdStored, DPoPTypeOK
<1>5. FdLinked'
  <2>1. UNCHANGED <<fdIdp, fdPolicies, fdMappings>>
    BY DEF SpendProof, fdAdminVars, fdHistory, fdWorld, dpVars
  <2> QED BY <2>1, LinkedKeep DEF FdInv
<1>6. FdProbed'
  <2>1. UNCHANGED <<xaJtis, fdPast, clock>>
    BY DEF SpendProof, fdAdminVars, fdHistory, fdWorld, dpVars
  <2> QED BY <2>1, ProbedKeep DEF FdInv
<1>7. FdSpends'
  <2>1. CASE dpJtis' = dpJtis /\ fdSpent' = fdSpent
    BY <1>2, <2>1, SpendsKeep DEF FdInv
  <2>2. CASE /\ dpJtis' = [dpJtis EXCEPT ![r.proof] = clock + 2 * ProofLifetime]
             /\ fdSpent' = fdSpent \cup {r.proof}
    <3>1. /\ clock \in Nat /\ ProofLifetime \in Nat /\ ProofIat[r.proof] \in Nat
          /\ dpJtis \in [Proofs -> (0 .. MaxClock + 2 * ProofLifetime) \cup {DpNone}]
      BY <1>0, <1>F, DPoPAssumption DEF FdStored, DPoPTypeOK
    <3>2. ProofIat[r.proof] + ProofLifetime <= clock + 2 * ProofLifetime
      BY <1>F, <3>1, DPoPAssumption
    <3>3. dpJtis'[r.proof] = clock + 2 * ProofLifetime /\ dpJtis'[r.proof] # DpNone
      BY <1>F, <2>2, <3>1, DpNoneAssumption
    <3>4. ASSUME NEW q \in fdSpent'
          PROVE  /\ q \in Proofs
                 /\ \/ dpJtis'[q] # DpNone /\ ProofIat[q] + ProofLifetime <= dpJtis'[q]
                    \/ clock' > ProofIat[q] + ProofLifetime
      <4>1. CASE q = r.proof
        BY <1>F, <3>2, <3>3, <4>1
      <4>2. CASE q # r.proof
        <5>1. q \in fdSpent /\ q \in Proofs
          BY <2>2, <3>4, <4>2 DEF FdInv, FdSpends
        <5>2. dpJtis'[q] = dpJtis[q]
          BY <2>2, <3>1, <4>2, <5>1
        <5> QED BY <1>2, <5>1, <5>2 DEF FdInv, FdSpends
      <4> QED BY <4>1, <4>2
    <3> QED BY <3>4 DEF FdSpends
  <2> QED BY <1>G, <2>1, <2>2
<1>8. FdCached'
  <2>1. UNCHANGED <<fdWithdrawn, fdCache, clock>>
    BY DEF SpendProof, fdAdminVars, fdHistory, fdWorld, dpVars
  <2> QED BY <2>1, CachedKeep DEF FdInv
<1>9. FdRows'
  <2>1. UNCHANGED <<fdIdp, fdPolicies, fdGone>>
    BY DEF SpendProof, fdAdminVars, fdHistory, fdWorld, dpVars
  <2> QED BY <2>1, <1>3, RowsKeep DEF FdInv
<1>10. FdTokens'
  <2>1. UNCHANGED <<fdOut>>
    BY DEF SpendProof, fdAdminVars, fdHistory, fdWorld, dpVars
  <2> QED BY <2>1, TokensKeep DEF FdInv
<1>11. FdSeesUpdates
  BY NothingDeleted DEF SpendProof, fdAdminVars
<1> QED BY <1>1, <1>2, <1>4, <1>5, <1>6, <1>7, <1>8, <1>9, <1>10, <1>11, StepKeeps

\* The token carries what the request was left with.
LEMMA IssueBearerKeeps ==
    ASSUME FdInv, NEW p \in DpRequests, IssueBearer(p)
    PROVE  FdInv'
<1> DEFINE r == fdIn[p]
<1>0. /\ FdRequests /\ FdStored /\ FdRequest(r) /\ FdLocal(p)
  BY DEF FdInv, FdRequests
<1>1. PICK label \in FdLabels : FdTo(p, label) /\ FdLocal(p)'
  BY IssueBearerGoes
<1>2. fdAt[p] # "done" /\ UNCHANGED <<clock, fdUser, fdWithdrawn, fdWork>>
  BY IssueBearerGoes DEF IssueBearer, fdWorld, dpVars
<1>3. \A i : FdOld(i) => FdOld(i)'
  BY <1>1, <1>2, OldStays
<1> DEFINE new == [a |-> r.a, sub |-> r.sub, scopes |-> r.scopes, bound |-> r.bound,
                   gone |-> r.gone]
<1>F. /\ new \in FdToken /\ r.sub \in {"local", "pair"}
      /\ r.gone => r.sub = "pair"
      /\ r.scopes \subseteq ScopeCeiling(r.a)
      /\ r.bound # FdNone => r.scopes \subseteq r.bound
  BY <1>0 DEF IssueBearer, FdLocal, FdFits, FdStanding, FdAllowed, FdRequest, FdToken
<1>G. fdOut' = fdOut \/ fdOut' = [fdOut EXCEPT ![p] = new]
  BY DEF IssueBearer
<1>4. FdStored'
  <2>1. UNCHANGED <<fdWork, fdIdp, fdPolicies, fdMappings, fdCache, fdWithdrawn, fdGone,
                    clock, dpJtis, dpNonces, xaJtis>>
    BY DEF IssueBearer, fdAdminVars, fdHistory, fdWorld, dpVars
  <2>2. fdOut' \in [DpRequests -> FdToken \cup {FdNone}]
    BY <1>0, <1>F, <1>G DEF FdStored
  <2> QED BY <1>0, <2>1, <2>2 DEF FdStored, DPoPTypeOK
<1>5. FdLinked'
  <2>1. UNCHANGED <<fdIdp, fdPolicies, fdMappings>>
    BY DEF IssueBearer, fdAdminVars, fdHistory, fdWorld, dpVars
  <2> QED BY <2>1, LinkedKeep DEF FdInv
<1>6. FdProbed'
  <2>1. UNCHANGED <<xaJtis, fdPast, clock>>
    BY DEF IssueBearer, fdAdminVars, fdHistory, fdWorld, dpVars
  <2> QED BY <2>1, ProbedKeep DEF FdInv
<1>7. FdSpends'
  <2>1. UNCHANGED <<fdSpent, dpJtis, clock>>
    BY DEF IssueBearer, fdAdminVars, fdHistory, fdWorld, dpVars
  <2> QED BY <2>1, SpendsKeep DEF FdInv
<1>8. FdCached'
  <2>1. UNCHANGED <<fdWithdrawn, fdCache, clock>>
    BY DEF IssueBearer, fdAdminVars, fdHistory, fdWorld, dpVars
  <2> QED BY <2>1, CachedKeep DEF FdInv
<1>9. FdRows'
  <2>1. UNCHANGED <<fdIdp, fdPolicies, fdGone>>
    BY DEF IssueBearer, fdAdminVars, fdHistory, fdWorld, dpVars
  <2> QED BY <2>1, <1>3, RowsKeep DEF FdInv
<1>10. FdTokens'
  <2>1. CASE fdOut' = fdOut
    BY <2>1, TokensKeep DEF FdInv
  <2>2. CASE fdOut' = [fdOut EXCEPT ![p] = new]
    <3>1. \A q \in DpRequests : fdOut'[q] = IF q = p THEN new ELSE fdOut[q]
      BY <1>0, <2>2 DEF FdStored
    <3>2. new.gone => new.sub = "pair"
      BY <1>F
    <3>3. /\ new.scopes \subseteq ScopeCeiling(new.a)
          /\ new.bound # FdNone => new.scopes \subseteq new.bound
      BY <1>F
    <3> HIDE DEF new
    <3>4. NoTokenForGoneUser'
      BY <3>1, <3>2 DEF FdInv, FdTokens, NoTokenForGoneUser
    <3>5. BearerWithinCeilings'
      BY <3>1, <3>3 DEF FdInv, FdTokens, BearerWithinCeilings
    <3> QED BY <3>4, <3>5 DEF FdTokens
  <2> QED BY <1>G, <2>1, <2>2
<1>11. FdSeesUpdates
  BY NothingDeleted DEF IssueBearer, fdAdminVars
<1> QED BY <1>1, <1>2, <1>4, <1>5, <1>6, <1>7, <1>8, <1>9, <1>10, <1>11, StepKeeps

\* The row of a new IdP has an id that was never used.
LEMMA RegisterIDPKeeps ==
    ASSUME FdInv, NEW p \in DpRequests, RegisterIDP(p)
    PROVE  FdInv'
<1> DEFINE r == fdIn[p]
<1>0. /\ FdRequests /\ FdStored /\ FdRequest(r) /\ FdLocal(p)
  BY DEF FdInv, FdRequests
<1>1. PICK label \in FdLabels : FdTo(p, label) /\ FdLocal(p)'
  BY RegisterIDPGoes
<1>2. fdAt[p] # "done" /\ UNCHANGED <<clock, fdUser, fdWithdrawn, fdWork>>
  BY RegisterIDPGoes DEF RegisterIDP, fdWorld, dpVars
<1>3. \A i : FdOld(i) => FdOld(i)'
  BY <1>1, <1>2, OldStays
<1>F. fdIdp = FdNone /\ fdIdp' = [id |-> p, enabled |-> TRUE]
  BY DEF RegisterIDP, SaveIdp
<1>4. FdStored'
  <2>1. UNCHANGED <<fdWork, fdPolicies, fdMappings, fdCache, fdWithdrawn, fdOut, fdGone,
                    clock, dpJtis, dpNonces, xaJtis>>
    BY DEF RegisterIDP, fdAdminVars, fdHistory, fdWorld, dpVars
  <2>2. fdIdp' \in IdpRow
    BY <1>F DEF IdpRow, FdIds
  <2> QED BY <1>0, <2>1, <2>2 DEF FdStored, DPoPTypeOK
<1>5. FdLinked'
  <2>1. UNCHANGED <<fdPolicies, fdMappings>>
    BY DEF RegisterIDP
  <2> QED BY <1>F, <2>1 DEF FdInv, FdLinked
<1>6. FdProbed'
  <2>1. UNCHANGED <<xaJtis, fdPast, clock>>
    BY DEF RegisterIDP, fdAdminVars, fdHistory, fdWorld, dpVars
  <2> QED BY <2>1, ProbedKeep DEF FdInv
<1>7. FdSpends'
  <2>1. UNCHANGED <<fdSpent, dpJtis, clock>>
    BY DEF RegisterIDP, fdAdminVars, fdHistory, fdWorld, dpVars
  <2> QED BY <2>1, SpendsKeep DEF FdInv
<1>8. FdCached'
  <2>1. UNCHANGED <<fdWithdrawn, fdCache, clock>>
    BY DEF RegisterIDP, fdAdminVars, fdHistory, fdWorld, dpVars
  <2> QED BY <2>1, CachedKeep DEF FdInv
<1>9. FdRows'
  <2>1. UNCHANGED <<fdPolicies, fdGone>> /\ fdAt'[p] = "done" /\ fdIdp'.id = p
    BY <1>0, <1>F, EndsTo DEF RegisterIDP, FdTo
  <2>2. FdOld(p)'
    BY <2>1 DEF FdOld
  <2>3. <<"idp", p>> \notin fdGone.rows
    <3>1. ~FdOld(p) /\ p \in FdIds
      BY FdSeed DEF RegisterIDP, FdArrive, FdOld, FdIds
    <3> QED BY <3>1 DEF FdInv, FdRows
  <2>4. OnlyOverlapRevives'
    BY <2>1, <2>3 DEF FdInv, FdRows, OnlyOverlapRevives, IdpHas
  <2> QED BY <1>3, <2>1, <2>2, <2>4 DEF FdInv, FdRows
<1>10. FdTokens'
  <2>1. UNCHANGED <<fdOut>>
    BY DEF RegisterIDP, fdAdminVars, fdHistory, fdWorld, dpVars
  <2> QED BY <2>1, TokensKeep DEF FdInv
<1>11. FdSeesUpdates
  BY NothingDeleted DEF RegisterIDP, fdAdminVars
<1> QED BY <1>1, <1>2, <1>4, <1>5, <1>6, <1>7, <1>8, <1>9, <1>10, <1>11, StepKeeps

\* The Save of an update brings a row back only where the deletion overlapped it.
LEMMA SaveUpdatedIdpKeeps ==
    ASSUME FdInv, NEW p \in DpRequests, SaveUpdatedIdp(p)
    PROVE  FdInv'
<1> DEFINE r == fdIn[p]
<1>0. /\ FdRequests /\ FdStored /\ FdRequest(r) /\ FdLocal(p)
  BY DEF FdInv, FdRequests
<1>1. PICK label \in FdLabels : FdTo(p, label) /\ FdLocal(p)'
  BY SaveUpdatedIdpGoes
<1>2. fdAt[p] # "done" /\ UNCHANGED <<clock, fdUser, fdWithdrawn, fdWork>>
  BY SaveUpdatedIdpGoes DEF SaveUpdatedIdp, fdWorld, dpVars
<1>3. \A i : FdOld(i) => FdOld(i)'
  BY <1>1, <1>2, OldStays
<1>F. /\ r.row \in IdpRow /\ r.row.id = r.id /\ FdOld(r.id)
      /\ <<"idp", r.id>> \in fdGone.rows => <<"idp", r.id>> \in fdGone.overlapped
  BY <1>0 DEF SaveUpdatedIdp, FdLocal, FdFits, FdSaving
<1>G. fdIdp' = fdIdp \/ (fdIdp' = r.row /\ (fdIdp = FdNone \/ IdpHas(r.row.id)))
  BY DEF SaveUpdatedIdp, SaveIdp
<1>4. FdStored'
  <2>1. UNCHANGED <<fdWork, fdPolicies, fdMappings, fdCache, fdWithdrawn, fdOut, fdGone,
                    clock, dpJtis, dpNonces, xaJtis>>
    BY DEF SaveUpdatedIdp, fdAdminVars, fdHistory, fdWorld, dpVars
  <2>2. fdIdp' \in IdpRow \cup {FdNone}
    BY <1>0, <1>F, <1>G DEF FdStored
  <2> QED BY <1>0, <2>1, <2>2 DEF FdStored, DPoPTypeOK
<1>5. FdLinked'
  <2>1. UNCHANGED <<fdPolicies, fdMappings>>
    BY DEF SaveUpdatedIdp
  <2>2. r.row # FdNone
    BY <1>F, FdNoneAssumption
  <2> QED BY <1>F, <1>G, <2>1, <2>2 DEF FdInv, FdLinked, IdpHas
<1>6. FdProbed'
  <2>1. UNCHANGED <<xaJtis, fdPast, clock>>
    BY DEF SaveUpdatedIdp, fdAdminVars, fdHistory, fdWorld, dpVars
  <2> QED BY <2>1, ProbedKeep DEF FdInv
<1>7. FdSpends'
  <2>1. UNCHANGED <<fdSpent, dpJtis, clock>>
    BY DEF SaveUpdatedIdp, fdAdminVars, fdHistory, fdWorld, dpVars
  <2> QED BY <2>1, SpendsKeep DEF FdInv
<1>8. FdCached'
  <2>1. UNCHANGED <<fdWithdrawn, fdCache, clock>>
    BY DEF SaveUpdatedIdp, fdAdminVars, fdHistory, fdWorld, dpVars
  <2> QED BY <2>1, CachedKeep DEF FdInv
<1>9. FdRows'
  <2>1. UNCHANGED <<fdPolicies, fdGone>>
    BY DEF SaveUpdatedIdp
  <2>2. CASE fdIdp' = fdIdp
    BY <1>3, <2>1, <2>2, RowsKeep DEF FdInv
  <2>3. CASE fdIdp' = r.row
    <3>1. OnlyOverlapRevives'
      BY <1>F, <2>1, <2>3 DEF FdInv, FdRows, OnlyOverlapRevives, IdpHas
    <3> QED BY <1>3, <1>F, <2>1, <2>3, <3>1 DEF FdInv, FdRows
  <2> QED BY <1>G, <2>2, <2>3
<1>10. FdTokens'
  <2>1. UNCHANGED <<fdOut>>
    BY DEF SaveUpdatedIdp, fdAdminVars, fdHistory, fdWorld, dpVars
  <2> QED BY <2>1, TokensKeep DEF FdInv
<1>11. FdSeesUpdates
  BY NothingDeleted DEF SaveUpdatedIdp, fdAdminVars
<1> QED BY <1>1, <1>2, <1>4, <1>5, <1>6, <1>7, <1>8, <1>9, <1>10, <1>11, StepKeeps

\* The Save of a policy: a new row, or one that was read before.
LEMMA SaveWrittenPolicyKeeps ==
    ASSUME FdInv, NEW p \in DpRequests, SaveWrittenPolicy(p)
    PROVE  FdInv'
<1> DEFINE r == fdIn[p]
<1>0. /\ FdRequests /\ FdStored /\ FdRequest(r) /\ FdLocal(p)
  BY DEF FdInv, FdRequests
<1>1. PICK label \in FdLabels : FdTo(p, label) /\ FdLocal(p)'
  BY SaveWrittenPolicyGoes
<1>2. fdAt[p] # "done" /\ UNCHANGED <<clock, fdUser, fdWithdrawn, fdWork>>
  BY SaveWrittenPolicyGoes DEF SaveWrittenPolicy, fdWorld, dpVars
<1>3. \A i : FdOld(i) => FdOld(i)'
  BY <1>1, <1>2, OldStays
<1> DEFINE new == [r.row EXCEPT !.scopes = StoredScopes(r.row.scopes)]
<1>F. /\ r.row \in PolicyRow /\ r.id \in FdIds /\ (FdOld(r.id) \/ r.id = p)
      /\ <<"policy", r.id>> \in fdGone.rows => <<"policy", r.id>> \in fdGone.overlapped
  BY <1>0 DEF SaveWrittenPolicy, FdLocal, FdFits, FdSaving
<1>I. PICK i \in FdIds : i = r.id
  BY <1>F
<1>G. \/ fdPolicies' = fdPolicies
      \/ fdPolicies' = [fdPolicies EXCEPT ![r.id] = new] /\ IdpHas(r.row.idp)
  BY DEF SaveWrittenPolicy, SavePolicy
<1>H. /\ new.idp = r.row.idp
      /\ new \in [idp : FdIds, enabled : BOOLEAN, clients : SUBSET Client,
                  resources : SUBSET Resources, scopes : ScopeList \ {{}}]
  <2>1. StoredScopes(r.row.scopes) \in ScopeList \ {{}}
    BY <1>F, FdNoneAssumption DEF PolicyRow, StoredScopes, ScopeList
  <2> QED BY <1>F, <2>1 DEF PolicyRow
<1>4. FdStored'
  <2>1. UNCHANGED <<fdWork, fdIdp, fdMappings, fdCache, fdWithdrawn, fdOut, fdGone, clock,
                    dpJtis, dpNonces, xaJtis>>
    BY DEF SaveWrittenPolicy, fdAdminVars, fdHistory, fdWorld, dpVars
  <2>2. fdPolicies' \in [FdIds -> [idp : FdIds, enabled : BOOLEAN, clients : SUBSET Client,
                                   resources : SUBSET Resources,
                                   scopes : ScopeList \ {{}}] \cup {FdNone}]
    BY <1>0, <1>F, <1>G, <1>H DEF FdStored
  <2> QED BY <1>0, <2>1, <2>2 DEF FdStored, DPoPTypeOK
<1>5. FdLinked'
  <2>1. UNCHANGED <<fdIdp, fdMappings>>
    BY DEF SaveWrittenPolicy
  <2>2. CASE fdPolicies' = fdPolicies
    BY <2>1, <2>2, LinkedKeep DEF FdInv
  <2>3. CASE fdPolicies' = [fdPolicies EXCEPT ![r.id] = new] /\ IdpHas(r.row.idp)
    <3>1. \A k \in FdIds : fdPolicies'[k] = IF k = r.id THEN new ELSE fdPolicies[k]
      BY <1>0, <1>F, <2>3 DEF FdStored
    <3>2. fdIdp # FdNone /\ new.idp = fdIdp.id
      BY <1>H, <2>3 DEF IdpHas
    <3> HIDE DEF new
    <3> QED BY <2>1, <3>1, <3>2 DEF FdInv, FdLinked
  <2> QED BY <1>G, <2>2, <2>3
<1>6. FdProbed'
  <2>1. UNCHANGED <<xaJtis, fdPast, clock>>
    BY DEF SaveWrittenPolicy, fdAdminVars, fdHistory, fdWorld, dpVars
  <2> QED BY <2>1, ProbedKeep DEF FdInv
<1>7. FdSpends'
  <2>1. UNCHANGED <<fdSpent, dpJtis, clock>>
    BY DEF SaveWrittenPolicy, fdAdminVars, fdHistory, fdWorld, dpVars
  <2> QED BY <2>1, SpendsKeep DEF FdInv
<1>8. FdCached'
  <2>1. UNCHANGED <<fdWithdrawn, fdCache, clock>>
    BY DEF SaveWrittenPolicy, fdAdminVars, fdHistory, fdWorld, dpVars
  <2> QED BY <2>1, CachedKeep DEF FdInv
<1>9. FdRows'
  <2>1. UNCHANGED <<fdIdp, fdGone>>
    BY DEF SaveWrittenPolicy
  <2>2. CASE fdPolicies' = fdPolicies
    BY <1>3, <2>1, <2>2, RowsKeep DEF FdInv
  <2>3. CASE fdPolicies' = [fdPolicies EXCEPT ![r.id] = new]
    <3>1. \A k \in FdIds : fdPolicies'[k] = IF k = r.id THEN new ELSE fdPolicies[k]
      BY <1>0, <1>F, <2>3 DEF FdStored
    <3> HIDE DEF new
    <3>2. FdOld(i)'
      <4>1. fdAt'[p] = "done"
        BY <1>0, EndsTo DEF SaveWrittenPolicy, FdTo
      <4> QED BY <1>3, <1>F, <1>I, <4>1 DEF FdOld
    <3>3. OnlyOverlapRevives'
      BY <1>F, <2>1, <3>1 DEF FdInv, FdRows, OnlyOverlapRevives, IdpHas
    <3> QED BY <1>3, <1>I, <2>1, <3>1, <3>2, <3>3 DEF FdInv, FdRows
  <2> QED BY <1>G, <2>2, <2>3
<1>10. FdTokens'
  <2>1. UNCHANGED <<fdOut>>
    BY DEF SaveWrittenPolicy, fdAdminVars, fdHistory, fdWorld, dpVars
  <2> QED BY <2>1, TokensKeep DEF FdInv
<1>11. FdSeesUpdates
  BY NothingDeleted DEF SaveWrittenPolicy, fdAdminVars
<1> QED BY <1>1, <1>2, <1>4, <1>5, <1>6, <1>7, <1>8, <1>9, <1>10, <1>11, StepKeeps

\* DeletePolicy notes the row, and the update under which it goes.
LEMMA DeletePolicyKeeps ==
    ASSUME FdInv, NEW p \in DpRequests, DeletePolicy(p)
    PROVE  FdInv'
<1> DEFINE r == fdIn[p]
<1>0. /\ FdRequests /\ FdStored /\ FdRequest(r) /\ FdLocal(p)
  BY DEF FdInv, FdRequests
<1>1. PICK label \in FdLabels : FdTo(p, label) /\ FdLocal(p)'
  BY DeletePolicyGoes
<1>2. fdAt[p] # "done" /\ UNCHANGED <<clock, fdUser, fdWithdrawn, fdWork>>
  BY DeletePolicyGoes DEF DeletePolicy, fdWorld, dpVars
<1>3. \A i : FdOld(i) => FdOld(i)'
  BY <1>1, <1>2, OldStays
<1>F. PICK i \in FdIds :
         /\ fdPolicies[i] # FdNone /\ fdPolicies' = [fdPolicies EXCEPT ![i] = FdNone]
         /\ fdGone' = [rows |-> fdGone.rows \cup {<<"policy", i>>},
                       overlapped |-> fdGone.overlapped \cup
                                        {x \in {<<"policy", i>>} : Updating("policy", i)}]
  BY DEF DeletePolicy, DeletePolicyRow, HasPolicy, Deleted
<1>4. FdStored'
  <2>1. UNCHANGED <<fdWork, fdIdp, fdMappings, fdCache, fdWithdrawn, fdOut, clock, dpJtis,
                    dpNonces, xaJtis>>
    BY DEF DeletePolicy, fdAdminVars, fdHistory, fdWorld, dpVars
  <2>2. /\ fdPolicies' \in [FdIds -> [idp : FdIds, enabled : BOOLEAN, clients : SUBSET Client,
                                      resources : SUBSET Resources,
                                      scopes : ScopeList \ {{}}] \cup {FdNone}]
        /\ fdGone' \in [rows : SUBSET ({"idp", "policy"} \X FdIds),
                        overlapped : SUBSET ({"idp", "policy"} \X FdIds)]
    BY <1>0, <1>F DEF FdStored
  <2> QED BY <1>0, <2>1, <2>2 DEF FdStored, DPoPTypeOK
<1>5. FdLinked'
  <2>1. UNCHANGED <<fdIdp, fdMappings>>
    BY DEF DeletePolicy
  <2>2. \A j \in FdIds : fdPolicies'[j] = IF j = i THEN FdNone ELSE fdPolicies[j]
    BY <1>0, <1>F DEF FdStored
  <2> QED BY <2>1, <2>2 DEF FdInv, FdLinked
<1>6. FdProbed'
  <2>1. UNCHANGED <<xaJtis, fdPast, clock>>
    BY DEF DeletePolicy, fdAdminVars, fdHistory, fdWorld, dpVars
  <2> QED BY <2>1, ProbedKeep DEF FdInv
<1>7. FdSpends'
  <2>1. UNCHANGED <<fdSpent, dpJtis, clock>>
    BY DEF DeletePolicy, fdAdminVars, fdHistory, fdWorld, dpVars
  <2> QED BY <2>1, SpendsKeep DEF FdInv
<1>8. FdCached'
  <2>1. UNCHANGED <<fdWithdrawn, fdCache, clock>>
    BY DEF DeletePolicy, fdAdminVars, fdHistory, fdWorld, dpVars
  <2> QED BY <2>1, CachedKeep DEF FdInv
<1>9. FdRows'
  <2>1. UNCHANGED fdIdp
    BY DEF DeletePolicy
  <2>2. \A j \in FdIds : fdPolicies'[j] = IF j = i THEN FdNone ELSE fdPolicies[j]
    BY <1>0, <1>F DEF FdStored
  <2>3. FdOld(i)
    BY <1>F DEF FdInv, FdRows
  <2>4. \A j \in FdIds : /\ <<"idp", j>> \in fdGone'.rows => <<"idp", j>> \in fdGone.rows
                         /\ <<"policy", j>> \in fdGone'.rows =>
                               j = i \/ <<"policy", j>> \in fdGone.rows
    BY <1>F
  <2>5. fdGone.overlapped \subseteq fdGone'.overlapped
    BY <1>F
  <2>6. OnlyOverlapRevives'
    BY <2>1, <2>2, <2>4, <2>5 DEF FdInv, FdRows, OnlyOverlapRevives, IdpHas
  <2> QED BY <1>3, <2>1, <2>2, <2>3, <2>4, <2>6 DEF FdInv, FdRows
<1>10. FdTokens'
  <2>1. UNCHANGED <<fdOut>>
    BY DEF DeletePolicy, fdAdminVars, fdHistory, fdWorld, dpVars
  <2> QED BY <2>1, TokensKeep DEF FdInv
<1>11. FdSeesUpdates
  BY <1>F DEF FdSeesUpdates
<1> QED BY <1>1, <1>2, <1>4, <1>5, <1>6, <1>7, <1>8, <1>9, <1>10, <1>11, StepKeeps

\* The rows that go with the row i of the issuer, and what is noted of them.
FdIdpRows(i) ==
    {<<"idp", i>>} \cup {<<"policy", j>> : j \in {j \in FdIds : fdPolicies[j] # FdNone}}
FdRemoves(i) ==
    /\ fdIdp' = FdNone
    /\ fdPolicies' = [j \in FdIds |-> FdNone]
    /\ fdMappings' = [j \in FdIds |-> FdNone]
    /\ fdGone' = [rows |-> fdGone.rows \cup FdIdpRows(i),
                  overlapped |-> fdGone.overlapped \cup
                                   {x \in FdIdpRows(i) : Updating(x[1], x[2])}]

\* Delete takes policies and mappings along, and notes the updates under way.
LEMMA DeleteIDPKeeps ==
    ASSUME FdInv, NEW p \in DpRequests, DeleteIDP(p)
    PROVE  FdInv'
<1> DEFINE r == fdIn[p]
<1>0. /\ FdRequests /\ FdStored /\ FdRequest(r) /\ FdLocal(p)
  BY DEF FdInv, FdRequests
<1>1. PICK label \in FdLabels : FdTo(p, label) /\ FdLocal(p)'
  BY DeleteIDPGoes
<1>2. fdAt[p] # "done" /\ UNCHANGED <<clock, fdUser, fdWithdrawn, fdWork>>
  BY DeleteIDPGoes DEF DeleteIDP, fdWorld, dpVars
<1>3. \A i : FdOld(i) => FdOld(i)'
  BY <1>1, <1>2, OldStays
<1>G. \/ UNCHANGED <<fdIdp, fdPolicies, fdMappings, fdGone>>
      \/ IdpHas(r.id) /\ FdRemoves(r.id)
  BY DEF DeleteIDP, DeleteIdpRow, Deleted, FdRemoves, FdIdpRows
<1>H. r.id \in FdIds
  BY <1>0 DEF DeleteIDP, FdLocal, FdFits
<1>4. FdStored'
  <2>1. UNCHANGED <<fdWork, fdCache, fdWithdrawn, fdOut, clock, dpJtis, dpNonces, xaJtis>>
    BY DEF DeleteIDP, fdAdminVars, fdHistory, fdWorld, dpVars
  <2>2. /\ fdIdp' \in IdpRow \cup {FdNone}
        /\ fdPolicies' \in [FdIds -> [idp : FdIds, enabled : BOOLEAN, clients : SUBSET Client,
                                      resources : SUBSET Resources,
                                      scopes : ScopeList \ {{}}] \cup {FdNone}]
        /\ fdMappings' \in [FdIds -> MappingRow \cup {FdNone}]
        /\ fdGone' \in [rows : SUBSET ({"idp", "policy"} \X FdIds),
                        overlapped : SUBSET ({"idp", "policy"} \X FdIds)]
    <3>1. CASE UNCHANGED <<fdIdp, fdPolicies, fdMappings, fdGone>>
      BY <1>0, <3>1 DEF FdStored
    <3>2. CASE IdpHas(r.id) /\ FdRemoves(r.id)
      BY <1>0, <1>H, <3>2 DEF FdStored, FdRemoves, FdIdpRows
    <3> QED BY <1>G, <3>1, <3>2
  <2> QED BY <1>0, <2>1, <2>2 DEF FdStored, DPoPTypeOK
<1>5. FdLinked'
  <2>1. CASE UNCHANGED <<fdIdp, fdPolicies, fdMappings, fdGone>>
    BY <2>1, LinkedKeep DEF FdInv
  <2>2. CASE FdRemoves(r.id)
    BY <2>2 DEF FdRemoves, FdLinked
  <2> QED BY <1>G, <2>1, <2>2
<1>6. FdProbed'
  <2>1. UNCHANGED <<xaJtis, fdPast, clock>>
    BY DEF DeleteIDP, fdAdminVars, fdHistory, fdWorld, dpVars
  <2> QED BY <2>1, ProbedKeep DEF FdInv
<1>7. FdSpends'
  <2>1. UNCHANGED <<fdSpent, dpJtis, clock>>
    BY DEF DeleteIDP, fdAdminVars, fdHistory, fdWorld, dpVars
  <2> QED BY <2>1, SpendsKeep DEF FdInv
<1>8. FdCached'
  <2>1. UNCHANGED <<fdWithdrawn, fdCache, clock>>
    BY DEF DeleteIDP, fdAdminVars, fdHistory, fdWorld, dpVars
  <2> QED BY <2>1, CachedKeep DEF FdInv
<1>9. FdRows'
  <2>1. CASE UNCHANGED <<fdIdp, fdPolicies, fdMappings, fdGone>>
    BY <1>3, <2>1, RowsKeep DEF FdInv
  <2>2. CASE IdpHas(r.id) /\ FdRemoves(r.id)
    <3>1. FdOld(r.id) /\ \A j \in FdIds : fdPolicies[j] # FdNone => FdOld(j)
      BY <2>2 DEF FdInv, FdRows, IdpHas
    <3>2. \A j \in FdIds : /\ <<"idp", j>> \in fdGone'.rows =>
                                 j = r.id \/ <<"idp", j>> \in fdGone.rows
                           /\ <<"policy", j>> \in fdGone'.rows =>
                                 fdPolicies[j] # FdNone \/ <<"policy", j>> \in fdGone.rows
      BY <2>2 DEF FdRemoves, FdIdpRows
    <3>3. fdIdp' = FdNone /\ \A j \in FdIds : fdPolicies'[j] = FdNone
      BY <2>2 DEF FdRemoves
    <3>4. OnlyOverlapRevives'
      BY <3>3 DEF OnlyOverlapRevives, IdpHas
    <3>5. \A i \in FdIds : <<"idp", i>> \in fdGone'.rows \/ <<"policy", i>> \in fdGone'.rows =>
                               FdOld(i)'
      BY <1>3, <3>1, <3>2 DEF FdInv, FdRows
    <3> QED BY <3>3, <3>4, <3>5 DEF FdRows
  <2> QED BY <1>G, <2>1, <2>2
<1>10. FdTokens'
  <2>1. UNCHANGED <<fdOut>>
    BY DEF DeleteIDP, fdAdminVars, fdHistory, fdWorld, dpVars
  <2> QED BY <2>1, TokensKeep DEF FdInv
<1>11. FdSeesUpdates
  <2>1. CASE UNCHANGED <<fdIdp, fdPolicies, fdMappings, fdGone>>
    BY <2>1, NothingDeleted
  <2>2. CASE FdRemoves(r.id)
    BY <2>2 DEF FdRemoves, FdIdpRows, FdSeesUpdates
  <2> QED BY <1>G, <2>1, <2>2
<1> QED BY <1>1, <1>2, <1>4, <1>5, <1>6, <1>7, <1>8, <1>9, <1>10, <1>11, StepKeeps

\* The unique index leaves one mapping of the subject.
LEMMA SaveCreatedMappingKeeps ==
    ASSUME FdInv, NEW p \in DpRequests, SaveCreatedMapping(p)
    PROVE  FdInv'
<1> DEFINE r == fdIn[p]
<1>0. /\ FdRequests /\ FdStored /\ FdRequest(r) /\ FdLocal(p)
  BY DEF FdInv, FdRequests
<1>1. PICK label \in FdLabels : FdTo(p, label) /\ FdLocal(p)'
  BY SaveCreatedMappingGoes
<1>2. fdAt[p] # "done" /\ UNCHANGED <<clock, fdUser, fdWithdrawn, fdWork>>
  BY SaveCreatedMappingGoes DEF SaveCreatedMapping, fdWorld, dpVars
<1>3. \A i : FdOld(i) => FdOld(i)'
  BY <1>1, <1>2, OldStays
<1>F. r.row \in MappingRow /\ p \in FdIds
  BY <1>0 DEF SaveCreatedMapping, FdLocal, FdFits, FdIds
<1>G. \/ fdMappings' = fdMappings
      \/ /\ IdpHas(r.row.idp) /\ \A j \in FdIds : fdMappings[j] = FdNone
         /\ fdMappings' = [fdMappings EXCEPT ![p] = r.row]
  BY DEF SaveCreatedMapping, SaveMapping
<1>4. FdStored'
  <2>1. UNCHANGED <<fdWork, fdIdp, fdPolicies, fdCache, fdWithdrawn, fdOut, fdGone, clock,
                    dpJtis, dpNonces, xaJtis>>
    BY DEF SaveCreatedMapping, fdAdminVars, fdHistory, fdWorld, dpVars
  <2>2. fdMappings' \in [FdIds -> MappingRow \cup {FdNone}]
    BY <1>0, <1>F, <1>G DEF FdStored
  <2> QED BY <1>0, <2>1, <2>2 DEF FdStored, DPoPTypeOK
<1>5. FdLinked'
  <2>1. UNCHANGED <<fdIdp, fdPolicies>>
    BY DEF SaveCreatedMapping
  <2>2. CASE fdMappings' = fdMappings
    BY <2>1, <2>2, LinkedKeep DEF FdInv
  <2>3. CASE /\ IdpHas(r.row.idp) /\ \A j \in FdIds : fdMappings[j] = FdNone
             /\ fdMappings' = [fdMappings EXCEPT ![p] = r.row]
    <3>1. \A i \in FdIds : fdMappings'[i] = IF i = p THEN r.row ELSE FdNone
      BY <1>0, <1>F, <2>3 DEF FdStored
    <3> QED BY <2>1, <2>3, <3>1 DEF FdInv, FdLinked, IdpHas
  <2> QED BY <1>G, <2>2, <2>3
<1>6. FdProbed'
  <2>1. UNCHANGED <<xaJtis, fdPast, clock>>
    BY DEF SaveCreatedMapping, fdAdminVars, fdHistory, fdWorld, dpVars
  <2> QED BY <2>1, ProbedKeep DEF FdInv
<1>7. FdSpends'
  <2>1. UNCHANGED <<fdSpent, dpJtis, clock>>
    BY DEF SaveCreatedMapping, fdAdminVars, fdHistory, fdWorld, dpVars
  <2> QED BY <2>1, SpendsKeep DEF FdInv
<1>8. FdCached'
  <2>1. UNCHANGED <<fdWithdrawn, fdCache, clock>>
    BY DEF SaveCreatedMapping, fdAdminVars, fdHistory, fdWorld, dpVars
  <2> QED BY <2>1, CachedKeep DEF FdInv
<1>9. FdRows'
  <2>1. UNCHANGED <<fdIdp, fdPolicies, fdGone>>
    BY DEF SaveCreatedMapping, fdAdminVars, fdHistory, fdWorld, dpVars
  <2> QED BY <2>1, <1>3, RowsKeep DEF FdInv
<1>10. FdTokens'
  <2>1. UNCHANGED <<fdOut>>
    BY DEF SaveCreatedMapping, fdAdminVars, fdHistory, fdWorld, dpVars
  <2> QED BY <2>1, TokensKeep DEF FdInv
<1>11. FdSeesUpdates
  BY NothingDeleted DEF SaveCreatedMapping, fdAdminVars
<1> QED BY <1>1, <1>2, <1>4, <1>5, <1>6, <1>7, <1>8, <1>9, <1>10, <1>11, StepKeeps

\* DeleteMapping removes one row.
LEMMA DeleteMappingKeeps ==
    ASSUME FdInv, NEW p \in DpRequests, DeleteMapping(p)
    PROVE  FdInv'
<1> DEFINE r == fdIn[p]
<1>0. /\ FdRequests /\ FdStored /\ FdRequest(r) /\ FdLocal(p)
  BY DEF FdInv, FdRequests
<1>1. PICK label \in FdLabels : FdTo(p, label) /\ FdLocal(p)'
  BY DeleteMappingGoes
<1>2. fdAt[p] # "done" /\ UNCHANGED <<clock, fdUser, fdWithdrawn, fdWork>>
  BY DeleteMappingGoes DEF DeleteMapping, fdWorld, dpVars
<1>3. \A i : FdOld(i) => FdOld(i)'
  BY <1>1, <1>2, OldStays
<1>F. PICK i \in FdIds : fdMappings' = [fdMappings EXCEPT ![i] = FdNone]
  BY DEF DeleteMapping, DeleteMappingRow
<1>4. FdStored'
  <2>1. UNCHANGED <<fdWork, fdIdp, fdPolicies, fdCache, fdWithdrawn, fdOut, fdGone, clock,
                    dpJtis, dpNonces, xaJtis>>
    BY DEF DeleteMapping, fdAdminVars, fdHistory, fdWorld, dpVars
  <2>2. fdMappings' \in [FdIds -> MappingRow \cup {FdNone}]
    BY <1>0, <1>F DEF FdStored
  <2> QED BY <1>0, <2>1, <2>2 DEF FdStored, DPoPTypeOK
<1>5. FdLinked'
  <2>1. UNCHANGED <<fdIdp, fdPolicies>>
    BY DEF DeleteMapping
  <2>2. \A j \in FdIds : fdMappings'[j] = IF j = i THEN FdNone ELSE fdMappings[j]
    BY <1>0, <1>F DEF FdStored
  <2> QED BY <2>1, <2>2 DEF FdInv, FdLinked
<1>6. FdProbed'
  <2>1. UNCHANGED <<xaJtis, fdPast, clock>>
    BY DEF DeleteMapping, fdAdminVars, fdHistory, fdWorld, dpVars
  <2> QED BY <2>1, ProbedKeep DEF FdInv
<1>7. FdSpends'
  <2>1. UNCHANGED <<fdSpent, dpJtis, clock>>
    BY DEF DeleteMapping, fdAdminVars, fdHistory, fdWorld, dpVars
  <2> QED BY <2>1, SpendsKeep DEF FdInv
<1>8. FdCached'
  <2>1. UNCHANGED <<fdWithdrawn, fdCache, clock>>
    BY DEF DeleteMapping, fdAdminVars, fdHistory, fdWorld, dpVars
  <2> QED BY <2>1, CachedKeep DEF FdInv
<1>9. FdRows'
  <2>1. UNCHANGED <<fdIdp, fdPolicies, fdGone>>
    BY DEF DeleteMapping, fdAdminVars, fdHistory, fdWorld, dpVars
  <2> QED BY <2>1, <1>3, RowsKeep DEF FdInv
<1>10. FdTokens'
  <2>1. UNCHANGED <<fdOut>>
    BY DEF DeleteMapping, fdAdminVars, fdHistory, fdWorld, dpVars
  <2> QED BY <2>1, TokensKeep DEF FdInv
<1>11. FdSeesUpdates
  BY NothingDeleted DEF DeleteMapping, fdAdminVars
<1> QED BY <1>1, <1>2, <1>4, <1>5, <1>6, <1>7, <1>8, <1>9, <1>10, <1>11, StepKeeps

\* An administrator's change of the user: a request that has seen it active stands.
LEMMA UserChangesKeeps ==
    ASSUME FdInv, UserChanges
    PROVE  FdInv'
<1>1. /\ UNCHANGED <<fdAt, fdWork, fdIdp, fdPolicies, fdMappings, fdCache, fdWithdrawn, fdOut,
                     fdGone, dpVars>>
      /\ UNCHANGED <<xaJtis, fdPast, clock>> /\ UNCHANGED <<fdSpent, dpJtis, clock>>
  BY DEF UserChanges, fdAdminVars, fdHistory, dpVars
<1>2. ASSUME NEW q \in DpRequests
      PROVE  FdRequest(fdIn'[q]) /\ FdLocal(q)'
  <2>1. FdRequest(fdIn[q]) /\ FdLocal(q)
    BY DEF FdInv, FdRequests
  <2>0. PICK to \in FdStatuses \ {fdUser.row} :
          /\ fdUser' = [row |-> to, stale |-> UserAnswers \ {to}]
          /\ fdIn' = [p \in DpRequests |-> [fdIn[p] EXCEPT !.gone = fdIn[p].gone /\ to # "active"]]
    BY DEF UserChanges
  <2>2. PICK gone \in BOOLEAN : gone <=> (fdIn[q].gone /\ to # "active")
    OBVIOUS
  <2> DEFINE new == [fdIn[q] EXCEPT !.gone = gone]
  <2>3. fdIn'[q] = new
    <3>1. fdIn'[q] = [fdIn[q] EXCEPT !.gone = fdIn[q].gone /\ to # "active"]
      BY <2>0
    <3>2. (fdIn[q].gone /\ to # "active") = gone
      BY <2>1, <2>2, Zenon DEF FdRequest
    <3> QED BY <3>1, <3>2, Zenon
  <2>4. /\ FdRequest(new) /\ new.op = fdIn[q].op /\ new.a = fdIn[q].a /\ new.id = fdIn[q].id
        /\ new.proof = fdIn[q].proof /\ new.row = fdIn[q].row /\ new.now = fdIn[q].now
        /\ new.key = fdIn[q].key /\ new.scopes = fdIn[q].scopes /\ new.bound = fdIn[q].bound
        /\ new.sub = fdIn[q].sub /\ new.gone = gone
    BY <2>1 DEF FdRequest
  <2> HIDE DEF new
  <2>5. FdStanding(q)'
    <3>1. UserAnswers' = UserAnswers \cup {to}
      BY <2>0 DEF UserAnswers
    <3> QED BY <2>1, <2>2, <2>3, <2>4, <3>1 DEF FdLocal, FdStanding
  <2>6. FdFits(q)' /\ FdWaits(q)' /\ FdChecked(q)' /\ FdKeyed(q)'
    BY <1>1, <2>1, <2>3, <2>4
       DEF FdLocal, FdFits, FdWaits, FdChecked, FdKeyed, FdPublishedAt
  <2>7. FdSaving(q)' /\ FdAllowed(q)'
    BY <1>1, <2>1, <2>3, <2>4 DEF FdLocal, FdSaving, FdAllowed, FdOld
  <2> QED BY <2>3, <2>4, <2>5, <2>6, <2>7 DEF FdLocal
<1>3. FdRequests'
  <2>1. DOMAIN fdIn' = DpRequests /\ \A q \in DpRequests : FdRequest(fdIn'[q])
    BY <1>2 DEF UserChanges
  <2> QED BY <1>1, <2>1 DEF FdInv, FdRequests, FdRequest
<1>4. FdStored' /\ FdLinked' /\ FdProbed'
  BY <1>1, StoredKeep, LinkedKeep, ProbedKeep DEF FdInv
<1>5. \A i : FdOld(i) => FdOld(i)'
  BY <1>1 DEF FdOld
<1>6. FdSpends' /\ FdCached' /\ FdRows' /\ FdTokens'
  BY <1>1, <1>5, SpendsKeep, CachedKeep, RowsKeep, TokensKeep DEF FdInv
<1>7. \A q \in DpRequests : FdLocal(q)'
  BY <1>2
<1> QED BY <1>3, <1>4, <1>6, <1>7 DEF FdInv

\* The cache forgets a status: what a request has seen of the user stays true.
LEMMA UserCacheKeeps ==
    ASSUME FdInv, UserCacheLapses
    PROVE  FdInv'
<1>1. /\ UNCHANGED <<fdAt, fdIn, fdWork, fdIdp, fdPolicies, fdMappings, fdCache, fdWithdrawn,
                     fdOut, fdGone, dpVars>>
      /\ UNCHANGED <<xaJtis, fdPast, clock>> /\ UNCHANGED <<fdSpent, dpJtis, clock>>
  BY DEF UserCacheLapses, fdSystem, fdAdminVars, fdHistory, dpVars
<1>2. UserAnswers' \subseteq UserAnswers
  BY DEF UserCacheLapses, UserAnswers
<1>3. \A i : FdOld(i) <=> FdOld(i)'
  BY <1>1 DEF FdOld
<1>4. ASSUME NEW q \in DpRequests PROVE FdLocal(q)'
  <2>1. FdLocal(q)
    BY DEF FdInv
  <2>2. FdStanding(q)'
    BY <1>1, <1>2, <2>1 DEF FdLocal, FdStanding
  <2>3. FdFits(q)' /\ FdWaits(q)' /\ FdChecked(q)' /\ FdKeyed(q)'
    BY <1>1, <2>1 DEF FdLocal, FdFits, FdWaits, FdChecked, FdKeyed, FdPublishedAt
  <2>4. FdSaving(q)' /\ FdAllowed(q)'
    BY <1>1, <1>3, <2>1 DEF FdLocal, FdSaving, FdAllowed, FdOld
  <2> QED BY <2>2, <2>3, <2>4 DEF FdLocal
<1>5. FdRequests'
  BY <1>1 DEF FdInv, FdRequests, FdRequest
<1>6. FdStored' /\ FdLinked' /\ FdProbed'
  BY <1>1, StoredKeep, LinkedKeep, ProbedKeep DEF FdInv
<1>7. FdSpends' /\ FdCached' /\ FdRows' /\ FdTokens'
  BY <1>1, <1>3, SpendsKeep, CachedKeep, RowsKeep, TokensKeep DEF FdInv
<1> QED BY <1>4, <1>5, <1>6, <1>7 DEF FdInv

\* The issuer's next key: nothing that is held was asked for after the rotation.
LEMMA IssuerRotatesKeeps ==
    ASSUME FdInv, IssuerRotates
    PROVE  FdInv'
<1>1. /\ UNCHANGED <<fdAt, fdIn, fdWork, fdIdp, fdPolicies, fdMappings, fdCache, fdOut,
                     fdGone, fdUser, dpVars>>
      /\ UNCHANGED <<xaJtis, fdPast, clock>> /\ UNCHANGED <<fdSpent, dpJtis, clock>>
  BY DEF IssuerRotates, fdSystem, fdAdminVars, fdHistory, dpVars
<1> DEFINE k == Published
<1>2. k \in 1 .. Keys /\ fdWithdrawn[k] = FdNone /\ k < Keys
      /\ \A j \in 1 .. k - 1 : fdWithdrawn[j] # FdNone
  BY PublishedKey DEF FdInv, FdCached, IssuerRotates
<1>3. fdWithdrawn' = [fdWithdrawn EXCEPT ![k] = clock]
  BY DEF IssuerRotates
<1> HIDE DEF k
<1>4. /\ clock \in 0 .. MaxClock /\ clock \in Nat /\ clock # FdNone
      /\ fdWithdrawn \in [1 .. Keys -> (0 .. MaxClock) \cup {FdNone}]
  BY DPoPAssumption, FdNoneAssumption DEF FdInv, FdStored, DPoPTypeOK
<1>5. \A j \in 1 .. Keys : fdWithdrawn'[j] = IF j = k THEN clock ELSE fdWithdrawn[j]
  BY <1>2, <1>3, <1>4
<1>6. FdStored'
  <2>1. fdWithdrawn' \in [1 .. Keys -> (0 .. MaxClock) \cup {FdNone}]
    BY <1>2, <1>3, <1>4
  <2> QED BY <1>1, <2>1 DEF FdInv, FdStored, dpVars, DPoPTypeOK
<1>7. FdPublishes'
  <2>1. PICK m \in 1 .. Keys : /\ \A j \in 1 .. m - 1 : fdWithdrawn[j] # FdNone
                               /\ \A j \in m .. Keys : fdWithdrawn[j] = FdNone
    BY DEF FdInv, FdCached, FdPublishes
  <2>2. m = k
    <3>1. ~(k < m)
      <4>1. ASSUME k < m PROVE FALSE
        <5>1. k \in 1 .. m - 1
          BY <1>2, <4>1, FdTimes
        <5> QED BY <1>2, <2>1, <5>1
      <4> QED BY <4>1
    <3>2. ~(m < k)
      <4>1. ASSUME m < k PROVE FALSE
        <5>1. m \in 1 .. k - 1 /\ m \in m .. Keys
          BY <1>2, <4>1, FdTimes
        <5> QED BY <1>2, <2>1, <5>1
      <4> QED BY <4>1
    <3> QED BY <1>2, <3>1, <3>2, FdTimes
  <2>3. k + 1 \in 1 .. Keys
    BY <1>2, FdTimes
  <2>4. \A j \in 1 .. (k + 1) - 1 : fdWithdrawn'[j] # FdNone
    BY <1>2, <1>4, <1>5, FdTimes
  <2>5. \A j \in (k + 1) .. Keys : fdWithdrawn'[j] = FdNone
    <3>1. ASSUME NEW j \in (k + 1) .. Keys PROVE fdWithdrawn'[j] = FdNone
      <4>1. j \in k .. Keys /\ j \in 1 .. Keys /\ j # k
        BY <1>2, FdTimes
      <4> QED BY <1>5, <2>1, <2>2, <4>1
    <3> QED BY <3>1
  <2> QED BY <2>3, <2>4, <2>5 DEF FdPublishes
<1>8. FdCached'
  <2>1. fdCache # FdNone => fdCache.key \in 1 .. Keys /\ fdCache.exp <= clock + TTL
                            /\ FdPublishedAt(fdCache.key, fdCache.exp, TTL)
    BY DEF FdInv, FdStored, FdCached, FdCopy
  <2> QED BY <1>1, <1>5, <1>7, <2>1 DEF FdCached, FdPublishedAt
<1>9. ASSUME NEW q \in DpRequests PROVE FdLocal(q)'
  <2>1. FdRequest(fdIn[q]) /\ FdLocal(q)
    BY DEF FdInv, FdRequests
  <2>2. /\ fdIn[q].now \in 0 .. MaxClock /\ fdIn[q].now <= clock
        /\ fdIn[q].key # FdNone => fdIn[q].key \in 1 .. Keys
        /\ fdAt[q] = "fetch" /\ fdIn[q].row # FdNone =>
              fdIn[q].row.key \in 1 .. Keys /\ fdIn[q].row.exp <= clock + TTL
        /\ fdAt[q] = "store" => fdIn[q].key \in 1 .. Keys
    BY <2>1 DEF FdRequest, FdLocal, FdFits, FdKeyed, FdCopy
  <2>3. fdIn[q].now < clock + TTL + MaxStale
    BY <1>4, <2>2, FdTimes, FdTTL, DPoPAssumption
  <2>4. FdKeyed(q)'
    BY <1>1, <1>4, <1>5, <2>1, <2>2, <2>3 DEF FdLocal, FdKeyed, FdPublishedAt
  <2>5. FdFits(q)' /\ FdWaits(q)' /\ FdChecked(q)'
    BY <1>1, <2>1 DEF FdLocal, FdFits, FdWaits, FdChecked
  <2>6. FdStanding(q)' /\ FdSaving(q)' /\ FdAllowed(q)'
    BY <1>1, <2>1 DEF FdLocal, FdStanding, UserAnswers, FdSaving, FdAllowed, FdOld
  <2> QED BY <2>4, <2>5, <2>6 DEF FdLocal
<1>10. FdRequests' /\ FdLinked' /\ FdProbed'
  BY <1>1, LinkedKeep, ProbedKeep DEF FdInv, FdRequests, FdRequest
<1>11. \A i : FdOld(i) => FdOld(i)'
  BY <1>1 DEF FdOld
<1>12. FdSpends' /\ FdRows' /\ FdTokens'
  BY <1>1, <1>11, SpendsKeep, RowsKeep, TokensKeep DEF FdInv
<1> QED BY <1>6, <1>8, <1>9, <1>10, <1>12 DEF FdInv

\* Time passes: rows stay, and a request between a check and its call is not late.
LEMMA FdTickKeeps ==
    ASSUME FdInv, FdTick
    PROVE  FdInv'
<1>1. UNCHANGED <<fdAt, fdIn, fdWork, fdIdp, fdPolicies, fdMappings, fdCache, fdOut,
                  fdPast, fdSpent, fdGone, fdUser, fdWithdrawn, dpJtis, dpNonces, xaJtis>>
  BY DEF FdTick, fdSystem, fdAdminVars, fdHistory
<1>2. /\ clock \in Nat /\ clock' = clock + 1 /\ clock' \in 0 .. MaxClock
      /\ \A p \in DpRequests : fdAt[p] \in {"consume", "spend"} => clock < fdIn[p].now + MaxLag
  BY DPoPAssumption DEF FdTick, FdInv, FdStored, DPoPTypeOK
<1>3. FdStored'
  BY <1>1, <1>2 DEF FdInv, FdStored, DPoPTypeOK
<1>4. FdProbed'
  <2>1. \A a \in Assertions : a.exp + JTIBuffer \in Nat
    BY FdAssumption, FdTimes, DPoPAssumption
  <2> QED BY <1>1, <1>2, <2>1 DEF FdInv, FdProbed, OneProbePerAssertion
<1>5. FdSpends'
  <2>1. \A q \in Proofs : ProofIat[q] + ProofLifetime \in Nat
    BY DPoPAssumption
  <2> QED BY <1>1, <1>2, <2>1 DEF FdInv, FdSpends
<1>6. FdCached'
  <2>1. fdCache # FdNone => fdCache.exp \in Nat
    BY FdTimes, DPoPAssumption DEF FdInv, FdStored, FdCopy
  <2> QED BY <1>1, <1>2, <2>1, FdTimes DEF FdInv, FdCached, FdPublishes, FdPublishedAt
<1>7. ASSUME NEW q \in DpRequests PROVE FdLocal(q)'
  <2>1. FdRequest(fdIn[q]) /\ FdLocal(q) /\ fdIn[q].now \in Nat
    BY DPoPAssumption DEF FdInv, FdRequests, FdRequest
  <2>2. FdWaits(q)'
    BY <1>1, <1>2, <2>1, FdTimes DEF FdLocal, FdWaits
  <2>3. FdFits(q)'
    BY <1>1, <1>2, <2>1 DEF FdLocal, FdFits
  <2>4. FdKeyed(q)'
    <3>1. fdAt[q] = "fetch" /\ fdIn[q].row # FdNone => fdIn[q].row.exp \in Nat
      BY <2>1, FdTimes, DPoPAssumption DEF FdLocal, FdFits, FdCopy
    <3> QED BY <1>1, <1>2, <2>1, <3>1, FdTimes DEF FdLocal, FdKeyed, FdPublishedAt
  <2>5. FdChecked(q)' /\ FdStanding(q)' /\ FdSaving(q)' /\ FdAllowed(q)'
    BY <1>1, <2>1 DEF FdLocal, FdChecked, FdStanding, UserAnswers, FdSaving, FdAllowed, FdOld
  <2> QED BY <2>2, <2>3, <2>4, <2>5 DEF FdLocal
<1>8. FdRequests' /\ FdLinked'
  BY <1>1, LinkedKeep DEF FdInv, FdRequests, FdRequest
<1>9. \A i : FdOld(i) => FdOld(i)'
  BY <1>1 DEF FdOld
<1>10. FdRows' /\ FdTokens'
  BY <1>1, <1>9, RowsKeep, TokensKeep DEF FdInv
<1> QED BY <1>3, <1>4, <1>5, <1>6, <1>7, <1>8, <1>10 DEF FdInv

\* The purge commands take rows that have expired, and no others.
LEMMA PurgeKeeps ==
    ASSUME FdInv, Purge
    PROVE  FdInv'
<1>1. UNCHANGED <<fdAt, fdIn, fdWork, fdIdp, fdPolicies, fdMappings, fdCache, fdOut,
                  fdPast, fdSpent, fdGone, fdUser, fdWithdrawn, clock>>
  BY DEF Purge, PurgeProofs, PurgeAssertions, fdSystem, fdAdminVars, fdHistory
<1>2. DPoPTypeOK
  BY DEF FdInv, FdStored
<1>3. DPoPTypeOK'
  <2>1. CASE PurgeProofs
    BY <1>2, <2>1 DEF DPoPTypeOK, PurgeProofs, Kept
  <2>2. CASE PurgeAssertions
    BY <1>2, <2>2 DEF DPoPTypeOK, PurgeAssertions, Kept
  <2> QED BY <2>1, <2>2 DEF Purge
<1>4. \A j \in Jtis : xaJtis'[j] = xaJtis[j] \/ (xaJtis[j] < clock /\ xaJtis'[j] = DpNone)
  BY <1>2 DEF DPoPTypeOK, Purge, PurgeProofs, PurgeAssertions, Kept
<1>5. \A q \in Proofs : dpJtis'[q] = dpJtis[q] \/ (dpJtis[q] # DpNone /\ dpJtis[q] < clock)
  BY <1>2 DEF DPoPTypeOK, Purge, PurgeProofs, PurgeAssertions, Kept
<1>6. FdProbed'
  <2>1. ASSUME NEW x \in fdPast, NEW a \in Assertions, x[1] = a.jti
        PROVE  xaJtis'[a.jti] = a.exp + JTIBuffer \/ clock > a.exp + JTIBuffer
    <3>1. /\ a.jti \in Jtis /\ a.exp + JTIBuffer \in Nat /\ clock \in Nat
          /\ xaJtis[a.jti] = a.exp + JTIBuffer \/ clock > a.exp + JTIBuffer
      BY <1>2, <2>1, FdAssumption, FdTimes, DPoPAssumption DEF FdInv, FdProbed, DPoPTypeOK
    <3> QED BY <1>4, <3>1
  <2>2. \A j \in Jtis : xaJtis'[j] # DpNone => xaJtis'[j] <= MaxClock + JTIBuffer
    BY <1>4 DEF FdInv, FdProbed
  <2> QED BY <1>1, <2>1, <2>2 DEF FdInv, FdProbed, OneProbePerAssertion
<1>7. FdSpends'
  <2>1. ASSUME NEW q \in fdSpent
        PROVE  /\ q \in Proofs
               /\ \/ dpJtis'[q] # DpNone /\ ProofIat[q] + ProofLifetime <= dpJtis'[q]
                  \/ clock > ProofIat[q] + ProofLifetime
    <3>1. q \in Proofs /\ ProofIat[q] + ProofLifetime \in Nat /\ clock \in Nat
          /\ (dpJtis[q] # DpNone => dpJtis[q] \in Nat)
      BY <1>2, <2>1, DPoPAssumption DEF FdInv, FdSpends, DPoPTypeOK
    <3> QED BY <1>5, <2>1, <3>1 DEF FdInv, FdSpends
  <2> QED BY <1>1, <2>1 DEF FdSpends
<1>8. ASSUME NEW q \in DpRequests PROVE FdLocal(q)'
  <2>1. FdLocal(q)
    BY DEF FdInv
  <2> QED BY <1>1, <2>1
      DEF FdLocal, FdFits, FdWaits, FdChecked, FdKeyed, FdPublishedAt, FdStanding, FdSaving,
          UserAnswers, FdAllowed, FdOld
<1>9. FdStored'
  BY <1>1, <1>3 DEF FdInv, FdStored
<1>10. FdRequests' /\ FdLinked' /\ FdCached'
  BY <1>1, LinkedKeep, CachedKeep DEF FdInv, FdRequests, FdRequest
<1>11. \A i : FdOld(i) => FdOld(i)'
  BY <1>1 DEF FdOld
<1>12. FdRows' /\ FdTokens'
  BY <1>1, <1>11, RowsKeep, TokensKeep DEF FdInv
<1> QED BY <1>6, <1>7, <1>8, <1>9, <1>10, <1>12 DEF FdInv

\* The first state: the seeded issuer, policy and mapping.
LEMMA FdInvInit ==
    ASSUME FederationInit
    PROVE  FdInv
<1>1. FdRequest(Idle) /\ Idle.op = "none" /\ Idle.now = 0 /\ Idle.key = FdNone
      /\ Idle.sub = FdNone /\ Idle.gone = FALSE
  BY IdleRequest
<1>2. /\ fdAt = [p \in DpRequests |-> "idle"] /\ fdIn = [p \in DpRequests |-> Idle]
      /\ clock = 0
  BY DEF FederationInit, DPoPInit
<1>3. FdRequests
  BY <1>1, <1>2 DEF FdRequests, FdLabels
<1>4. ASSUME NEW p \in DpRequests PROVE FdLocal(p)
  BY <1>1, <1>2
      DEF FdLocal, FdFits, FdWaits, FdChecked, FdKeyed, FdPublishedAt, FdStanding, FdSaving,
          UserAnswers, FdAllowed
<1>5. DPoPTypeOK
  BY DPoPAssumption DEF FederationInit, DPoPInit, DPoPTypeOK
<1>6. FdStored
  <2>1. "seed" \in FdIds
    BY DEF FdIds
  <2>2. fdIdp \in IdpRow
    BY <2>1 DEF FederationInit, IdpRow
  <2>3. [idp |-> "seed", enabled |-> TRUE, clients |-> {}, resources |-> {}, scopes |-> FdNone]
          \in [idp : FdIds, enabled : BOOLEAN, clients : SUBSET Client,
               resources : SUBSET Resources, scopes : ScopeList \ {{}}]
    BY <2>1, FdNoneAssumption DEF ScopeList
  <2>4. [idp |-> "seed", user |-> TRUE] \in MappingRow
    BY <2>1 DEF MappingRow
  <2> QED BY <1>5, <2>2, <2>3, <2>4 DEF FederationInit, FdStored
<1>7. FdLinked
  <2>1. /\ fdIdp = [id |-> "seed", enabled |-> TRUE]
        /\ \A i \in FdIds : fdPolicies[i] # FdNone => fdPolicies[i].idp = "seed"
        /\ \A i \in FdIds : fdMappings[i] # FdNone => i = "seed" /\ fdMappings[i].idp = "seed"
    BY DEF FederationInit
  <2>2. fdIdp # FdNone
    <3>1. fdIdp \in IdpRow
      BY <2>1 DEF IdpRow, FdIds
    <3> QED BY <3>1, FdNoneAssumption
  <2> QED BY <2>1, <2>2 DEF FdLinked
<1>8. FdProbed /\ FdSpends
  BY DEF FederationInit, DPoPInit, FdProbed, FdSpends, OneProbePerAssertion
<1>9. FdCached
  <2>1. 1 \in 1 .. Keys
    BY FdTimes, FdTTL
  <2>2. FdPublishes
    BY <2>1 DEF FederationInit, FdPublishes
  <2> QED BY <2>2 DEF FederationInit, FdCached
<1>10. FdRows
  BY DEF FederationInit, FdRows, FdOld, OnlyOverlapRevives
<1>11. FdTokens
  BY DEF FederationInit, FdTokens, NoTokenForGoneUser, BearerWithinCeilings
<1> QED BY <1>3, <1>4, <1>6, <1>7, <1>8, <1>9, <1>10, <1>11 DEF FdInv

\* Every step keeps the invariant.
LEMMA FdInvStep ==
    ASSUME FdInv, [FederationNext]_fdVars
    PROVE  FdInv'
<1>1. ASSUME NEW p \in DpRequests, GrantJWTBearer(p) PROVE FdInv'
  BY <1>1, GrantJWTBearerKeeps
<1>2. ASSUME NEW p \in DpRequests, LoadKeys(p) PROVE FdInv'
  <2>1. fdAt[p] # "done" /\ \E label \in FdLabels : FdTo(p, label) /\ FdLocal(p)'
    BY <1>2, LoadKeysGoes
  <2>2. UNCHANGED <<fdCache, fdAdminVars, fdHistory, fdWorld, dpVars>>
    BY <1>2 DEF LoadKeys
  <2> QED BY <2>1, <2>2, QuietKeeps
<1>3. ASSUME NEW p \in DpRequests, FetchKeys(p) PROVE FdInv'
  <2>1. fdAt[p] # "done" /\ \E label \in FdLabels : FdTo(p, label) /\ FdLocal(p)'
    BY <1>3, FetchKeysGoes
  <2>2. UNCHANGED <<fdCache, fdAdminVars, fdHistory, fdWorld, dpVars>>
    BY <1>3 DEF FetchKeys
  <2> QED BY <2>1, <2>2, QuietKeeps
<1>4. ASSUME NEW p \in DpRequests, FetchFails(p) PROVE FdInv'
  <2>1. fdAt[p] # "done" /\ \E label \in FdLabels : FdTo(p, label) /\ FdLocal(p)'
    BY <1>4, FetchFailsGoes
  <2>2. UNCHANGED <<fdCache, fdAdminVars, fdHistory, fdWorld, dpVars>>
    BY <1>4 DEF FetchFails
  <2> QED BY <2>1, <2>2, QuietKeeps
<1>5. ASSUME NEW p \in DpRequests, StoreKeys(p) PROVE FdInv'
  BY <1>5, StoreKeysKeeps
<1>6. ASSUME NEW p \in DpRequests, ValidateAssertion(p) PROVE FdInv'
  <2>1. fdAt[p] # "done" /\ \E label \in FdLabels : FdTo(p, label) /\ FdLocal(p)'
    BY <1>6, ValidateAssertionGoes
  <2>2. UNCHANGED <<fdCache, fdAdminVars, fdHistory, fdWorld, dpVars>>
    BY <1>6 DEF ValidateAssertion
  <2> QED BY <2>1, <2>2, QuietKeeps
<1>7. ASSUME NEW p \in DpRequests, ConsumeAssertion(p) PROVE FdInv'
  BY <1>7, ConsumeAssertionKeeps
<1>8. ASSUME NEW p \in DpRequests, EvaluatePolicy(p) PROVE FdInv'
  <2>1. fdAt[p] # "done" /\ \E label \in FdLabels : FdTo(p, label) /\ FdLocal(p)'
    BY <1>8, EvaluatePolicyGoes
  <2>2. UNCHANGED <<fdCache, fdAdminVars, fdHistory, fdWorld, dpVars>>
    BY <1>8 DEF EvaluatePolicy
  <2> QED BY <2>1, <2>2, QuietKeeps
<1>9. ASSUME NEW p \in DpRequests, OtherGrant(p) PROVE FdInv'
  BY <1>9, OtherGrantKeeps
<1>10. ASSUME NEW p \in DpRequests, GuardResource(p) PROVE FdInv'
  <2>1. fdAt[p] # "done" /\ \E label \in FdLabels : FdTo(p, label) /\ FdLocal(p)'
    BY <1>10, GuardResourceGoes
  <2>2. UNCHANGED <<fdCache, fdAdminVars, fdHistory, fdWorld, dpVars>>
    BY <1>10 DEF GuardResource
  <2> QED BY <2>1, <2>2, QuietKeeps
<1>11. ASSUME NEW p \in DpRequests, CheckProof(p) PROVE FdInv'
  <2>1. fdAt[p] # "done" /\ \E label \in FdLabels : FdTo(p, label) /\ FdLocal(p)'
    BY <1>11, CheckProofGoes
  <2>2. UNCHANGED <<fdCache, fdAdminVars, fdHistory, fdWorld, dpVars>>
    BY <1>11 DEF CheckProof
  <2> QED BY <2>1, <2>2, QuietKeeps
<1>12. ASSUME NEW p \in DpRequests, SpendProof(p) PROVE FdInv'
  BY <1>12, SpendProofKeeps
<1>13. ASSUME NEW p \in DpRequests, ResolveSubject(p) PROVE FdInv'
  <2>1. fdAt[p] # "done" /\ \E label \in FdLabels : FdTo(p, label) /\ FdLocal(p)'
    BY <1>13, ResolveSubjectGoes
  <2>2. UNCHANGED <<fdCache, fdAdminVars, fdHistory, fdWorld, dpVars>>
    BY <1>13 DEF ResolveSubject
  <2> QED BY <2>1, <2>2, QuietKeeps
<1>14. ASSUME NEW p \in DpRequests, IssueBearer(p) PROVE FdInv'
  BY <1>14, IssueBearerKeeps
<1>15. ASSUME NEW p \in DpRequests, RegisterIDP(p) PROVE FdInv'
  BY <1>15, RegisterIDPKeeps
<1>16. ASSUME NEW p \in DpRequests, UpdateIDP(p) PROVE FdInv'
  <2>1. fdAt[p] # "done" /\ \E label \in FdLabels : FdTo(p, label) /\ FdLocal(p)'
    BY <1>16, UpdateIDPGoes
  <2>2. UNCHANGED <<fdCache, fdAdminVars, fdHistory, fdWorld, dpVars>>
    BY <1>16 DEF UpdateIDP
  <2> QED BY <2>1, <2>2, QuietKeeps
<1>17. ASSUME NEW p \in DpRequests, SaveUpdatedIdp(p) PROVE FdInv'
  BY <1>17, SaveUpdatedIdpKeeps
<1>18. ASSUME NEW p \in DpRequests, ReadIdp(p) PROVE FdInv'
  <2>1. fdAt[p] # "done" /\ \E label \in FdLabels : FdTo(p, label) /\ FdLocal(p)'
    BY <1>18, ReadIdpGoes
  <2>2. UNCHANGED <<fdCache, fdAdminVars, fdHistory, fdWorld, dpVars>>
    BY <1>18 DEF ReadIdp
  <2> QED BY <2>1, <2>2, QuietKeeps
<1>19. ASSUME NEW p \in DpRequests, DeleteIDP(p) PROVE FdInv'
  BY <1>19, DeleteIDPKeeps
<1>20. ASSUME NEW p \in DpRequests, InvalidateKeys(p) PROVE FdInv'
  BY <1>20, InvalidateKeysKeeps
<1>21. ASSUME NEW p \in DpRequests, CreatePolicy(p) PROVE FdInv'
  <2>1. fdAt[p] # "done" /\ \E label \in FdLabels : FdTo(p, label) /\ FdLocal(p)'
    BY <1>21, CreatePolicyGoes
  <2>2. UNCHANGED <<fdCache, fdAdminVars, fdHistory, fdWorld, dpVars>>
    BY <1>21 DEF CreatePolicy
  <2> QED BY <2>1, <2>2, QuietKeeps
<1>22. ASSUME NEW p \in DpRequests, UpdatePolicy(p) PROVE FdInv'
  <2>1. fdAt[p] # "done" /\ \E label \in FdLabels : FdTo(p, label) /\ FdLocal(p)'
    BY <1>22, UpdatePolicyGoes
  <2>2. UNCHANGED <<fdCache, fdAdminVars, fdHistory, fdWorld, dpVars>>
    BY <1>22 DEF UpdatePolicy
  <2> QED BY <2>1, <2>2, QuietKeeps
<1>23. ASSUME NEW p \in DpRequests, SaveWrittenPolicy(p) PROVE FdInv'
  BY <1>23, SaveWrittenPolicyKeeps
<1>24. ASSUME NEW p \in DpRequests, DeletePolicy(p) PROVE FdInv'
  BY <1>24, DeletePolicyKeeps
<1>25. ASSUME NEW p \in DpRequests, CreateMapping(p) PROVE FdInv'
  <2>1. fdAt[p] # "done" /\ \E label \in FdLabels : FdTo(p, label) /\ FdLocal(p)'
    BY <1>25, CreateMappingGoes
  <2>2. UNCHANGED <<fdCache, fdAdminVars, fdHistory, fdWorld, dpVars>>
    BY <1>25 DEF CreateMapping
  <2> QED BY <2>1, <2>2, QuietKeeps
<1>26. ASSUME NEW p \in DpRequests, SaveCreatedMapping(p) PROVE FdInv'
  BY <1>26, SaveCreatedMappingKeeps
<1>27. ASSUME NEW p \in DpRequests, DeleteMapping(p) PROVE FdInv'
  BY <1>27, DeleteMappingKeeps
<1>28. ASSUME UserChanges PROVE FdInv'
  BY <1>28, UserChangesKeeps
<1>29. ASSUME IssuerRotates PROVE FdInv'
  BY <1>29, IssuerRotatesKeeps
<1>30. ASSUME FdTick PROVE FdInv'
  BY <1>30, FdTickKeeps
<1>31. ASSUME Purge PROVE FdInv'
  BY <1>31, PurgeKeeps
<1>33. ASSUME UserCacheLapses PROVE FdInv'
  BY <1>33, UserCacheKeeps
<1>32. CASE UNCHANGED fdVars
  <2>1. UNCHANGED <<fdAt, fdIn, fdWork, fdIdp, fdPolicies, fdMappings, fdCache, fdOut, fdPast,
                    fdSpent, fdGone, fdUser, fdWithdrawn, clock, dpJtis, dpNonces, xaJtis>>
    BY <1>32 DEF fdVars, dpVars
  <2>2. ASSUME NEW q \in DpRequests PROVE FdLocal(q)'
    <3>1. FdLocal(q)
      BY DEF FdInv
    <3> QED BY <2>1, <3>1
        DEF FdLocal, FdFits, FdWaits, FdChecked, FdKeyed, FdPublishedAt, FdStanding, FdSaving,
            UserAnswers, FdAllowed, FdOld
  <2>3. FdRequests' /\ FdStored' /\ FdLinked'
    BY <2>1, StoredKeep, LinkedKeep DEF FdInv, FdRequests, FdRequest, dpVars
  <2>4. \A i : FdOld(i) => FdOld(i)'
    BY <2>1 DEF FdOld
  <2>5. FdProbed' /\ FdSpends' /\ FdCached' /\ FdRows' /\ FdTokens'
    BY <2>1, <2>4, ProbedKeep, SpendsKeep, CachedKeep, RowsKeep, TokensKeep DEF FdInv
  <2> QED BY <2>2, <2>3, <2>5 DEF FdInv
<1> QED BY <1>1, <1>2, <1>3, <1>4, <1>5, <1>6, <1>7, <1>8, <1>9, <1>10, <1>11, <1>12, <1>13,
       <1>14, <1>15, <1>16, <1>17, <1>18, <1>19, <1>20, <1>21, <1>22, <1>23, <1>24,
       <1>25, <1>26, <1>27, <1>28, <1>29, <1>30, <1>31, <1>32,
       <1>33
        DEF FederationNext

\* What the invariant says of a key set, a mapping and a token is what was promised.
LEMMA FdInvSound ==
    ASSUME FdInv
    PROVE  FederationSound
<1>1. WithdrawnKeyDies
  <2> SUFFICES ASSUME NEW p \in DpRequests, fdAt[p] \in {"validate", "store"},
                      fdIn[p].key # FdNone, fdWithdrawn[fdIn[p].key] # FdNone
               PROVE  fdIn[p].now < fdWithdrawn[fdIn[p].key] + TTL + MaxStale
    BY DEF WithdrawnKeyDies
  <2>1. FdRequest(fdIn[p]) /\ FdKeyed(p)
    BY DEF FdInv, FdRequests, FdLocal
  <2>2. fdIn[p].now \in Nat /\ fdIn[p].key \in 1 .. Keys
    BY <2>1, DPoPAssumption DEF FdRequest
  <2>3. fdWithdrawn[fdIn[p].key] \in Nat
    BY <2>2, DPoPAssumption DEF FdInv, FdStored
  <2> QED BY <2>1, <2>2, <2>3, FdTimes, FdTTL DEF FdKeyed, FdPublishedAt
<1>2. Cardinality({i \in FdIds : fdMappings[i] # FdNone}) <= 1
  <2> DEFINE M == {i \in FdIds : fdMappings[i] # FdNone}
  <2>1. CASE M = {}
    BY <2>1, FS_EmptySet
  <2>2. CASE M # {}
    <3>1. PICK i : i \in M
      BY <2>2
    <3>2. M = {i}
      BY <3>1 DEF FdInv, FdLinked
    <3> HIDE DEF M
    <3>3. Cardinality(M) = 1
      BY <3>2, FS_Singleton
    <3> QED BY <3>3 DEF M
  <2> QED BY <2>1, <2>2
<1>3. FederationTypeOK
  BY <1>2 DEF FdInv, FdRequests, FdStored, FdLinked, FdProbed, FdCopy, FederationTypeOK
<1> QED BY <1>1, <1>3 DEF FdInv, FdProbed, FdTokens, FdRows, FederationSound

\* The invariant, always.
LEMMA FdInvHolds == FederationSpec => []FdInv
<1>1. FederationInit => FdInv
  BY FdInvInit
<1>2. FdInv /\ [FederationNext]_fdVars => FdInv'
  BY FdInvStep
<1> QED BY <1>1, <1>2, PTL DEF FederationSpec

\* jwt_bearer.go, idpjwks/cache.go, xaa_admin.go: an identity assertion buys one token, under
\* a key that was published within the bounds of the cache, for a user who had standing
\* within the TTL of the user cache, and within the ceilings of client, assertion and
\* policy; and a row that was deleted is back only when its deletion overlapped an
\* update.  For any number of requests.
THEOREM FederationStaysSound == FederationSpec => []FederationSound
<1>1. FdInv => FederationSound
  BY FdInvSound
<1> QED BY <1>1, FdInvHolds, PTL

\* Only SpendProof writes the table of proofs and moves a request, and its own.
LEMMA ProofStep ==
    ASSUME FdInv, [FederationNext]_fdVars, NEW p \in DpRequests,
           fdAt[p] = "spend", fdIn[p].now = clock, dpJtis' # dpJtis, fdAt'[p] # fdAt[p]
    PROVE  fdIn[p].proof \notin fdSpent
<1>1. SpendProof(p)
  <2>1. ASSUME NEW q \in DpRequests, SpendProof(q) PROVE q = p
    <3>1. fdAt' = [fdAt EXCEPT ![q] = "subject"] \/ fdAt' = [fdAt EXCEPT ![q] = "done"]
      BY <2>1 DEF SpendProof, FdGoto, FdEnd
    <3> QED BY <3>1 DEF FdInv, FdRequests
  <2>2. ~UNCHANGED fdVars /\ ~UserChanges /\ ~UserCacheLapses
        /\ ~IssuerRotates /\ ~FdTick /\ ~Purge
    BY DEF fdVars, dpVars, UserChanges, UserCacheLapses, IssuerRotates, FdTick, Purge, fdSystem
  <2>3. ASSUME NEW q \in DpRequests
        PROVE  /\ ~GrantJWTBearer(q) /\ ~LoadKeys(q) /\ ~FetchKeys(q) /\ ~FetchFails(q)
               /\ ~StoreKeys(q) /\ ~ValidateAssertion(q) /\ ~ConsumeAssertion(q)
               /\ ~EvaluatePolicy(q) /\ ~OtherGrant(q) /\ ~GuardResource(q)
               /\ ~CheckProof(q) /\ ~ResolveSubject(q) /\ ~IssueBearer(q)
               /\ ~RegisterIDP(q) /\ ~UpdateIDP(q) /\ ~SaveUpdatedIdp(q) /\ ~ReadIdp(q)
               /\ ~DeleteIDP(q) /\ ~InvalidateKeys(q) /\ ~CreatePolicy(q)
               /\ ~UpdatePolicy(q) /\ ~SaveWrittenPolicy(q) /\ ~DeletePolicy(q)
               /\ ~CreateMapping(q) /\ ~SaveCreatedMapping(q) /\ ~DeleteMapping(q)
    <3>1. ~GrantJWTBearer(q) /\ ~LoadKeys(q) /\ ~FetchKeys(q) /\ ~FetchFails(q)
      BY Zenon DEF GrantJWTBearer, LoadKeys, FetchKeys, FetchFails, dpVars
    <3>2. ~StoreKeys(q) /\ ~ValidateAssertion(q) /\ ~ConsumeAssertion(q)
      BY Zenon DEF StoreKeys, ValidateAssertion, ConsumeAssertion, dpVars
    <3>3. ~EvaluatePolicy(q) /\ ~OtherGrant(q) /\ ~GuardResource(q)
      BY Zenon DEF EvaluatePolicy, OtherGrant, GuardResource, dpVars
    <3>4. ~CheckProof(q) /\ ~ResolveSubject(q) /\ ~IssueBearer(q)
      BY Zenon DEF CheckProof, ResolveSubject, IssueBearer, dpVars
    <3>5. ~RegisterIDP(q) /\ ~UpdateIDP(q) /\ ~SaveUpdatedIdp(q) /\ ~ReadIdp(q)
      BY Zenon DEF RegisterIDP, UpdateIDP, SaveUpdatedIdp, ReadIdp, dpVars
    <3>6. ~DeleteIDP(q) /\ ~InvalidateKeys(q) /\ ~CreatePolicy(q)
      BY Zenon DEF DeleteIDP, InvalidateKeys, CreatePolicy, dpVars
    <3>7. ~UpdatePolicy(q) /\ ~SaveWrittenPolicy(q) /\ ~DeletePolicy(q)
      BY Zenon DEF UpdatePolicy, SaveWrittenPolicy, DeletePolicy, dpVars
    <3>8. ~CreateMapping(q) /\ ~SaveCreatedMapping(q) /\ ~DeleteMapping(q)
      BY Zenon DEF CreateMapping, SaveCreatedMapping, DeleteMapping, dpVars
    <3> QED BY <3>1, <3>2, <3>3, <3>4, <3>5, <3>6, <3>7, <3>8
  <2> QED BY <2>1, <2>2, <2>3, Zenon DEF FederationNext
<1>2. dpJtis[fdIn[p].proof] = DpNone
  BY <1>1 DEF SpendProof, ConsumeProof
<1>3. FdChecked(p) /\ fdIn[p].proof \in Proofs
  BY DEF FdInv, FdLocal, FdFits
<1>4. clock \in Nat /\ ProofIat[fdIn[p].proof] + ProofLifetime \in Nat
  BY <1>3, DPoPAssumption DEF FdInv, FdStored, DPoPTypeOK
<1> QED BY <1>2, <1>3, <1>4 DEF FdChecked, FdInv, FdSpends

\* dpop.go: a proof that comes a second time buys nothing, at the token endpoint or at a
\* resource, whatever the interleaving of the checks, the purges and the clock.
THEOREM ProofStaysSpent == FederationSpec => ProofBuysOnce
<1>1. FdInv /\ [FederationNext]_fdVars =>
        [\A p \in DpRequests :
            fdAt[p] = "spend" /\ fdIn[p].now = clock /\ dpJtis' # dpJtis /\ fdAt'[p] # fdAt[p]
            => fdIn[p].proof \notin fdSpent]_fdVars
  BY ProofStep
<1> QED BY <1>1, FdInvHolds, PTL DEF FederationSpec, ProofBuysOnce
=============================================================================
