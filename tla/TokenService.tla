---------------------------- MODULE TokenService ----------------------------
(***************************************************************************)
(* internal/services/token.go: redemption of an authorization code,        *)
(* rotation of a refresh token, and what the server does when either is    *)
(* presented a second time.  A request is a process; pc[p] names the store *)
(* call it makes next, so every action is one store call with the checks   *)
(* that follow it up to the next call.                                     *)
(***************************************************************************)
EXTENDS TokenStore

CONSTANTS Creds,       \* the sets of proofs a caller may come with
          Ops,         \* the operations a run starts
          FaultyStore, \* may store calls fail and processes die?
          Registered   \* does the resource resolve, so issuances get a row?

\* What a caller can prove: that it is the client the grant belongs to, that
\* it authenticates as the client it names, that it holds the PKCE verifier.
Proofs == {"client", "secret", "verifier"}

ASSUME CredsAssumption == Creds \subseteq SUBSET Proofs
ASSUME FaultyAssumption == FaultyStore \in BOOLEAN
ASSUME RegisteredAssumption == Registered \in BOOLEAN

VARIABLES
    pc,         \* the next store call of a request
    op,         \* the operation it runs
    input,      \* the session, refresh token or family it was given
    cred,       \* the proofs its caller holds
    tgt,        \* the family it loaded or created
    todo,       \* families an admin operation has collected and not handled
    held,       \* jtis of access tokens handed to a caller
    consumedBy, \* history: the request that rotated a refresh token
    reported    \* history: requests that reported "reuse detected, revoked"

reqVars  == <<op, input, cred>>
histVars == <<held, consumedBy, reported>>
serviceVars == <<pc, op, input, cred, tgt, todo, held, consumedBy, reported>>
vars == <<storeVars, serviceVars>>

ExchangeLabels == {"consume", "validate", "subject", "mint", "commit", "lookup"}
RefreshLabels  == {"load", "authenticate", "rotate", "resubject", "remint",
                   "track", "recheck", "undo", "create"}
HalfLabels     == {"revokeHalf", "denylistHalf"}
AdminLabels    == {"rvAuth", "rvLoad", "adGet", "flList", "flRevoke", "flDeny",
                   "cgRevoke", "cgIssuances", "cgList", "cgFamily", "cgDeny"}
Labels == {"idle", "done"} \cup ExchangeLabels \cup RefreshLabels
            \cup HalfLabels \cup AdminLabels
Operations == {"none", "exchange", "refresh", "revoke", "adminRevoke",
               "forceLogout", "revokeConsent"}

ServiceTypeOK ==
    /\ pc \in [Requests -> Labels]
    /\ op \in [Requests -> Operations]
    /\ input \in [Requests -> Requests \cup Sessions \cup {None}]
    /\ cred \in [Requests -> SUBSET Proofs]
    /\ tgt \in [Requests -> Requests \cup {None}]
    /\ todo \in [Requests -> SUBSET Requests]
    /\ held \in SUBSET Requests
    /\ consumedBy \in [Requests -> Requests \cup {None}]
    /\ reported \in SUBSET Requests

ServiceInit ==
    /\ pc = [p \in Requests |-> "idle"]
    /\ op = [p \in Requests |-> "none"]
    /\ input = [p \in Requests |-> None]
    /\ cred = [p \in Requests |-> {}]
    /\ tgt = [p \in Requests |-> None]
    /\ todo = [p \in Requests |-> {}]
    /\ held = {}
    /\ consumedBy = [r \in Requests |-> None]
    /\ reported = {}

Goto(p, label) == pc' = [pc EXCEPT ![p] = label]

At(p, label) == pc[p] = label

\* A request of operation o arrives with input i and proofs c.
Arrive(p, o, i, c, label) ==
    /\ o \in Ops
    /\ At(p, "idle")
    /\ op' = [op EXCEPT ![p] = o]
    /\ input' = [input EXCEPT ![p] = i]
    /\ cred' = [cred EXCEPT ![p] = c]
    /\ Goto(p, label)
    /\ UNCHANGED <<storeVars, tgt, todo, histVars>>

-----------------------------------------------------------------------------
(* exchangeCode *)

ExchangeCode(p) == \E s \in Sessions, c \in Creds : Arrive(p, "exchange", s, c, "consume")

\* Mutant: the gate forgets the client_id.
Credentialed_VerifierOnly(p) == "verifier" \in cred[p]

Credentialed(p) == {"client", "verifier"} \subseteq cred[p]

\* Step 1 succeeds: the code is now spent, whatever happens next.
ExchangeConsume(p) ==
    /\ At(p, "consume")
    /\ ConsumeByCodeHash(input[p])
    /\ Goto(p, "validate")
    /\ UNCHANGED <<sessExpired, famVars, rtVars, jtiVars, iss, tenantVars,
                   reqVars, tgt, todo, histVars>>

\* Step 1 fails.  A code already consumed goes to handleCodeReuse, which acts
\* only on a credentialed replay; an unknown code is refused at once.
ExchangeReplayed(p) ==
    /\ At(p, "consume")
    /\ sess[input[p]] # "issued"
    /\ Goto(p, IF sess[input[p]] = "consumed" /\ Credentialed(p)
               THEN "lookup" ELSE "done")
    /\ UNCHANGED <<storeVars, reqVars, tgt, todo, histVars>>

\* Steps 2 to 6.4: expiry, client_id, redirect_uri, client authentication,
\* PKCE and the requested resource.  The code stays spent on a refusal.
ExchangeValidate(p) ==
    /\ At(p, "validate")
    /\ input[p] \notin sessExpired
    /\ cred[p] = Proofs
    /\ client = "active"
    /\ Goto(p, "subject")
    /\ UNCHANGED <<storeVars, reqVars, tgt, todo, histVars>>

\* The user store behind the cache of UserDirectory: for the TTL of an entry it
\* may answer the status before the last change.
SeenActive   == user = "active" \/ userCache = "stale"
SeenInactive == user # "active" \/ userCache = "stale"

\* Step 6.5: the subject must still be active.
ExchangeSubject(p) ==
    /\ At(p, "subject")
    /\ SeenActive
    /\ Goto(p, "mint")
    /\ UNCHANGED <<storeVars, reqVars, tgt, todo, histVars>>

\* MintIssuer.Issue signs a token and, for a registered resource, inserts the
\* issuance row before anything else about the token is stored.
Issue(p) == IF Registered THEN InsertIssuance(p) ELSE UNCHANGED iss

\* Steps 7 and 8.
ExchangeMint(p) ==
    /\ At(p, "mint")
    /\ Issue(p)
    /\ Goto(p, "commit")
    /\ UNCHANGED <<sessVars, famVars, rtVars, jtiVars, tenantVars,
                   reqVars, tgt, todo, histVars>>

\* A best-effort TrackJTI may fail without failing the request.
TrackBestEffort(j, f) ==
    \/ TrackJTI(j, f)
    \/ FaultyStore /\ UNCHANGED tracked

\* Step 9, one transaction: the family, its first jti and, for a client
\* registered for the refresh_token grant, its first refresh token.  The
\* response follows with no store call in between.
ExchangeCommit(p) ==
    /\ At(p, "commit")
    /\ CreateFamily(p, input[p])
    /\ TrackBestEffort(p, p)
    /\ CreateRefreshToken(p, p) \/ UNCHANGED <<rt, rtFam>>
    /\ tgt' = [tgt EXCEPT ![p] = p]
    /\ held' = held \cup {p}
    /\ Goto(p, "done")
    /\ UNCHANGED <<sessVars, rtExpired, denied, jtiExpired, iss, tenantVars,
                   reqVars, todo, consumedBy, reported>>

\* Mutant: the family half is skipped.
ReplayLookup_DenylistOnly(p) ==
    /\ At(p, "lookup")
    /\ \/ /\ FamiliesOfSession(input[p]) = {}
          /\ Goto(p, "done")
          /\ UNCHANGED tgt
       \/ \E f \in FamiliesOfSession(input[p]) :
             /\ tgt' = [tgt EXCEPT ![p] = f]
             /\ Goto(p, "denylistHalf")
    /\ UNCHANGED <<storeVars, reqVars, todo, histVars>>

\* handleCodeReuse: look up the family the first redemption committed.  No
\* family: nothing is revoked.  A revoked one: only the denylist is retried.
ReplayLookup(p) ==
    /\ At(p, "lookup")
    /\ \/ /\ FamiliesOfSession(input[p]) = {}
          /\ Goto(p, "done")
          /\ UNCHANGED tgt
       \/ \E f \in FamiliesOfSession(input[p]) :
             /\ tgt' = [tgt EXCEPT ![p] = f]
             /\ Goto(p, IF fam[f] = "active" THEN "revokeHalf" ELSE "denylistHalf")
    /\ UNCHANGED <<storeVars, reqVars, todo, histVars>>

-----------------------------------------------------------------------------
(* refreshToken *)

\* Any token value ever handed out may come back.
RefreshToken(p) ==
    \E r \in Requests, c \in Creds :
        rt[r] # "none" /\ Arrive(p, "refresh", r, c, "load")

\* The token row, its expiry and its family, which must be active and belong
\* to the caller.
Loadable(p) ==
    /\ rt[input[p]] # "purged"
    /\ input[p] \notin rtExpired
    /\ fam[rtFam[input[p]]] = "active"
    /\ "client" \in cred[p]

RefreshLoad(p) ==
    /\ At(p, "load")
    /\ Loadable(p)
    /\ tgt' = [tgt EXCEPT ![p] = rtFam[input[p]]]
    /\ Goto(p, "authenticate")
    /\ UNCHANGED <<storeVars, reqVars, todo, histVars>>

\* authenticateClient, the grant type, the resource, the scope and the token
\* configuration: everything that may refuse runs before the consume.
RefreshAuthenticate(p) ==
    /\ At(p, "authenticate")
    /\ client = "active"
    /\ "secret" \in cred[p]
    /\ Goto(p, "rotate")
    /\ UNCHANGED <<storeVars, reqVars, tgt, todo, histVars>>

\* consumeOrRevokeFamily: the token was current and is now spent.
RefreshConsume(p) ==
    /\ At(p, "rotate")
    /\ ConsumeRefreshToken(input[p])
    /\ consumedBy' = [consumedBy EXCEPT ![input[p]] = p]
    /\ Goto(p, "resubject")
    /\ UNCHANGED <<sessVars, famVars, rtFam, rtExpired, jtiVars, iss, tenantVars,
                   reqVars, tgt, todo, held, reported>>

\* Mutant: reuse is refused and nothing more.
RefreshReused_RefuseOnly(p) ==
    /\ At(p, "rotate")
    /\ rt[input[p]] \in {"consumed", "purged"}
    /\ Goto(p, "done")
    /\ UNCHANGED <<storeVars, reqVars, tgt, todo, histVars>>

\* consumeOrRevokeFamily: the token was spent before, which is reuse; or the
\* row is gone, which is an ordinary invalid_grant.
RefreshReused(p) ==
    /\ At(p, "rotate")
    /\ rt[input[p]] \in {"consumed", "purged"}
    /\ Goto(p, IF rt[input[p]] = "consumed" THEN "revokeHalf" ELSE "done")
    /\ UNCHANGED <<storeVars, reqVars, tgt, todo, histVars>>

\* The subject is looked up after the consume, so a disabled user's refresh
\* token is spent all the same.
RefreshSubject(p) ==
    /\ At(p, "resubject")
    /\ SeenActive
    /\ Goto(p, "remint")
    /\ UNCHANGED <<storeVars, reqVars, tgt, todo, histVars>>

RefreshMint(p) ==
    /\ At(p, "remint")
    /\ Issue(p)
    /\ Goto(p, "track")
    /\ UNCHANGED <<sessVars, famVars, rtVars, jtiVars, tenantVars,
                   reqVars, tgt, todo, histVars>>

RefreshTrack(p) ==
    /\ At(p, "track")
    /\ TrackBestEffort(p, tgt[p])
    /\ Goto(p, "recheck")
    /\ UNCHANGED <<sessVars, famVars, rtVars, denied, jtiExpired, iss, tenantVars,
                   reqVars, tgt, todo, histVars>>

\* Mutant: the family is not read again.
RefreshRecheck_Skipped(p) ==
    /\ At(p, "recheck")
    /\ Goto(p, "create")
    /\ UNCHANGED <<storeVars, reqVars, tgt, todo, histVars>>

\* The family is read again: it may have been revoked while the token was
\* being signed.
RefreshRecheck(p) ==
    /\ At(p, "recheck")
    /\ Goto(p, IF fam[tgt[p]] = "active" THEN "create" ELSE "undo")
    /\ UNCHANGED <<storeVars, reqVars, tgt, todo, histVars>>

\* The family is revoked: the issuance row of the token nobody will receive is
\* revoked, best effort, and the request is refused.
RefreshUndo(p) ==
    /\ At(p, "undo")
    /\ RevokeIssuance(p) \/ (FaultyStore /\ UNCHANGED iss)
    /\ Goto(p, "done")
    /\ UNCHANGED <<sessVars, famVars, rtVars, jtiVars, tenantVars,
                   reqVars, tgt, todo, histVars>>

\* The rotated refresh token, then the response.
RefreshCreate(p) ==
    /\ At(p, "create")
    /\ CreateRefreshToken(p, tgt[p])
    /\ held' = held \cup {p}
    /\ Goto(p, "done")
    /\ UNCHANGED <<sessVars, famVars, rtExpired, jtiVars, iss, tenantVars,
                   reqVars, tgt, todo, consumedBy, reported>>

-----------------------------------------------------------------------------
(* The two halves of every family revocation: revokeFamilyHalf and           *)
(* denylistFamilyJTIs on the reuse paths, RevokeFamily and RevokeByFamily on  *)
(* the others.  They are two statements with no transaction around them.      *)

ReuseDetection == {"exchange", "refresh"}

\* The family half.  Only the call that changed the row reports a revocation.
RevokeHalf(p) ==
    /\ At(p, "revokeHalf")
    /\ RevokeFamily(tgt[p])
    /\ reported' = IF fam[tgt[p]] = "active" /\ op[p] \in ReuseDetection
                   THEN reported \cup {p} ELSE reported
    /\ Goto(p, "denylistHalf")
    /\ UNCHANGED <<sessVars, famSess, rtFam, rtExpired, jtiVars, iss, tenantVars,
                   reqVars, tgt, todo, held, consumedBy>>

\* The family half fails.  Reuse detection still runs the denylist half; the
\* revocation endpoint and the admin API stop.
RevokeHalfFails(p) ==
    /\ FaultyStore
    /\ At(p, "revokeHalf")
    /\ Goto(p, IF op[p] \in ReuseDetection THEN "denylistHalf" ELSE "done")
    /\ UNCHANGED <<storeVars, reqVars, tgt, todo, histVars>>

DenylistHalf(p) ==
    /\ At(p, "denylistHalf")
    /\ RevokeByFamily(tgt[p]) \/ (FaultyStore /\ UNCHANGED denied)
    /\ Goto(p, "done")
    /\ UNCHANGED <<sessVars, famVars, rtVars, tracked, jtiExpired, iss, tenantVars,
                   reqVars, tgt, todo, histVars>>

-----------------------------------------------------------------------------
(* Refusals and failures *)

\* A request is refused where the checks after its last store call say no: on
\* what the rows show, or on an input the model leaves out (redirect_uri,
\* resource, scope, grant type, DPoP proof).  Nothing it did is undone.
Refused(p) ==
    \/ pc[p] \in {"validate", "mint", "authenticate", "remint"}
    \/ pc[p] \in {"subject", "resubject"} /\ SeenInactive
    \/ At(p, "load") /\ ~Loadable(p)

Refuse(p) ==
    /\ Refused(p)
    /\ Goto(p, "done")
    /\ UNCHANGED <<storeVars, reqVars, tgt, todo, histVars>>

\* A store call that fails, a cancelled context or a process that dies: the
\* request ends where it stands and what it committed stays.
Fail(p) ==
    /\ FaultyStore
    /\ pc[p] \notin {"idle", "done"}
    /\ Goto(p, "done")
    /\ UNCHANGED <<storeVars, reqVars, tgt, todo, histVars>>

TokenServiceStep(p) ==
    \/ ExchangeConsume(p) \/ ExchangeReplayed(p) \/ ExchangeValidate(p)
    \/ ExchangeSubject(p) \/ ExchangeMint(p) \/ ExchangeCommit(p)
    \/ ReplayLookup(p)
    \/ RefreshLoad(p) \/ RefreshAuthenticate(p) \/ RefreshConsume(p)
    \/ RefreshReused(p) \/ RefreshSubject(p) \/ RefreshMint(p)
    \/ RefreshTrack(p) \/ RefreshRecheck(p) \/ RefreshUndo(p) \/ RefreshCreate(p)
    \/ RevokeHalf(p) \/ RevokeHalfFails(p) \/ DenylistHalf(p)
    \/ Refuse(p) \/ Fail(p)
=============================================================================
