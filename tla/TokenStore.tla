----------------------------- MODULE TokenStore -----------------------------
(***************************************************************************)
(* The rows that decide whether a token of one user at one client is       *)
(* usable, and the calls of the storage adapters that change them.  Each   *)
(* operator below is one SQL statement or one SQL transaction of the       *)
(* PostgreSQL adapter (the SQLite adapter has the same statements), so it  *)
(* is atomic; everything a request does between two of them interleaves    *)
(* with every other request, also with those of other server instances.    *)
(*                                                                         *)
(* A request draws at most one fresh family id, one fresh refresh token    *)
(* and one fresh access-token jti, all from crypto.GenerateRandomString,   *)
(* so each of them is named by the request that drew it.                   *)
(***************************************************************************)
EXTENDS Naturals, FiniteSets

CONSTANTS Requests,  \* the HTTP and admin requests of a behaviour
          Sessions,  \* authorization sessions whose code has been issued
          None       \* "no such row"

ASSUME NoneAssumption == None \notin Requests /\ None \notin Sessions

VARIABLES
    sess,        \* auth_sessions: is the code of the session spent?
    sessExpired, \* sessions whose expires_at has passed
    fam,         \* token_families: status of the family drawn by a request
    famSess,     \* token_families.auth_session_id
    rt,          \* refresh_tokens: state of the token drawn by a request
    rtFam,       \* refresh_tokens.family_id
    rtExpired,   \* refresh tokens whose expires_at has passed
    tracked,     \* access_token_jtis: the family a jti was recorded under
    denied,      \* revoked_jtis: the denylist
    jtiExpired,  \* access tokens whose exp has passed
    iss,         \* issuances: the row of an access token
    client,      \* clients.status of the one client
    user,        \* users.status of the one user
    userCache,   \* "stale" while a server may still answer the status before
    consent      \* consent_grants: is the grant of (user, client) live?

sessVars   == <<sess, sessExpired>>
famVars    == <<fam, famSess>>
rtVars     == <<rt, rtFam, rtExpired>>
jtiVars    == <<tracked, denied, jtiExpired>>
tenantVars == <<client, user, userCache, consent>>
storeVars  == <<sess, sessExpired, fam, famSess, rt, rtFam, rtExpired,
                tracked, denied, jtiExpired, iss, client, user, userCache, consent>>

StoreTypeOK ==
    /\ sess \in [Sessions -> {"issued", "consumed", "purged"}]
    /\ sessExpired \in SUBSET Sessions
    /\ fam \in [Requests -> {"none", "active", "revoked"}]
    /\ famSess \in [Requests -> Sessions \cup {None}]
    /\ rt \in [Requests -> {"none", "live", "consumed", "purged"}]
    /\ rtFam \in [Requests -> Requests \cup {None}]
    /\ rtExpired \in SUBSET Requests
    /\ tracked \in [Requests -> Requests \cup {None}]
    /\ denied \in SUBSET Requests
    /\ jtiExpired \in SUBSET Requests
    /\ iss \in [Requests -> {"none", "live", "revoked"}]
    /\ client \in {"active", "suspended", "revoked"}
    /\ user \in {"active", "disabled"}
    /\ userCache \in {"fresh", "stale"}
    /\ consent \in BOOLEAN

\* Every session holds a freshly issued code and the grant it was issued
\* under; nothing has been redeemed yet.
StoreInit ==
    /\ sess = [s \in Sessions |-> "issued"]
    /\ sessExpired = {}
    /\ fam = [f \in Requests |-> "none"]
    /\ famSess = [f \in Requests |-> None]
    /\ rt = [r \in Requests |-> "none"]
    /\ rtFam = [r \in Requests |-> None]
    /\ rtExpired = {}
    /\ tracked = [j \in Requests |-> None]
    /\ denied = {}
    /\ jtiExpired = {}
    /\ iss = [j \in Requests |-> "none"]
    /\ client = "active"
    /\ user = "active"
    /\ userCache = "fresh"
    /\ consent = TRUE

-----------------------------------------------------------------------------
(* auth_sessions *)

\* Mutant: the WHERE clause forgets consumed_at IS NULL.
ConsumeByCodeHash_Unconditional(s) ==
    /\ sess[s] \in {"issued", "consumed"}
    /\ sess' = [sess EXCEPT ![s] = "consumed"]

\* UPDATE ... SET consumed_at WHERE code_hash = ? AND consumed_at IS NULL:
\* only one caller can see the row change.
ConsumeByCodeHash(s) ==
    /\ sess[s] = "issued"
    /\ sess' = [sess EXCEPT ![s] = "consumed"]

\* `authserver purge --only=sessions`, the one caller of DeleteExpired.
DeleteExpiredSession(s) ==
    /\ s \in sessExpired
    /\ sess[s] # "purged"
    /\ sess' = [sess EXCEPT ![s] = "purged"]

-----------------------------------------------------------------------------
(* token_families and refresh_tokens *)

\* The families GetFamilyByAuthSessionID can return.
FamiliesOfSession(s) == {f \in Requests : fam[f] # "none" /\ famSess[f] = s}

ActiveFamilies == {f \in Requests : fam[f] = "active"}

\* The family and the session it came from, in one INSERT.
CreateFamily(f, s) ==
    /\ fam' = [fam EXCEPT ![f] = "active"]
    /\ famSess' = [famSess EXCEPT ![f] = s]

CreateRefreshToken(r, f) ==
    /\ rt' = [rt EXCEPT ![r] = "live"]
    /\ rtFam' = [rtFam EXCEPT ![r] = f]

\* Mutant: the WHERE clause forgets consumed_at.
ConsumeRefreshToken_Unconditional(r) ==
    /\ rt[r] \in {"live", "consumed"}
    /\ rt' = [rt EXCEPT ![r] = "consumed"]

ConsumeRefreshToken(r) ==
    /\ rt[r] = "live"
    /\ rt' = [rt EXCEPT ![r] = "consumed"]

LiveTokensOf(f) == {r \in Requests : rt[r] = "live" /\ rtFam[r] = f}

\* Mutant: the family's tokens are spent, the family row is
\* left for a later statement that a failure loses.
RevokeFamily_TokensOnly(f) ==
    /\ fam' = fam
    /\ rt' = [r \in Requests |-> IF r \in LiveTokensOf(f) THEN "consumed" ELSE rt[r]]

\* One transaction: the family row, then every unconsumed token of it.
\* Idempotent on a family that is already revoked.
RevokeFamily(f) ==
    /\ fam' = [fam EXCEPT ![f] = IF @ = "active" THEN "revoked" ELSE @]
    /\ rt' = [r \in Requests |-> IF r \in LiveTokensOf(f) THEN "consumed" ELSE rt[r]]

\* One UPDATE over the family rows; the refresh tokens are not touched.
RevokeByUserID ==
    fam' = [f \in Requests |-> IF fam[f] = "active" THEN "revoked" ELSE fam[f]]

PurgeRefreshToken(r) ==
    /\ r \in rtExpired
    /\ rt[r] \in {"live", "consumed"}
    /\ rt' = [rt EXCEPT ![r] = "purged"]

-----------------------------------------------------------------------------
(* access_token_jtis, revoked_jtis and issuances *)

TrackJTI(j, f) == tracked' = [tracked EXCEPT ![j] = f]

\* INSERT INTO revoked_jtis ... SELECT FROM access_token_jtis.
RevokeByFamily(f) == denied' = denied \cup {j \in Requests : tracked[j] = f}

\* Both tables lose the rows whose expires_at has passed.
PurgeJTI(j) ==
    /\ j \in jtiExpired
    /\ tracked[j] # None \/ j \in denied
    /\ tracked' = [tracked EXCEPT ![j] = None]
    /\ denied' = denied \ {j}

InsertIssuance(j) == iss' = [iss EXCEPT ![j] = "live"]

RevokeIssuance(j) == iss' = [iss EXCEPT ![j] = IF @ = "live" THEN "revoked" ELSE @]

\* The cascade of a consent revocation: every live row of the grant.
RevokeIssuanceFamily ==
    iss' = [j \in Requests |-> IF iss[j] = "live" THEN "revoked" ELSE iss[j]]
=============================================================================
