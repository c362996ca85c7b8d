----------------------------- MODULE TokenSystem -----------------------------
(***************************************************************************)
(* The token endpoints, the revocation paths, the lifecycle of the client  *)
(* and the user, the passing of time and the purge commands, composed over *)
(* one store.                                                              *)
(***************************************************************************)
EXTENDS TokenRevocation

(* Client and user lifecycle.  The version column of both tables makes the  *)
(* read-modify-write of each operation one atomic change here; the races    *)
(* between them are the subject of ClientAdmin and UserDirectory.           *)

SetClient(o, from, to) ==
    /\ o \in Ops
    /\ client \in from
    /\ client' = to
    /\ UNCHANGED <<sessVars, famVars, rtVars, jtiVars, iss, user, userCache, consent,
                   serviceVars>>

SuspendClient    == SetClient("suspendClient", {"active"}, "suspended")
ReactivateClient == SetClient("suspendClient", {"suspended"}, "active")
RevokeClient     == SetClient("revokeClient", {"active", "suspended"}, "revoked")

SetUser(from, to) ==
    /\ "disableUser" \in Ops
    /\ user = from
    /\ user' = to
    /\ userCache' = "stale"
    /\ UNCHANGED <<sessVars, famVars, rtVars, jtiVars, iss, client, consent, serviceVars>>

DisableUser == SetUser("active", "disabled")
EnableUser  == SetUser("disabled", "active")

\* Every entry of the row before the change has expired (UserDirectory).
UserCacheExpires ==
    /\ userCache = "stale"
    /\ userCache' = "fresh"
    /\ UNCHANGED <<sessVars, famVars, rtVars, jtiVars, iss, client, user, consent, serviceVars>>

-----------------------------------------------------------------------------
(* Time, and the purge commands an operator schedules *)

ExpireSession(s) ==
    /\ "clock" \in Ops
    /\ s \notin sessExpired
    /\ sessExpired' = sessExpired \cup {s}
    /\ UNCHANGED <<sess, famVars, rtVars, jtiVars, iss, tenantVars, serviceVars>>

ExpireRefreshToken(r) ==
    /\ "clock" \in Ops
    /\ rt[r] \in {"live", "consumed"}
    /\ r \notin rtExpired
    /\ rtExpired' = rtExpired \cup {r}
    /\ UNCHANGED <<sessVars, famVars, rt, rtFam, jtiVars, iss, tenantVars, serviceVars>>

ExpireAccessToken(j) ==
    /\ "clock" \in Ops
    /\ j \in held
    /\ j \notin jtiExpired
    /\ jtiExpired' = jtiExpired \cup {j}
    /\ UNCHANGED <<sessVars, famVars, rtVars, tracked, denied, iss, tenantVars, serviceVars>>

PurgeSessions(s) ==
    /\ DeleteExpiredSession(s)
    /\ UNCHANGED <<sessExpired, famVars, rtVars, jtiVars, iss, tenantVars, serviceVars>>

PurgeRefreshTokens(r) ==
    /\ PurgeRefreshToken(r)
    /\ UNCHANGED <<sessVars, famVars, rtFam, rtExpired, jtiVars, iss, tenantVars, serviceVars>>

PurgeJTIs(j) ==
    /\ PurgeJTI(j)
    /\ UNCHANGED <<sessVars, famVars, rtVars, jtiExpired, iss, tenantVars, serviceVars>>

-----------------------------------------------------------------------------

Begin(p) ==
    \/ ExchangeCode(p) \/ RefreshToken(p) \/ RevokeToken(p)
    \/ AdminRevokeToken(p) \/ ForceLogoutUser(p) \/ RevokeConsent(p)

Step(p) == TokenServiceStep(p) \/ TokenRevocationStep(p)

Environment ==
    \/ SuspendClient \/ ReactivateClient \/ RevokeClient
    \/ DisableUser \/ EnableUser \/ UserCacheExpires
    \/ \E s \in Sessions : ExpireSession(s) \/ PurgeSessions(s)
    \/ \E r \in Requests : ExpireRefreshToken(r) \/ PurgeRefreshTokens(r)
    \/ \E j \in Requests : ExpireAccessToken(j) \/ PurgeJTIs(j)

\* No request is in flight.  A request stuck in flight is a deadlock.
Quiescent ==
    /\ \A p \in Requests : pc[p] \in {"idle", "done"}
    /\ UNCHANGED vars

Init == StoreInit /\ ServiceInit

Next ==
    \/ \E p \in Requests : Begin(p) \/ Step(p)
    \/ Environment
    \/ Quiescent

Spec == Init /\ [][Next]_vars

\* A request that has been accepted keeps running: net/http gives each its own
\* goroutine.  Nothing is assumed of arrivals, operators or the clock.
FairSpec == Spec /\ \A p \in Requests : WF_vars(Step(p))

-----------------------------------------------------------------------------
(* Properties *)

TypeOK == StoreTypeOK /\ ServiceTypeOK

\* An authorization code buys one token family however many redemptions race,
\* fail or are replayed, also once the spent session has been purged
\* (exchangeCode, ConsumeByCodeHash).
OneFamilyPerCode ==
    \A f, g \in Requests :
        fam[f] # "none" /\ fam[g] # "none" /\ famSess[f] = famSess[g] => f = g

\* Rotation is a chain, never a tree: concurrent refreshes, replays and
\* revocations never leave a family with two refresh tokens that could both
\* be presented (refreshToken, ConsumeRefreshToken, RevokeFamily).
OneLiveTokenPerFamily ==
    \A q, r \in Requests :
        rt[q] = "live" /\ rt[r] = "live" /\ rtFam[q] = rtFam[r] => q = r

\* A "reuse detected, family revoked" report names a token that another request
\* really rotated: a token that an operator's or the owner's revocation spent
\* under a refresh in flight is never reported as theft (revokeFamilyHalf).
ReuseReportsAreSound ==
    \A p \in Requests :
        p \in reported /\ op[p] = "refresh" =>
            consumedBy[input[p]] \in Requests \ {p}

\* A family revocation whose denylist half is still to come.
DenylistPending(f) ==
    \E p \in Requests :
        \/ pc[p] \in {"denylistHalf", "cgDeny"} /\ tgt[p] = f
        \/ pc[p] = "flDeny" /\ f \in todo[p]

\* When a family is revoked and both halves of its revocation have run, every
\* access token that was ever handed out from it is denied or expired, also
\* the one a concurrent refresh was signing meanwhile (trackJTI before the
\* re-check, RevokeFamily before RevokeByFamily).
RevokedFamilyIsDenied ==
    \A j \in held :
        fam[tgt[j]] = "revoked" /\ ~DenylistPending(tgt[j]) =>
            j \in denied \cup jtiExpired

\* Only a caller that could have used the grant, or an operator, ends a family:
\* a spent code or a refresh token alone is no logout button (handleCodeReuse,
\* refreshToken, RevocationService.RevokeToken).
AuthorizedRevocation(p) ==
    CASE op[p] = "exchange" -> {"client", "verifier"} \subseteq cred[p]
      [] op[p] = "refresh"  -> {"client", "secret"} \subseteq cred[p]
      [] op[p] = "revoke"   -> {"client", "secret"} \subseteq cred[p]
      [] OTHER              -> op[p] \in {"adminRevoke", "forceLogout", "revokeConsent"}

NoCredentialFreeLogout ==
    [][\A f \in Requests :
          fam[f] = "active" /\ fam'[f] # "active" =>
              \E p \in Requests : pc'[p] # pc[p] /\ AuthorizedRevocation(p)]_vars

\* A refresh token presented again by its authenticated client ends in the
\* revocation of the family and the denial of what it had issued
\* (revokeFamilyOnReuse), when the store answers.
ReuseEndsFamily ==
    \A p, r \in Requests :
        (At(p, "rotate") /\ input[p] = r /\ rt[r] = "consumed") ~>
            \/ rt[r] = "purged"
            \/ \E f \in Requests :
                  rtFam[r] = f /\ fam[f] = "revoked" /\ ~DenylistPending(f)

\* A credentialed replay that finds the family of the first redemption ends it
\* (handleCodeReuse), when the store answers.
ReplayEndsCommittedFamily ==
    \A p, f \in Requests :
        (At(p, "lookup") /\ f \in FamiliesOfSession(input[p])) ~>
            (fam[f] = "revoked" /\ ~DenylistPending(f))

\* A consent revocation reaches every family that is active when its cascade
\* lists them (revokeRefreshFamilies), when the store answers.
ConsentCascadeReachesListed ==
    \A p, f \in Requests :
        (At(p, "cgList") /\ fam[f] = "active") ~>
            (fam[f] = "revoked" /\ ~DenylistPending(f))

-----------------------------------------------------------------------------
(* What a comment or a document says and the code does not do *)

\* services/admin.go: force-logout "also blacklist[s] tracked access-token JTIs
\* for each revoked family".
ForceLogoutDeniesEachRevokedFamily == RevokedFamilyIsDenied
=============================================================================
