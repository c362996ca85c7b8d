--------------------------- MODULE TokenRevocation ---------------------------
(***************************************************************************)
(* The other ways a family dies: the RFC 7009 endpoint                     *)
(* (services/revocation.go), the admin API (services/admin.go) and the     *)
(* cascade of a consent revocation (services/grant_admin.go).              *)
(***************************************************************************)
EXTENDS TokenService

(* RevocationService.RevokeToken *)

RevokeToken(p) ==
    \E r \in Requests, c \in Creds :
        rt[r] # "none" /\ Arrive(p, "revoke", r, c, "rvAuth")

\* Step 1: the caller authenticates as the client it names, which must be
\* active.  An inactive public client gets a 200 and nothing happens.
RevokeAuthenticate(p) ==
    /\ At(p, "rvAuth")
    /\ Goto(p, IF "secret" \in cred[p] /\ ("client" \in cred[p] => client = "active")
               THEN "rvLoad" ELSE "done")
    /\ UNCHANGED <<storeVars, reqVars, tgt, todo, histVars>>

\* Steps 2 and 3: the token row, spent or not, and its family.  Another
\* client's token is left alone.
RevokeLoad(p) ==
    /\ At(p, "rvLoad")
    /\ IF rt[input[p]] # "purged" /\ "client" \in cred[p]
       THEN /\ tgt' = [tgt EXCEPT ![p] = rtFam[input[p]]]
            /\ Goto(p, "revokeHalf")
       ELSE /\ Goto(p, "done")
            /\ UNCHANGED tgt
    /\ UNCHANGED <<storeVars, reqVars, todo, histVars>>

-----------------------------------------------------------------------------
(* AdminService.RevokeToken, for the id of a family *)

AdminRevokeToken(p) ==
    \E f \in Requests : fam[f] # "none" /\ Arrive(p, "adminRevoke", f, {}, "adGet")

AdminGetFamily(p) ==
    /\ At(p, "adGet")
    /\ tgt' = [tgt EXCEPT ![p] = input[p]]
    /\ Goto(p, "revokeHalf")
    /\ UNCHANGED <<storeVars, reqVars, todo, histVars>>

-----------------------------------------------------------------------------
(* AdminService.ForceLogoutUser *)

ForceLogoutUser(p) == Arrive(p, "forceLogout", None, {}, "flList")

\* The active families are listed first, so that their jtis can be denied.
ForceLogoutList(p) ==
    /\ At(p, "flList")
    /\ todo' = [todo EXCEPT ![p] = ActiveFamilies]
    /\ Goto(p, "flRevoke")
    /\ UNCHANGED <<storeVars, reqVars, tgt, histVars>>

\* Then every family active by now is revoked in one statement.
ForceLogoutRevoke(p) ==
    /\ At(p, "flRevoke")
    /\ RevokeByUserID
    /\ Goto(p, "flDeny")
    /\ UNCHANGED <<sessVars, famSess, rtVars, jtiVars, iss, tenantVars,
                   reqVars, tgt, todo, histVars>>

\* Then the listed ones are denied one by one; a failure is logged and the
\* loop goes on.
ForceLogoutDeny(p) ==
    /\ At(p, "flDeny")
    /\ \/ \E f \in todo[p] :
             /\ RevokeByFamily(f) \/ (FaultyStore /\ UNCHANGED denied)
             /\ todo' = [todo EXCEPT ![p] = @ \ {f}]
             /\ UNCHANGED pc
       \/ /\ todo[p] = {}
          /\ Goto(p, "done")
          /\ UNCHANGED <<denied, todo>>
    /\ UNCHANGED <<sessVars, famVars, rtVars, tracked, jtiExpired, iss, tenantVars,
                   reqVars, tgt, histVars>>

-----------------------------------------------------------------------------
(* GrantAdminService.RevokeConsent *)

RevokeConsent(p) == Arrive(p, "revokeConsent", None, {}, "cgRevoke")

ConsentRevoke(p) ==
    /\ At(p, "cgRevoke")
    /\ consent' = FALSE
    /\ Goto(p, "cgIssuances")
    /\ UNCHANGED <<sessVars, famVars, rtVars, jtiVars, iss, client, user, userCache,
                   reqVars, tgt, todo, histVars>>

\* The issuance cascade; its failure is recorded and the family cascade runs.
ConsentIssuances(p) ==
    /\ At(p, "cgIssuances")
    /\ RevokeIssuanceFamily \/ (FaultyStore /\ UNCHANGED iss)
    /\ Goto(p, "cgList")
    /\ UNCHANGED <<sessVars, famVars, rtVars, jtiVars, tenantVars,
                   reqVars, tgt, todo, histVars>>

\* revokeRefreshFamilies collects the targets before it revokes any.
ConsentList(p) ==
    /\ At(p, "cgList")
    /\ todo' = [todo EXCEPT ![p] = ActiveFamilies]
    /\ Goto(p, "cgFamily")
    /\ UNCHANGED <<storeVars, reqVars, tgt, histVars>>

\* Mutant: the cascade denies the jtis and leaves the family alive.
ConsentFamily_DenylistOnly(p) ==
    /\ At(p, "cgFamily")
    /\ \/ \E f \in todo[p] :
             /\ tgt' = [tgt EXCEPT ![p] = f]
             /\ todo' = [todo EXCEPT ![p] = @ \ {f}]
             /\ Goto(p, "cgDeny")
             /\ UNCHANGED <<fam, rt>>
       \/ /\ todo[p] = {}
          /\ Goto(p, "done")
          /\ UNCHANGED <<fam, rt, tgt, todo>>
    /\ UNCHANGED <<sessVars, famSess, rtFam, rtExpired, jtiVars, iss, tenantVars,
                   reqVars, histVars>>

\* One target after the other; the first error ends the cascade.
ConsentFamily(p) ==
    /\ At(p, "cgFamily")
    /\ \/ \E f \in todo[p] :
             /\ RevokeFamily(f)
             /\ tgt' = [tgt EXCEPT ![p] = f]
             /\ todo' = [todo EXCEPT ![p] = @ \ {f}]
             /\ Goto(p, "cgDeny")
       \/ /\ todo[p] = {}
          /\ Goto(p, "done")
          /\ UNCHANGED <<fam, rt, tgt, todo>>
    /\ UNCHANGED <<sessVars, famSess, rtFam, rtExpired, jtiVars, iss, tenantVars,
                   reqVars, histVars>>

ConsentDeny(p) ==
    /\ At(p, "cgDeny")
    /\ RevokeByFamily(tgt[p])
    /\ Goto(p, "cgFamily")
    /\ UNCHANGED <<sessVars, famVars, rtVars, tracked, jtiExpired, iss, tenantVars,
                   reqVars, tgt, todo, histVars>>

TokenRevocationStep(p) ==
    \/ RevokeAuthenticate(p) \/ RevokeLoad(p)
    \/ AdminGetFamily(p)
    \/ ForceLogoutList(p) \/ ForceLogoutRevoke(p) \/ ForceLogoutDeny(p)
    \/ ConsentRevoke(p) \/ ConsentIssuances(p) \/ ConsentList(p)
    \/ ConsentFamily(p) \/ ConsentDeny(p)
=============================================================================
