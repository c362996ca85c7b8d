-------------------------- MODULE TokenSystemProofs --------------------------
(***************************************************************************)
(* TypeOK, OneFamilyPerCode, OneLiveTokenPerFamily, ReuseReportsAreSound    *)
(* and NoCredentialFreeLogout hold in every behaviour of TokenSystem, for   *)
(* every set of requests, sessions and caller proofs, with or without store *)
(* failures, and RevokedFamilyIsDenied in those without store failures and  *)
(* force-logout.                                                            *)
(***************************************************************************)
EXTENDS TokenSystem, TLAPS

(***************************************************************************)
(* The inductive invariants.                                               *)
(***************************************************************************)

TakesToken == {"load", "authenticate", "rotate", "rvAuth", "rvLoad"}
Redeeming  == {"validate", "subject", "mint", "commit"}
Rotating   == {"resubject", "remint", "track", "recheck", "create"}
Refreshing == {"authenticate", "rotate"} \cup Rotating
Targeted   == Refreshing \cup {"undo", "revokeHalf", "denylistHalf", "cgDeny"}

\* What the label of a request says about its input.
LabelInv ==
    \A p \in Requests :
        /\ pc[p] \in ExchangeLabels => input[p] \in Sessions
        /\ pc[p] \in TakesToken => input[p] \in Requests /\ rt[input[p]] # "none"
        /\ pc[p] = "adGet" => input[p] \in Requests /\ fam[input[p]] # "none"

\* Ids are fresh until the request that drew them is done; a token row has a
\* family row.
FreshInv ==
    \A p \in Requests :
        /\ pc[p] # "done" => fam[p] = "none" /\ rt[p] = "none" /\ p \notin held
        /\ rt[p] # "none" => rtFam[p] \in Requests /\ fam[rtFam[p]] # "none"
        /\ pc[p] \in Targeted => tgt[p] \in Requests /\ fam[tgt[p]] # "none"
        /\ \A f \in todo[p] : fam[f] # "none"

\* A code being redeemed is spent, has no family yet and one redeemer.
CodeInv ==
    /\ \A p \in Requests : pc[p] \in Redeeming =>
          /\ sess[input[p]] # "issued"
          /\ \A f \in Requests : fam[f] # "none" => famSess[f] # input[p]
          /\ \A q \in Requests : pc[q] \in Redeeming /\ input[q] = input[p] => q = p
    /\ \A f \in Requests : fam[f] # "none" =>
          famSess[f] \in Sessions /\ sess[famSess[f]] # "issued"

\* While a request rotates a family, the family has no live token and no other
\* rotation.
RotationInv ==
    /\ \A p \in Requests : pc[p] \in {"authenticate", "rotate"} =>
          tgt[p] = rtFam[input[p]]
    /\ \A p \in Requests : pc[p] \in Rotating =>
          /\ \A r \in Requests : rt[r] = "live" => rtFam[r] # tgt[p]
          /\ \A q \in Requests : pc[q] \in Rotating /\ tgt[q] = tgt[p] => q = p

\* A token spent by no rotation was spent by the revocation of its family.
ReuseInv ==
    /\ \A r \in Requests :
          /\ rt[r] = "consumed" /\ consumedBy[r] = None => fam[rtFam[r]] = "revoked"
          /\ consumedBy[r] # None => rt[r] \in {"consumed", "purged"}
          /\ \A p \in Requests :
                consumedBy[r] = p => pc[p] \in Rotating \cup {"undo", "done"}
    /\ \A p \in Requests : pc[p] = "revokeHalf" /\ op[p] = "refresh" =>
          /\ input[p] \in Requests
          /\ consumedBy[input[p]] = None => fam[tgt[p]] = "revoked"
    /\ \A p \in Requests : p \in reported => pc[p] \in {"denylistHalf", "done"}
    /\ \A p \in Requests : pc[p] \in {"load", "authenticate", "rotate"} => op[p] = "refresh"
    /\ \A p \in Requests : pc[p] \in {"rvAuth", "rvLoad"} => op[p] = "revoke"
    /\ \A p \in Requests : pc[p] \in {"adGet"} => op[p] = "adminRevoke"
    /\ \A p \in Requests : pc[p] \in ExchangeLabels => op[p] = "exchange"

\* Whoever might deny a family covers the token in question, or it is denied.
Covered(j) ==
    fam[tgt[j]] = "revoked" /\ ~DenylistPending(tgt[j]) => j \in denied \cup jtiExpired

DenialInv ==
    /\ jtiExpired \subseteq held
    /\ \A p \in Requests : pc[p] \notin {"flList", "flRevoke", "flDeny"}
    /\ \A j \in held : tgt[j] \in Requests /\ (tracked[j] = tgt[j] \/ j \in jtiExpired)
    /\ \A p \in Requests :
          /\ pc[p] \in {"recheck", "create"} => tracked[p] = tgt[p]
          /\ pc[p] = "create" => Covered(p)

TypeInv  == TypeOK /\ LabelInv
ChainInv == TypeInv /\ FreshInv /\ CodeInv /\ OneFamilyPerCode /\ RotationInv /\ OneLiveTokenPerFamily

USE NoneAssumption
USE DEF sessVars, famVars, rtVars, jtiVars, tenantVars, storeVars,
        reqVars, histVars, serviceVars, vars, At, Goto

\* Every step keeps every variable in its type and every input of the kind its
\* request's label asks for.
LEMMA TypeStep ==
    ASSUME TypeInv, [Next]_vars
    PROVE  TypeInv'
<1> USE CredsAssumption DEF TypeInv, TypeOK, StoreTypeOK, ServiceTypeOK, LabelInv, TakesToken,
        Labels, ExchangeLabels, RefreshLabels, HalfLabels, AdminLabels, Operations
<1>1. ASSUME NEW p \in Requests, Begin(p) PROVE TypeInv'
  <2>1. CASE ExchangeCode(p)
    BY <2>1 DEF ExchangeCode, Arrive
  <2>2. CASE RefreshToken(p)
    BY <2>2 DEF RefreshToken, Arrive
  <2>3. CASE RevokeToken(p)
    BY <2>3 DEF RevokeToken, Arrive
  <2>4. CASE AdminRevokeToken(p)
    BY <2>4 DEF AdminRevokeToken, Arrive
  <2>5. CASE ForceLogoutUser(p)
    BY <2>5 DEF ForceLogoutUser, Arrive
  <2>6. CASE RevokeConsent(p)
    BY <2>6 DEF RevokeConsent, Arrive
  <2> QED BY <1>1, <2>1, <2>2, <2>3, <2>4, <2>5, <2>6 DEF Begin
<1>2. ASSUME NEW p \in Requests, TokenServiceStep(p) PROVE TypeInv'
  <2>1. CASE ExchangeConsume(p)
    BY <2>1 DEF ExchangeConsume, ConsumeByCodeHash
  <2>2. CASE ExchangeReplayed(p)
    BY <2>2 DEF ExchangeReplayed
  <2>3. CASE ExchangeValidate(p)
    BY <2>3 DEF ExchangeValidate
  <2>4. CASE ExchangeSubject(p)
    BY <2>4 DEF ExchangeSubject, SeenActive
  <2>5. CASE ExchangeMint(p)
    BY <2>5 DEF ExchangeMint, Issue, InsertIssuance
  <2>6. CASE ExchangeCommit(p)
    BY <2>6 DEF ExchangeCommit, CreateFamily, TrackBestEffort, TrackJTI,
        CreateRefreshToken
  <2>7. CASE ReplayLookup(p)
    BY <2>7 DEF ReplayLookup, FamiliesOfSession
  <2>8. CASE RefreshLoad(p)
    BY <2>8 DEF RefreshLoad, Loadable
  <2>9. CASE RefreshAuthenticate(p)
    BY <2>9 DEF RefreshAuthenticate
  <2>10. CASE RefreshConsume(p)
    BY <2>10 DEF RefreshConsume, ConsumeRefreshToken
  <2>11. CASE RefreshReused(p)
    BY <2>11 DEF RefreshReused
  <2>12. CASE RefreshSubject(p)
    BY <2>12 DEF RefreshSubject, SeenActive
  <2>13. CASE RefreshMint(p)
    BY <2>13 DEF RefreshMint, Issue, InsertIssuance
  <2>14. CASE RefreshTrack(p)
    BY <2>14 DEF RefreshTrack, TrackBestEffort, TrackJTI
  <2>15. CASE RefreshRecheck(p)
    BY <2>15 DEF RefreshRecheck
  <2>16. CASE RefreshUndo(p)
    BY <2>16 DEF RefreshUndo, RevokeIssuance
  <2>17. CASE RefreshCreate(p)
    BY <2>17 DEF RefreshCreate, CreateRefreshToken
  <2>18. CASE RevokeHalf(p)
    <3>1. /\ fam' \in [Requests -> {"none", "active", "revoked"}]
          /\ rt' \in [Requests -> {"none", "live", "consumed", "purged"}]
          /\ \A r \in Requests : rt[r] # "none" => rt'[r] # "none"
          /\ \A f \in Requests : fam[f] # "none" => fam'[f] # "none"
      BY <2>18 DEF RevokeHalf, RevokeFamily
    <3>2. /\ reported' \in SUBSET Requests
          /\ pc' = [pc EXCEPT ![p] = "denylistHalf"]
          /\ UNCHANGED <<sessVars, famSess, rtFam, rtExpired, jtiVars, iss, tenantVars,
                         reqVars, tgt, todo, held, consumedBy>>
      BY <2>18 DEF RevokeHalf
    <3> QED BY <3>1, <3>2, SMTT(30)
  <2>19. CASE RevokeHalfFails(p)
    BY <2>19 DEF RevokeHalfFails, ReuseDetection
  <2>20. CASE DenylistHalf(p)
    BY <2>20 DEF DenylistHalf, RevokeByFamily
  <2>21. CASE Refuse(p)
    BY <2>21 DEF Refuse, Refused, SeenInactive
  <2>22. CASE Fail(p)
    BY <2>22 DEF Fail
  <2> QED BY <1>2, <2>1, <2>2, <2>3, <2>4, <2>5, <2>6, <2>7, <2>8, <2>9,
      <2>10, <2>11, <2>12, <2>13, <2>14, <2>15, <2>16, <2>17, <2>18, <2>19,
      <2>20, <2>21, <2>22 DEF TokenServiceStep
<1>3. ASSUME NEW p \in Requests, TokenRevocationStep(p) PROVE TypeInv'
  <2>1. CASE RevokeAuthenticate(p)
    BY <2>1 DEF RevokeAuthenticate
  <2>2. CASE RevokeLoad(p)
    BY <2>2 DEF RevokeLoad
  <2>3. CASE AdminGetFamily(p)
    BY <2>3 DEF AdminGetFamily
  <2>4. CASE ForceLogoutList(p)
    BY <2>4 DEF ForceLogoutList, ActiveFamilies
  <2>5. CASE ForceLogoutRevoke(p)
    BY <2>5 DEF ForceLogoutRevoke, RevokeByUserID
  <2>6. CASE ForceLogoutDeny(p)
    BY <2>6 DEF ForceLogoutDeny, RevokeByFamily
  <2>7. CASE ConsentRevoke(p)
    <3>1. consent' \in BOOLEAN
      BY <2>7, Zenon DEF ConsentRevoke
    <3>2. /\ pc' = [pc EXCEPT ![p] = "cgIssuances"]
          /\ UNCHANGED <<sessVars, famVars, rtVars, jtiVars, iss, client, user, userCache,
                         reqVars, tgt, todo, histVars>>
      BY <2>7, Zenon DEF ConsentRevoke
    <3> QED BY <3>1, <3>2
  <2>8. CASE ConsentIssuances(p)
    BY <2>8 DEF ConsentIssuances, RevokeIssuanceFamily
  <2>9. CASE ConsentList(p)
    BY <2>9 DEF ConsentList, ActiveFamilies
  <2>10. CASE ConsentFamily(p)
    <3>1. /\ fam' \in [Requests -> {"none", "active", "revoked"}]
          /\ rt' \in [Requests -> {"none", "live", "consumed", "purged"}]
          /\ \A r \in Requests : rt[r] # "none" => rt'[r] # "none"
          /\ \A f \in Requests : fam[f] # "none" => fam'[f] # "none"
      BY <2>10, SMTT(30) DEF ConsentFamily, RevokeFamily
    <3>2. /\ tgt' \in [Requests -> Requests \cup {None}]
          /\ todo' \in [Requests -> SUBSET Requests]
          /\ \E l \in {"cgDeny", "done"} : pc' = [pc EXCEPT ![p] = l]
          /\ UNCHANGED <<sessVars, famSess, rtFam, rtExpired, jtiVars, iss, tenantVars,
                         reqVars, histVars>>
      BY <2>10, SMTT(30) DEF ConsentFamily
    <3> QED BY <3>1, <3>2, SMTT(30)
  <2>11. CASE ConsentDeny(p)
    BY <2>11 DEF ConsentDeny, RevokeByFamily
  <2> QED BY <1>3, <2>1, <2>2, <2>3, <2>4, <2>5, <2>6, <2>7, <2>8, <2>9,
      <2>10, <2>11 DEF TokenRevocationStep
<1>4. CASE Environment
  <2>1. CASE SuspendClient
    BY <2>1 DEF SuspendClient, SetClient
  <2>2. CASE ReactivateClient
    BY <2>2 DEF ReactivateClient, SetClient
  <2>3. CASE RevokeClient
    BY <2>3 DEF RevokeClient, SetClient
  <2>4. CASE DisableUser
    BY <2>4 DEF DisableUser, SetUser
  <2>5. CASE EnableUser
    BY <2>5 DEF EnableUser, SetUser
  <2>6. CASE UserCacheExpires
    BY <2>6 DEF UserCacheExpires
  <2>7. ASSUME NEW s \in Sessions, ExpireSession(s) PROVE TypeInv'
    BY <2>7 DEF ExpireSession
  <2>8. ASSUME NEW s \in Sessions, PurgeSessions(s) PROVE TypeInv'
    BY <2>8 DEF PurgeSessions, DeleteExpiredSession
  <2>9. ASSUME NEW r \in Requests, ExpireRefreshToken(r) PROVE TypeInv'
    BY <2>9 DEF ExpireRefreshToken
  <2>10. ASSUME NEW r \in Requests, PurgeRefreshTokens(r) PROVE TypeInv'
    BY <2>10 DEF PurgeRefreshTokens, PurgeRefreshToken
  <2>11. ASSUME NEW j \in Requests, ExpireAccessToken(j) PROVE TypeInv'
    BY <2>11 DEF ExpireAccessToken
  <2>12. ASSUME NEW j \in Requests, PurgeJTIs(j) PROVE TypeInv'
    BY <2>12 DEF PurgeJTIs, PurgeJTI
  <2> QED BY <1>4, <2>1, <2>2, <2>3, <2>4, <2>5, <2>6, <2>7, <2>8, <2>9,
      <2>10, <2>11, <2>12 DEF Environment
<1>5. CASE UNCHANGED vars
  BY <1>5
<1> QED BY <1>1, <1>2, <1>3, <1>4, <1>5 DEF Next, Step, Quiescent

\* Every step keeps the ids of unfinished requests fresh and leaves no token row
\* without a family row.
LEMMA FreshStep ==
    ASSUME TypeInv, FreshInv, [Next]_vars
    PROVE  FreshInv'
<1> USE DEF TypeInv, TypeOK, StoreTypeOK, ServiceTypeOK, LabelInv, TakesToken,
        Labels, ExchangeLabels, RefreshLabels, HalfLabels, AdminLabels,
        FreshInv, Targeted, Refreshing, Rotating
<1>1. ASSUME NEW p \in Requests, Begin(p) PROVE FreshInv'
  <2>1. CASE ExchangeCode(p)
    BY <2>1 DEF ExchangeCode, Arrive
  <2>2. CASE RefreshToken(p)
    BY <2>2 DEF RefreshToken, Arrive
  <2>3. CASE RevokeToken(p)
    BY <2>3 DEF RevokeToken, Arrive
  <2>4. CASE AdminRevokeToken(p)
    BY <2>4 DEF AdminRevokeToken, Arrive
  <2>5. CASE ForceLogoutUser(p)
    BY <2>5 DEF ForceLogoutUser, Arrive
  <2>6. CASE RevokeConsent(p)
    BY <2>6 DEF RevokeConsent, Arrive
  <2> QED BY <1>1, <2>1, <2>2, <2>3, <2>4, <2>5, <2>6 DEF Begin
<1>2. ASSUME NEW p \in Requests, TokenServiceStep(p) PROVE FreshInv'
  <2>1. CASE ExchangeConsume(p)
    BY <2>1 DEF ExchangeConsume, ConsumeByCodeHash
  <2>2. CASE ExchangeReplayed(p)
    BY <2>2 DEF ExchangeReplayed
  <2>3. CASE ExchangeValidate(p)
    BY <2>3 DEF ExchangeValidate
  <2>4. CASE ExchangeSubject(p)
    BY <2>4 DEF ExchangeSubject, SeenActive
  <2>5. CASE ExchangeMint(p)
    BY <2>5 DEF ExchangeMint, Issue, InsertIssuance
  <2>6. CASE ExchangeCommit(p)
    BY <2>6 DEF ExchangeCommit, CreateFamily, TrackBestEffort, TrackJTI,
        CreateRefreshToken
  <2>7. CASE ReplayLookup(p)
    BY <2>7 DEF ReplayLookup, FamiliesOfSession
  <2>8. CASE RefreshLoad(p)
    BY <2>8 DEF RefreshLoad, Loadable
  <2>9. CASE RefreshAuthenticate(p)
    BY <2>9 DEF RefreshAuthenticate
  <2>10. CASE RefreshConsume(p)
    BY <2>10 DEF RefreshConsume, ConsumeRefreshToken
  <2>11. CASE RefreshReused(p)
    BY <2>11 DEF RefreshReused
  <2>12. CASE RefreshSubject(p)
    BY <2>12 DEF RefreshSubject, SeenActive
  <2>13. CASE RefreshMint(p)
    BY <2>13 DEF RefreshMint, Issue, InsertIssuance
  <2>14. CASE RefreshTrack(p)
    BY <2>14 DEF RefreshTrack, TrackBestEffort, TrackJTI
  <2>15. CASE RefreshRecheck(p)
    BY <2>15 DEF RefreshRecheck
  <2>16. CASE RefreshUndo(p)
    BY <2>16 DEF RefreshUndo, RevokeIssuance
  <2>17. CASE RefreshCreate(p)
    BY <2>17 DEF RefreshCreate, CreateRefreshToken
  <2>18. CASE RevokeHalf(p)
    BY <2>18 DEF RevokeHalf, RevokeFamily, LiveTokensOf, ReuseDetection
  <2>19. CASE RevokeHalfFails(p)
    BY <2>19 DEF RevokeHalfFails, ReuseDetection
  <2>20. CASE DenylistHalf(p)
    BY <2>20 DEF DenylistHalf, RevokeByFamily
  <2>21. CASE Refuse(p)
    BY <2>21 DEF Refuse, Refused, SeenInactive
  <2>22. CASE Fail(p)
    BY <2>22 DEF Fail
  <2> QED BY <1>2, <2>1, <2>2, <2>3, <2>4, <2>5, <2>6, <2>7, <2>8, <2>9,
      <2>10, <2>11, <2>12, <2>13, <2>14, <2>15, <2>16, <2>17, <2>18, <2>19,
      <2>20, <2>21, <2>22 DEF TokenServiceStep
<1>3. ASSUME NEW p \in Requests, TokenRevocationStep(p) PROVE FreshInv'
  <2>1. CASE RevokeAuthenticate(p)
    BY <2>1 DEF RevokeAuthenticate
  <2>2. CASE RevokeLoad(p)
    BY <2>2 DEF RevokeLoad
  <2>3. CASE AdminGetFamily(p)
    BY <2>3 DEF AdminGetFamily
  <2>4. CASE ForceLogoutList(p)
    BY <2>4 DEF ForceLogoutList, ActiveFamilies
  <2>5. CASE ForceLogoutRevoke(p)
    BY <2>5 DEF ForceLogoutRevoke, RevokeByUserID
  <2>6. CASE ForceLogoutDeny(p)
    BY <2>6 DEF ForceLogoutDeny, RevokeByFamily
  <2>7. CASE ConsentRevoke(p)
    BY <2>7 DEF ConsentRevoke
  <2>8. CASE ConsentIssuances(p)
    BY <2>8 DEF ConsentIssuances, RevokeIssuanceFamily
  <2>9. CASE ConsentList(p)
    BY <2>9 DEF ConsentList, ActiveFamilies
  <2>10. CASE ConsentFamily(p)
    BY <2>10 DEF ConsentFamily, RevokeFamily, LiveTokensOf
  <2>11. CASE ConsentDeny(p)
    BY <2>11 DEF ConsentDeny, RevokeByFamily
  <2> QED BY <1>3, <2>1, <2>2, <2>3, <2>4, <2>5, <2>6, <2>7, <2>8, <2>9,
      <2>10, <2>11 DEF TokenRevocationStep
<1>4. CASE Environment
  <2>1. CASE SuspendClient
    BY <2>1 DEF SuspendClient, SetClient
  <2>2. CASE ReactivateClient
    BY <2>2 DEF ReactivateClient, SetClient
  <2>3. CASE RevokeClient
    BY <2>3 DEF RevokeClient, SetClient
  <2>4. CASE DisableUser
    BY <2>4 DEF DisableUser, SetUser
  <2>5. CASE EnableUser
    BY <2>5 DEF EnableUser, SetUser
  <2>6. CASE UserCacheExpires
    BY <2>6 DEF UserCacheExpires
  <2>7. ASSUME NEW s \in Sessions, ExpireSession(s) PROVE FreshInv'
    BY <2>7 DEF ExpireSession
  <2>8. ASSUME NEW s \in Sessions, PurgeSessions(s) PROVE FreshInv'
    BY <2>8 DEF PurgeSessions, DeleteExpiredSession
  <2>9. ASSUME NEW r \in Requests, ExpireRefreshToken(r) PROVE FreshInv'
    BY <2>9 DEF ExpireRefreshToken
  <2>10. ASSUME NEW r \in Requests, PurgeRefreshTokens(r) PROVE FreshInv'
    BY <2>10 DEF PurgeRefreshTokens, PurgeRefreshToken
  <2>11. ASSUME NEW j \in Requests, ExpireAccessToken(j) PROVE FreshInv'
    BY <2>11 DEF ExpireAccessToken
  <2>12. ASSUME NEW j \in Requests, PurgeJTIs(j) PROVE FreshInv'
    BY <2>12 DEF PurgeJTIs, PurgeJTI
  <2> QED BY <1>4, <2>1, <2>2, <2>3, <2>4, <2>5, <2>6, <2>7, <2>8, <2>9,
      <2>10, <2>11, <2>12 DEF Environment
<1>5. CASE UNCHANGED vars
  BY <1>5
<1> QED BY <1>1, <1>2, <1>3, <1>4, <1>5 DEF Next, Step, Quiescent

\* Every step keeps a code being redeemed spent, without a family and with one
\* redeemer.
LEMMA CodeStep ==
    ASSUME TypeInv, FreshInv, CodeInv, OneFamilyPerCode, [Next]_vars
    PROVE  (CodeInv /\ OneFamilyPerCode)'
<1> USE DEF TypeInv, TypeOK, StoreTypeOK, ServiceTypeOK, LabelInv, TakesToken,
        Labels, ExchangeLabels, RefreshLabels, HalfLabels, AdminLabels,
        FreshInv, CodeInv, OneFamilyPerCode, Redeeming
<1>1. ASSUME NEW p \in Requests, Begin(p) PROVE (CodeInv /\ OneFamilyPerCode)'
  <2>1. CASE ExchangeCode(p)
    BY <2>1 DEF ExchangeCode, Arrive
  <2>2. CASE RefreshToken(p)
    BY <2>2 DEF RefreshToken, Arrive
  <2>3. CASE RevokeToken(p)
    BY <2>3 DEF RevokeToken, Arrive
  <2>4. CASE AdminRevokeToken(p)
    BY <2>4 DEF AdminRevokeToken, Arrive
  <2>5. CASE ForceLogoutUser(p)
    BY <2>5 DEF ForceLogoutUser, Arrive
  <2>6. CASE RevokeConsent(p)
    BY <2>6 DEF RevokeConsent, Arrive
  <2> QED BY <1>1, <2>1, <2>2, <2>3, <2>4, <2>5, <2>6 DEF Begin
<1>2. ASSUME NEW p \in Requests, TokenServiceStep(p) PROVE (CodeInv /\ OneFamilyPerCode)'
  <2>1. CASE ExchangeConsume(p)
    BY <2>1 DEF ExchangeConsume, ConsumeByCodeHash
  <2>2. CASE ExchangeReplayed(p)
    BY <2>2 DEF ExchangeReplayed
  <2>3. CASE ExchangeValidate(p)
    BY <2>3 DEF ExchangeValidate
  <2>4. CASE ExchangeSubject(p)
    BY <2>4 DEF ExchangeSubject, SeenActive
  <2>5. CASE ExchangeMint(p)
    BY <2>5 DEF ExchangeMint, Issue, InsertIssuance
  <2>6. CASE ExchangeCommit(p)
    BY <2>6 DEF ExchangeCommit, CreateFamily, TrackBestEffort, TrackJTI,
        CreateRefreshToken
  <2>7. CASE ReplayLookup(p)
    BY <2>7 DEF ReplayLookup, FamiliesOfSession
  <2>8. CASE RefreshLoad(p)
    BY <2>8 DEF RefreshLoad, Loadable
  <2>9. CASE RefreshAuthenticate(p)
    BY <2>9 DEF RefreshAuthenticate
  <2>10. CASE RefreshConsume(p)
    BY <2>10 DEF RefreshConsume, ConsumeRefreshToken
  <2>11. CASE RefreshReused(p)
    BY <2>11 DEF RefreshReused
  <2>12. CASE RefreshSubject(p)
    BY <2>12 DEF RefreshSubject, SeenActive
  <2>13. CASE RefreshMint(p)
    BY <2>13 DEF RefreshMint, Issue, InsertIssuance
  <2>14. CASE RefreshTrack(p)
    BY <2>14 DEF RefreshTrack, TrackBestEffort, TrackJTI
  <2>15. CASE RefreshRecheck(p)
    BY <2>15 DEF RefreshRecheck
  <2>16. CASE RefreshUndo(p)
    BY <2>16 DEF RefreshUndo, RevokeIssuance
  <2>17. CASE RefreshCreate(p)
    BY <2>17 DEF RefreshCreate, CreateRefreshToken
  <2>18. CASE RevokeHalf(p)
    BY <2>18 DEF RevokeHalf, RevokeFamily, LiveTokensOf, ReuseDetection
  <2>19. CASE RevokeHalfFails(p)
    BY <2>19 DEF RevokeHalfFails, ReuseDetection
  <2>20. CASE DenylistHalf(p)
    BY <2>20 DEF DenylistHalf, RevokeByFamily
  <2>21. CASE Refuse(p)
    BY <2>21 DEF Refuse, Refused, SeenInactive
  <2>22. CASE Fail(p)
    BY <2>22 DEF Fail
  <2> QED BY <1>2, <2>1, <2>2, <2>3, <2>4, <2>5, <2>6, <2>7, <2>8, <2>9,
      <2>10, <2>11, <2>12, <2>13, <2>14, <2>15, <2>16, <2>17, <2>18, <2>19,
      <2>20, <2>21, <2>22 DEF TokenServiceStep
<1>3. ASSUME NEW p \in Requests, TokenRevocationStep(p) PROVE (CodeInv /\ OneFamilyPerCode)'
  <2>1. CASE RevokeAuthenticate(p)
    BY <2>1 DEF RevokeAuthenticate
  <2>2. CASE RevokeLoad(p)
    BY <2>2 DEF RevokeLoad
  <2>3. CASE AdminGetFamily(p)
    BY <2>3 DEF AdminGetFamily
  <2>4. CASE ForceLogoutList(p)
    BY <2>4 DEF ForceLogoutList, ActiveFamilies
  <2>5. CASE ForceLogoutRevoke(p)
    BY <2>5 DEF ForceLogoutRevoke, RevokeByUserID
  <2>6. CASE ForceLogoutDeny(p)
    BY <2>6 DEF ForceLogoutDeny, RevokeByFamily
  <2>7. CASE ConsentRevoke(p)
    BY <2>7 DEF ConsentRevoke
  <2>8. CASE ConsentIssuances(p)
    BY <2>8 DEF ConsentIssuances, RevokeIssuanceFamily
  <2>9. CASE ConsentList(p)
    BY <2>9 DEF ConsentList, ActiveFamilies
  <2>10. CASE ConsentFamily(p)
    BY <2>10 DEF ConsentFamily, RevokeFamily, LiveTokensOf
  <2>11. CASE ConsentDeny(p)
    BY <2>11 DEF ConsentDeny, RevokeByFamily
  <2> QED BY <1>3, <2>1, <2>2, <2>3, <2>4, <2>5, <2>6, <2>7, <2>8, <2>9,
      <2>10, <2>11 DEF TokenRevocationStep
<1>4. CASE Environment
  <2>1. CASE SuspendClient
    BY <2>1 DEF SuspendClient, SetClient
  <2>2. CASE ReactivateClient
    BY <2>2 DEF ReactivateClient, SetClient
  <2>3. CASE RevokeClient
    BY <2>3 DEF RevokeClient, SetClient
  <2>4. CASE DisableUser
    BY <2>4 DEF DisableUser, SetUser
  <2>5. CASE EnableUser
    BY <2>5 DEF EnableUser, SetUser
  <2>6. CASE UserCacheExpires
    BY <2>6 DEF UserCacheExpires
  <2>7. ASSUME NEW s \in Sessions, ExpireSession(s) PROVE (CodeInv /\ OneFamilyPerCode)'
    BY <2>7 DEF ExpireSession
  <2>8. ASSUME NEW s \in Sessions, PurgeSessions(s) PROVE (CodeInv /\ OneFamilyPerCode)'
    BY <2>8 DEF PurgeSessions, DeleteExpiredSession
  <2>9. ASSUME NEW r \in Requests, ExpireRefreshToken(r) PROVE (CodeInv /\ OneFamilyPerCode)'
    BY <2>9 DEF ExpireRefreshToken
  <2>10. ASSUME NEW r \in Requests, PurgeRefreshTokens(r) PROVE (CodeInv /\ OneFamilyPerCode)'
    BY <2>10 DEF PurgeRefreshTokens, PurgeRefreshToken
  <2>11. ASSUME NEW j \in Requests, ExpireAccessToken(j) PROVE (CodeInv /\ OneFamilyPerCode)'
    BY <2>11 DEF ExpireAccessToken
  <2>12. ASSUME NEW j \in Requests, PurgeJTIs(j) PROVE (CodeInv /\ OneFamilyPerCode)'
    BY <2>12 DEF PurgeJTIs, PurgeJTI
  <2> QED BY <1>4, <2>1, <2>2, <2>3, <2>4, <2>5, <2>6, <2>7, <2>8, <2>9,
      <2>10, <2>11, <2>12 DEF Environment
<1>5. CASE UNCHANGED vars
  BY <1>5
<1> QED BY <1>1, <1>2, <1>3, <1>4, <1>5 DEF Next, Step, Quiescent

\* Every step keeps a rotating family without a live token and with one rotator.
LEMMA RotationStep ==
    ASSUME TypeInv, FreshInv, RotationInv, OneLiveTokenPerFamily, [Next]_vars
    PROVE  (RotationInv /\ OneLiveTokenPerFamily)'
<1> USE DEF TypeInv, TypeOK, StoreTypeOK, ServiceTypeOK, LabelInv, TakesToken,
        Labels, ExchangeLabels, RefreshLabels, HalfLabels, AdminLabels,
        FreshInv, Targeted, Refreshing, Rotating, RotationInv, OneLiveTokenPerFamily
<1>1. ASSUME NEW p \in Requests, Begin(p) PROVE (RotationInv /\ OneLiveTokenPerFamily)'
  <2>1. CASE ExchangeCode(p)
    BY <2>1 DEF ExchangeCode, Arrive
  <2>2. CASE RefreshToken(p)
    BY <2>2 DEF RefreshToken, Arrive
  <2>3. CASE RevokeToken(p)
    BY <2>3 DEF RevokeToken, Arrive
  <2>4. CASE AdminRevokeToken(p)
    BY <2>4 DEF AdminRevokeToken, Arrive
  <2>5. CASE ForceLogoutUser(p)
    BY <2>5 DEF ForceLogoutUser, Arrive
  <2>6. CASE RevokeConsent(p)
    BY <2>6 DEF RevokeConsent, Arrive
  <2> QED BY <1>1, <2>1, <2>2, <2>3, <2>4, <2>5, <2>6 DEF Begin
<1>2. ASSUME NEW p \in Requests, TokenServiceStep(p) PROVE (RotationInv /\ OneLiveTokenPerFamily)'
  <2>1. CASE ExchangeConsume(p)
    BY <2>1 DEF ExchangeConsume, ConsumeByCodeHash
  <2>2. CASE ExchangeReplayed(p)
    BY <2>2 DEF ExchangeReplayed
  <2>3. CASE ExchangeValidate(p)
    BY <2>3 DEF ExchangeValidate
  <2>4. CASE ExchangeSubject(p)
    BY <2>4 DEF ExchangeSubject, SeenActive
  <2>5. CASE ExchangeMint(p)
    BY <2>5 DEF ExchangeMint, Issue, InsertIssuance
  <2>6. CASE ExchangeCommit(p)
    <3>1. /\ At(p, "commit") /\ pc' = [pc EXCEPT ![p] = "done"]
          /\ tgt' = [tgt EXCEPT ![p] = p]
          /\ UNCHANGED input
          /\ \/ rt' = [rt EXCEPT ![p] = "live"] /\ rtFam' = [rtFam EXCEPT ![p] = p]
             \/ UNCHANGED <<rt, rtFam>>
      BY <2>6 DEF ExchangeCommit, CreateRefreshToken
    <3>2. \A r \in Requests : rt[r] # "none" => rtFam[r] # p
      BY <3>1
    <3>3. \A q \in Requests : pc[q] \in Rotating => tgt[q] # p
      BY <3>1
    <3>4. CASE UNCHANGED <<rt, rtFam>>
      BY <3>1, <3>4
    <3>5. CASE rt' = [rt EXCEPT ![p] = "live"] /\ rtFam' = [rtFam EXCEPT ![p] = p]
      <4>1. \A q \in Requests : pc'[q] \in {"authenticate", "rotate"} => tgt'[q] = rtFam'[input'[q]]
        BY <3>1, <3>5
      <4>2. \A q \in Requests : pc'[q] \in Rotating =>
               /\ \A r \in Requests : rt'[r] = "live" => rtFam'[r] # tgt'[q]
               /\ \A t \in Requests : pc'[t] \in Rotating /\ tgt'[t] = tgt'[q] => t = q
        BY <3>1, <3>3, <3>5
      <4>3. OneLiveTokenPerFamily'
        BY <3>1, <3>2, <3>5
      <4> QED BY <4>1, <4>2, <4>3
    <3> QED BY <3>1, <3>4, <3>5
  <2>7. CASE ReplayLookup(p)
    <3>1. /\ At(p, "lookup")
          /\ tgt' \in [Requests -> Requests \cup {None}]
          /\ \A q \in Requests \ {p} : tgt'[q] = tgt[q]
      BY <2>7 DEF ReplayLookup, FamiliesOfSession
    <3>2. /\ \E l \in {"done", "revokeHalf", "denylistHalf"} : pc' = [pc EXCEPT ![p] = l]
          /\ UNCHANGED <<rt, rtFam, input>>
      BY <2>7 DEF ReplayLookup
    <3> QED BY <3>1, <3>2
  <2>8. CASE RefreshLoad(p)
    BY <2>8 DEF RefreshLoad, Loadable
  <2>9. CASE RefreshAuthenticate(p)
    BY <2>9 DEF RefreshAuthenticate
  <2>10. CASE RefreshConsume(p)
    BY <2>10 DEF RefreshConsume, ConsumeRefreshToken
  <2>11. CASE RefreshReused(p)
    BY <2>11 DEF RefreshReused
  <2>12. CASE RefreshSubject(p)
    BY <2>12 DEF RefreshSubject, SeenActive
  <2>13. CASE RefreshMint(p)
    BY <2>13 DEF RefreshMint, Issue, InsertIssuance
  <2>14. CASE RefreshTrack(p)
    BY <2>14 DEF RefreshTrack, TrackBestEffort, TrackJTI
  <2>15. CASE RefreshRecheck(p)
    BY <2>15 DEF RefreshRecheck
  <2>16. CASE RefreshUndo(p)
    BY <2>16 DEF RefreshUndo, RevokeIssuance
  <2>17. CASE RefreshCreate(p)
    BY <2>17 DEF RefreshCreate, CreateRefreshToken
  <2>18. CASE RevokeHalf(p)
    BY <2>18 DEF RevokeHalf, RevokeFamily, LiveTokensOf, ReuseDetection
  <2>19. CASE RevokeHalfFails(p)
    BY <2>19 DEF RevokeHalfFails, ReuseDetection
  <2>20. CASE DenylistHalf(p)
    BY <2>20 DEF DenylistHalf, RevokeByFamily
  <2>21. CASE Refuse(p)
    BY <2>21 DEF Refuse, Refused, SeenInactive
  <2>22. CASE Fail(p)
    BY <2>22 DEF Fail
  <2> QED BY <1>2, <2>1, <2>2, <2>3, <2>4, <2>5, <2>6, <2>7, <2>8, <2>9,
      <2>10, <2>11, <2>12, <2>13, <2>14, <2>15, <2>16, <2>17, <2>18, <2>19,
      <2>20, <2>21, <2>22 DEF TokenServiceStep
<1>3. ASSUME NEW p \in Requests, TokenRevocationStep(p) PROVE (RotationInv /\ OneLiveTokenPerFamily)'
  <2>1. CASE RevokeAuthenticate(p)
    BY <2>1 DEF RevokeAuthenticate
  <2>2. CASE RevokeLoad(p)
    <3>1. /\ At(p, "rvLoad")
          /\ tgt' \in [Requests -> Requests \cup {None}]
          /\ \A q \in Requests \ {p} : tgt'[q] = tgt[q]
      BY <2>2 DEF RevokeLoad
    <3>2. /\ \E l \in {"done", "revokeHalf"} : pc' = [pc EXCEPT ![p] = l]
          /\ UNCHANGED <<rt, rtFam, input>>
      BY <2>2 DEF RevokeLoad
    <3> QED BY <3>1, <3>2
  <2>3. CASE AdminGetFamily(p)
    BY <2>3 DEF AdminGetFamily
  <2>4. CASE ForceLogoutList(p)
    BY <2>4 DEF ForceLogoutList, ActiveFamilies
  <2>5. CASE ForceLogoutRevoke(p)
    BY <2>5 DEF ForceLogoutRevoke, RevokeByUserID
  <2>6. CASE ForceLogoutDeny(p)
    BY <2>6 DEF ForceLogoutDeny, RevokeByFamily
  <2>7. CASE ConsentRevoke(p)
    BY <2>7 DEF ConsentRevoke
  <2>8. CASE ConsentIssuances(p)
    BY <2>8 DEF ConsentIssuances, RevokeIssuanceFamily
  <2>9. CASE ConsentList(p)
    BY <2>9 DEF ConsentList, ActiveFamilies
  <2>10. CASE ConsentFamily(p)
    BY <2>10, SMTT(30) DEF ConsentFamily, RevokeFamily, LiveTokensOf
  <2>11. CASE ConsentDeny(p)
    BY <2>11 DEF ConsentDeny, RevokeByFamily
  <2> QED BY <1>3, <2>1, <2>2, <2>3, <2>4, <2>5, <2>6, <2>7, <2>8, <2>9,
      <2>10, <2>11 DEF TokenRevocationStep
<1>4. CASE Environment
  <2>1. CASE SuspendClient
    BY <2>1 DEF SuspendClient, SetClient
  <2>2. CASE ReactivateClient
    BY <2>2 DEF ReactivateClient, SetClient
  <2>3. CASE RevokeClient
    BY <2>3 DEF RevokeClient, SetClient
  <2>4. CASE DisableUser
    BY <2>4 DEF DisableUser, SetUser
  <2>5. CASE EnableUser
    BY <2>5 DEF EnableUser, SetUser
  <2>6. CASE UserCacheExpires
    BY <2>6 DEF UserCacheExpires
  <2>7. ASSUME NEW s \in Sessions, ExpireSession(s) PROVE (RotationInv /\ OneLiveTokenPerFamily)'
    BY <2>7 DEF ExpireSession
  <2>8. ASSUME NEW s \in Sessions, PurgeSessions(s) PROVE (RotationInv /\ OneLiveTokenPerFamily)'
    BY <2>8 DEF PurgeSessions, DeleteExpiredSession
  <2>9. ASSUME NEW r \in Requests, ExpireRefreshToken(r) PROVE (RotationInv /\ OneLiveTokenPerFamily)'
    BY <2>9 DEF ExpireRefreshToken
  <2>10. ASSUME NEW r \in Requests, PurgeRefreshTokens(r) PROVE (RotationInv /\ OneLiveTokenPerFamily)'
    BY <2>10 DEF PurgeRefreshTokens, PurgeRefreshToken
  <2>11. ASSUME NEW j \in Requests, ExpireAccessToken(j) PROVE (RotationInv /\ OneLiveTokenPerFamily)'
    BY <2>11 DEF ExpireAccessToken
  <2>12. ASSUME NEW j \in Requests, PurgeJTIs(j) PROVE (RotationInv /\ OneLiveTokenPerFamily)'
    BY <2>12 DEF PurgeJTIs, PurgeJTI
  <2> QED BY <1>4, <2>1, <2>2, <2>3, <2>4, <2>5, <2>6, <2>7, <2>8, <2>9,
      <2>10, <2>11, <2>12 DEF Environment
<1>5. CASE UNCHANGED vars
  BY <1>5
<1> QED BY <1>1, <1>2, <1>3, <1>4, <1>5 DEF Next, Step, Quiescent

\* The conjunction of the invariants above is inductive: it holds of the empty
\* store and every handler, purge and admin step keeps it.
THEOREM ChainInvariant == Spec => []ChainInv
<1>1. Init => ChainInv
  BY DEF Init, StoreInit, ServiceInit, ChainInv, TypeInv, TypeOK, StoreTypeOK,
         ServiceTypeOK, LabelInv, FreshInv, CodeInv, OneFamilyPerCode, RotationInv,
         OneLiveTokenPerFamily, Labels, Operations, ExchangeLabels, TakesToken,
         Redeeming, Rotating, Refreshing, Targeted
<1>2. ChainInv /\ [Next]_vars => ChainInv'
  BY TypeStep, FreshStep, CodeStep, RotationStep DEF ChainInv
<1> QED BY <1>1, <1>2, PTL DEF Spec

\* Every variable of the token endpoints keeps its type.
THEOREM TypeCorrect == Spec => []TypeOK
<1>1. ChainInv => TypeOK
  BY DEF ChainInv, TypeInv
<1> QED BY <1>1, ChainInvariant, PTL

\* However many redemptions of a code race, fail or are replayed, it buys one
\* token family (exchangeCode, ConsumeByCodeHash).
THEOREM CodeSingleUse == Spec => []OneFamilyPerCode
<1>1. ChainInv => OneFamilyPerCode
  BY DEF ChainInv
<1> QED BY <1>1, ChainInvariant, PTL

\* However many refreshes, replays and revocations race, a family never has two
\* refresh tokens that could be presented (refreshToken, RevokeFamily).
THEOREM RotationIsLinear == Spec => []OneLiveTokenPerFamily
<1>1. ChainInv => OneLiveTokenPerFamily
  BY DEF ChainInv
<1> QED BY <1>1, ChainInvariant, PTL

-----------------------------------------------------------------------------
(* Reuse detection and revocation *)

\* Every step keeps a token that no rotation spent inside a revoked family, and
\* every report on a token that another request rotated.
LEMMA ReuseStep ==
    ASSUME ChainInv, ReuseInv, ReuseReportsAreSound, [Next]_vars
    PROVE  (ReuseInv /\ ReuseReportsAreSound)'
<1> USE DEF TypeInv, TypeOK, StoreTypeOK, ServiceTypeOK, LabelInv, TakesToken,
        Labels, ExchangeLabels, RefreshLabels, HalfLabels, AdminLabels,
        ChainInv, FreshInv, RotationInv, Targeted, Refreshing, Rotating, Operations,
        ReuseInv, ReuseReportsAreSound
<1>1. ASSUME NEW p \in Requests, Begin(p) PROVE (ReuseInv /\ ReuseReportsAreSound)'
  <2>1. CASE ExchangeCode(p)
    BY <2>1 DEF ExchangeCode, Arrive
  <2>2. CASE RefreshToken(p)
    BY <2>2 DEF RefreshToken, Arrive
  <2>3. CASE RevokeToken(p)
    BY <2>3 DEF RevokeToken, Arrive
  <2>4. CASE AdminRevokeToken(p)
    BY <2>4 DEF AdminRevokeToken, Arrive
  <2>5. CASE ForceLogoutUser(p)
    BY <2>5 DEF ForceLogoutUser, Arrive
  <2>6. CASE RevokeConsent(p)
    BY <2>6 DEF RevokeConsent, Arrive
  <2> QED BY <1>1, <2>1, <2>2, <2>3, <2>4, <2>5, <2>6 DEF Begin
<1>2. ASSUME NEW p \in Requests, TokenServiceStep(p) PROVE (ReuseInv /\ ReuseReportsAreSound)'
  <2>1. CASE ExchangeConsume(p)
    BY <2>1 DEF ExchangeConsume, ConsumeByCodeHash
  <2>2. CASE ExchangeReplayed(p)
    BY <2>2 DEF ExchangeReplayed
  <2>3. CASE ExchangeValidate(p)
    BY <2>3 DEF ExchangeValidate
  <2>4. CASE ExchangeSubject(p)
    BY <2>4 DEF ExchangeSubject, SeenActive
  <2>5. CASE ExchangeMint(p)
    BY <2>5 DEF ExchangeMint, Issue, InsertIssuance
  <2>6. CASE ExchangeCommit(p)
    BY <2>6 DEF ExchangeCommit, CreateFamily, TrackBestEffort, TrackJTI,
        CreateRefreshToken
  <2>7. CASE ReplayLookup(p)
    <3>1. /\ At(p, "lookup") /\ op[p] = "exchange" /\ p \notin reported
          /\ \A q \in Requests \ {p} : tgt'[q] = tgt[q]
      BY <2>7 DEF ReplayLookup, FamiliesOfSession
    <3>2. /\ \E l \in {"done", "revokeHalf", "denylistHalf"} : pc' = [pc EXCEPT ![p] = l]
          /\ UNCHANGED <<rt, rtFam, fam, op, input, consumedBy, reported>>
      BY <2>7 DEF ReplayLookup
    <3> QED BY <3>1, <3>2
  <2>8. CASE RefreshLoad(p)
    BY <2>8 DEF RefreshLoad, Loadable
  <2>9. CASE RefreshAuthenticate(p)
    BY <2>9 DEF RefreshAuthenticate
  <2>10. CASE RefreshConsume(p)
    BY <2>10 DEF RefreshConsume, ConsumeRefreshToken
  <2>11. CASE RefreshReused(p)
    BY <2>11 DEF RefreshReused
  <2>12. CASE RefreshSubject(p)
    BY <2>12 DEF RefreshSubject, SeenActive
  <2>13. CASE RefreshMint(p)
    BY <2>13 DEF RefreshMint, Issue, InsertIssuance
  <2>14. CASE RefreshTrack(p)
    BY <2>14 DEF RefreshTrack, TrackBestEffort, TrackJTI
  <2>15. CASE RefreshRecheck(p)
    BY <2>15 DEF RefreshRecheck
  <2>16. CASE RefreshUndo(p)
    BY <2>16 DEF RefreshUndo, RevokeIssuance
  <2>17. CASE RefreshCreate(p)
    BY <2>17 DEF RefreshCreate, CreateRefreshToken
  <2>18. CASE RevokeHalf(p)
    BY <2>18 DEF RevokeHalf, RevokeFamily, LiveTokensOf, ReuseDetection
  <2>19. CASE RevokeHalfFails(p)
    BY <2>19 DEF RevokeHalfFails, ReuseDetection
  <2>20. CASE DenylistHalf(p)
    BY <2>20 DEF DenylistHalf, RevokeByFamily
  <2>21. CASE Refuse(p)
    BY <2>21 DEF Refuse, Refused, SeenInactive
  <2>22. CASE Fail(p)
    BY <2>22 DEF Fail
  <2> QED BY <1>2, <2>1, <2>2, <2>3, <2>4, <2>5, <2>6, <2>7, <2>8, <2>9,
      <2>10, <2>11, <2>12, <2>13, <2>14, <2>15, <2>16, <2>17, <2>18, <2>19,
      <2>20, <2>21, <2>22 DEF TokenServiceStep
<1>3. ASSUME NEW p \in Requests, TokenRevocationStep(p) PROVE (ReuseInv /\ ReuseReportsAreSound)'
  <2>1. CASE RevokeAuthenticate(p)
    BY <2>1 DEF RevokeAuthenticate
  <2>2. CASE RevokeLoad(p)
    <3>1. /\ At(p, "rvLoad") /\ op[p] = "revoke"
          /\ \A q \in Requests \ {p} : tgt'[q] = tgt[q]
      BY <2>2 DEF RevokeLoad
    <3>2. /\ \E l \in {"done", "revokeHalf"} : pc' = [pc EXCEPT ![p] = l]
          /\ UNCHANGED <<rt, rtFam, fam, op, input, consumedBy, reported>>
      BY <2>2 DEF RevokeLoad
    <3> QED BY <3>1, <3>2
  <2>3. CASE AdminGetFamily(p)
    BY <2>3 DEF AdminGetFamily
  <2>4. CASE ForceLogoutList(p)
    BY <2>4 DEF ForceLogoutList, ActiveFamilies
  <2>5. CASE ForceLogoutRevoke(p)
    BY <2>5 DEF ForceLogoutRevoke, RevokeByUserID
  <2>6. CASE ForceLogoutDeny(p)
    BY <2>6 DEF ForceLogoutDeny, RevokeByFamily
  <2>7. CASE ConsentRevoke(p)
    BY <2>7 DEF ConsentRevoke
  <2>8. CASE ConsentIssuances(p)
    BY <2>8 DEF ConsentIssuances, RevokeIssuanceFamily
  <2>9. CASE ConsentList(p)
    BY <2>9 DEF ConsentList, ActiveFamilies
  <2>10. CASE ConsentFamily(p)
    <3>1. /\ At(p, "cgFamily")
          /\ \E l \in {"done", "cgDeny"} : pc' = [pc EXCEPT ![p] = l]
          /\ UNCHANGED <<rtFam, op, input, consumedBy, reported>>
      BY <2>10 DEF ConsentFamily
    <3>2. \A q \in Requests \ {p} : tgt'[q] = tgt[q]
      BY <2>10 DEF ConsentFamily
    <3>3. \A f \in Requests : fam[f] = "revoked" => fam'[f] = "revoked"
      BY <2>10 DEF ConsentFamily, RevokeFamily
    <3>4. \A r \in Requests :
             \/ rt'[r] = rt[r]
             \/ rt'[r] = "consumed" /\ rt[r] = "live" /\ fam'[rtFam[r]] = "revoked"
      <4>1. CASE UNCHANGED <<fam, rt>>
        BY <4>1
      <4>2. ASSUME NEW f \in todo[p], RevokeFamily(f)
            PROVE  \A r \in Requests :
                      \/ rt'[r] = rt[r]
                      \/ rt'[r] = "consumed" /\ rt[r] = "live" /\ fam'[rtFam[r]] = "revoked"
        <5>1. f \in Requests /\ fam[f] # "none"
          OBVIOUS
        <5>2. fam'[f] = "revoked"
          BY <4>2, <5>1 DEF RevokeFamily
        <5> QED BY <4>2, <5>1, <5>2 DEF RevokeFamily, LiveTokensOf
      <4> QED BY <2>10, <4>1, <4>2 DEF ConsentFamily
    <3> QED BY <3>1, <3>2, <3>3, <3>4
  <2>11. CASE ConsentDeny(p)
    BY <2>11 DEF ConsentDeny, RevokeByFamily
  <2> QED BY <1>3, <2>1, <2>2, <2>3, <2>4, <2>5, <2>6, <2>7, <2>8, <2>9,
      <2>10, <2>11 DEF TokenRevocationStep
<1>4. CASE Environment
  <2>1. CASE SuspendClient
    BY <2>1 DEF SuspendClient, SetClient
  <2>2. CASE ReactivateClient
    BY <2>2 DEF ReactivateClient, SetClient
  <2>3. CASE RevokeClient
    BY <2>3 DEF RevokeClient, SetClient
  <2>4. CASE DisableUser
    BY <2>4 DEF DisableUser, SetUser
  <2>5. CASE EnableUser
    BY <2>5 DEF EnableUser, SetUser
  <2>6. CASE UserCacheExpires
    BY <2>6 DEF UserCacheExpires
  <2>7. ASSUME NEW s \in Sessions, ExpireSession(s) PROVE (ReuseInv /\ ReuseReportsAreSound)'
    BY <2>7 DEF ExpireSession
  <2>8. ASSUME NEW s \in Sessions, PurgeSessions(s) PROVE (ReuseInv /\ ReuseReportsAreSound)'
    BY <2>8 DEF PurgeSessions, DeleteExpiredSession
  <2>9. ASSUME NEW r \in Requests, ExpireRefreshToken(r) PROVE (ReuseInv /\ ReuseReportsAreSound)'
    BY <2>9 DEF ExpireRefreshToken
  <2>10. ASSUME NEW r \in Requests, PurgeRefreshTokens(r) PROVE (ReuseInv /\ ReuseReportsAreSound)'
    BY <2>10 DEF PurgeRefreshTokens, PurgeRefreshToken
  <2>11. ASSUME NEW j \in Requests, ExpireAccessToken(j) PROVE (ReuseInv /\ ReuseReportsAreSound)'
    BY <2>11 DEF ExpireAccessToken
  <2>12. ASSUME NEW j \in Requests, PurgeJTIs(j) PROVE (ReuseInv /\ ReuseReportsAreSound)'
    BY <2>12 DEF PurgeJTIs, PurgeJTI
  <2> QED BY <1>4, <2>1, <2>2, <2>3, <2>4, <2>5, <2>6, <2>7, <2>8, <2>9,
      <2>10, <2>11, <2>12 DEF Environment
<1>5. CASE UNCHANGED vars
  BY <1>5
<1> QED BY <1>1, <1>2, <1>3, <1>4, <1>5 DEF Next, Step, Quiescent

\* A step of a request that neither denies nor revokes, and does not come near
\* the re-check, cannot uncover a token.
LEMMA DenialFrame ==
    ASSUME ChainInv, DenialInv, RevokedFamilyIsDenied, NEW p \in Requests,
           UNCHANGED <<fam, tracked, denied, jtiExpired, held>>,
           pc[p] \notin {"denylistHalf", "cgDeny", "done"},
           \A q \in Requests \ {p} :
               pc'[q] = pc[q] /\ tgt'[q] = tgt[q] /\ todo'[q] = todo[q],
           pc'[p] \notin {"recheck", "create", "flList", "flRevoke", "flDeny"}
    PROVE  (DenialInv /\ RevokedFamilyIsDenied)'
<1>1. \A f \in Requests : DenylistPending(f) => DenylistPending(f)'
  BY DEF DenylistPending, DenialInv
<1>2. p \notin held
  BY DEF ChainInv, FreshInv
<1>3. \A j \in held : tgt'[j] = tgt[j] /\ tgt[j] \in Requests
  BY <1>2 DEF ChainInv, TypeInv, TypeOK, ServiceTypeOK, DenialInv
<1>4. RevokedFamilyIsDenied'
  BY <1>1, <1>3 DEF RevokedFamilyIsDenied
<1>5. \A q \in Requests : pc'[q] = "create" => Covered(q)'
  BY <1>1 DEF DenialInv, Covered, ChainInv, FreshInv, Targeted, Refreshing, Rotating
<1>6. DenialInv'
  BY <1>3, <1>5 DEF DenialInv
<1> QED BY <1>4, <1>6

\* Without store failures and force-logout, every step keeps the access tokens of
\* a revoked family denied, or a denylist half on its way to them.
LEMMA DenialStep ==
    ASSUME ChainInv, DenialInv, RevokedFamilyIsDenied, [Next]_vars,
           ~FaultyStore, "forceLogout" \notin Ops
    PROVE  (DenialInv /\ RevokedFamilyIsDenied)'
<1> USE DEF Labels, ExchangeLabels, RefreshLabels, HalfLabels, AdminLabels
<1>0. /\ pc \in [Requests -> Labels]
      /\ tgt \in [Requests -> Requests \cup {None}]
      /\ todo \in [Requests -> SUBSET Requests]
  BY DEF ChainInv, TypeInv, TypeOK, ServiceTypeOK
<1>1. ASSUME NEW p \in Requests, Begin(p) PROVE (DenialInv /\ RevokedFamilyIsDenied)'
  <2>1. CASE ExchangeCode(p)
    BY <2>1, <1>0, DenialFrame, SMTT(30) DEF ExchangeCode, Arrive
  <2>2. CASE RefreshToken(p)
    <3>1. /\ At(p, "idle") /\ pc' = [pc EXCEPT ![p] = "load"]
          /\ UNCHANGED <<fam, tracked, denied, jtiExpired, held, tgt, todo>>
      BY <2>2 DEF RefreshToken, Arrive
    <3> QED BY <3>1, <1>0, DenialFrame
  <2>3. CASE RevokeToken(p)
    BY <2>3, <1>0, DenialFrame, SMTT(30) DEF RevokeToken, Arrive
  <2>4. CASE AdminRevokeToken(p)
    BY <2>4, <1>0, DenialFrame, SMTT(30) DEF AdminRevokeToken, Arrive
  <2>5. CASE ForceLogoutUser(p)
    BY <2>5, <1>0, DenialFrame, SMTT(30) DEF ForceLogoutUser, Arrive
  <2>6. CASE RevokeConsent(p)
    BY <2>6, <1>0, DenialFrame, SMTT(30) DEF RevokeConsent, Arrive
  <2> QED BY <1>1, <2>1, <2>2, <2>3, <2>4, <2>5, <2>6 DEF Begin
<1>2. ASSUME NEW p \in Requests, TokenServiceStep(p) PROVE (DenialInv /\ RevokedFamilyIsDenied)'
  <2>1. CASE ExchangeConsume(p)
    BY <2>1, <1>0, DenialFrame, SMTT(30) DEF ExchangeConsume, ConsumeByCodeHash
  <2>2. CASE ExchangeReplayed(p)
    BY <2>2, <1>0, DenialFrame, SMTT(30) DEF ExchangeReplayed
  <2>3. CASE ExchangeValidate(p)
    BY <2>3, <1>0, DenialFrame, SMTT(30) DEF ExchangeValidate
  <2>4. CASE ExchangeSubject(p)
    BY <2>4, <1>0, DenialFrame, SMTT(30) DEF ExchangeSubject, SeenActive
  <2>5. CASE ExchangeMint(p)
    BY <2>5, <1>0, DenialFrame, SMTT(30) DEF ExchangeMint, Issue, InsertIssuance
  <2>6. CASE ExchangeCommit(p)
    <3> USE DEF TypeInv, TypeOK, StoreTypeOK, ServiceTypeOK, LabelInv,
            TakesToken, ChainInv, FreshInv, Targeted, Refreshing, Rotating,
            DenialInv, RevokedFamilyIsDenied, Covered, DenylistPending
    <3> QED BY <2>6, SMTT(30) DEF ExchangeCommit, CreateFamily, TrackBestEffort,
        TrackJTI, CreateRefreshToken
  <2>7. CASE ReplayLookup(p)
    <3> USE DEF TypeInv, TypeOK, StoreTypeOK, ServiceTypeOK, LabelInv,
            TakesToken, ChainInv, FreshInv, Targeted, Refreshing, Rotating,
            DenialInv, RevokedFamilyIsDenied, Covered, DenylistPending
    <3> QED BY <2>7, SMTT(30) DEF ReplayLookup, FamiliesOfSession
  <2>8. CASE RefreshLoad(p)
    BY <2>8, <1>0, DenialFrame, SMTT(30) DEF RefreshLoad, Loadable
  <2>9. CASE RefreshAuthenticate(p)
    BY <2>9, <1>0, DenialFrame, SMTT(30) DEF RefreshAuthenticate
  <2>10. CASE RefreshConsume(p)
    BY <2>10, <1>0, DenialFrame, SMTT(30) DEF RefreshConsume, ConsumeRefreshToken
  <2>11. CASE RefreshReused(p)
    BY <2>11, <1>0, DenialFrame, SMTT(30) DEF RefreshReused
  <2>12. CASE RefreshSubject(p)
    BY <2>12, <1>0, DenialFrame, SMTT(30) DEF RefreshSubject, SeenActive
  <2>13. CASE RefreshMint(p)
    BY <2>13, <1>0, DenialFrame, SMTT(30) DEF RefreshMint, Issue, InsertIssuance
  <2>14. CASE RefreshTrack(p)
    <3> USE DEF TypeInv, TypeOK, StoreTypeOK, ServiceTypeOK, LabelInv,
            TakesToken, ChainInv, FreshInv, Targeted, Refreshing, Rotating,
            DenialInv, RevokedFamilyIsDenied, Covered, DenylistPending
    <3>1. /\ At(p, "track") /\ p \notin held
          /\ pc' = [pc EXCEPT ![p] = "recheck"]
          /\ tracked' = [tracked EXCEPT ![p] = tgt[p]]
          /\ UNCHANGED <<fam, denied, jtiExpired, held, tgt, todo>>
      BY <2>14 DEF RefreshTrack, TrackBestEffort, TrackJTI
    <3>2. \A f \in Requests : DenylistPending(f) => DenylistPending(f)'
      BY <3>1
    <3>3. \A q \in Requests : pc'[q] = "create" => Covered(q)'
      BY <3>1, <3>2
    <3>4. RevokedFamilyIsDenied'
      BY <3>1, <3>2
    <3>5. DenialInv'
      BY <3>1, <3>3
    <3> QED BY <3>4, <3>5
  <2>15. CASE RefreshRecheck(p)
    <3> USE DEF TypeInv, TypeOK, StoreTypeOK, ServiceTypeOK, LabelInv,
            TakesToken, ChainInv, FreshInv, Targeted, Refreshing, Rotating,
            DenialInv, RevokedFamilyIsDenied, Covered, DenylistPending
    <3>1. /\ At(p, "recheck")
          /\ pc' = [pc EXCEPT ![p] = IF fam[tgt[p]] = "active" THEN "create" ELSE "undo"]
          /\ UNCHANGED <<fam, tracked, denied, jtiExpired, held, tgt, todo>>
      BY <2>15 DEF RefreshRecheck
    <3>2. \A f \in Requests : DenylistPending(f) => DenylistPending(f)'
      BY <3>1
    <3>3. \A q \in Requests : pc'[q] = "create" => Covered(q)'
      BY <3>1, <3>2
    <3>4. RevokedFamilyIsDenied'
      BY <3>1, <3>2
    <3>5. DenialInv'
      BY <3>1, <3>3
    <3> QED BY <3>4, <3>5
  <2>16. CASE RefreshUndo(p)
    BY <2>16, <1>0, DenialFrame, SMTT(30) DEF RefreshUndo, RevokeIssuance
  <2>17. CASE RefreshCreate(p)
    <3> USE DEF TypeInv, TypeOK, StoreTypeOK, ServiceTypeOK, LabelInv,
            TakesToken, ChainInv, FreshInv, Targeted, Refreshing, Rotating,
            DenialInv, RevokedFamilyIsDenied, Covered, DenylistPending
    <3>1. /\ At(p, "create") /\ held' = held \cup {p}
          /\ pc' = [pc EXCEPT ![p] = "done"]
          /\ UNCHANGED <<fam, tracked, denied, jtiExpired, tgt, todo>>
      BY <2>17 DEF RefreshCreate
    <3>2. \A f \in Requests : DenylistPending(f) => DenylistPending(f)'
      BY <3>1
    <3>3. tgt[p] \in Requests /\ tracked[p] = tgt[p] /\ Covered(p)
      BY <3>1
    <3>4. RevokedFamilyIsDenied'
      BY <3>1, <3>2, <3>3
    <3>5. DenialInv'
      BY <3>1, <3>2, <3>3
    <3> QED BY <3>4, <3>5
  <2>18. CASE RevokeHalf(p)
    <3> USE DEF TypeInv, TypeOK, StoreTypeOK, ServiceTypeOK, LabelInv,
            TakesToken, ChainInv, FreshInv, Targeted, Refreshing, Rotating,
            DenialInv, RevokedFamilyIsDenied, Covered, DenylistPending
    <3> QED BY <2>18, SMTT(30) DEF RevokeHalf, RevokeFamily, LiveTokensOf,
        ReuseDetection
  <2>19. CASE RevokeHalfFails(p)
    <3> USE DEF TypeInv, TypeOK, StoreTypeOK, ServiceTypeOK, LabelInv,
            TakesToken, ChainInv, FreshInv, Targeted, Refreshing, Rotating,
            DenialInv, RevokedFamilyIsDenied, Covered, DenylistPending
    <3> QED BY <2>19, SMTT(30) DEF RevokeHalfFails, ReuseDetection
  <2>20. CASE DenylistHalf(p)
    <3> USE DEF TypeInv, TypeOK, StoreTypeOK, ServiceTypeOK, LabelInv,
            TakesToken, ChainInv, FreshInv, Targeted, Refreshing, Rotating,
            DenialInv, RevokedFamilyIsDenied, Covered, DenylistPending
    <3>1. /\ At(p, "denylistHalf") /\ pc' = [pc EXCEPT ![p] = "done"]
          /\ denied' = denied \cup {j \in Requests : tracked[j] = tgt[p]}
          /\ UNCHANGED <<fam, tracked, jtiExpired, held, tgt, todo>>
      BY <2>20 DEF DenylistHalf, RevokeByFamily
    <3>2. \A f \in Requests \ {tgt[p]} : DenylistPending(f) => DenylistPending(f)'
      BY <3>1
    <3>3. \A j \in Requests : tracked[j] = tgt[p] => j \in denied'
      BY <3>1
    <3>4. RevokedFamilyIsDenied'
      BY <3>1, <3>2, <3>3
    <3>5. DenialInv'
      BY <3>1, <3>2, <3>3
    <3> QED BY <3>4, <3>5
  <2>21. CASE Refuse(p)
    BY <2>21, <1>0, DenialFrame, SMTT(30) DEF Refuse, Refused, SeenInactive
  <2>22. CASE Fail(p)
    <3> USE DEF TypeInv, TypeOK, StoreTypeOK, ServiceTypeOK, LabelInv,
            TakesToken, ChainInv, FreshInv, Targeted, Refreshing, Rotating,
            DenialInv, RevokedFamilyIsDenied, Covered, DenylistPending
    <3> QED BY <2>22, SMTT(30) DEF Fail
  <2> QED BY <1>2, <2>1, <2>2, <2>3, <2>4, <2>5, <2>6, <2>7, <2>8, <2>9,
      <2>10, <2>11, <2>12, <2>13, <2>14, <2>15, <2>16, <2>17, <2>18, <2>19,
      <2>20, <2>21, <2>22 DEF TokenServiceStep
<1>3. ASSUME NEW p \in Requests, TokenRevocationStep(p) PROVE (DenialInv /\ RevokedFamilyIsDenied)'
  <2>1. CASE RevokeAuthenticate(p)
    BY <2>1, <1>0, DenialFrame, SMTT(30) DEF RevokeAuthenticate
  <2>2. CASE RevokeLoad(p)
    BY <2>2, <1>0, DenialFrame, SMTT(30) DEF RevokeLoad
  <2>3. CASE AdminGetFamily(p)
    BY <2>3, <1>0, DenialFrame, SMTT(30) DEF AdminGetFamily
  <2>4. CASE ForceLogoutList(p)
    <3> USE DEF TypeInv, TypeOK, StoreTypeOK, ServiceTypeOK, LabelInv,
            TakesToken, ChainInv, FreshInv, Targeted, Refreshing, Rotating,
            DenialInv, RevokedFamilyIsDenied, Covered, DenylistPending
    <3> QED BY <2>4, SMTT(30) DEF ForceLogoutList, ActiveFamilies
  <2>5. CASE ForceLogoutRevoke(p)
    <3> USE DEF TypeInv, TypeOK, StoreTypeOK, ServiceTypeOK, LabelInv,
            TakesToken, ChainInv, FreshInv, Targeted, Refreshing, Rotating,
            DenialInv, RevokedFamilyIsDenied, Covered, DenylistPending
    <3> QED BY <2>5, SMTT(30) DEF ForceLogoutRevoke, RevokeByUserID
  <2>6. CASE ForceLogoutDeny(p)
    <3> USE DEF TypeInv, TypeOK, StoreTypeOK, ServiceTypeOK, LabelInv,
            TakesToken, ChainInv, FreshInv, Targeted, Refreshing, Rotating,
            DenialInv, RevokedFamilyIsDenied, Covered, DenylistPending
    <3> QED BY <2>6, SMTT(30) DEF ForceLogoutDeny, RevokeByFamily
  <2>7. CASE ConsentRevoke(p)
    BY <2>7, <1>0, DenialFrame, SMTT(30) DEF ConsentRevoke
  <2>8. CASE ConsentIssuances(p)
    BY <2>8, <1>0, DenialFrame, SMTT(30) DEF ConsentIssuances,
        RevokeIssuanceFamily
  <2>9. CASE ConsentList(p)
    BY <2>9, <1>0, DenialFrame, SMTT(30) DEF ConsentList, ActiveFamilies
  <2>10. CASE ConsentFamily(p)
    <3> USE DEF TypeInv, TypeOK, StoreTypeOK, ServiceTypeOK, LabelInv,
            TakesToken, ChainInv, FreshInv, Targeted, Refreshing, Rotating,
            DenialInv, RevokedFamilyIsDenied, Covered, DenylistPending
    <3>1. CASE todo[p] = {} /\ pc' = [pc EXCEPT ![p] = "done"] /\ UNCHANGED <<fam, tgt, todo>>
      BY <2>10, <3>1, <1>0, DenialFrame, SMTT(30) DEF ConsentFamily
    <3>2. ASSUME NEW f \in todo[p], RevokeFamily(f), tgt' = [tgt EXCEPT ![p] = f],
                 todo' = [todo EXCEPT ![p] = todo[p] \ {f}], Goto(p, "cgDeny")
          PROVE  (DenialInv /\ RevokedFamilyIsDenied)'
      <4>1. /\ At(p, "cgFamily") /\ f \in Requests /\ p \notin held
            /\ UNCHANGED <<tracked, denied, jtiExpired, held>>
        BY <2>10, <3>2 DEF ConsentFamily
      <4>2. \A g \in Requests : DenylistPending(g) => DenylistPending(g)'
        BY <3>2, <4>1
      <4>3. DenylistPending(f)'
        BY <3>2
      <4>4. \A g \in Requests \ {f} : fam'[g] = fam[g]
        BY <3>2 DEF RevokeFamily
      <4>5. \A j \in held : tgt'[j] = tgt[j] /\ tgt[j] \in Requests
        BY <3>2, <4>1
      <4>6. RevokedFamilyIsDenied'
        BY <4>1, <4>2, <4>3, <4>4, <4>5
      <4>7. \A q \in Requests : pc'[q] \in {"recheck", "create"} => q # p /\ tgt'[q] = tgt[q] /\ pc'[q] = pc[q]
        BY <3>2, <4>1
      <4>8. DenialInv'
        BY <3>2, <4>1, <4>2, <4>3, <4>4, <4>5, <4>7
      <4> QED BY <4>6, <4>8
    <3> QED BY <2>10, <3>1, <3>2 DEF ConsentFamily
  <2>11. CASE ConsentDeny(p)
    <3> USE DEF TypeInv, TypeOK, StoreTypeOK, ServiceTypeOK, LabelInv,
            TakesToken, ChainInv, FreshInv, Targeted, Refreshing, Rotating,
            DenialInv, RevokedFamilyIsDenied, Covered, DenylistPending
    <3> QED BY <2>11, SMTT(30) DEF ConsentDeny, RevokeByFamily
  <2> QED BY <1>3, <2>1, <2>2, <2>3, <2>4, <2>5, <2>6, <2>7, <2>8, <2>9,
      <2>10, <2>11 DEF TokenRevocationStep
<1>4. CASE Environment
  <2>1. CASE SuspendClient
    <3> USE DEF TypeInv, TypeOK, StoreTypeOK, ServiceTypeOK, LabelInv,
            TakesToken, ChainInv, FreshInv, Targeted, Refreshing, Rotating,
            DenialInv, RevokedFamilyIsDenied, Covered, DenylistPending
    <3> QED BY <2>1, SMTT(30) DEF SuspendClient, SetClient
  <2>2. CASE ReactivateClient
    <3> USE DEF TypeInv, TypeOK, StoreTypeOK, ServiceTypeOK, LabelInv,
            TakesToken, ChainInv, FreshInv, Targeted, Refreshing, Rotating,
            DenialInv, RevokedFamilyIsDenied, Covered, DenylistPending
    <3> QED BY <2>2, SMTT(30) DEF ReactivateClient, SetClient
  <2>3. CASE RevokeClient
    <3> USE DEF TypeInv, TypeOK, StoreTypeOK, ServiceTypeOK, LabelInv,
            TakesToken, ChainInv, FreshInv, Targeted, Refreshing, Rotating,
            DenialInv, RevokedFamilyIsDenied, Covered, DenylistPending
    <3> QED BY <2>3, SMTT(30) DEF RevokeClient, SetClient
  <2>4. CASE DisableUser
    <3> USE DEF TypeInv, TypeOK, StoreTypeOK, ServiceTypeOK, LabelInv,
            TakesToken, ChainInv, FreshInv, Targeted, Refreshing, Rotating,
            DenialInv, RevokedFamilyIsDenied, Covered, DenylistPending
    <3> QED BY <2>4, SMTT(30) DEF DisableUser, SetUser
  <2>5. CASE EnableUser
    <3> USE DEF TypeInv, TypeOK, StoreTypeOK, ServiceTypeOK, LabelInv,
            TakesToken, ChainInv, FreshInv, Targeted, Refreshing, Rotating,
            DenialInv, RevokedFamilyIsDenied, Covered, DenylistPending
    <3> QED BY <2>5, SMTT(30) DEF EnableUser, SetUser
  <2>6. CASE UserCacheExpires
    <3> USE DEF TypeInv, TypeOK, StoreTypeOK, ServiceTypeOK, LabelInv,
            TakesToken, ChainInv, FreshInv, Targeted, Refreshing, Rotating,
            DenialInv, RevokedFamilyIsDenied, Covered, DenylistPending
    <3> QED BY <2>6, SMTT(30) DEF UserCacheExpires
  <2>7. ASSUME NEW s \in Sessions, ExpireSession(s) PROVE (DenialInv /\ RevokedFamilyIsDenied)'
    <3> USE DEF TypeInv, TypeOK, StoreTypeOK, ServiceTypeOK, LabelInv,
            TakesToken, ChainInv, FreshInv, Targeted, Refreshing, Rotating,
            DenialInv, RevokedFamilyIsDenied, Covered, DenylistPending
    <3> QED BY <2>7, SMTT(30) DEF ExpireSession
  <2>8. ASSUME NEW s \in Sessions, PurgeSessions(s) PROVE (DenialInv /\ RevokedFamilyIsDenied)'
    <3> USE DEF TypeInv, TypeOK, StoreTypeOK, ServiceTypeOK, LabelInv,
            TakesToken, ChainInv, FreshInv, Targeted, Refreshing, Rotating,
            DenialInv, RevokedFamilyIsDenied, Covered, DenylistPending
    <3> QED BY <2>8, SMTT(30) DEF PurgeSessions, DeleteExpiredSession
  <2>9. ASSUME NEW r \in Requests, ExpireRefreshToken(r) PROVE (DenialInv /\ RevokedFamilyIsDenied)'
    <3> USE DEF TypeInv, TypeOK, StoreTypeOK, ServiceTypeOK, LabelInv,
            TakesToken, ChainInv, FreshInv, Targeted, Refreshing, Rotating,
            DenialInv, RevokedFamilyIsDenied, Covered, DenylistPending
    <3> QED BY <2>9, SMTT(30) DEF ExpireRefreshToken
  <2>10. ASSUME NEW r \in Requests, PurgeRefreshTokens(r) PROVE (DenialInv /\ RevokedFamilyIsDenied)'
    <3> USE DEF TypeInv, TypeOK, StoreTypeOK, ServiceTypeOK, LabelInv,
            TakesToken, ChainInv, FreshInv, Targeted, Refreshing, Rotating,
            DenialInv, RevokedFamilyIsDenied, Covered, DenylistPending
    <3> QED BY <2>10, SMTT(30) DEF PurgeRefreshTokens, PurgeRefreshToken
  <2>11. ASSUME NEW j \in Requests, ExpireAccessToken(j) PROVE (DenialInv /\ RevokedFamilyIsDenied)'
    <3> USE DEF TypeInv, TypeOK, StoreTypeOK, ServiceTypeOK, LabelInv,
            TakesToken, ChainInv, FreshInv, Targeted, Refreshing, Rotating,
            DenialInv, RevokedFamilyIsDenied, Covered, DenylistPending
    <3> QED BY <2>11, SMTT(30) DEF ExpireAccessToken
  <2>12. ASSUME NEW j \in Requests, PurgeJTIs(j) PROVE (DenialInv /\ RevokedFamilyIsDenied)'
    <3> USE DEF TypeInv, TypeOK, StoreTypeOK, ServiceTypeOK, LabelInv,
            TakesToken, ChainInv, FreshInv, Targeted, Refreshing, Rotating,
            DenialInv, RevokedFamilyIsDenied, Covered, DenylistPending
    <3> QED BY <2>12, SMTT(30) DEF PurgeJTIs, PurgeJTI
  <2> QED BY <1>4, <2>1, <2>2, <2>3, <2>4, <2>5, <2>6, <2>7, <2>8, <2>9,
      <2>10, <2>11, <2>12 DEF Environment
<1>5. CASE UNCHANGED vars
  BY <1>5 DEF DenialInv, RevokedFamilyIsDenied, Covered, DenylistPending
<1> QED BY <1>1, <1>2, <1>3, <1>4, <1>5 DEF Next, Step, Quiescent

\* A request that is on its way to revoke a family is one that may: the gates of
\* handleCodeReuse, authenticateClient and RevocationService.RevokeToken lie behind it.
EntitledInv ==
    \A p \in Requests :
        /\ pc[p] = "consume" => op[p] = "exchange"
        /\ pc[p] \in {"load", "authenticate"} => op[p] = "refresh"
        /\ pc[p] = "authenticate" => "client" \in cred[p]
        /\ pc[p] \in {"rvAuth", "rvLoad"} => op[p] = "revoke"
        /\ pc[p] = "rvLoad" => "secret" \in cred[p]
        /\ pc[p] \in {"lookup", "rotate", "adGet", "revokeHalf", "flList", "flRevoke", "flDeny",
                      "cgRevoke", "cgIssuances", "cgList", "cgFamily", "cgDeny"}
              => AuthorizedRevocation(p)

\* Every step keeps the gates between a caller and a revocation.
LEMMA EntitledStep ==
    ASSUME TypeInv, EntitledInv, [Next]_vars
    PROVE  EntitledInv'
<1> USE DEF TypeInv, TypeOK, StoreTypeOK, ServiceTypeOK, EntitledInv, AuthorizedRevocation
<1>1. ASSUME NEW p \in Requests, Begin(p) PROVE EntitledInv'
  <2>1. CASE ExchangeCode(p)
    BY <2>1 DEF ExchangeCode, Arrive
  <2>2. CASE RefreshToken(p)
    BY <2>2 DEF RefreshToken, Arrive
  <2>3. CASE RevokeToken(p)
    BY <2>3 DEF RevokeToken, Arrive
  <2>4. CASE AdminRevokeToken(p)
    BY <2>4 DEF AdminRevokeToken, Arrive
  <2>5. CASE ForceLogoutUser(p)
    BY <2>5 DEF ForceLogoutUser, Arrive
  <2>6. CASE RevokeConsent(p)
    BY <2>6 DEF RevokeConsent, Arrive
  <2> QED BY <1>1, <2>1, <2>2, <2>3, <2>4, <2>5, <2>6 DEF Begin
<1>2. ASSUME NEW p \in Requests, TokenServiceStep(p) PROVE EntitledInv'
  <2>1. CASE ExchangeConsume(p)
    BY <2>1 DEF ExchangeConsume, ConsumeByCodeHash
  <2>2. CASE ExchangeReplayed(p)
    BY <2>2 DEF ExchangeReplayed, Credentialed
  <2>3. CASE ExchangeValidate(p)
    BY <2>3 DEF ExchangeValidate
  <2>4. CASE ExchangeSubject(p)
    BY <2>4 DEF ExchangeSubject, SeenActive
  <2>5. CASE ExchangeMint(p)
    BY <2>5 DEF ExchangeMint, Issue, InsertIssuance
  <2>6. CASE ExchangeCommit(p)
    BY <2>6 DEF ExchangeCommit, CreateFamily, TrackBestEffort, TrackJTI,
        CreateRefreshToken
  <2>7. CASE ReplayLookup(p)
    <3>1. /\ At(p, "lookup") /\ UNCHANGED <<op, cred>>
          /\ \E l \in {"done", "revokeHalf", "denylistHalf"} : pc' = [pc EXCEPT ![p] = l]
      BY <2>7 DEF ReplayLookup
    <3> QED BY <3>1
  <2>8. CASE RefreshLoad(p)
    BY <2>8 DEF RefreshLoad, Loadable
  <2>9. CASE RefreshAuthenticate(p)
    BY <2>9 DEF RefreshAuthenticate
  <2>10. CASE RefreshConsume(p)
    BY <2>10 DEF RefreshConsume, ConsumeRefreshToken
  <2>11. CASE RefreshReused(p)
    BY <2>11 DEF RefreshReused
  <2>12. CASE RefreshSubject(p)
    BY <2>12 DEF RefreshSubject, SeenActive
  <2>13. CASE RefreshMint(p)
    BY <2>13 DEF RefreshMint, Issue, InsertIssuance
  <2>14. CASE RefreshTrack(p)
    BY <2>14 DEF RefreshTrack, TrackBestEffort, TrackJTI
  <2>15. CASE RefreshRecheck(p)
    BY <2>15 DEF RefreshRecheck
  <2>16. CASE RefreshUndo(p)
    BY <2>16 DEF RefreshUndo, RevokeIssuance
  <2>17. CASE RefreshCreate(p)
    BY <2>17 DEF RefreshCreate, CreateRefreshToken
  <2>18. CASE RevokeHalf(p)
    BY <2>18 DEF RevokeHalf, RevokeFamily, LiveTokensOf, ReuseDetection
  <2>19. CASE RevokeHalfFails(p)
    BY <2>19 DEF RevokeHalfFails, ReuseDetection
  <2>20. CASE DenylistHalf(p)
    BY <2>20 DEF DenylistHalf, RevokeByFamily
  <2>21. CASE Refuse(p)
    BY <2>21 DEF Refuse, Refused, SeenInactive
  <2>22. CASE Fail(p)
    BY <2>22 DEF Fail
  <2> QED BY <1>2, <2>1, <2>2, <2>3, <2>4, <2>5, <2>6, <2>7, <2>8, <2>9,
      <2>10, <2>11, <2>12, <2>13, <2>14, <2>15, <2>16, <2>17, <2>18, <2>19,
      <2>20, <2>21, <2>22 DEF TokenServiceStep
<1>3. ASSUME NEW p \in Requests, TokenRevocationStep(p) PROVE EntitledInv'
  <2>1. CASE RevokeAuthenticate(p)
    BY <2>1 DEF RevokeAuthenticate
  <2>2. CASE RevokeLoad(p)
    BY <2>2 DEF RevokeLoad
  <2>3. CASE AdminGetFamily(p)
    BY <2>3 DEF AdminGetFamily
  <2>4. CASE ForceLogoutList(p)
    BY <2>4 DEF ForceLogoutList, ActiveFamilies
  <2>5. CASE ForceLogoutRevoke(p)
    BY <2>5 DEF ForceLogoutRevoke, RevokeByUserID
  <2>6. CASE ForceLogoutDeny(p)
    BY <2>6 DEF ForceLogoutDeny, RevokeByFamily
  <2>7. CASE ConsentRevoke(p)
    BY <2>7 DEF ConsentRevoke
  <2>8. CASE ConsentIssuances(p)
    BY <2>8 DEF ConsentIssuances, RevokeIssuanceFamily
  <2>9. CASE ConsentList(p)
    BY <2>9 DEF ConsentList, ActiveFamilies
  <2>10. CASE ConsentFamily(p)
    <3>1. /\ At(p, "cgFamily") /\ UNCHANGED <<op, cred>>
          /\ \E l \in {"done", "cgDeny"} : pc' = [pc EXCEPT ![p] = l]
      BY <2>10 DEF ConsentFamily
    <3> QED BY <3>1
  <2>11. CASE ConsentDeny(p)
    BY <2>11 DEF ConsentDeny, RevokeByFamily
  <2> QED BY <1>3, <2>1, <2>2, <2>3, <2>4, <2>5, <2>6, <2>7, <2>8, <2>9,
      <2>10, <2>11 DEF TokenRevocationStep
<1>4. CASE Environment
  <2>1. CASE SuspendClient
    BY <2>1 DEF SuspendClient, SetClient
  <2>2. CASE ReactivateClient
    BY <2>2 DEF ReactivateClient, SetClient
  <2>3. CASE RevokeClient
    BY <2>3 DEF RevokeClient, SetClient
  <2>4. CASE DisableUser
    BY <2>4 DEF DisableUser, SetUser
  <2>5. CASE EnableUser
    BY <2>5 DEF EnableUser, SetUser
  <2>6. CASE UserCacheExpires
    BY <2>6 DEF UserCacheExpires
  <2>7. ASSUME NEW s \in Sessions, ExpireSession(s) PROVE EntitledInv'
    BY <2>7 DEF ExpireSession
  <2>8. ASSUME NEW s \in Sessions, PurgeSessions(s) PROVE EntitledInv'
    BY <2>8 DEF PurgeSessions, DeleteExpiredSession
  <2>9. ASSUME NEW r \in Requests, ExpireRefreshToken(r) PROVE EntitledInv'
    BY <2>9 DEF ExpireRefreshToken
  <2>10. ASSUME NEW r \in Requests, PurgeRefreshTokens(r) PROVE EntitledInv'
    BY <2>10 DEF PurgeRefreshTokens, PurgeRefreshToken
  <2>11. ASSUME NEW j \in Requests, ExpireAccessToken(j) PROVE EntitledInv'
    BY <2>11 DEF ExpireAccessToken
  <2>12. ASSUME NEW j \in Requests, PurgeJTIs(j) PROVE EntitledInv'
    BY <2>12 DEF PurgeJTIs, PurgeJTI
  <2> QED BY <1>4, <2>1, <2>2, <2>3, <2>4, <2>5, <2>6, <2>7, <2>8, <2>9,
      <2>10, <2>11, <2>12 DEF Environment
<1>5. CASE UNCHANGED vars
  BY <1>5
<1> QED BY <1>1, <1>2, <1>3, <1>4, <1>5 DEF Next, Step, Quiescent

\* Only the three statements that revoke end an active family.
LEMMA FamiliesStand ==
    ASSUME ChainInv, [Next]_vars
    PROVE  \/ \A f \in Requests : fam[f] = "active" => fam'[f] = "active"
           \/ \E p \in Requests : RevokeHalf(p) \/ ForceLogoutRevoke(p) \/ ConsentFamily(p)
<1>1. ASSUME NEW p \in Requests, Begin(p) PROVE fam' = fam
  BY <1>1 DEF Begin, ExchangeCode, RefreshToken, RevokeToken, AdminRevokeToken,
              ForceLogoutUser, RevokeConsent, Arrive
<1>2. ASSUME NEW p \in Requests, ExchangeCommit(p)
      PROVE  \A f \in Requests : fam[f] = "active" => fam'[f] = "active"
  BY <1>2 DEF ExchangeCommit, CreateFamily, ChainInv, TypeInv, TypeOK, StoreTypeOK
<1>3. ASSUME NEW p \in Requests, TokenServiceStep(p), ~ExchangeCommit(p), ~RevokeHalf(p)
      PROVE  fam' = fam
  <2>1. CASE ExchangeConsume(p) \/ ExchangeReplayed(p) \/ ExchangeValidate(p)
               \/ ExchangeSubject(p) \/ ExchangeMint(p)
    BY <2>1 DEF ExchangeConsume, ExchangeReplayed, ExchangeValidate, ExchangeSubject, ExchangeMint
  <2>2. CASE ReplayLookup(p)
    BY <2>2 DEF ReplayLookup
  <2>3. CASE RefreshLoad(p) \/ RefreshAuthenticate(p) \/ RefreshConsume(p) \/ RefreshReused(p)
               \/ RefreshSubject(p) \/ RefreshMint(p) \/ RefreshTrack(p)
    BY <2>3 DEF RefreshLoad, RefreshAuthenticate, RefreshConsume, RefreshReused,
                RefreshSubject, RefreshMint, RefreshTrack
  <2>4. CASE RefreshRecheck(p) \/ RefreshUndo(p) \/ RefreshCreate(p) \/ RevokeHalfFails(p)
               \/ DenylistHalf(p) \/ Refuse(p) \/ Fail(p)
    BY <2>4 DEF RefreshRecheck, RefreshUndo, RefreshCreate, RevokeHalfFails, DenylistHalf,
                Refuse, Fail
  <2> QED BY <1>3, <2>1, <2>2, <2>3, <2>4 DEF TokenServiceStep
<1>4. ASSUME NEW p \in Requests, TokenRevocationStep(p), ~ForceLogoutRevoke(p), ~ConsentFamily(p)
      PROVE  fam' = fam
  BY <1>4 DEF TokenRevocationStep, RevokeAuthenticate, RevokeLoad, AdminGetFamily,
       ForceLogoutList, ForceLogoutDeny, ConsentRevoke, ConsentIssuances, ConsentList, ConsentDeny
<1>5. ASSUME Environment PROVE fam' = fam
  BY <1>5 DEF Environment, SuspendClient, ReactivateClient, RevokeClient, SetClient, DisableUser,
       EnableUser, SetUser, UserCacheExpires, ExpireSession, PurgeSessions, ExpireRefreshToken,
       PurgeRefreshTokens, ExpireAccessToken, PurgeJTIs
<1>6. CASE UNCHANGED vars
  BY <1>6
<1> QED BY <1>1, <1>2, <1>3, <1>4, <1>5, <1>6 DEF Next, Step, Quiescent

\* A reuse report names a token that another request rotated, whatever fails and
\* whoever revokes at the same time (revokeFamilyHalf).
THEOREM ReuseDetectionSound == Spec => []ReuseReportsAreSound
<1>1. Init => ReuseInv /\ ReuseReportsAreSound
  BY DEF Init, StoreInit, ServiceInit, ReuseInv, ReuseReportsAreSound, ExchangeLabels
<1>2. ChainInv /\ ReuseInv /\ ReuseReportsAreSound /\ [Next]_vars
        => (ReuseInv /\ ReuseReportsAreSound)'
  BY ReuseStep
<1> QED BY <1>1, <1>2, ChainInvariant, PTL DEF Spec

\* When the store answers, a revocation that has run both its halves has reached
\* every access token its family ever handed out, also one a concurrent refresh
\* was signing (trackJTI, the re-check, RevokeFamily, RevokeByFamily).
THEOREM RevocationReachesHeldTokens ==
    ASSUME ~FaultyStore, "forceLogout" \notin Ops
    PROVE  Spec => []RevokedFamilyIsDenied
<1>1. Init => DenialInv /\ RevokedFamilyIsDenied
  BY DEF Init, StoreInit, ServiceInit, DenialInv, RevokedFamilyIsDenied
<1>2. ChainInv /\ DenialInv /\ RevokedFamilyIsDenied /\ [Next]_vars
        => (DenialInv /\ RevokedFamilyIsDenied)'
  BY DenialStep
<1> QED BY <1>1, <1>2, ChainInvariant, PTL DEF Spec

\* Only a caller that could have used the grant, or an operator, ends a family: a spent code
\* or a refresh token alone is no logout button, whatever fails and whoever else is at work
\* (handleCodeReuse, refreshToken, RevocationService.RevokeToken).
THEOREM LogoutNeedsCredentials == Spec => NoCredentialFreeLogout
<1> DEFINE Entitled == \A f \in Requests :
        fam[f] = "active" /\ fam'[f] # "active" =>
            \E p \in Requests : pc'[p] # pc[p] /\ AuthorizedRevocation(p)
<1>1. Init => EntitledInv
  BY DEF Init, ServiceInit, EntitledInv
<1>2. TypeInv /\ EntitledInv /\ [Next]_vars => EntitledInv'
  BY EntitledStep
<1>3. ASSUME ChainInv, EntitledInv, [Next]_vars PROVE Entitled
  <2>1. ASSUME NEW p \in Requests, RevokeHalf(p) \/ ForceLogoutRevoke(p) \/ ConsentFamily(p)
        PROVE  pc'[p] # pc[p] /\ AuthorizedRevocation(p)
    <3>1. pc[p] \in {"revokeHalf", "flRevoke", "cgFamily"}
      BY <2>1 DEF RevokeHalf, ForceLogoutRevoke, ConsentFamily
    <3>2. pc'[p] \in {"denylistHalf", "flDeny", "cgDeny", "done"}
      <4>1. pc \in [Requests -> Labels]
        BY <1>3 DEF ChainInv, TypeInv, TypeOK, ServiceTypeOK
      <4> QED BY <2>1, <4>1 DEF RevokeHalf, ForceLogoutRevoke, ConsentFamily
    <3> QED BY <1>3, <3>1, <3>2 DEF EntitledInv
  <2>2. \/ \A f \in Requests : fam[f] = "active" => fam'[f] = "active"
        \/ \E p \in Requests : RevokeHalf(p) \/ ForceLogoutRevoke(p) \/ ConsentFamily(p)
    BY <1>3, FamiliesStand
  <2> QED BY <2>1, <2>2
<1>4. ChainInv => TypeInv
  BY DEF ChainInv
<1>5. ASSUME ChainInv, EntitledInv, [Next]_vars PROVE [Entitled]_vars
  BY <1>3, <1>5
<1> HIDE DEF Entitled
<1> QED BY <1>1, <1>2, <1>4, <1>5, ChainInvariant, PTL DEF Spec, NoCredentialFreeLogout, Entitled
=============================================================================
