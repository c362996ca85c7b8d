---------------------------- MODULE AuthorizeFlow ----------------------------
(***************************************************************************)
(* The authorization endpoint and the consent page: how a browser request  *)
(* becomes an authorization code.  internal/services/authorize.go,         *)
(* internal/services/consent.go and their handlers in api/public/oauth,    *)
(* over the auth_sessions and consent_grants tables.                       *)
(*                                                                         *)
(* A request is a process; azAt[p] names the store call it makes next.  A  *)
(* session is named by the request that creates it, a code by the request  *)
(* that generates it: both are fresh random values in the code.            *)
(***************************************************************************)
EXTENDS Naturals

CONSTANTS AzRequests, AzUsers, AzClients, AzResources, AzScopes,
          Ceiling,      \* a client's registered scopes; {} is no ceiling
          RequireScope, \* oauth.require_scope
          Catalogs,     \* bound: the scope lists an administrator may set
          MaxRevocations, \* bound: revocations of one grant
          AzNone

ASSUME CeilingAssumption == Ceiling \in [AzClients -> SUBSET AzScopes]
ASSUME RequireScopeAssumption == RequireScope \in BOOLEAN
ASSUME CatalogsAssumption == Catalogs \subseteq SUBSET AzScopes
ASSUME MaxRevocationsAssumption == MaxRevocations \in Nat
ASSUME AzNoneAssumption ==
    AzNone \notin AzRequests \cup AzUsers \cup AzClients \cup AzResources

VARIABLES
    azAt,        \* the next store call of a request
    azIn,        \* what the request came with and has computed
    azSess,      \* auth_sessions
    azExpired,   \* sessions whose expires_at has passed
    azGrant,     \* consent_grants, by user, client and resource
    azCatalog,   \* the scopes a registered Mint resource declares
    azDisclosed, \* sessions whose id was sent to a browser
    azCodes,     \* codes that were sent to a client
    azTokens,    \* history: what each redeemed code bought
    azShown,     \* history: the scopes a user saw on the form of a session
    azApproved,  \* history: the scopes a user approved for a client at a resource
    azDenied,    \* history: sessions that a denial deleted
    azEpoch      \* history: revocations of a grant so far

azReqVars == <<azAt, azIn>>
azSessVars == <<azSess, azExpired>>
azHistVars == <<azTokens, azShown, azApproved, azDenied, azEpoch>>
azVars == <<azAt, azIn, azSess, azExpired, azGrant, azCatalog, azDisclosed,
            azCodes, azTokens, azShown, azApproved, azDenied, azEpoch>>

MaybeUser == AzUsers \cup {AzNone}
MaybeResource == AzResources \cup {AzNone}
GrantKeys == AzUsers \X AzClients \X AzResources

AzInput == [op : {"none", "authorize", "consent", "deny"},
            user : MaybeUser, client : AzClients \cup {AzNone},
            res : MaybeResource, scope : SUBSET AzScopes,
            sess : AzRequests \cup {AzNone}, silent : BOOLEAN,
            epoch : Nat]
AzRow == [client : AzClients, user : MaybeUser, res : MaybeResource,
          scope : SUBSET AzScopes, code : AzRequests \cup {AzNone},
          consumed : BOOLEAN]

Fresh == [op |-> "none", user |-> AzNone, client |-> AzNone, res |-> AzNone,
          scope |-> {}, sess |-> AzNone, silent |-> FALSE, epoch |-> 0]

AzLabels == {"idle", "create", "read", "complete", "submit", "record",
             "deny", "delete", "done"}

AuthorizeTypeOK ==
    /\ azAt \in [AzRequests -> AzLabels]
    /\ azIn \in [AzRequests -> AzInput]
    /\ azSess \in [AzRequests -> AzRow \cup {AzNone}]
    /\ azExpired \in SUBSET AzRequests
    /\ azGrant \in [GrantKeys -> [scopes : SUBSET AzScopes, revoked : BOOLEAN]]
    /\ azCatalog \in [AzResources -> SUBSET AzScopes]
    /\ azDisclosed \in SUBSET AzRequests
    /\ azCodes \in SUBSET AzRequests
    /\ azTokens \in [AzRequests -> AzRow \cup {AzNone}]
    /\ azShown \in [AzUsers \X AzRequests -> SUBSET AzScopes]
    /\ azApproved \in [AzUsers \X AzClients \X MaybeResource -> [AzScopes -> Nat]]
    /\ azDenied \in SUBSET AzRequests
    /\ azEpoch \in [GrantKeys -> Nat]

AuthorizeInit ==
    /\ azAt = [p \in AzRequests |-> "idle"]
    /\ azIn = [p \in AzRequests |-> Fresh]
    /\ azSess = [p \in AzRequests |-> AzNone]
    /\ azExpired = {}
    /\ azGrant = [k \in GrantKeys |-> [scopes |-> {}, revoked |-> TRUE]]
    /\ azCatalog = [r \in AzResources |-> AzScopes]
    /\ azDisclosed = {}
    /\ azCodes = {}
    /\ azTokens = [p \in AzRequests |-> AzNone]
    /\ azShown = [k \in AzUsers \X AzRequests |-> {}]
    /\ azApproved = [k \in AzUsers \X AzClients \X MaybeResource |-> [s \in AzScopes |-> 0]]
    /\ azDenied = {}
    /\ azEpoch = [k \in GrantKeys |-> 0]

AzGoto(p, label) == azAt' = [azAt EXCEPT ![p] = label]

-----------------------------------------------------------------------------
(* internal/adapters/postgres/session.go, consent_grant_store.go *)

CreateSession(s, row) == azSess' = [azSess EXCEPT ![s] = row]

HasSession(s) == azSess[s] # AzNone

\* One statement, WHERE the row exists, is live and has not been consumed.
UpdateCodeHashAndScope(s, code, scope) ==
    /\ HasSession(s) /\ s \notin azExpired /\ ~azSess[s].consumed
    /\ azSess' = [azSess EXCEPT ![s].code = code, ![s].scope = scope]

DeleteSession(s) == azSess' = [azSess EXCEPT ![s] = AzNone]

\* The scopes of the active grant; none when there is no such row.
ConsentGet(k) == IF azGrant[k].revoked THEN {} ELSE azGrant[k].scopes

ConsentUpsert(k, scopes) ==
    azGrant' = [azGrant EXCEPT ![k] = [scopes |-> scopes, revoked |-> FALSE]]

ConsentRevokeRow(k) == azGrant' = [azGrant EXCEPT ![k].revoked = TRUE]

-----------------------------------------------------------------------------
(* Scopes *)

\* collectDefaultScopes: the catalog of the resource, or of all of them.
CollectDefaultScopes(res) ==
    IF res = AzNone THEN UNION {azCatalog[r] : r \in AzResources} ELSE azCatalog[res]

\* validateScopes: a resource that declares nothing admits nothing.
ValidateScopes(scope, res) == azCatalog[res] # {} /\ scope \subseteq azCatalog[res]

WithinCeiling(c, scope) == Ceiling[c] = {} \/ scope \subseteq Ceiling[c]

\* What the request asks for once an omitted scope is replaced by the default.
RequestedScope(c, res, scope) ==
    IF scope # {} THEN scope
    ELSE IF Ceiling[c] = {} THEN CollectDefaultScopes(res)
    ELSE CollectDefaultScopes(res) \cap Ceiling[c]

-----------------------------------------------------------------------------
(* GET /oauth/authorize *)

\* The request is admitted when the client is known and active, redirect_uri,
\* response_type and PKCE are in order and the resource is a Mint: those are
\* static here, a refusal changes nothing.
AuthorizeRequest(p, u, c, res, scope) ==
    /\ azAt[p] = "idle"
    /\ scope # {} \/ ~RequireScope
    /\ LET req == RequestedScope(c, res, scope) IN
       /\ req # {}
       /\ WithinCeiling(c, req)
       /\ res # AzNone => ValidateScopes(req, res)
       /\ LET silent == /\ u # AzNone /\ res # AzNone
                        /\ req \subseteq ConsentGet(<<u, c, res>>)
          IN azIn' = [azIn EXCEPT ![p] =
                [op |-> "authorize", user |-> u, client |-> c, res |-> res,
                 scope |-> req, sess |-> p, silent |-> silent,
                 epoch |-> IF u # AzNone /\ res # AzNone
                           THEN azEpoch[<<u, c, res>>] ELSE 0]]
    /\ AzGoto(p, "create")
    /\ UNCHANGED <<azSessVars, azGrant, azCatalog, azDisclosed, azCodes, azHistVars>>

HandleAuthorize(p) ==
    \E u \in MaybeUser, c \in AzClients, res \in MaybeResource, scope \in SUBSET AzScopes :
        AuthorizeRequest(p, u, c, res, scope)

\* The session row, then one of three answers: the login page (the session is
\* left behind, the browser starts over), the consent page, or straight on.
AuthorizeCreate(p) ==
    /\ azAt[p] = "create"
    /\ LET i == azIn[p] IN
       /\ CreateSession(p, [client |-> i.client, user |-> i.user, res |-> i.res,
                            scope |-> i.scope, code |-> AzNone, consumed |-> FALSE])
       /\ azDisclosed' = IF i.user # AzNone /\ ~i.silent
                         THEN azDisclosed \cup {p} ELSE azDisclosed
       /\ AzGoto(p, IF i.user # AzNone /\ i.silent THEN "read" ELSE "done")
    /\ UNCHANGED <<azIn, azExpired, azGrant, azCatalog, azCodes, azHistVars>>

\* CompleteAuthorization reads the session ...
CompleteRead(p) ==
    /\ azAt[p] = "read"
    /\ AzGoto(p, IF HasSession(p) /\ p \notin azExpired THEN "complete" ELSE "done")
    /\ UNCHANGED <<azIn, azSessVars, azGrant, azCatalog, azDisclosed, azCodes, azHistVars>>

\* ... and writes the code with the scope it has read.
CompleteAuthorization(p) ==
    /\ azAt[p] = "complete"
    /\ \/ UpdateCodeHashAndScope(p, p, azIn[p].scope) /\ azCodes' = azCodes \cup {p}
       \/ /\ ~ (HasSession(p) /\ p \notin azExpired)
          /\ UNCHANGED <<azSess, azCodes>>
    /\ AzGoto(p, "done")
    /\ UNCHANGED <<azIn, azExpired, azGrant, azCatalog, azDisclosed, azHistVars>>

-----------------------------------------------------------------------------
(* GET and POST /consent *)

\* The scopes the form lists: those of the session, through the catalog when
\* the session names a resource.
FilterScopes(row) == IF row.res = AzNone THEN row.scope ELSE azCatalog[row.res] \cap row.scope

\* GetPendingConsent: anyone who is logged in and has the id sees the form.
ViewConsent(u, s) ==
    /\ s \in azDisclosed
    /\ HasSession(s) /\ s \notin azExpired
    /\ ~ FilterScopes(azSess[s]) \subseteq azShown[<<u, s>>]
    /\ azShown' = [azShown EXCEPT ![<<u, s>>] = @ \cup FilterScopes(azSess[s])]
    /\ UNCHANGED <<azReqVars, azSessVars, azGrant, azCatalog, azDisclosed,
                   azCodes, azTokens, azApproved, azDenied, azEpoch>>

\* The form comes back with boxes that were on it; the CSRF token ties it to
\* the cookie of the user who saw it.  Zero boxes are refused by the handler.
HandlePostConsent(p) ==
    \E u \in AzUsers, s \in azDisclosed, action \in {"consent", "deny"} :
      \E scopes \in SUBSET azShown[<<u, s>>] :
        /\ azAt[p] = "idle"
        /\ azShown[<<u, s>>] # {}
        /\ (action = "consent") = (scopes # {})
        /\ azIn' = [azIn EXCEPT ![p] =
               [Fresh EXCEPT !.op = action, !.user = u, !.scope = scopes, !.sess = s]]
        /\ AzGoto(p, IF action = "deny" THEN "deny" ELSE "submit")
        /\ UNCHANGED <<azSessVars, azGrant, azCatalog, azDisclosed, azCodes, azHistVars>>

\* Mutant: whoever holds the session id may act on it.
OwnsSession_Anyone(p) == TRUE

\* The owner binding of GrantConsent and DenyConsent.
OwnsSession(p) == azSess[azIn[p].sess].user \in {AzNone, azIn[p].user}

\* GrantConsent up to the transaction: live, owned, and at most what was asked.
GrantConsentRead(p) ==
    /\ azAt[p] = "submit"
    /\ LET s == azIn[p].sess IN
       IF /\ HasSession(s) /\ s \notin azExpired
          /\ OwnsSession(p)
          /\ azIn[p].scope \subseteq azSess[s].scope
       THEN /\ azIn' = [azIn EXCEPT ![p].client = azSess[s].client,
                                    ![p].res = azSess[s].res]
            /\ AzGoto(p, "record")
       ELSE AzGoto(p, "done") /\ UNCHANGED azIn
    /\ UNCHANGED <<azSessVars, azGrant, azCatalog, azDisclosed, azCodes, azHistVars>>

\* Mutant: without the transaction the grant survives a code that was not written.
PersistAndCode_NoTransaction(p) ==
    LET i == azIn[p] IN
    /\ IF i.res # AzNone THEN ConsentUpsert(<<i.user, i.client, i.res>>, i.scope)
                         ELSE UNCHANGED azGrant
    /\ \/ /\ UpdateCodeHashAndScope(i.sess, p, i.scope)
          /\ azCodes' = azCodes \cup {p}
       \/ /\ ~ (HasSession(i.sess) /\ i.sess \notin azExpired /\ ~azSess[i.sess].consumed)
          /\ UNCHANGED <<azSess, azCodes>>
    /\ azApproved' = [azApproved EXCEPT ![<<i.user, i.client, i.res>>] =
          [s \in AzScopes |-> IF s \in i.scope
             THEN 1 + (IF i.res = AzNone THEN 0 ELSE azEpoch[<<i.user, i.client, i.res>>])
             ELSE @[s]]]

\* persistAndCode, one transaction: the grant and the code, or neither.
PersistAndCode(p) ==
    LET i == azIn[p] IN
    /\ UpdateCodeHashAndScope(i.sess, p, i.scope)
    /\ IF i.res # AzNone THEN ConsentUpsert(<<i.user, i.client, i.res>>, i.scope)
                         ELSE UNCHANGED azGrant
    /\ azCodes' = azCodes \cup {p}
    /\ azApproved' = [azApproved EXCEPT ![<<i.user, i.client, i.res>>] =
          [s \in AzScopes |-> IF s \in i.scope
             THEN 1 + (IF i.res = AzNone THEN 0 ELSE azEpoch[<<i.user, i.client, i.res>>])
             ELSE @[s]]]

GrantConsent(p) ==
    /\ azAt[p] = "record"
    /\ \/ PersistAndCode(p)
       \/ /\ LET s == azIn[p].sess IN
             ~ (HasSession(s) /\ s \notin azExpired /\ ~azSess[s].consumed)
          /\ UNCHANGED <<azSess, azGrant, azCodes, azApproved>>
    /\ AzGoto(p, "done")
    /\ UNCHANGED <<azIn, azExpired, azCatalog, azDisclosed, azTokens, azShown,
                   azDenied, azEpoch>>

\* DenyConsent: the owner check, which a missing session passes, and a session
\* that could not be read ...
DenyConsentRead(p) ==
    /\ azAt[p] = "deny"
    /\ \/ AzGoto(p, IF HasSession(azIn[p].sess) => OwnsSession(p) THEN "delete" ELSE "done")
       \/ AzGoto(p, "delete")
    /\ UNCHANGED <<azIn, azSessVars, azGrant, azCatalog, azDisclosed, azCodes, azHistVars>>

\* ... and the delete.  A delete that fails is logged: the client is told
\* access_denied all the same, and the session lives on.
DenyConsent(p) ==
    /\ azAt[p] = "delete"
    /\ \/ DeleteSession(azIn[p].sess) /\ azDenied' = azDenied \cup {azIn[p].sess}
       \/ UNCHANGED <<azSess, azDenied>>
    /\ AzGoto(p, "done")
    /\ UNCHANGED <<azIn, azExpired, azGrant, azCatalog, azDisclosed, azCodes,
                   azTokens, azShown, azApproved, azEpoch>>

-----------------------------------------------------------------------------
(* The other ends of the flow *)

\* POST /oauth/token with a code: TokenService has the steps, here the code is
\* consumed and buys what its session holds.  The code is spent even when the
\* session has expired or has no user.
HandleAuthCodeExchange(k) ==
    \E s \in AzRequests :
        /\ k \in azCodes
        /\ HasSession(s) /\ azSess[s].code = k /\ ~azSess[s].consumed
        /\ azSess' = [azSess EXCEPT ![s].consumed = TRUE]
        /\ azTokens' = IF s \in azExpired \/ azSess[s].user = AzNone THEN azTokens
                       ELSE [azTokens EXCEPT ![k] = azSess[s]]
        /\ UNCHANGED <<azReqVars, azExpired, azGrant, azCatalog, azDisclosed,
                       azCodes, azShown, azApproved, azDenied, azEpoch>>

\* GrantAdminService.RevokeConsent on the grant row (its cascade is in
\* TokenRevocation).
RevokeConsentGrant(k) ==
    /\ ~azGrant[k].revoked
    /\ azEpoch[k] < MaxRevocations
    /\ ConsentRevokeRow(k)
    /\ azEpoch' = [azEpoch EXCEPT ![k] = @ + 1]
    /\ UNCHANGED <<azReqVars, azSessVars, azCatalog, azDisclosed, azCodes,
                   azTokens, azShown, azApproved, azDenied>>

\* An administrator changes the scopes a resource declares.
ChangeCatalog(r) ==
    \E scopes \in Catalogs :
        /\ scopes # azCatalog[r]
        /\ azCatalog' = [azCatalog EXCEPT ![r] = scopes]
        /\ UNCHANGED <<azReqVars, azSessVars, azGrant, azDisclosed, azCodes, azHistVars>>

\* The ten minutes of a session pass.
ExpireAuthSession(s) ==
    /\ HasSession(s) /\ s \notin azExpired
    /\ azExpired' = azExpired \cup {s}
    /\ UNCHANGED <<azReqVars, azSess, azGrant, azCatalog, azDisclosed, azCodes, azHistVars>>

\* DeleteExpired: `authserver purge`.
PurgeSession(s) ==
    /\ HasSession(s) /\ s \in azExpired
    /\ DeleteSession(s)
    /\ UNCHANGED <<azReqVars, azExpired, azGrant, azCatalog, azDisclosed, azCodes, azHistVars>>

AuthorizeStep(p) ==
    \/ HandleAuthorize(p) \/ AuthorizeCreate(p)
    \/ CompleteRead(p) \/ CompleteAuthorization(p)
    \/ HandlePostConsent(p) \/ GrantConsentRead(p) \/ GrantConsent(p)
    \/ DenyConsentRead(p) \/ DenyConsent(p)

AuthorizeNext ==
    \/ \E p \in AzRequests : \/ AuthorizeStep(p) \/ HandleAuthCodeExchange(p)
                             \/ ExpireAuthSession(p) \/ PurgeSession(p)
    \/ \E u \in AzUsers, s \in AzRequests : ViewConsent(u, s)
    \/ \E k \in GrantKeys : RevokeConsentGrant(k)
    \/ \E r \in AzResources : ChangeCatalog(r)

AuthorizeSpec == AuthorizeInit /\ [][AuthorizeNext]_azVars

-----------------------------------------------------------------------------
(* Properties *)

\* authorize.go, consent.go: a token speaks only for what its user agreed to.
\* Every scope a redeemed code bought was approved by the session's own user,
\* on a form of that session or on an earlier one for the same client and
\* resource, whoever else held the session id and whatever raced.
TokensSpeakForTheirUser ==
    \A k \in AzRequests : azTokens[k] # AzNone =>
        \A s \in azTokens[k].scope :
            azApproved[<<azTokens[k].user, azTokens[k].client, azTokens[k].res>>][s] > 0

\* consent.go:177: two submissions of one form each write a code over the other.
\* The code that survives carries the scopes its own request approved, never
\* those of the submission it overwrote.
CodeCarriesItsOwnScopes ==
    \A s \in AzRequests : HasSession(s) /\ azSess[s].code # AzNone =>
        azSess[s].scope = azIn[azSess[s].code].scope

\* A flow that starts after a consent was revoked gets no code on the strength
\* of the revoked grant: unless a revocation came in between, a silently
\* completed flow rests on an approval younger than the last revocation.
SilentCodeNeedsStandingConsent ==
    \A p \in AzRequests :
        LET i == azIn[p]
            k == <<i.user, i.client, i.res>>
        IN i.op = "authorize" /\ i.silent /\ azEpoch[k] = i.epoch =>
              \A s \in i.scope : azApproved[k][s] > i.epoch

\* consent.go:340: a session that a denial deleted records no consent and buys no
\* token, even for an approval that was already under way or for a code that was
\* already sent.  (When the best-effort delete fails the denial is not final: the
\* session can be approved for the rest of its ten minutes.)
DenialIsFinal ==
    [][\A s \in azDenied :
          /\ \A p \in AzRequests :
                azIn[p].op = "consent" /\ azIn[p].sess = s /\ azAt[p] = "record" =>
                    azAt'[p] = "record" \/ (azGrant' = azGrant /\ azCodes' = azCodes)
          /\ \A k \in AzRequests : azIn[k].sess = s => azTokens'[k] = azTokens[k]]_azVars

\* A code and what it buys, together: the user, the scopes and the consent are those
\* of the session it was issued for (AuthorizeService, ConsentService).
CodesSound ==
    /\ AuthorizeTypeOK
    /\ TokensSpeakForTheirUser
    /\ CodeCarriesItsOwnScopes
    /\ SilentCodeNeedsStandingConsent
=============================================================================
