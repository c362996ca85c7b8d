----------------------------- MODULE Connections -----------------------------
(***************************************************************************)
(* Connections of users to one upstream OAuth provider                     *)
(* (internal/services/connect.go), the broker grants they leave behind     *)
(* (internal/adapters/postgres/broker_grant_store.go) and the upstream     *)
(* tokens that exchanges vend from them (broker_issuer.go, the broker half *)
(* of token_exchange.go, brokerproto/oauth/adapter.go).                    *)
(*                                                                         *)
(* A pending state and an upstream refresh token are both named by the     *)
(* request that made them.  A grant's id follows from its user, so the     *)
(* table is a function on users.                                           *)
(***************************************************************************)
EXTENDS Naturals, FiniteSets

CONSTANTS CnRequests, CnUsers,
          BrokerResources, \* the broker resources of the provider
          Returns,         \* the return URLs that callers ask for
          AllowedReturns,  \* what matchReturnURL accepts, by resource and overall
          GlobalReturns,
          SelfReturn,      \* the server's own connections page
          Fine,            \* scope names
          BrokerCatalog,   \* the scopes the broker resource declares
          WireName,        \* scope to its upstream name, CnNone when it has none
          SubjectScopes,   \* bound: the scopes of the subject tokens
          BrokerAsked,     \* bound: the scope parameters of the exchanges
          BrokerLinks,     \* the scope maps of fronting links to the resource
          UpstreamGrants,  \* what the provider says it granted at connect
          Policies,        \* how the provider treats a refresh token that is used
          CnOps,           \* bound: what each request may be
          Glitches,        \* faults of the upstream calls and the stores
          CnNone

ASSUME CnNoneAssumption ==
    CnNone \notin CnRequests \cup CnUsers \cup BrokerResources \cup Fine \cup Returns
ASSUME ReturnsAssumption ==
    /\ AllowedReturns \in [BrokerResources -> SUBSET Returns]
    /\ GlobalReturns \subseteq Returns
ASSUME WireAssumption ==
    /\ BrokerCatalog \subseteq Fine
    /\ WireName \in [BrokerCatalog -> Fine \cup {CnNone}]
    /\ UpstreamGrants \subseteq SUBSET Fine
    /\ SubjectScopes \subseteq SUBSET Fine /\ BrokerAsked \subseteq SUBSET Fine
    /\ BrokerLinks \subseteq [Fine -> SUBSET Fine] \cup {CnNone}
ASSUME CnBoundsAssumption ==
    /\ CnOps \in [CnRequests -> SUBSET {"start", "callback", "disconnect", "vend"}]
    /\ Policies \subseteq {"keep", "strict", "grace"}
    /\ Glitches \subseteq {"downgrade", "lost", "store", "revoke"}

VARIABLES
    cnAt, cnIn,  \* the requests: next call, and what they carry
    cnPending,   \* connect_pending_states, by the request that inserted them
    cnGrant,     \* broker_grants, by user
    cnUp,        \* the refresh tokens the provider accepts
    cnPolicy,    \* the provider's policy
    cnAttest,    \* the user's consent for the agent at the gateway resource
    cnOwner,     \* history: the user who started the connect a token comes from
    cnLost       \* history: tokens used up whose successor nobody stored

cnVars == <<cnAt, cnIn, cnPending, cnGrant, cnUp, cnPolicy, cnAttest, cnOwner, cnLost>>

GrantRow == [cred : CnRequests, version : Nat \ {0},
             scopes : SUBSET Fine, revoked : BOOLEAN]
ASSUME CnRowAssumption == CnNone \notin GrantRow

CnInput == [op : {"none", "start", "callback", "disconnect", "vend"},
            user : CnUsers \cup {CnNone}, state : CnRequests \cup {CnNone},
            cred : CnRequests \cup {CnNone}, version : Nat,
            scopes : SUBSET Fine, granted : SUBSET Fine]
CnLabels == {"idle", "redirected", "exchange", "upsert", "revoke", "upRevoke",
             "issue", "refresh", "persist", "record", "done"}
NoConnection == [op |-> "none", user |-> CnNone, state |-> CnNone, cred |-> CnNone,
                 version |-> 0, scopes |-> {}, granted |-> {}]

ConnTypeOK ==
    /\ cnAt \in [CnRequests -> CnLabels]
    /\ cnIn \in [CnRequests -> CnInput]
    /\ cnPending \in [CnRequests -> {"none", "live", "expired"}]
    /\ cnGrant \in [CnUsers -> GrantRow \cup {CnNone}]
    /\ cnUp \in SUBSET CnRequests
    /\ cnPolicy \in Policies
    /\ cnAttest \in [CnUsers -> SUBSET Fine]
    /\ cnOwner \in [CnRequests -> CnUsers \cup {CnNone}]
    /\ cnLost \in SUBSET CnRequests

ConnInit ==
    /\ cnAt = [p \in CnRequests |-> "idle"]
    /\ cnIn = [p \in CnRequests |-> NoConnection]
    /\ cnPending = [p \in CnRequests |-> "none"]
    /\ cnGrant = [u \in CnUsers |-> CnNone]
    /\ cnUp = {} /\ cnLost = {}
    /\ cnPolicy \in Policies
    /\ \E s \in SubjectScopes : cnAttest = [u \in CnUsers |-> s]
    /\ cnOwner = [p \in CnRequests |-> CnNone]

CnGoto(p, label) == cnAt' = [cnAt EXCEPT ![p] = label]

CnMayAsk(p, op) == cnAt[p] = "idle" /\ op \in CnOps[p]

CnArrive(p, i, label) ==
    /\ CnMayAsk(p, i.op)
    /\ cnIn' = [cnIn EXCEPT ![p] = i]
    /\ CnGoto(p, label)

-----------------------------------------------------------------------------
(* broker_grant_store.go, connect_pending_state_store.go *)

\* Get: the row of the user unless it is revoked.
ActiveGrant(u) == cnGrant[u] # CnNone /\ ~cnGrant[u].revoked

\* Upsert: a new row, or the old one with the new credential, active again and
\* one version on.
UpsertBroker(u, cred, scopes) ==
    cnGrant' = [cnGrant EXCEPT ![u] =
        [cred |-> cred, scopes |-> scopes, revoked |-> FALSE,
         version |-> IF @ = CnNone THEN 1 ELSE @.version + 1]]

\* Mutant: the row is written whatever its version.
UpdateWithVersion_Unconditional(u, read, cred) ==
    cnGrant' = [cnGrant EXCEPT ![u] =
        [@ EXCEPT !.cred = cred, !.scopes = read.granted,
                  !.version = cnGrant[u].version + 1]]

\* UpdateWithVersion: a row that moved on is left alone; a revoked row stays revoked.
UpdateWithVersion(u, read, cred) ==
    cnGrant' = [cnGrant EXCEPT ![u] =
        IF @.version = read.version
        THEN [@ EXCEPT !.cred = cred, !.scopes = read.granted,
                       !.version = cnGrant[u].version + 1]
        ELSE @]

\* Revoke: by id, without a look at the version.
RevokeBrokerRow(u) == cnGrant' = [cnGrant EXCEPT ![u].revoked = TRUE]

\* Consume: DELETE ... RETURNING of a row that has not expired.
ConsumePending(s) ==
    cnPending[s] = "live" /\ cnPending' = [cnPending EXCEPT ![s] = "none"]

-----------------------------------------------------------------------------
(* ConnectService *)

\* The resource the caller named, or the only one there is.
ConnectTarget(named) ==
    IF named # CnNone THEN {named}
    ELSE IF Cardinality(BrokerResources) = 1 THEN BrokerResources ELSE {}

\* isReturnURLAllowed: the server's own page, the resource's list or the global one;
\* never an absent URL.
ReturnURLAllowed(r, url) ==
    /\ url # CnNone
    /\ url = SelfReturn \/ url \in AllowedReturns[r] \cup GlobalReturns

\* StartConnect: resolve, check, insert the pending state, redirect.
StartConnect(p) ==
    /\ CnMayAsk(p, "start")
    /\ \E u \in CnUsers, named \in BrokerResources \cup {CnNone},
          url \in Returns \cup {SelfReturn, CnNone} :
           /\ \E r \in ConnectTarget(named) : ReturnURLAllowed(r, url)
           /\ CnArrive(p, [NoConnection EXCEPT !.op = "start", !.user = u], "redirected")
           /\ cnPending' = [cnPending EXCEPT ![p] = "live"]
           /\ UNCHANGED <<cnGrant, cnUp, cnPolicy, cnAttest, cnOwner, cnLost>>

\* expires_at passes: Consume no longer finds the row, PurgeExpired will.
ExpirePending(s) ==
    /\ cnPending[s] = "live"
    /\ cnPending' = [cnPending EXCEPT ![s] = "expired"]
    /\ UNCHANGED <<cnAt, cnIn, cnGrant, cnUp, cnPolicy, cnAttest, cnOwner, cnLost>>

\* purge connect-states: PurgeExpired.
PurgePending ==
    /\ \E s \in CnRequests : cnPending[s] = "expired"
    /\ cnPending' = [s \in CnRequests |-> IF cnPending[s] = "expired" THEN "none" ELSE cnPending[s]]
    /\ UNCHANGED <<cnAt, cnIn, cnGrant, cnUp, cnPolicy, cnAttest, cnOwner, cnLost>>

\* Mutant: whoever follows the redirect owns the connection.
OwnsPending_Anyone(s, u) == TRUE

\* The user of the row, and the user the state token is signed for.
OwnsPending(s, u) == cnIn[s].user = u

\* CompleteConnect: the state is gone even when it belongs to someone else.
CompleteConnect(p) ==
    /\ CnMayAsk(p, "callback")
    /\ \E s \in CnRequests, u \in CnUsers :
           /\ ConsumePending(s)
           /\ CnArrive(p, [NoConnection EXCEPT !.op = "callback", !.user = u, !.state = s],
                       IF OwnsPending(s, u) THEN "exchange" ELSE "done")
           /\ UNCHANGED <<cnGrant, cnUp, cnPolicy, cnAttest, cnOwner, cnLost>>

\* Adapter.HandleCallback: the provider hands out a refresh token and names the
\* scopes it granted, or names none; or the call fails.
HandleCallback(p) ==
    /\ cnAt[p] = "exchange"
    /\ \/ \E scopes \in UpstreamGrants :
             /\ cnUp' = cnUp \cup {p}
             /\ cnOwner' = [cnOwner EXCEPT ![p] = cnIn[cnIn[p].state].user]
             /\ cnIn' = [cnIn EXCEPT ![p].cred = p, ![p].granted = scopes]
             /\ CnGoto(p, "upsert")
       \/ "lost" \in Glitches /\ CnGoto(p, "done") /\ UNCHANGED <<cnIn, cnUp, cnOwner>>
    /\ UNCHANGED <<cnPending, cnGrant, cnPolicy, cnAttest, cnLost>>

\* ... and the grant is written with the encrypted credential.
StoreConnection(p) ==
    /\ cnAt[p] = "upsert"
    /\ \/ UpsertBroker(cnIn[p].user, cnIn[p].cred, cnIn[p].granted)
       \/ "store" \in Glitches /\ UNCHANGED cnGrant
    /\ CnGoto(p, "done")
    /\ UNCHANGED <<cnIn, cnPending, cnUp, cnPolicy, cnAttest, cnOwner, cnLost>>

\* Disconnect: the active grant is read ...
Disconnect(p) ==
    /\ CnMayAsk(p, "disconnect")
    /\ \E u \in CnUsers :
           /\ ActiveGrant(u)
           /\ CnArrive(p, [NoConnection EXCEPT !.op = "disconnect", !.user = u,
                                               !.cred = cnGrant[u].cred], "revoke")
           /\ UNCHANGED <<cnPending, cnGrant, cnUp, cnPolicy, cnAttest, cnOwner, cnLost>>

\* ... its row revoked by id ...
DisconnectRevoke(p) ==
    /\ cnAt[p] = "revoke"
    /\ RevokeBrokerRow(cnIn[p].user)
    /\ CnGoto(p, "upRevoke")
    /\ UNCHANGED <<cnIn, cnPending, cnUp, cnPolicy, cnAttest, cnOwner, cnLost>>

\* ... and the credential that was read revoked upstream, if the provider answers.
UpstreamRevoke(p) ==
    /\ cnAt[p] = "upRevoke"
    /\ \/ cnUp' = cnUp \ {cnIn[p].cred}
       \/ "revoke" \in Glitches /\ UNCHANGED cnUp
    /\ CnGoto(p, "done")
    /\ UNCHANGED <<cnIn, cnPending, cnGrant, cnPolicy, cnAttest, cnOwner, cnLost>>

\* GrantAdminService.RevokeBroker: no call upstream.
AdminRevokeBroker(u) ==
    /\ ActiveGrant(u)
    /\ RevokeBrokerRow(u)
    /\ UNCHANGED <<cnAt, cnIn, cnPending, cnUp, cnPolicy, cnAttest, cnOwner, cnLost>>

-----------------------------------------------------------------------------
(* Broker dispatch and BrokerIssuer *)

\* directBrokerDefaultScopes: attested, declared, and within the subject's own.
DirectBrokerDefaultScopes(attested, subject) ==
    {s \in attested \cap BrokerCatalog : subject = {} \/ s \in subject}

\* frontedBrokerTargetsFor.
FrontedBrokerTargetsFor(m, subject) == UNION {m[s] : s \in subject}

\* validateBrokerTargets: any source of a target will do.
ValidateBrokerTargets(m, targets, subject) ==
    \A t \in targets : \E s \in subject : t \in m[s]

\* dispatchBroker: the ceiling of the subject token and the attestation.
DirectBroker(subject, attested, asked) ==
    LET scopes == IF asked = {} THEN DirectBrokerDefaultScopes(attested, subject) ELSE asked
    IN IF /\ asked \subseteq BrokerCatalog
          /\ subject = {} \/ asked \subseteq subject
          /\ scopes # {} /\ scopes \subseteq attested
       THEN {scopes} ELSE {}

\* dispatchFrontedBroker: the link and the subject's scopes decide.
FrontedBroker(m, subject, asked) ==
    LET scopes == IF asked = {} THEN FrontedBrokerTargetsFor(m, subject) ELSE asked
    IN IF scopes # {} /\ ValidateBrokerTargets(m, scopes, subject) THEN {scopes} ELSE {}

\* What the gates before the scopes ask of the caller: an actor token, the target's
\* allowlist, whether the client is the runtime of a Mint resource, and whether the
\* subject token is for another Mint resource that no link connects to the target.
BrokerCallers == [actor : BOOLEAN, list : {"empty", "in", "out"},
                  runtime : BOOLEAN, unlinked : BOOLEAN]

\* operatorAllowsClient, the missing link, frontedCallerAuthorized, resolveActorMCP.
CallerMayDispatch(c, m) ==
    /\ ~c.actor /\ c.list # "out"
    /\ IF m # CnNone THEN c.runtime \/ c.list = "in"
       ELSE c.runtime /\ ~c.unlinked

\* The scopes of the exchange, or nothing when they are refused.
DecideBroker(m, subject, attested, asked) ==
    IF m # CnNone THEN FrontedBroker(m, subject, asked)
    ELSE DirectBroker(subject, attested, asked)

\* dispatchBroker up to Issue: caller, link, scopes.
BrokerExchange(p) ==
    /\ CnMayAsk(p, "vend")
    /\ \E u \in CnUsers, m \in BrokerLinks, subject \in SubjectScopes, asked \in BrokerAsked :
           /\ \E c \in BrokerCallers : CallerMayDispatch(c, m)
           /\ \E scopes \in DecideBroker(m, subject, cnAttest[u], asked) :
                 /\ CnArrive(p, [NoConnection EXCEPT !.op = "vend", !.user = u,
                                                     !.scopes = scopes], "issue")
                 /\ UNCHANGED <<cnPending, cnGrant, cnUp, cnPolicy, cnAttest, cnOwner, cnLost>>

\* mapToUpstreamScopes: what the grant must cover.
UpstreamScopes(scopes) == {WireName[s] : s \in scopes} \ {CnNone}

\* mapScopes of the adapter: a scope without an upstream name goes by its own.
WireScopes(scopes) ==
    {IF WireName[s] = CnNone THEN s ELSE WireName[s] : s \in scopes \cap BrokerCatalog}

\* Issue, its grant: active, and covering what the scopes stand for upstream.
IssueBroker(p) ==
    /\ cnAt[p] = "issue"
    /\ LET i == cnIn[p]
           g == cnGrant[i.user]
       IN IF /\ ActiveGrant(i.user)
             /\ i.scopes \subseteq BrokerCatalog
             /\ UpstreamScopes(i.scopes) \subseteq g.scopes
          THEN /\ cnIn' = [cnIn EXCEPT ![p].cred = g.cred, ![p].version = g.version,
                                       ![p].granted = g.scopes]
               /\ CnGoto(p, "refresh")
          ELSE CnGoto(p, "done") /\ UNCHANGED cnIn
    /\ UNCHANGED <<cnPending, cnGrant, cnUp, cnPolicy, cnAttest, cnOwner, cnLost>>

\* The provider issues refresh token p for a live one, which it may use up.
Rotate(p) ==
    /\ cnUp' = (IF cnPolicy = "strict" THEN cnUp \ {cnIn[p].cred} ELSE cnUp) \cup {p}
    /\ cnOwner' = [cnOwner EXCEPT ![p] = cnOwner[cnIn[p].cred]]

\* Adapter.Vend: refused, answered without or with a new refresh token; and the
\* answers that the adapter drops with the refresh token they carry.
VendRefresh(p) ==
    /\ cnAt[p] = "refresh"
    /\ LET live == cnIn[p].cred \in cnUp IN
       \/ ~live /\ CnGoto(p, "done") /\ UNCHANGED <<cnUp, cnOwner, cnLost>>
       \/ live /\ cnPolicy = "keep" /\ CnGoto(p, "record") /\ UNCHANGED <<cnUp, cnOwner, cnLost>>
       \/ live /\ cnPolicy # "keep" /\ Rotate(p) /\ CnGoto(p, "persist") /\ UNCHANGED cnLost
       \/ /\ live /\ cnPolicy # "keep" /\ Glitches \cap {"downgrade", "lost"} # {}
          /\ Rotate(p) /\ cnLost' = cnLost \cup {cnIn[p].cred}
          /\ CnGoto(p, "done")
    /\ UNCHANGED <<cnIn, cnPending, cnGrant, cnPolicy, cnAttest>>

\* The rotated credential is written if the row is the one that was read; losing
\* that race is no error, a failing store is.
PersistRotated(p) ==
    /\ cnAt[p] = "persist"
    /\ \/ /\ UpdateWithVersion(cnIn[p].user, cnIn[p], p)
          /\ CnGoto(p, "record") /\ UNCHANGED cnLost
       \/ /\ "store" \in Glitches /\ CnGoto(p, "done")
          /\ cnLost' = cnLost \cup {cnIn[p].cred} /\ UNCHANGED cnGrant
    /\ UNCHANGED <<cnIn, cnPending, cnUp, cnPolicy, cnAttest, cnOwner>>

\* The issuance row; without it the token is not returned.
RecordVend(p) ==
    /\ cnAt[p] = "record"
    /\ CnGoto(p, "done")
    /\ UNCHANGED <<cnIn, cnPending, cnGrant, cnUp, cnPolicy, cnAttest, cnOwner, cnLost>>

ConnStep(p) ==
    \/ StartConnect(p) \/ CompleteConnect(p) \/ HandleCallback(p) \/ StoreConnection(p)
    \/ Disconnect(p) \/ DisconnectRevoke(p) \/ UpstreamRevoke(p)
    \/ BrokerExchange(p) \/ IssueBroker(p) \/ VendRefresh(p) \/ PersistRotated(p) \/ RecordVend(p)

ConnNext ==
    \/ \E p \in CnRequests : ConnStep(p) \/ ExpirePending(p)
    \/ PurgePending
    \/ \E u \in CnUsers : AdminRevokeBroker(u)

ConnSpec == ConnInit /\ [][ConnNext]_cnVars

-----------------------------------------------------------------------------
(* Properties *)

\* connect.go:278: the credential stored for a user descends, through every
\* rotation, from a connect that this user started.
CredentialFollowsItsUser ==
    \A u \in CnUsers : cnGrant[u] # CnNone => cnOwner[cnGrant[u].cred] = u

\* connect_pending_state_store.go:62: however often a callback is delivered, one
\* pending state buys one upstream credential.
StateBuysOneCredential ==
    \A p, q \in CnRequests :
        /\ cnIn[p].op = "callback" /\ cnIn[q].op = "callback"
        /\ cnIn[p].cred # CnNone /\ cnIn[q].cred # CnNone
        /\ cnIn[p].state = cnIn[q].state
        => p = q

\* broker_issuer.go:290: a vend replaces only the credential it refreshed.  It
\* never overwrites that of a reconnect, and never brings a revoked grant back.
VendReplacesWhatItRead ==
    [][\A p \in CnRequests, u \in CnUsers :
          cnAt[p] = "persist" /\ cnAt'[p] = "record" /\ cnGrant[u] # cnGrant'[u] =>
              /\ cnGrant[u].cred = cnIn[p].cred
              /\ cnGrant[u].revoked = cnGrant'[u].revoked]_cnVars

\* adapter.go:237, broker_issuer.go:290: the credential of an active grant works
\* upstream, unless a vend that rotated it is still on its way to the store or its
\* rotation was lost to a fault.
StoredCredentialLives ==
    \A u \in CnUsers : ActiveGrant(u) =>
        \/ cnGrant[u].cred \in cnUp \cup cnLost
        \/ \E p \in CnRequests : cnAt[p] = "persist" /\ cnIn[p].cred = cnGrant[u].cred

\* token_exchange.go:1889, 2110: a refresh always names the scopes it wants, for a
\* refresh without any returns the whole upstream grant; and what the catalog gives
\* an upstream name was granted upstream.
RefreshNamesGrantedScopes ==
    \A p \in CnRequests : cnAt[p] \in {"refresh", "persist", "record"} =>
        /\ WireScopes(cnIn[p].scopes) # {}
        /\ UpstreamScopes(cnIn[p].scopes) \subseteq cnIn[p].granted

\* token_exchange.go:2450, 2533: whenever a vend is let through, what an omitted
\* scope stands for is exactly the most that an explicit request of that user would
\* be granted, on both broker paths and for every subject token and scope map.
BrokerDefaultsAreRequestable ==
    \A p \in CnRequests : cnAt[p] = "issue" =>
        \A subject \in SUBSET Fine, m \in BrokerLinks :
            LET Grant(asked) == DecideBroker(m, subject, cnAttest[cnIn[p].user], asked)
                most == UNION UNION {Grant(asked) : asked \in (SUBSET Fine) \ {{}}}
            IN Grant({}) = IF most = {} THEN {} ELSE {most}

\* A connection as a whole: the credential of the user who started it, bought once,
\* still good upstream, with the scopes that were granted (ConnectService,
\* BrokerIssuer).
ConnectionsSound ==
    /\ ConnTypeOK
    /\ CredentialFollowsItsUser
    /\ StateBuysOneCredential
    /\ StoredCredentialLives
    /\ RefreshNamesGrantedScopes
    /\ BrokerDefaultsAreRequestable
=============================================================================
