---------------------------- MODULE TokenExchange ----------------------------
(***************************************************************************)
(* Token exchange (internal/services/token_exchange.go) and the client     *)
(* credentials grant (client_credentials.go) for Mint resources, with the  *)
(* revocations that race them: consent (grant_admin.go), one issuance      *)
(* (issuance_admin.go), a machine token (revocation.go).                   *)
(*                                                                         *)
(* One user, any number of clients and resources.  A token is named by the *)
(* request that mints it; the tokens in TxRoots come from the code flow.   *)
(* A scope is the rank of its name in the lexicographic order, which       *)
(* decides between the sources of a fronting link.                         *)
(***************************************************************************)
EXTENDS Naturals, FiniteSets

CONSTANTS TxRequests, TxRoots, TxClients, TxResources, TxScopes,
          Catalog,       \* the scopes a resource declares
          Allowed,       \* policy.exchange.allowed_client_ids
          Runtime,       \* policy.runtime.client_ids
          Daemons,       \* clients registered for client credentials
          AllowSelf,     \* token_exchange.allow_self_exchange
          MaxChainDepth, \* token_exchange.max_chain_depth
          Links,         \* the fronting links a run may start with
          RootTokens,    \* client, resource and scopes of the code-flow tokens
          Grants,        \* the consents a run may start with
          TxOps,         \* bound: what each request may be
          Asked,         \* bound: the scope parameters a request may carry
          Actors,        \* bound: do requests carry an actor token?
          MaxMoves,      \* bound: moves of administrators and users
          TxNone

ASSUME TxScopesAssumption == TxScopes \subseteq Nat
ASSUME PolicyAssumption ==
    /\ Catalog \in [TxResources -> SUBSET TxScopes]
    /\ Allowed \in [TxResources -> SUBSET TxClients]
    /\ Runtime \in [TxResources -> SUBSET TxClients]
    /\ Daemons \subseteq TxClients
ASSUME ExchangeConfigAssumption == AllowSelf \in BOOLEAN /\ MaxChainDepth \in Nat
ASSUME TxBoundsAssumption ==
    /\ TxOps \in [TxRequests -> SUBSET {"exchange", "credentials", "consent", "introspect"}]
    /\ Asked \subseteq SUBSET TxScopes /\ Actors \subseteq BOOLEAN /\ MaxMoves \in Nat
ASSUME LinksAssumption ==
    Links \subseteq [TxResources \X TxResources -> {TxNone} \cup [TxScopes -> SUBSET TxScopes]]
ASSUME RootsAssumption ==
    /\ RootTokens \subseteq [client : TxClients, aud : TxResources, scope : SUBSET TxScopes]
    /\ Grants \subseteq [TxClients \X TxResources -> SUBSET TxScopes]
ASSUME TxNoneAssumption ==
    /\ TxNone \notin TxRequests \cup TxRoots \cup TxClients \cup TxResources
    /\ TxNone \notin [TxScopes -> SUBSET TxScopes]

\* A client_id is a UUID or a URL, a resource has a slug; neither is the subject
\* of the user, and a request signs a token of its own.
ASSUME TxNamesAssumption ==
    /\ TxClients \cap TxResources = {} /\ "user" \notin TxClients
    /\ TxRequests \cap TxRoots = {}

TxJtis == TxRequests \cup TxRoots

VARIABLES
    txAt, txIn,  \* the requests: next store call, and what they came with
    txTok,       \* the claims of every token ever signed
    txIss,       \* issuances
    txMach,      \* machine_tokens
    txDenied,    \* revoked_jtis
    txGrant,     \* the scopes of the user's active consent grants
    txLink,      \* fronting_links: source and target to a scope map
    txOff,       \* suspended clients
    txUser,      \* the user: active, disabled but maybe cached, or disabled for good
    txMoves,     \* administrative moves left
    txHeld,      \* tokens that were handed to a caller
    txRests      \* history: the consents a token rests on

txReqVars == <<txAt, txIn>>
txAdminVars == <<txLink, txOff, txUser, txMoves>>
txVars == <<txAt, txIn, txTok, txIss, txMach, txDenied, txGrant, txLink,
            txOff, txUser, txMoves, txHeld, txRests>>

TxConsents == TxClients \X TxResources
Claims == [sub : {"user"} \cup TxClients, client : TxClients \cup TxResources,
           aud : TxResources \cup {TxNone}, scope : SUBSET TxScopes, act : Nat]
IssRow == [sub : {"user"} \cup TxClients, client : TxClients \cup TxResources,
           res : TxResources, consentClient : TxClients \cup TxResources \cup {TxNone},
           lineage : SUBSET TxJtis, revoked : BOOLEAN]
ASSUME TxRowsAssumption == TxNone \notin Claims \cup IssRow
TxInput == [op : {"none", "exchange", "credentials", "consent", "introspect"},
            caller : TxClients \cup {TxNone}, subject : TxJtis \cup {TxNone},
            target : TxResources \cup {TxNone}, scope : SUBSET TxScopes,
            actor : BOOLEAN, gated : BOOLEAN, fronted : BOOLEAN]
TxLabels == {"idle", "gate", "mint", "recheck", "reconsent", "undo",
             "selfSave", "ccIssue", "ccSave", "cascade", "cascadeFailed",
             "inIssuance", "inMachine", "inDenylist", "inClient", "inUser", "done"}
NoInput == [op |-> "none", caller |-> TxNone, subject |-> TxNone,
            target |-> TxNone, scope |-> {}, actor |-> FALSE, gated |-> FALSE,
            fronted |-> FALSE]

ExchangeTypeOK ==
    /\ txAt \in [TxRequests -> TxLabels]
    /\ txIn \in [TxRequests -> TxInput]
    /\ txTok \in [TxJtis -> Claims \cup {TxNone}]
    /\ txIss \in [TxJtis -> IssRow \cup {TxNone}]
    /\ txMach \in [TxJtis -> {"none", "live", "revoked"}]
    /\ txDenied \in SUBSET TxJtis
    /\ txGrant \in [TxConsents -> SUBSET TxScopes]
    /\ txLink \in Links
    /\ txOff \in SUBSET TxClients
    /\ txUser \in {"active", "lagging", "off"}
    /\ txMoves \in 0 .. MaxMoves
    /\ txHeld \in SUBSET TxJtis
    /\ txRests \in [TxJtis -> SUBSET TxConsents]

\* The code flow has issued the tokens of TxRoots, under consent.
ExchangeInit ==
    /\ txAt = [p \in TxRequests |-> "idle"]
    /\ txIn = [p \in TxRequests |-> NoInput]
    /\ txMach = [j \in TxJtis |-> "none"]
    /\ txDenied = {}
    /\ txGrant \in Grants
    /\ txLink \in Links
    /\ txOff = {}
    /\ txUser = "active"
    /\ txMoves = MaxMoves
    /\ txHeld = TxRoots
    /\ \E t \in RootTokens :
          /\ txGrant[<<t.client, t.aud>>] # {}
          /\ txTok = [j \in TxJtis |-> IF j \in TxRoots
                         THEN [sub |-> "user", client |-> t.client, aud |-> t.aud,
                               scope |-> t.scope, act |-> 0]
                         ELSE TxNone]
          /\ txIss = [j \in TxJtis |-> IF j \in TxRoots
                         THEN [sub |-> "user", client |-> t.client, res |-> t.aud,
                               consentClient |-> TxNone, lineage |-> {j},
                               revoked |-> FALSE]
                         ELSE TxNone]
          /\ txRests = [j \in TxJtis |-> IF j \in TxRoots THEN {<<t.client, t.aud>>} ELSE {}]

TxGoto(p, label) == txAt' = [txAt EXCEPT ![p] = label]

TxMayAsk(p, op) == txAt[p] = "idle" /\ op \in TxOps[p]

TxArrive(p, i, label) ==
    /\ TxMayAsk(p, i.op)
    /\ txIn' = [txIn EXCEPT ![p] = i]
    /\ TxGoto(p, label)
    /\ UNCHANGED <<txTok, txIss, txMach, txDenied, txGrant, txAdminVars, txHeld, txRests>>

-----------------------------------------------------------------------------
(* internal/adapters/postgres/issuance_store.go, machine_token.go *)

IssRevoked(j) == txIss[j] # TxNone /\ txIss[j].revoked

\* RevokeFamily: the rows minted under a consent, and all that descend from
\* them by parent_jti.  Rows are never removed while the server runs, so the
\* lineage a row is inserted with is what the recursive query finds.
FamilyOfConsent(c, r) ==
    LET Root(j) == /\ txIss[j] # TxNone
                   /\ txIss[j].sub = "user" /\ txIss[j].res = r
                   /\ \/ txIss[j].consentClient = c
                      \/ txIss[j].consentClient = TxNone /\ txIss[j].client = c
    IN {j \in TxJtis : txIss[j] # TxNone /\ \E a \in txIss[j].lineage : Root(a)}

RevokeIssuances(J) ==
    txIss' = [j \in TxJtis |-> IF j \in J /\ txIss[j] # TxNone
                               THEN [txIss[j] EXCEPT !.revoked = TRUE] ELSE txIss[j]]

SaveMachineToken(j) == txMach' = [txMach EXCEPT ![j] = "live"]

RevokeMachineToken(j) ==
    txMach' = [txMach EXCEPT ![j] = IF @ = "none" THEN "none" ELSE "revoked"]

-----------------------------------------------------------------------------
(* The pure parts of token_exchange.go *)

\* The sources of a scope map that grant target scope t.
SourcesOf(m, t) == {s \in TxScopes : t \in m[s]}

FirstSource(m, t) == CHOOSE s \in SourcesOf(m, t) : \A o \in SourcesOf(m, t) : s <= o

Mapped(m) == {t \in TxScopes : SourcesOf(m, t) # {}}

\* requiredSourceScopesForTargets: the lexicographically first source of each.
RequiredSources(m, targets) == {FirstSource(m, t) : t \in targets}

\* frontedMintTargetsFor: what an omitted scope stands for.
FrontedMintTargetsFor(m, subject) == {t \in Mapped(m) : FirstSource(m, t) \in subject}

\* The fronted gate: every target is mapped and its first source is held.
FrontedCovered(m, targets, subject) ==
    targets \subseteq Mapped(m) /\ RequiredSources(m, targets) \subseteq subject

\* directMintDefaultScopes with a grant: declared, consented, and within the
\* subject's scopes unless it has none.
GrantDefaultScopes(r, grant, subject) ==
    {s \in grant \cap Catalog[r] : subject = {} \/ s \in subject}

\* directMintDefaultScopes without one (self-exchange).
SelfDefaultScopes(r, subject) == Catalog[r] \cap subject

\* enforceSubjectScopeCeiling.
WithinSubject(scope, subject) == subject = {} \/ scope \subseteq subject

ValidateAgainstCatalog(r, scope) == scope \subseteq Catalog[r]

OperatorAllows(r, c) == Allowed[r] = {} \/ c \in Allowed[r]

FrontedCallerAuthorized(source, r, c) == c \in Allowed[r] \cup Runtime[source]

CrossClientAllowed(r, c, agent) == c = agent \/ c \in Allowed[r] \cup Runtime[r]

-----------------------------------------------------------------------------
(* Exchange *)

Subject(i) == txTok[i.subject]

SourceOf(i) == Subject(i).aud

\* resolveSourceForFronting and the link from there to the target.
LinkOf(i) == IF /\ SourceOf(i) \notin {TxNone, i.target}
                /\ i.target # TxNone
             THEN txLink[<<SourceOf(i), i.target>>] ELSE TxNone

\* authenticateClient.
ActiveCaller(c) == c \notin txOff

\* The user store answers from a cache (storage.WithUserCache): a disabled user may
\* be read as active until the entry has lapsed.
UserReadsActive == txUser # "off"

\* checkRevocation: the issuance row, then the machine token of a client's own
\* token or the denylist of a user's.  A failed look-up of the row refuses, a failed
\* look-up of either of the others (blind) is passed over.
SubjectStands(j, blind) ==
    /\ ~IssRevoked(j)
    /\ \/ blind
       \/ IF txTok[j].sub = txTok[j].client THEN txMach[j] # "revoked" ELSE j \notin txDenied

\* checkLiveness: an identity that does not resolve is not refused.
SubjectLive(j) ==
    /\ {txTok[j].client, txTok[j].sub} \cap txOff = {}
    /\ txTok[j].sub = "user" => UserReadsActive

\* The act chain grows by the source of a link, or by an actor token.
NewDepth(i) ==
    IF LinkOf(i) # TxNone THEN 1 + (IF Subject(i).act = 0 THEN 1 ELSE Subject(i).act)
    ELSE IF i.actor THEN 1 + Subject(i).act ELSE Subject(i).act

\* checkPolicy.
SelfExchange(i) == AllowSelf /\ i.caller = Subject(i).client

\* What Exchange decides before it asks for consent: the request with its
\* effective scopes, or nothing when it is refused.  Without a resource the
\* caller may only narrow a token of its own.
DecideSelf(i) ==
    LET scope == IF i.scope = {} THEN Subject(i).scope ELSE i.scope
    IN IF SelfExchange(i) /\ scope # {} /\ scope \subseteq Subject(i).scope
       THEN {[i EXCEPT !.scope = scope]} ELSE {}

\* dispatchMint over a fronting link: the link decides, not consent.
DecideFronted(i) ==
    LET t == Subject(i)
        scope == IF i.scope = {} THEN FrontedMintTargetsFor(LinkOf(i), t.scope) ELSE i.scope
    IN IF /\ FrontedCallerAuthorized(t.aud, i.target, i.caller)
          /\ scope # {} /\ FrontedCovered(LinkOf(i), scope, t.scope)
       THEN {[i EXCEPT !.scope = scope, !.fronted = TRUE, !.actor = FALSE]} ELSE {}

\* dispatchMint for a direct target: a self-exchange needs no consent.
DecideDirect(i) ==
    LET scope == IF i.scope = {} THEN SelfDefaultScopes(i.target, Subject(i).scope) ELSE i.scope
    IN IF ~WithinSubject(i.scope, Subject(i).scope) THEN {}
       ELSE IF SelfExchange(i)
       THEN IF scope = {} THEN {} ELSE {[i EXCEPT !.scope = scope]}
       ELSE IF CrossClientAllowed(i.target, i.caller, Subject(i).client)
       THEN {[i EXCEPT !.gated = TRUE]} ELSE {}

\* handleViaRegistry: the catalog and the operator's list come first.
Decide(i) ==
    IF i.target = TxNone THEN DecideSelf(i)
    ELSE IF ~(ValidateAgainstCatalog(i.target, i.scope) /\ OperatorAllows(i.target, i.caller)) THEN {}
    ELSE IF LinkOf(i) # TxNone THEN DecideFronted(i) ELSE DecideDirect(i)

\* Exchange up to its first write or consent lookup.  A request that is refused
\* leaves no trace.
HandleTokenExchange(p) ==
    /\ TxMayAsk(p, "exchange")
    /\ \E c \in TxClients, j \in txHeld, r \in TxResources \cup {TxNone},
          scope \in Asked, actor \in Actors, blind \in BOOLEAN :
           LET i == [NoInput EXCEPT !.op = "exchange", !.caller = c, !.subject = j,
                                    !.target = r, !.scope = scope, !.actor = actor]
           IN /\ ActiveCaller(c) /\ SubjectStands(j, blind) /\ SubjectLive(j)
              /\ NewDepth(i) <= MaxChainDepth
              /\ \E d \in Decide(i) :
                    TxArrive(p, d, IF d.target = TxNone THEN "selfSave"
                                   ELSE IF d.gated THEN "gate" ELSE "mint")

\* The consents of the user; a machine subject has none.
ConsentFor(p) ==
    LET t == Subject(txIn[p]) IN
    IF t.sub = "user" /\ t.client \in TxClients
    THEN txGrant[<<t.client, txIn[p].target>>] ELSE {}

\* The consent gate: a grant that covers the scopes, or gives the default.
ConsentGate(p) ==
    /\ txAt[p] = "gate"
    /\ LET i == txIn[p]
           g == ConsentFor(p)
           scope == IF i.scope # {} THEN i.scope
                    ELSE GrantDefaultScopes(i.target, g, Subject(txIn[p]).scope)
       IN IF g # {} /\ scope # {} /\ scope \subseteq g
          THEN txIn' = [txIn EXCEPT ![p].scope = scope] /\ TxGoto(p, "mint")
          ELSE TxGoto(p, "done") /\ UNCHANGED txIn
    /\ UNCHANGED <<txTok, txIss, txMach, txDenied, txGrant, txAdminVars, txHeld, txRests>>

\* The ancestors a new row has through parent_jti.
Lineage(j) == IF txIss[j] = TxNone THEN {} ELSE txIss[j].lineage

\* Mutant: the row does not name its parent.
MintRow_NoParent(p) ==
    [sub |-> Subject(txIn[p]).sub,
     client |-> IF txIn[p].fronted THEN SourceOf(txIn[p]) ELSE txIn[p].caller,
     res |-> txIn[p].target,
     consentClient |-> IF txIn[p].fronted THEN TxNone ELSE Subject(txIn[p]).client,
     lineage |-> {p}, revoked |-> FALSE]

\* The issuance of dispatchMint: a fronted token carries its source as client
\* and names no consent; parent_jti ties it to the subject token.
MintRow(p) ==
    [sub |-> Subject(txIn[p]).sub,
     client |-> IF txIn[p].fronted THEN SourceOf(txIn[p]) ELSE txIn[p].caller,
     res |-> txIn[p].target,
     consentClient |-> IF txIn[p].fronted THEN TxNone ELSE Subject(txIn[p]).client,
     lineage |-> {p} \cup Lineage(txIn[p].subject), revoked |-> FALSE]

MintIssue(p) ==
    /\ txAt[p] = "mint"
    /\ txIss' = [txIss EXCEPT ![p] = MintRow(p)]
    /\ txTok' = [txTok EXCEPT ![p] =
          [sub |-> Subject(txIn[p]).sub, client |-> MintRow(p).client, aud |-> txIn[p].target,
           scope |-> txIn[p].scope, act |-> NewDepth(txIn[p])]]
    /\ txRests' = [txRests EXCEPT ![p] = txRests[txIn[p].subject] \cup
          (IF txIn[p].gated THEN {<<Subject(txIn[p]).client, txIn[p].target>>} ELSE {})]
    /\ TxGoto(p, "recheck")
    /\ UNCHANGED <<txIn, txMach, txDenied, txGrant, txAdminVars, txHeld>>

\* refuseIfRevokedSinceCheck reads the subject's row again, which may fail ...
RefuseIfRevoked(p) ==
    /\ txAt[p] = "recheck"
    /\ \/ /\ IssRevoked(txIn[p].subject) /\ TxGoto(p, "undo") /\ UNCHANGED txHeld
       \/ /\ ~IssRevoked(txIn[p].subject) /\ txIn[p].gated
          /\ TxGoto(p, "reconsent") /\ UNCHANGED txHeld
       \/ /\ ~IssRevoked(txIn[p].subject) /\ ~txIn[p].gated
          /\ txHeld' = txHeld \cup {p} /\ TxGoto(p, "done")
    /\ UNCHANGED <<txIn, txTok, txIss, txMach, txDenied, txGrant, txAdminVars, txRests>>

\* ... and, when consent was asked for, the grant.
RefuseIfConsentGone(p) ==
    /\ txAt[p] = "reconsent"
    /\ \/ ConsentFor(p) = {} /\ TxGoto(p, "undo") /\ UNCHANGED txHeld
       \/ ConsentFor(p) # {} /\ txHeld' = txHeld \cup {p} /\ TxGoto(p, "done")
    /\ UNCHANGED <<txIn, txTok, txIss, txMach, txDenied, txGrant, txAdminVars, txRests>>

\* revokeOwnIssuance: a failure is logged, the token is not returned either way.
RevokeOwnIssuance(p) ==
    /\ txAt[p] = "undo"
    /\ RevokeIssuances({p}) \/ UNCHANGED txIss
    /\ TxGoto(p, "done")
    /\ UNCHANGED <<txIn, txTok, txMach, txDenied, txGrant, txAdminVars, txHeld, txRests>>

\* Without a resource the token is saved as a machine token: no issuance row,
\* no parent, no second look at the subject.
SaveExchanged(p) ==
    /\ txAt[p] = "selfSave"
    /\ SaveMachineToken(p)
    /\ txTok' = [txTok EXCEPT ![p] =
          [sub |-> Subject(txIn[p]).sub, client |-> txIn[p].caller, aud |-> Subject(txIn[p]).aud,
           scope |-> txIn[p].scope, act |-> NewDepth(txIn[p])]]
    /\ txHeld' = txHeld \cup {p}
    /\ TxGoto(p, "done")
    /\ UNCHANGED <<txIn, txIss, txDenied, txGrant, txAdminVars, txRests>>

-----------------------------------------------------------------------------
(* Client credentials; the registered scopes of a client are TxScopes. *)

\* clientCredentialsScope and the client's authentication.
HandleClientCredentials(p) ==
    /\ TxMayAsk(p, "credentials")
    /\ \E c \in Daemons \ txOff, r \in TxResources \cup {TxNone}, scope \in Asked :
         LET catalog == IF r = TxNone THEN TxScopes ELSE Catalog[r]
             asked == IF scope = {} THEN catalog ELSE scope
         IN /\ asked \subseteq catalog
            /\ r = TxNone \/ asked # {}
            /\ TxArrive(p, [NoInput EXCEPT !.op = "credentials", !.caller = c,
                                           !.target = r, !.scope = asked], "ccIssue")

\* The issuance row of a registered resource comes before the machine token.
CredentialsIssue(p) ==
    /\ txAt[p] = "ccIssue"
    /\ LET i == txIn[p] IN
       /\ txTok' = [txTok EXCEPT ![p] = [sub |-> i.caller, client |-> i.caller,
                                         aud |-> i.target, scope |-> i.scope, act |-> 0]]
       /\ txIss' = IF i.target = TxNone THEN txIss
                   ELSE [txIss EXCEPT ![p] =
                      [sub |-> i.caller, client |-> i.caller, res |-> i.target,
                       consentClient |-> TxNone, lineage |-> {p}, revoked |-> FALSE]]
    /\ TxGoto(p, "ccSave")
    /\ UNCHANGED <<txIn, txMach, txDenied, txGrant, txAdminVars, txHeld, txRests>>

CredentialsSave(p) ==
    /\ txAt[p] = "ccSave"
    /\ SaveMachineToken(p)
    /\ txHeld' = txHeld \cup {p}
    /\ TxGoto(p, "done")
    /\ UNCHANGED <<txIn, txTok, txIss, txDenied, txGrant, txAdminVars, txRests>>

-----------------------------------------------------------------------------
(* Revocations and administration *)

\* RevokeConsent: the grant first ...
ExchangeRevokeConsent(p) ==
    \E c \in TxClients, r \in TxResources :
        /\ "consent" \in TxOps[p]
        /\ txAt[p] = "idle"
        /\ txGrant[<<c, r>>] # {}
        /\ txGrant' = [txGrant EXCEPT ![<<c, r>>] = {}]
        /\ txIn' = [txIn EXCEPT ![p] =
              [NoInput EXCEPT !.op = "consent", !.caller = c, !.target = r]]
        /\ TxGoto(p, "cascade")
        /\ UNCHANGED <<txTok, txIss, txMach, txDenied, txAdminVars, txHeld, txRests>>

\* ... then the issuances minted under it and what was exchanged from them.  A
\* failure is logged and answered as a success.
ExchangeCascade(p) ==
    /\ txAt[p] = "cascade"
    /\ \/ /\ RevokeIssuances(FamilyOfConsent(txIn[p].caller, txIn[p].target))
          /\ TxGoto(p, "done")
       \/ UNCHANGED txIss /\ TxGoto(p, "cascadeFailed")
    /\ UNCHANGED <<txIn, txTok, txMach, txDenied, txGrant, txAdminVars, txHeld, txRests>>

Move == txMoves > 0 /\ txMoves' = txMoves - 1

\* The user consents again (AuthorizeFlow has the page).
Regrant(k) ==
    /\ Move
    /\ txGrant[k] = {}
    /\ \E scope \in (Asked \cap SUBSET Catalog[k[2]]) \ {{}} : txGrant' = [txGrant EXCEPT ![k] = scope]
    /\ UNCHANGED <<txReqVars, txTok, txIss, txMach, txDenied, txLink, txOff, txUser, txHeld, txRests>>

\* IssuanceAdminService.Revoke: one row, not what was exchanged from it.
AdminRevokeIssuance(j) ==
    /\ Move
    /\ txIss[j] # TxNone /\ ~txIss[j].revoked
    /\ RevokeIssuances({j})
    /\ UNCHANGED <<txReqVars, txTok, txMach, txDenied, txGrant, txLink, txOff, txUser, txHeld, txRests>>

\* tryRevokeMachineToken: POST /oauth/revoke with an access token of the caller.
TryRevokeMachineToken(j) ==
    /\ Move
    /\ j \in txHeld /\ txMach[j] = "live"
    /\ txTok[j].client \in TxClients \ txOff
    /\ RevokeMachineToken(j)
    /\ UNCHANGED <<txReqVars, txTok, txIss, txDenied, txGrant, txLink, txOff, txUser, txHeld, txRests>>

\* The family of a code-flow token is revoked and its jti denied.
DenyRoot(j) ==
    /\ Move
    /\ j \in TxRoots \ txDenied
    /\ txDenied' = txDenied \cup {j}
    /\ UNCHANGED <<txReqVars, txTok, txIss, txMach, txGrant, txLink, txOff, txUser, txHeld, txRests>>

SuspendOrDisable ==
    /\ Move
    /\ \/ \E c \in TxClients \ txOff : txOff' = txOff \cup {c} /\ UNCHANGED txUser
       \/ txUser = "active" /\ txUser' = "lagging" /\ UNCHANGED txOff
    /\ UNCHANGED <<txReqVars, txTok, txIss, txMach, txDenied, txGrant, txLink, txHeld, txRests>>

\* The last entry of the user cache that was filled before the user was disabled
\* has lapsed.
UserCacheLapses ==
    /\ txUser = "lagging" /\ txUser' = "off"
    /\ UNCHANGED <<txReqVars, txTok, txIss, txMach, txDenied, txGrant, txLink, txOff, txMoves,
                   txHeld, txRests>>

ExchangeStep(p) ==
    \/ HandleTokenExchange(p) \/ ConsentGate(p) \/ MintIssue(p)
    \/ RefuseIfRevoked(p) \/ RefuseIfConsentGone(p) \/ RevokeOwnIssuance(p)
    \/ SaveExchanged(p)
    \/ HandleClientCredentials(p) \/ CredentialsIssue(p) \/ CredentialsSave(p)
    \/ ExchangeRevokeConsent(p) \/ ExchangeCascade(p)

ExchangeAdmin ==
    \/ \E k \in TxConsents : Regrant(k)
    \/ \E j \in TxJtis : AdminRevokeIssuance(j) \/ TryRevokeMachineToken(j) \/ DenyRoot(j)
    \/ SuspendOrDisable \/ UserCacheLapses

ExchangeNext == ExchangeAdmin \/ \E p \in TxRequests : ExchangeStep(p)

ExchangeSpec == ExchangeInit /\ [][ExchangeNext]_txVars

-----------------------------------------------------------------------------
(* Properties *)

\* A cascade of consent k has not been carried out: it is yet to run, or it failed.
Cascading(k) ==
    \E p \in TxRequests :
        /\ txAt[p] \in {"cascade", "cascadeFailed"}
        /\ k = <<txIn[p].caller, txIn[p].target>>

\* token_exchange.go:602, grant_admin.go: while a consent is revoked and its
\* cascades have been carried out, every token with an issuance row that rests on
\* it, through any number of exchanges and whatever was in flight, is revoked.
\* RevokeConsent answers a failed cascade as a success (grant_admin.go:122): its
\* tokens live on, and nothing is said of them here.
RevokedConsentReachesExchanges ==
    \A j \in txHeld, k \in TxConsents :
        txIss[j] # TxNone /\ k \in txRests[j] /\ txGrant[k] = {} /\ ~Cascading(k) =>
            txIss[j].revoked

\* token_exchange.go:1014, 2570: no exchange widens.  Each scope of an exchanged
\* token is one its subject token has, or one that the fronting link derives from
\* a scope its subject token has.  A subject without scopes leaves it to consent
\* or, in a self-exchange, to the target's catalog.
ExchangeNeverWidens ==
    \A p \in TxRequests : txIn[p].op = "exchange" /\ txTok[p] # TxNone =>
        LET t == txTok[txIn[p].subject] IN
        \A s \in txTok[p].scope :
            \/ s \in t.scope
            \/ /\ t.scope = {} /\ (txIn[p].gated \/ SelfExchange(txIn[p]))
               /\ txIn[p].target # TxNone /\ s \in Catalog[txIn[p].target]
            \/ txIn[p].fronted /\ \E o \in t.scope : s \in txLink[<<t.aud, txIn[p].target>>][o]

\* token_exchange.go:2518: what an omitted scope stands for on a fronted Mint is
\* what an explicit request for it would be granted, for every scope map.
DefaultsAreRequestable ==
    \A l \in TxResources \X TxResources, subject \in SUBSET TxScopes :
        txLink[l] # TxNone =>
            FrontedCovered(txLink[l], FrontedMintTargetsFor(txLink[l], subject), subject)
=============================================================================
