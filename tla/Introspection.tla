---------------------------- MODULE Introspection ----------------------------
(***************************************************************************)
(* POST /oauth/introspect (internal/services/introspection.go) beside the  *)
(* exchanges, revocations and status changes of TokenExchange: one action  *)
(* per store the service reads.  Any of the reads may fail.                *)
(***************************************************************************)
EXTENDS TokenExchange

VARIABLES
    inAnswer,  \* the answer of an introspection
    inMachine, \* isMachineToken, as far as the service knows
    inDead,    \* history: was the token unusable when the request came in?
    inBlind    \* history: did the machine-token lookup fail?

inVars == <<inAnswer, inMachine, inDead, inBlind>>
introspectVars == <<txVars, inVars>>

IntrospectTypeOK ==
    /\ ExchangeTypeOK
    /\ inAnswer \in [TxRequests -> {"none", "active", "inactive"}]
    /\ inMachine \in [TxRequests -> BOOLEAN]
    /\ inDead \in [TxRequests -> BOOLEAN]
    /\ inBlind \in [TxRequests -> BOOLEAN]

IntrospectInit ==
    /\ ExchangeInit
    /\ inAnswer = [p \in TxRequests |-> "none"]
    /\ inMachine = [p \in TxRequests |-> FALSE]
    /\ inDead = [p \in TxRequests |-> FALSE]
    /\ inBlind = [p \in TxRequests |-> FALSE]

\* What the tables say of a token: revoked in the table that governs it, or its
\* client suspended, or its user disabled for longer than the user cache keeps it.
Dead(j) ==
    \/ IssRevoked(j)
    \/ txMach[j] = "revoked"
    \/ txMach[j] = "none" /\ j \in txDenied
    \/ txTok[j].client \in txOff
    \/ txTok[j].sub = "user" /\ txUser = "off"

Token(p) == txTok[txIn[p].subject]

InUnchanged == UNCHANGED <<txIn, txTok, txIss, txMach, txDenied, txGrant, txAdminVars,
                           txHeld, txRests, inDead>>

Answer(p, a) == inAnswer' = [inAnswer EXCEPT ![p] = a] /\ TxGoto(p, "done")

\* denyInactive, inactiveServerFault.
DenyInactive(p) == Answer(p, "inactive") /\ UNCHANGED <<inMachine, inBlind>> /\ InUnchanged

PassTo(p, label) == TxGoto(p, label) /\ UNCHANGED <<inAnswer, inMachine, inBlind>> /\ InUnchanged

\* authenticateCaller.
AuthenticateCaller(c) == c \notin txOff

\* resourceAuthorizes.
ResourceAuthorizes(r, c) == c \in Runtime[r]

\* callerEntitlement: the client of the token, or one that runs its audience;
\* a token without a resource is for its own client only.
CallerEntitlement(c, j) ==
    \/ c = txTok[j].client
    \/ txTok[j].aud # TxNone /\ ResourceAuthorizes(txTok[j].aud, c)

\* issuedThroughFrontingSource: the client claim is the slug of the source, and
\* the act chain names it.
IssuedThroughFrontingSource(j) == txTok[j].client \in TxResources /\ txTok[j].act > 0

\* A caller that is refused learns nothing; the request ends there.
IntrospectToken(p) ==
    /\ TxMayAsk(p, "introspect")
    /\ \E c \in TxClients, j \in txHeld :
           /\ AuthenticateCaller(c) /\ CallerEntitlement(c, j)
           /\ TxArrive(p, [NoInput EXCEPT !.op = "introspect", !.caller = c, !.subject = j],
                       "inIssuance")
           /\ inDead' = [inDead EXCEPT ![p] = Dead(j)]
           /\ UNCHANGED <<inAnswer, inMachine, inBlind>>

InIssuance(p) ==
    /\ txAt[p] = "inIssuance"
    /\ \/ DenyInactive(p)  \* revoked, or the lookup failed
       \/ ~IssRevoked(txIn[p].subject) /\ PassTo(p, "inMachine")

\* A row makes it a machine token; a failed lookup does not end the request.
InMachine(p) ==
    /\ txAt[p] = "inMachine"
    /\ LET row == txMach[txIn[p].subject] IN
       \/ row = "revoked" /\ DenyInactive(p)
       \/ /\ row = "live"
          /\ inMachine' = [inMachine EXCEPT ![p] = TRUE]
          /\ TxGoto(p, "inClient") /\ UNCHANGED <<inAnswer, inBlind>> /\ InUnchanged
       \/ row = "none" /\ PassTo(p, "inDenylist")
       \/ /\ inBlind' = [inBlind EXCEPT ![p] = TRUE]
          /\ TxGoto(p, "inDenylist") /\ UNCHANGED <<inAnswer, inMachine>> /\ InUnchanged

InDenylist(p) ==
    /\ txAt[p] = "inDenylist"
    /\ \/ DenyInactive(p)
       \/ txIn[p].subject \notin txDenied /\ PassTo(p, "inClient")

\* An issuing client that does not resolve must be a fronting source.
InClient(p) ==
    /\ txAt[p] = "inClient"
    /\ \/ DenyInactive(p)
       \/ /\ IF Token(p).client \in TxClients THEN Token(p).client \notin txOff
             ELSE IssuedThroughFrontingSource(txIn[p].subject)
          /\ PassTo(p, "inUser")

\* The subject of a token without a machine row must be an active user; that of
\* a machine token only must not be a disabled one.  The users come from the cache.
SubjectActive(p) ==
    IF inMachine[p] THEN Token(p).sub = "user" => UserReadsActive
    ELSE Token(p).sub = "user" /\ UserReadsActive

InUser(p) ==
    /\ txAt[p] = "inUser"
    /\ \/ DenyInactive(p)
       \/ /\ SubjectActive(p)
          /\ Answer(p, "active") /\ UNCHANGED <<inMachine, inBlind>> /\ InUnchanged

IntrospectStep(p) ==
    \/ IntrospectToken(p) \/ InIssuance(p) \/ InMachine(p) \/ InDenylist(p)
    \/ InClient(p) \/ InUser(p)

IntrospectNext ==
    \/ ExchangeNext /\ UNCHANGED inVars
    \/ \E p \in TxRequests : IntrospectStep(p)

IntrospectSpec == IntrospectInit /\ [][IntrospectNext]_introspectVars

-----------------------------------------------------------------------------
(* Properties *)

\* introspection.go:122: a token that was revoked, or whose client was suspended,
\* before the request came in, or whose user was disabled a cache lifetime before it,
\* is not answered active, whichever kind of token it is and whatever fails; but a
\* failed machine-token lookup (line 195) turns a user's exchanged token into one
\* without a row.
DeadTokenIsInactive ==
    \A p \in TxRequests : inAnswer[p] = "active" /\ inDead[p] => inBlind[p]

\* Dead by what every exchange must have read: a revoked issuance, a suspended
\* client or a disabled user.
SeenDead(j) == IssRevoked(j) \/ txTok[j].client \in txOff \/ (txTok[j].sub = "user" /\ txUser = "off")

\* token_exchange.go:237: what introspection would call inactive does not pass the
\* checks on the subject of an exchange.  The exceptions are a user's token saved as
\* a machine token, whose row Exchange does not look up, and the machine tokens and
\* the denylist while they cannot be read, which Exchange passes over (line 758).
InactiveSeedsNothing ==
    \A j \in txHeld, blind \in BOOLEAN :
        SeenDead(j) \/ (~blind /\ Dead(j) /\ (txTok[j].sub = "user" => txMach[j] = "none")) =>
            ~(SubjectStands(j, blind) /\ SubjectLive(j))

\* Exchanged tokens as a whole: they are no wider and live no longer than what they
\* came from, and introspection says so (TokenExchangeService, IntrospectionService).
ExchangeSound ==
    /\ IntrospectTypeOK
    /\ RevokedConsentReachesExchanges
    /\ ExchangeNeverWidens
    /\ DefaultsAreRequestable
    /\ DeadTokenIsInactive
    /\ InactiveSeedsNothing
=============================================================================
