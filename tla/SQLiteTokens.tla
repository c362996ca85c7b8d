---------------------------- MODULE SQLiteTokens ----------------------------
(***************************************************************************)
(* The SQLite stores whose rows expire.  SQLite has no timestamp type: a   *)
(* time is stored as RFC 3339 text with the trailing zeros of its fraction *)
(* cut off, and every comparison with "now" is a comparison of texts.      *)
(*                                                                         *)
(* The clock counts quarters of a second; a fraction is written with two   *)
(* binary digits where the code has nine decimal ones, so that fractions   *)
(* of every length, and one that is a prefix of another, occur.  Each      *)
(* store method is one statement or one transaction (SQLiteDB) and hence   *)
(* one step.  A behaviour exercises one group of stores.                   *)
(***************************************************************************)
EXTENDS Integers, Sequences, FiniteSets, SequencesExt, FiniteSetsExt, Relation

CONSTANTS TkIds,       \* tokens, sessions, states: what the rows are about
          TkChain,     \* the tokens of an exchange chain, TkIds among them
          TkMaxTime,   \* the clock stops here, in quarters of a second
          TkChainTime, \* and here for the exchange chains
          TkLife,      \* lifetime of a row, in quarters
          TkFallback,  \* RevokeJTI's lifetime for a jti it has no row of
          TkSkew,      \* seconds of clock tolerance of the verifiers
          TkBuffer,    \* seconds an assertion's row outlives its exp
          TkNull

\* RevokeJTI's hour covers the default lifetimes; a longer default_token_expiry would
\* have it forget a jti without a row too early (no service calls RevokeJTI yet).
ASSUME TkLifeAssumption == TkLife \in Nat \ {0} /\ TkFallback \in Nat /\ TkFallback >= TkLife
ASSUME TkClockAssumption == TkMaxTime \in Nat
ASSUME TkChainAssumption == TkIds \subseteq TkChain /\ TkNull \notin TkChain \cup Int
ASSUME TkBufferAssumption == TkSkew \in Nat /\ TkBuffer \in Nat /\ TkSkew < TkBuffer

VARIABLES tkGroup,  \* the group of stores this behaviour is about
          tkNow,    \* time.Now()
          tk,       \* the tables, a set of rows each
          tkPast    \* what happened to each token (history)

tkVars == <<tkGroup, tkNow, tk, tkPast>>

TkTables == {"sessions", "families", "refresh", "tracked", "denied", "machine",
             "issuances", "spent", "nonces", "pending", "audit"}

-----------------------------------------------------------------------------
(* Times as text *)

Second(t) == t \div 4

\* Characters in the order of their codes: '.' below the digits, 'Z' above.
Dot == -1
Zulu == 9

\* time.RFC3339Nano: no fraction at all on a whole second, and no trailing
\* zeros otherwise.
FormatTime(t) ==
    <<Second(t)>> \o <<<<Zulu>>, <<Dot, 0, 1, Zulu>>, <<Dot, 1, Zulu>>, <<Dot, 1, 1, Zulu>>>>[(t % 4) + 1]

ScanTime(x) == CHOOSE t \in 0 .. TkMaxTime + TkFallback + 4 * TkBuffer + 4 : FormatTime(t) = x

TextLess(x, y) ==
    \E i \in 1 .. Min({Len(x), Len(y)}) :
        x[i] < y[i] /\ \A j \in 1 .. i - 1 : x[j] = y[j]

\* expires_at < ? and expires_at > ? on a text column.
TextBefore(t, u) == TextLess(FormatTime(t), FormatTime(u))

-----------------------------------------------------------------------------
RowsOf(t, P(_)) == {r \in tk[t] : P(r)}
Row(t, i) == CHOOSE r \in tk[t] : r.id = i
Present(t, i) == \E r \in tk[t] : r.id = i
InsertInto(t, r) == /\ ~Present(t, r.id)
                    /\ tk' = [tk EXCEPT ![t] = @ \cup {r}]
Rewrite(t, P(_), F(_)) == tk' = [tk EXCEPT ![t] = {IF P(r) THEN F(r) ELSE r : r \in @}]
DeleteFrom(t, P(_)) == tk' = [tk EXCEPT ![t] = {r \in @ : ~P(r)}]

\* DELETE ... WHERE expires_at < now.
Stale(r) == TextBefore(r.exp, tkNow)

-----------------------------------------------------------------------------
(* auth_sessions *)

SessionCreate(i) ==
    InsertInto("sessions", [id |-> i, exp |-> tkNow + TkLife, consumed |-> FALSE, code |-> FALSE])

SessionByID(i) == RowsOf("sessions", LAMBDA r : r.id = i)

\* WHERE expires_at > ? AND consumed_at IS NULL.
UpdateCodeHashRow(r) == TextBefore(tkNow, r.exp) /\ ~r.consumed

SessionUpdateCodeHash(i) ==
    /\ \E r \in SessionByID(i) : UpdateCodeHashRow(r)
    /\ Rewrite("sessions", LAMBDA r : r.id = i, LAMBDA r : [r EXCEPT !.code = TRUE])

\* The handler reads the consumed row and refuses it when it has expired.
SessionConsume(i) ==
    /\ \E r \in SessionByID(i) : r.code /\ ~r.consumed
    /\ Rewrite("sessions", LAMBDA r : r.id = i, LAMBDA r : [r EXCEPT !.consumed = TRUE])

SessionDelete(i) == Present("sessions", i) /\ DeleteFrom("sessions", LAMBDA r : r.id = i)

SessionDeleteExpired == DeleteFrom("sessions", Stale)

-----------------------------------------------------------------------------
(* token_families and refresh_tokens *)

FamilyCreate(i) ==
    InsertInto("families", [id |-> i, status |-> "active", created |-> tkNow, revoked |-> TkNull])

RefreshCreate(i) ==
    /\ Present("families", i)
    /\ InsertInto("refresh", [id |-> i, fam |-> i, exp |-> tkNow + TkLife, consumed |-> FALSE])

RefreshByHash(i) == RowsOf("refresh", LAMBDA r : r.id = i)

RefreshConsume(i) ==
    /\ \E r \in RefreshByHash(i) : ~r.consumed
    /\ Rewrite("refresh", LAMBDA r : r.id = i, LAMBDA r : [r EXCEPT !.consumed = TRUE])

SpentByRevocation(r) == [r EXCEPT !.consumed = TRUE]

\* Both statements of the transaction.
FamilyRevoke(i) ==
    /\ Present("families", i)
    /\ tk' = [tk EXCEPT
         !["families"] = {IF r.id = i /\ r.status = "active"
                          THEN [r EXCEPT !.status = "revoked", !.revoked = tkNow] ELSE r : r \in @},
         !["refresh"] = {IF r.fam = i THEN SpentByRevocation(r) ELSE r : r \in @}]

RevokeActive(r) == [r EXCEPT !.status = "revoked", !.revoked = tkNow]

\* One client and one user: both calls reach every active family.
FamiliesRevokeByClient ==
    /\ \E r \in tk.families : r.status = "active"
    /\ Rewrite("families", LAMBDA r : r.status = "active", RevokeActive)

RefreshPurgeExpired == DeleteFrom("refresh", Stale)

\* since is a Unix second: created_at >= ? leaves out the rows of that very
\* second that have a fraction, for "SZ" is above "S.xxxZ".
CountIssuedSince(s) ==
    Cardinality({r \in tk.families : ~TextBefore(r.created, 4 * s)})

CountRevokedSince(s) ==
    Cardinality({r \in tk.families : r.revoked # TkNull /\ ~TextBefore(r.revoked, 4 * s)})

-----------------------------------------------------------------------------
(* access_token_jtis and revoked_jtis *)

\* A token is minted; recording its jti is best effort.
TrackJTIRow(i) ==
    InsertInto("tracked", [id |-> i, exp |-> tkPast.exp[i]])

\* INSERT OR IGNORE ... SELECT: a jti that is denied already keeps its row.
RevokeByFamilyRows ==
    tk' = [tk EXCEPT !["denied"] =
              @ \cup {r \in tk.tracked : \A d \in tk.denied : d.id # r.id}]

\* The expiry of the recorded row, or an hour from now.
RevokedUntil(i) == IF Present("tracked", i) THEN Row("tracked", i).exp ELSE tkNow + TkFallback

\* INSERT OR IGNORE.
RevokeJTIRow(i) ==
    IF Present("denied", i) THEN UNCHANGED tk
                            ELSE InsertInto("denied", [id |-> i, exp |-> RevokedUntil(i)])

IsRevokedRow(i) == Present("denied", i)

RevocationPurgeExpired ==
    tk' = [tk EXCEPT !["tracked"] = {r \in @ : ~Stale(r)},
                     !["denied"] = {r \in @ : ~Stale(r)}]

\* VerifyAccessToken compares whole seconds and tolerates a clock that is
\* TkSkew seconds behind.
VerifyExpiry(i) == Second(tkNow) <= Second(tkPast.exp[i]) + TkSkew

-----------------------------------------------------------------------------
(* machine_tokens *)

MachineSave(i) ==
    InsertInto("machine", [id |-> i, issued |-> tkNow, exp |-> tkNow + TkLife, revoked |-> FALSE])

MachineByJTI(i) == RowsOf("machine", LAMBDA r : r.id = i)

MachineRevoke(i) ==
    /\ MachineByJTI(i) # {}
    /\ Rewrite("machine", LAMBDA r : r.id = i, LAMBDA r : [r EXCEPT !.revoked = TRUE])

MachineRevokeByClient ==
    Rewrite("machine", LAMBDA r : ~r.revoked, LAMBDA r : [r EXCEPT !.revoked = TRUE])

MachineList == {r \in tk.machine : ~r.revoked /\ TextBefore(tkNow, r.exp)}

MachineIssuedSince(s) == {r \in tk.machine : ~TextBefore(r.issued, 4 * s)}
MachineRevokedSince(s) == {r \in MachineIssuedSince(s) : r.revoked}

MachinePurgeExpired == DeleteFrom("machine", Stale)

-----------------------------------------------------------------------------
(* issuances: rows name the token they were exchanged from, and whether they *)
(* are of the user, the resource and the consent client that are revoked     *)

IssuanceInsert(i, parent, own) ==
    InsertInto("issuances", [id |-> i, parent |-> parent, own |-> own,
                             revoked |-> FALSE, issued |-> tkNow])

IssuanceByJTI(i) == RowsOf("issuances", LAMBDA r : r.id = i)

IssuanceRevoke(i) ==
    /\ \E r \in IssuanceByJTI(i) : ~r.revoked
    /\ Rewrite("issuances", LAMBDA r : r.id = i, LAMBDA r : [r EXCEPT !.revoked = TRUE])

Children(s) == {r.id : r \in RowsOf("issuances", LAMBDA r : r.parent \in s)}

\* WITH RECURSIVE lineage: the roots, then the children of what was found
\* so far, until a round adds nothing.
LineageRows(roots) ==
    FoldSet(LAMBDA i, found : found \cup Children(found), roots, TkChain)

\* The rows minted under the grant, exchanged or not, revoked or not.
IssuanceRoots == {r.id : r \in RowsOf("issuances", LAMBDA r : r.own)}

IssuanceRevokeFamily ==
    LET hit == LineageRows(IssuanceRoots)
    IN  Rewrite("issuances", LAMBDA r : r.id \in hit /\ ~r.revoked,
                             LAMBDA r : [r EXCEPT !.revoked = TRUE])

IssuancesSince(s) == {r \in tk.issuances : ~TextBefore(r.issued, s)}

-----------------------------------------------------------------------------
(* assertion_jtis, dpop_nonces and connect_pending_states *)

\* exp of the assertion plus the buffer: a whole second.
AssertionKept(i) == 4 * (Second(tkPast.exp[i]) + TkBuffer)

\* Mutant: the row expires with the assertion.
AssertionConsume_NoBuffer(i) == InsertInto("spent", [id |-> i, exp |-> 4 * Second(tkPast.exp[i])])

\* A second insert of the jti is a UNIQUE violation: the replay.
AssertionConsume(i) == InsertInto("spent", [id |-> i, exp |-> AssertionKept(i)])

AssertionPurgeExpired == DeleteFrom("spent", Stale)

NonceIssue(i) == InsertInto("nonces", [id |-> i, exp |-> tkNow + TkLife])

\* The expiry is parsed and compared as a time.
NonceValid(i) == \E r \in tk.nonces : r.id = i /\ ~(ScanTime(FormatTime(r.exp)) < tkNow)

NoncePurgeExpired == DeleteFrom("nonces", Stale)

PendingInsert(i) == InsertInto("pending", [id |-> i, exp |-> tkNow + TkLife])

\* SELECT ... expires_at > now, then DELETE, in one transaction.
PendingConsume(i) ==
    /\ \E r \in tk.pending : r.id = i /\ TextBefore(tkNow, r.exp)
    /\ DeleteFrom("pending", LAMBDA r : r.id = i)

PendingPurgeExpired == DeleteFrom("pending", Stale)

-----------------------------------------------------------------------------
(* audit_events *)

AuditRecord(i) == InsertInto("audit", [id |-> i, created |-> tkNow])

\* since and until are Unix seconds, both optional (0).
AuditQuery(since, until) ==
    {r \in tk.audit : /\ since > 0 => ~TextBefore(r.created, 4 * since)
                      /\ until > 0 => ~TextBefore(4 * until, r.created)}

-----------------------------------------------------------------------------
(* The calls the services make *)

In(g) == tkGroup = g /\ UNCHANGED <<tkGroup, tkNow>>
Quietly == UNCHANGED tkPast

\* Every id is drawn at random: a row is created for it once.
Draw(i) == /\ tkPast.exp[i] = TkNull
           /\ tkPast' = [tkPast EXCEPT !.exp[i] = tkNow + TkLife]

Ended(s) == tkPast' = [tkPast EXCEPT !.ended = @ \cup s]
Used(i) == tkPast' = [tkPast EXCEPT !.uses[i] = @ + 1]

SessionNext == In("session") /\
    \/ \E i \in TkIds :
          \/ Draw(i) /\ SessionCreate(i)
          \/ SessionUpdateCodeHash(i) /\ tkPast' = [tkPast EXCEPT !.coded[i] = tkNow]
          \/ SessionConsume(i) /\ Used(i)
          \/ SessionDelete(i) /\ Quietly
    \/ SessionDeleteExpired /\ Quietly

FamilyNext == In("family") /\
    \/ \E i \in TkIds :
          \/ FamilyCreate(i) /\ Quietly
          \/ Draw(i) /\ RefreshCreate(i)
          \/ RefreshConsume(i) /\ Ended({i})
          \/ FamilyRevoke(i) /\ Ended({r.id : r \in RefreshByHash(i)})
    \/ FamiliesRevokeByClient /\ Quietly
    \/ RefreshPurgeExpired /\ Quietly

\* A token is minted whether or not its jti could be recorded.
DenylistNext == In("denylist") /\
    \/ \E i \in TkIds :
          \/ Draw(i) /\ UNCHANGED tk
          \/ /\ tkPast.exp[i] = tkNow + TkLife
             /\ TrackJTIRow(i) /\ Quietly
          \/ tkPast.exp[i] # TkNull /\ VerifyExpiry(i) /\ RevokeJTIRow(i) /\ Ended({i})
    \/ RevokeByFamilyRows /\ Ended({r.id : r \in tk.tracked})
    \/ RevocationPurgeExpired /\ Quietly

MachineNext == In("machine") /\
    \/ \E i \in TkIds :
          \/ Draw(i) /\ MachineSave(i)
          \/ MachineRevoke(i) /\ Ended({i})
    \/ MachineRevokeByClient /\ Ended({r.id : r \in tk.machine})
    \/ MachinePurgeExpired /\ Quietly

\* Reached[x, y]: y was exchanged from x, at any depth.
Reached == TransitiveClosure([x, y \in TkChain |-> y \in Children({x})], TkChain)

\* What a consent revocation has to reach: everything exchanged from a row of the
\* grant, at any depth.
ExchangedFrom == {i \in TkChain : \E j \in IssuanceRoots : i = j \/ Reached[j, i]}

IssuanceNext == In("issuance") /\
    \/ \E i \in TkChain :
          \/ \E p \in {r.id : r \in tk.issuances} \cup {TkNull}, own \in BOOLEAN :
                IssuanceInsert(i, p, own) /\ Quietly
          \/ IssuanceRevoke(i) /\ Ended({i})
    \/ IssuanceRevokeFamily /\ Ended(ExchangedFrom)

\* Assertions carry an exp of their own; the verifier tolerates TkSkew.
ReplayNext == In("replay") /\
    \/ \E i \in TkIds :
          \/ Draw(i) /\ UNCHANGED tk
          \/ tkPast.exp[i] # TkNull /\ VerifyExpiry(i) /\ AssertionConsume(i) /\ Used(i)
    \/ AssertionPurgeExpired /\ Quietly

PendingNext == In("pending") /\
    \/ \E i \in TkIds :
          \/ Draw(i) /\ PendingInsert(i)
          \/ PendingConsume(i) /\ Used(i)
          \/ tkPast.coded[i] = TkNull /\ NonceIssue(i) /\ tkPast' = [tkPast EXCEPT !.coded[i] = tkNow]
    \/ PendingPurgeExpired /\ Quietly
    \/ NoncePurgeExpired /\ Quietly

AuditNext == In("audit") /\ \E i \in TkIds : AuditRecord(i) /\ Quietly

TkTick == /\ tkNow < IF tkGroup = "issuance" THEN TkChainTime ELSE TkMaxTime
          /\ tkNow' = tkNow + 1
          /\ UNCHANGED <<tkGroup, tk, tkPast>>

TkInit ==
    /\ tkGroup \in {"session", "family", "denylist", "machine", "issuance", "replay", "pending", "audit"}
    /\ tkNow = 0
    /\ tk = [t \in TkTables |-> {}]
    /\ tkPast = [exp |-> [i \in TkChain |-> TkNull], coded |-> [i \in TkChain |-> TkNull],
                 uses |-> [i \in TkChain |-> 0], ended |-> {}]

TkNext == SessionNext \/ FamilyNext \/ DenylistNext \/ MachineNext \/ IssuanceNext
          \/ ReplayNext \/ PendingNext \/ AuditNext \/ TkTick

TkSpec == TkInit /\ [][TkNext]_tkVars

-----------------------------------------------------------------------------
TkTypeOK ==
    /\ tkNow \in 0 .. TkMaxTime
    /\ \A t \in TkTables : \A r \in tk[t] : r.id \in TkChain /\ \A q \in tk[t] : q.id = r.id => q = r
    /\ \A i \in TkChain : tkPast.exp[i] = TkNull \/ tkPast.exp[i] \in 0 .. TkMaxTime + TkLife
    /\ tkPast.ended \subseteq TkChain

\* A code is bound to a session only before the session expires, to the
\* second (UpdateCodeHashAndScope compares texts).
CodeOnlyForLiveSession ==
    tkGroup = "session" => \A i \in TkChain :
        tkPast.coded[i] # TkNull => Second(tkPast.coded[i]) <= Second(tkPast.exp[i])

Remembered(i) ==
    CASE tkGroup = "denylist" -> IsRevokedRow(i)
      [] tkGroup = "machine"  -> \E r \in MachineByJTI(i) : r.revoked
      [] tkGroup = "family"   -> \E r \in RefreshByHash(i) : r.consumed
      [] OTHER                -> \E r \in IssuanceByJTI(i) : r.revoked

\* Once a token is denylisted, revoked or spent, the database remembers it
\* until the second in which the token expires: a text comparison may purge
\* a row early, but never before its exp claim, also a row RevokeJTI wrote
\* for a jti it knows nothing of.
EndedIsRememberedUntilExp ==
    tkGroup \in {"denylist", "machine", "family"} => \A i \in tkPast.ended :
        Remembered(i) \/ Second(tkNow) >= Second(tkPast.exp[i])

\* A DPoP nonce is accepted until the second in which it expires, whatever
\* the purge (which compares texts) deletes meanwhile, and never after it;
\* the admin list of machine tokens shows the same tokens to the second.
LiveRowsAreFound ==
    /\ tkGroup = "pending" => \A i \in TkChain : tkPast.coded[i] # TkNull =>
          /\ Second(tkNow) < Second(tkPast.coded[i] + TkLife) => NonceValid(i)
          /\ NonceValid(i) => Second(tkNow) <= Second(tkPast.coded[i] + TkLife)
    /\ tkGroup = "machine" => \A i \in TkChain \ tkPast.ended : tkPast.exp[i] # TkNull =>
          /\ Second(tkNow) < Second(tkPast.exp[i]) => \E r \in MachineList : r.id = i
          /\ (\E r \in MachineList : r.id = i) => Second(tkNow) <= Second(tkPast.exp[i])

\* A code, a pending state or an assertion buys one answer, however late it
\* is presented again and whatever the purges in between deleted.
SpentOnce == \A i \in TkChain : tkPast.uses[i] <= 1

\* A consent revocation reaches every token exchanged from one of the grant, at any
\* depth and through tokens of other grants, and no other token: the recursive query
\* computes the transitive closure (IssuanceStore.RevokeFamily).
RevocationReachesLineage ==
    tkGroup = "issuance" => \A i \in TkChain : i \in tkPast.ended <=> Remembered(i)

After(rows, f, s) == {r.id : r \in {q \in rows : Second(q[f]) > s}}
From(rows, f, s) == {r.id : r \in {q \in rows : Second(q[f]) >= s}}

\* The windows of the statistics, the listings and the audit log miss at
\* most rows of the second they start with, and show none from before it or
\* from a later second than they end with.
WindowsAreExactToTheSecond ==
    \A s \in 1 .. Second(TkMaxTime) :
        /\ CountIssuedSince(s) \in Cardinality(After(tk.families, "created", s))
                                  .. Cardinality(From(tk.families, "created", s))
        /\ CountRevokedSince(s) <= Cardinality({r \in tk.families : r.revoked # TkNull})
        /\ MachineRevokedSince(s) \subseteq MachineIssuedSince(s)
        /\ {r.id : r \in IssuancesSince(4 * s)} \subseteq From(tk.issuances, "issued", s)
        /\ After(tk.issuances, "issued", s) \subseteq {r.id : r \in IssuancesSince(4 * s)}
        /\ LET shown == {r.id : r \in AuditQuery(s, s + 1)}
           IN  /\ shown \subseteq From(tk.audit, "created", s) \ After(tk.audit, "created", s + 1)
               /\ After(tk.audit, "created", s) \ After(tk.audit, "created", s + 1) \subseteq shown

\* The token tables of SQLite as a whole: what has ended is remembered while it could
\* still be presented, and what lives is found (adapters/sqlite).
TokenRowsSound ==
    /\ TkTypeOK
    /\ CodeOnlyForLiveSession
    /\ EndedIsRememberedUntilExp
    /\ LiveRowsAreFound
    /\ SpentOnce
    /\ RevocationReachesLineage
    /\ WindowsAreExactToTheSecond
=============================================================================
