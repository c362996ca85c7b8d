------------------------------ MODULE SQLiteDB ------------------------------
(***************************************************************************)
(* The SQLite database as the server opens it: one file, one pooled        *)
(* connection, foreign keys enforced by a pragma of that connection, the   *)
(* migrations that run before the server serves, and the transactions the  *)
(* services and the stores open.                                           *)
(*                                                                         *)
(* The database is the rows of one user at one client and one resource.  A *)
(* request runs a body, the statements of one transaction, in order; the   *)
(* process may be killed, the request cancelled or a statement refused     *)
(* between any two of them.                                                *)
(***************************************************************************)
EXTENDS Naturals, Sequences, FiniteSets, SequencesExt

CONSTANTS SqRequests,   \* the goroutines that use the pool
          SqVersions,   \* the embedded migrations
          SqRebuilds,   \* those whose script rebuilds the users table
          SqNobody

ASSUME SqVersionsAssumption == SqVersions \subseteq Nat /\ SqRebuilds \subseteq SqVersions
ASSUME SqNobodyAssumption == SqNobody \notin SqRequests

VARIABLES
    sqDb,     \* the committed rows
    sqWork,   \* the rows as the open transaction sees them
    sqHold,   \* the request that holds the connection
    sqCall,   \* the body a request runs, "none" between two of them
    sqTodo,   \* the statements of the body that are left
    sqPhase,  \* "down", "migrating" or "serving"
    sqFk,     \* PRAGMA foreign_keys of the connection
    sqSchema, \* the migrations whose script is committed
    sqApplied,\* the rows of schema_migrations
    sqStep    \* how far the migration in progress is

sqVars == <<sqDb, sqWork, sqHold, sqCall, sqTodo, sqPhase, sqFk, sqSchema, sqApplied, sqStep>>
sqConnVars == <<sqWork, sqHold, sqCall, sqTodo>>
sqFileVars == <<sqDb, sqSchema, sqApplied>>

SqDatabase == [user: BOOLEAN, client: BOOLEAN, res: BOOLEAN, link: BOOLEAN, consent: BOOLEAN,
               code: {"none", "issued", "consumed"}, fam: {"none", "active", "revoked"},
               rt: {"none", "live", "consumed"}, jti: BOOLEAN, trail: BOOLEAN]

-----------------------------------------------------------------------------
(* Foreign keys.  The schema lets the rows of a user or a client cascade    *)
(* and refuses to delete a resource that is still named.                    *)

\* Every reference resolves: what PRAGMA foreign_key_check looks for.
SqRefsResolve(d) ==
    /\ d.fam # "none" => d.user /\ d.client
    /\ d.rt # "none" \/ d.jti => d.fam # "none"
    /\ d.consent => d.user /\ d.client /\ d.res
    /\ d.link => d.res

SqCascade(d) == [d EXCEPT !.fam = "none", !.rt = "none", !.jti = FALSE, !.consent = FALSE]

Ok(d) == [ok |-> TRUE, db |-> d]
Refused(d) == [ok |-> FALSE, db |-> d]

\* A statement is refused when the row it would leave names a missing one.
Checked(fk, d, e) == IF fk /\ ~SqRefsResolve(e) THEN Refused(d) ELSE Ok(e)

\* Deleting a parent row removes the children only while the pragma is on.
DeleteParent(fk, e) == Ok(IF fk THEN SqCascade(e) ELSE e)

\* What a statement does to the rows.  The statements that find no row
\* to change refuse where their store reports an error.
SqEffect(s, fk, d) ==
    [ upsertConsent |-> Checked(fk, d, [d EXCEPT !.consent = TRUE]),
      updateCode    |-> IF d.code = "consumed" THEN Refused(d) ELSE Ok([d EXCEPT !.code = "issued"]),
      createFamily  |-> IF d.fam # "none" THEN Refused(d)
                        ELSE Checked(fk, d, [d EXCEPT !.fam = "active"]),
      trackJTI      |-> Ok(IF fk /\ d.fam = "none" THEN d ELSE [d EXCEPT !.jti = TRUE]),
      createRefresh |-> Checked(fk, d, [d EXCEPT !.rt = "live"]),
      markCode      |-> IF d.code = "issued" THEN Ok([d EXCEPT !.code = "consumed"]) ELSE Refused(d),
      markRefresh   |-> IF d.rt = "live" THEN Ok([d EXCEPT !.rt = "consumed"]) ELSE Refused(d),
      readBack      |-> Ok(d),
      revokeFamily  |-> Ok([d EXCEPT !.fam = IF @ = "active" THEN "revoked" ELSE @]),
      spendTokens   |-> Ok([d EXCEPT !.rt = IF @ = "live" THEN "consumed" ELSE @]),
      refuseActive  |-> IF d.fam = "active" THEN Refused(d) ELSE Ok(d),
      deleteClient  |-> IF d.client THEN DeleteParent(fk, [d EXCEPT !.client = FALSE]) ELSE Refused(d),
      deleteUser    |-> IF d.user THEN DeleteParent(fk, [d EXCEPT !.user = FALSE]) ELSE Refused(d),
      deleteLinks   |-> Ok([d EXCEPT !.link = FALSE, !.trail = @ \/ d.link]),
      deleteResource|-> IF d.res THEN Checked(fk, d, [d EXCEPT !.res = FALSE]) ELSE Refused(d),
      setSetting    |-> Ok(d) ][s]

SqStatements == {"upsertConsent", "updateCode", "createFamily", "trackJTI", "createRefresh",
                 "markCode", "markRefresh", "readBack", "revokeFamily", "spendTokens",
                 "refuseActive", "deleteClient", "deleteUser", "deleteLinks", "deleteResource",
                 "setSetting"}

-----------------------------------------------------------------------------
(* The transactions.  The first five are opened by a service through        *)
(* WithTransaction, the others by a store through beginOrJoinTx.            *)

PersistAndCodeTx == <<"upsertConsent", "updateCode">>
CreateFamilyAndRefreshTx == <<"createFamily", "trackJTI", "createRefresh">>
DeleteClientTx(force) == <<IF force THEN "revokeFamily" ELSE "refuseActive", "deleteClient">>
DeleteUserTx(force) == <<IF force THEN "revokeFamily" ELSE "refuseActive", "deleteUser">>
DeleteResourceTx(cascade) == (IF cascade THEN <<"deleteLinks">> ELSE <<>>) \o <<"deleteResource">>
ConsumeByCodeHashTx == <<"markCode", "readBack">>
ConsumeRefreshTokenTx == <<"markRefresh", "readBack">>
RevokeFamilyTx == <<"revokeFamily", "spendTokens">>

SqBody == [ persistAndCode |-> PersistAndCodeTx, createFamily |-> CreateFamilyAndRefreshTx,
            deleteClient |-> DeleteClientTx(FALSE), forceDeleteClient |-> DeleteClientTx(TRUE),
            deleteUser |-> DeleteUserTx(FALSE), forceDeleteUser |-> DeleteUserTx(TRUE),
            deleteResource |-> DeleteResourceTx(FALSE),
            cascadeDeleteResource |-> DeleteResourceTx(TRUE), consumeCode |-> ConsumeByCodeHashTx,
            consumeRefresh |-> ConsumeRefreshTokenTx, revokeFamily |-> RevokeFamilyTx,
            setting |-> <<"setSetting">> ]

\* Stores that call the pool and not dbOrTx: their statement needs the
\* connection for itself, whatever transaction the request holds.
SqRaw(s) == s \in {"setSetting"}

Apply(acc, s) ==
    IF acc.ok THEN SqEffect(s, TRUE, acc.db) ELSE acc

\* The body as one step on a database that enforces its foreign keys.
SqWhole(b, d) ==
    LET r == FoldLeft(Apply, Ok(d), SqBody[b])
    IN  IF r.ok THEN r.db ELSE d

-----------------------------------------------------------------------------
SqReleased == /\ sqHold' = SqNobody
              /\ sqWork' = sqDb'

SqEnds(p) ==
    /\ sqCall' = [sqCall EXCEPT ![p] = "none"]
    /\ sqTodo' = [sqTodo EXCEPT ![p] = <<>>]

SqUnmigrated == UNCHANGED <<sqPhase, sqFk, sqSchema, sqApplied, sqStep>>

\* A request of a serving process reaches a transaction or a raw statement.
SqStart(p) ==
    /\ sqPhase = "serving" /\ sqCall[p] = "none"
    /\ \E b \in DOMAIN SqBody : /\ sqCall' = [sqCall EXCEPT ![p] = b]
                                /\ sqTodo' = [sqTodo EXCEPT ![p] = SqBody[b]]
    /\ UNCHANGED <<sqDb, sqWork, sqHold>> /\ SqUnmigrated

\* BeginTx takes the connection from the pool, or waits until it is free.
BeginOrJoinTx(p) ==
    /\ sqHold = SqNobody
    /\ sqTodo[p] # <<>> /\ ~SqRaw(Head(sqTodo[p]))
    /\ sqHold' = p
    /\ sqWork' = sqDb
    /\ UNCHANGED <<sqDb, sqCall, sqTodo>> /\ SqUnmigrated

\* A raw statement also waits for the connection, and commits by itself.
ExecRaw(p) ==
    /\ sqHold = SqNobody
    /\ sqTodo[p] # <<>> /\ SqRaw(Head(sqTodo[p]))
    /\ sqDb' = SqEffect(Head(sqTodo[p]), sqFk, sqDb).db
    /\ sqWork' = sqDb'
    /\ sqTodo' = [sqTodo EXCEPT ![p] = Tail(@)]
    /\ sqCall' = [sqCall EXCEPT ![p] = IF Len(sqTodo[p]) = 1 THEN "none" ELSE @]
    /\ UNCHANGED sqHold /\ SqUnmigrated

\* Mutant: an error leaves what the statements before it wrote.
RollbackTx_Keep(p) == /\ sqDb' = sqWork
                      /\ SqReleased
                      /\ SqEnds(p)

RollbackTx(p) == /\ sqDb' = sqDb
                 /\ SqReleased
                 /\ SqEnds(p)

\* dbOrTx: the next statement of the transaction p holds.
DbOrTx(p) ==
    /\ sqHold = p
    /\ sqTodo[p] # <<>> /\ ~SqRaw(Head(sqTodo[p]))
    /\ LET r == SqEffect(Head(sqTodo[p]), sqFk, sqWork)
       IN  IF r.ok THEN /\ sqWork' = r.db
                        /\ sqTodo' = [sqTodo EXCEPT ![p] = Tail(@)]
                        /\ UNCHANGED <<sqDb, sqHold, sqCall>>
                   ELSE RollbackTx(p)
    /\ SqUnmigrated

\* WithTransaction commits when its function returned nil.
WithTransaction(p) ==
    /\ sqHold = p /\ sqTodo[p] = <<>>
    /\ sqDb' = sqWork
    /\ SqReleased
    /\ SqEnds(p)
    /\ SqUnmigrated

\* The request is cancelled, or a statement fails on the disk: database/sql
\* rolls the transaction back; a waiter leaves the queue.
SqCancel(p) ==
    /\ sqCall[p] # "none"
    /\ IF sqHold = p THEN RollbackTx(p)
                     ELSE SqEnds(p) /\ UNCHANGED <<sqDb, sqWork, sqHold>>
    /\ SqUnmigrated

-----------------------------------------------------------------------------
(* Start-up, migrations and crashes *)

SqPending == SqVersions \ sqApplied
SqNextVersion == CHOOSE v \in SqPending : \A w \in SqPending : v <= w

\* Open sets the pragmas on the one connection of the pool.
OpenSQLite ==
    /\ sqPhase = "down"
    /\ sqPhase' = "migrating"
    /\ sqFk' = TRUE
    /\ sqStep' = "idle"
    /\ UNCHANGED <<sqFileVars, sqConnVars>>

\* Nothing is pending: Migrate returns and the process serves.
MigrateDone ==
    /\ sqPhase = "migrating" /\ sqStep = "idle" /\ SqPending = {}
    /\ sqPhase' = "serving"
    /\ UNCHANGED <<sqFileVars, sqConnVars, sqFk, sqStep>>

\* -- migrate:foreign-keys-off on the first line of the script.
MigrationPragma(v) == sqFk' = (sqFk /\ v \notin SqRebuilds)

MigrateNext ==
    /\ sqPhase = "migrating" /\ sqStep = "idle" /\ SqPending # {}
    /\ MigrationPragma(SqNextVersion)
    /\ sqStep' = "tx"
    /\ UNCHANGED <<sqFileVars, sqConnVars, sqPhase>>

\* The rebuild drops the users table: with the pragma on, the implicit
\* DELETE cascades before the copy takes the old name.
MigrationScript(v, d) == IF v \in SqRebuilds /\ sqFk THEN SqCascade(d) ELSE d

\* Mutant: the pragma stays as the migration left it.
ReenableForeignKeys_Forgotten == UNCHANGED sqFk

\* The deferred PRAGMA foreign_keys = ON, whatever the outcome.
ReenableForeignKeys == sqFk' = TRUE

\* foreign_key_check, only for the scripts that ran without enforcement.
CheckForeignKeys(v, d) == v \in SqRebuilds => SqRefsResolve(d)

\* Script, check and record commit together.
ApplyMigration ==
    /\ sqPhase = "migrating" /\ sqStep = "tx"
    /\ LET v == SqNextVersion
           d == MigrationScript(v, sqDb)
       IN  /\ CheckForeignKeys(v, d)
           /\ sqDb' = d
           /\ sqSchema' = sqSchema \cup {v}
           /\ sqApplied' = sqApplied \cup {v}
    /\ SqReleased
    /\ ReenableForeignKeys
    /\ sqStep' = "idle"
    /\ UNCHANGED <<sqCall, sqTodo, sqPhase>>

\* The check or a statement fails: rollback, and the command exits.
MigrationFails ==
    /\ sqPhase = "migrating" /\ sqStep = "tx"
    /\ ReenableForeignKeys
    /\ sqPhase' = "down"
    /\ sqStep' = "idle"
    /\ UNCHANGED <<sqFileVars, sqConnVars>>

\* The process is killed: the file keeps what was committed.
SqCrash ==
    /\ sqPhase # "down"
    /\ sqPhase' = "down"
    /\ sqDb' = sqDb
    /\ SqReleased
    /\ sqCall' = [p \in SqRequests |-> "none"]
    /\ sqTodo' = [p \in SqRequests |-> <<>>]
    /\ sqStep' = "idle"
    /\ UNCHANGED <<sqFk, sqSchema, sqApplied>>

SqEmpty == [user |-> TRUE, client |-> TRUE, res |-> TRUE, link |-> TRUE, consent |-> FALSE,
            code |-> "none", fam |-> "none", rt |-> "none", jti |-> FALSE, trail |-> FALSE]

\* A database in use, at the schema of an earlier release.
SqInit ==
    /\ sqDb \in {SqEmpty, [SqEmpty EXCEPT !.consent = TRUE, !.code = "consumed",
                                          !.fam = "active", !.rt = "live", !.jti = TRUE]}
    /\ sqWork = sqDb
    /\ sqHold = SqNobody
    /\ sqCall = [p \in SqRequests |-> "none"]
    /\ sqTodo = [p \in SqRequests |-> <<>>]
    /\ sqPhase = "down"
    /\ sqFk = TRUE
    /\ sqSchema = {v \in SqVersions : \A w \in SqVersions : v <= w}
    /\ sqApplied = sqSchema
    /\ sqStep = "idle"

SqServe == \E p \in SqRequests :
    \/ SqStart(p) \/ BeginOrJoinTx(p) \/ ExecRaw(p)
    \/ DbOrTx(p) \/ WithTransaction(p) \/ SqCancel(p)

SqBoot == OpenSQLite \/ MigrateNext \/ ApplyMigration \/ MigrationFails \/ MigrateDone

SqNext == SqServe \/ SqBoot \/ SqCrash

\* A request that holds the connection goes on, and the pool serves its
\* waiters in random order: none of them waits for ever.
SqFairness ==
    \A p \in SqRequests : /\ WF_sqVars(DbOrTx(p)) /\ WF_sqVars(WithTransaction(p))
                          /\ SF_sqVars(BeginOrJoinTx(p)) /\ SF_sqVars(ExecRaw(p))

SqSpec == SqInit /\ [][SqNext]_sqVars /\ SqFairness

-----------------------------------------------------------------------------
SqTypeOK ==
    /\ {sqDb, sqWork} \subseteq SqDatabase
    /\ sqHold \in SqRequests \cup {SqNobody}
    /\ sqCall \in [SqRequests -> DOMAIN SqBody \cup {"none"}]
    /\ \A p \in SqRequests : sqTodo[p] \in Seq(SqStatements)
    /\ sqPhase \in {"down", "migrating", "serving"}
    /\ sqFk \in BOOLEAN
    /\ sqSchema \subseteq SqVersions /\ sqApplied \subseteq SqVersions
    /\ sqStep \in {"idle", "tx"}

\* However migrations, transactions, cancellations and crashes interleave,
\* no committed row names a missing one: the pragma that a rebuild switches
\* off (applyMigration) is on again before the first request is served.
SqReferencesHold == SqRefsResolve(sqDb)

\* Atomicity of WithTransaction and of the stores' own transactions: a
\* step that changes the committed rows is one whole body, or a migration.
\* A migration keeps every row of the tables that name a user.
SqWholeBodies ==
    [][sqDb' # sqDb => sqPhase = "serving" /\ \E b \in DOMAIN SqBody : sqDb' = SqWhole(b, sqDb)]_sqVars

\* The one connection is never waited for by the request that holds it
\* (resource_store.go: "queues forever"): every transaction that has begun
\* ends, and the connection comes back to the pool.
SqConnectionReturns == \A p \in SqRequests : (sqHold = p) ~> (sqHold # p)

\* The schema of SQLite: every reference resolves, also across a migration that
\* rebuilds a table (db.go).
SqSchemaSound == SqTypeOK /\ SqReferencesHold

\* The one connection of SQLite: a transaction leaves all of its body or nothing, and
\* the connection comes back from every one of them (transaction.go, db.go).
SqTransactionsEnd == SqWholeBodies /\ SqConnectionReturns
=============================================================================
