---------------------------- MODULE StoreProofs -----------------------------
(***************************************************************************)
(* The stores: the one SQLite connection under transactions and migrations *)
(* (SQLiteDB), a user row behind the caches of several instances           *)
(* (UserDirectory), the rows that are read, held and written back          *)
(* (SQLiteDirectory) and the rows that expire (SQLiteTokens).              *)
(*                                                                         *)
(* SQLiteDB: a foreign key is checked only while the pragma is on, and a   *)
(* migration that rebuilds a table turns it off. The invariant (SqInv)     *)
(* says that the pragma is on whenever a request may run a statement and   *)
(* that the rows the open transaction sees resolve as well as the stored   *)
(* ones.                                                                   *)
(*                                                                         *)
(* UserDirectory implements AccountRegister for every set of requests and  *)
(* instances: the caches may be arbitrarily late, the row never is.        *)
(*                                                                         *)
(* SQLiteDirectory: a copy that a request holds may be as old as it likes. *)
(* The invariant (DrInv) says that a copy which still has the version of   *)
(* its row is that row, and that the id of a deleted row is never drawn    *)
(* again; so the version the UPDATE names is enough to lose no edit.       *)
(*                                                                         *)
(* SQLiteTokens: every expiry is compared as text. The text order is exact *)
(* to the second (TrText), so the invariant (TrInv) speaks of seconds: a   *)
(* row that says a token has ended is there until the second of its exp,   *)
(* and the row of an assertion outlives the clock tolerance of its         *)
(* verifier.                                                               *)
(***************************************************************************)
EXTENDS SQLiteDB, UserDirectory, SQLiteTokens, SQLiteDirectory, WellFoundedInduction, TLAPS

-----------------------------------------------------------------------------
(* SQLiteDB: references under transactions and migrations *)

\* The pragma is on whenever a request may run a statement; the transaction that is
\* open sees rows whose references resolve.
SqInv ==
    /\ SqTypeOK
    /\ sqTodo \in [SqRequests -> Seq(SqStatements)]
    /\ sqPhase = "serving" => sqFk = TRUE
    /\ sqPhase = "migrating" /\ sqStep = "idle" => sqFk = TRUE
    /\ sqStep = "tx" => sqPhase = "migrating" /\ SqPending # {}
    /\ sqPhase # "serving" => sqHold = SqNobody /\ sqTodo = [p \in SqRequests |-> <<>>]
                              /\ sqCall = [p \in SqRequests |-> "none"]
    /\ SqRefsResolve(sqDb) /\ SqRefsResolve(sqWork)

\* One statement of a store, with the pragma on: the row it leaves names no missing one.
LEMMA StatementKeepsReferences ==
    ASSUME NEW s \in SqStatements, NEW d \in SqDatabase, SqRefsResolve(d)
    PROVE  SqEffect(s, TRUE, d).db \in SqDatabase /\ SqRefsResolve(SqEffect(s, TRUE, d).db)
<1>1. CASE s = "upsertConsent"
  <2> DEFINE e == [d EXCEPT !.consent = TRUE]
  <2>1. \/ SqEffect(s, TRUE, d).db = d
        \/ SqEffect(s, TRUE, d).db = e /\ SqRefsResolve(e)
    BY <1>1 DEF SqEffect, Checked, DeleteParent, Ok, Refused
  <2>2. e \in SqDatabase
    BY DEF SqDatabase
  <2> QED BY <2>1, <2>2, Zenon
<1>2. CASE s = "updateCode"
  BY <1>2 DEF SqEffect, Checked, Ok, Refused, SqDatabase, SqRefsResolve
<1>3. CASE s = "createFamily"
  BY <1>3 DEF SqEffect, Checked, Ok, Refused, SqDatabase, SqRefsResolve
<1>4. CASE s = "trackJTI"
  <2> DEFINE e == [d EXCEPT !.jti = TRUE]
  <2>1. /\ d.fam = "none" => SqEffect(s, TRUE, d).db = d
        /\ d.fam # "none" => SqEffect(s, TRUE, d).db = e
    <3>1. CASE d.fam = "none"
      BY <1>4, <3>1 DEF SqEffect, Checked, DeleteParent, Ok, Refused
    <3>2. CASE d.fam # "none"
      <4>1. SqEffect(s, TRUE, d) = Ok(e)
        BY <1>4, <3>2, Zenon DEF SqEffect
      <4>2. Ok(e).db = e
        BY DEF Ok
      <4> QED BY <3>2, <4>1, <4>2, Zenon
    <3> QED BY <3>1, <3>2
  <2>2. /\ e \in SqDatabase /\ e.fam = d.fam /\ e.rt = d.rt /\ e.consent = d.consent
        /\ e.user = d.user /\ e.client = d.client /\ e.res = d.res /\ e.link = d.link
    BY DEF SqDatabase
  <2> HIDE DEF e
  <2>3. d.fam # "none" => SqRefsResolve(e)
    BY <2>2, Zenon DEF SqRefsResolve
  <2> QED BY <2>1, <2>2, <2>3, Zenon
<1>5. CASE s = "createRefresh"
  BY <1>5 DEF SqEffect, Checked, Ok, Refused, SqDatabase, SqRefsResolve
<1>6. CASE s = "markCode"
  BY <1>6 DEF SqEffect, Checked, Ok, Refused, SqDatabase, SqRefsResolve
<1>7. CASE s = "markRefresh"
  BY <1>7 DEF SqEffect, Checked, Ok, Refused, SqDatabase, SqRefsResolve
<1>8. CASE s = "readBack"
  BY <1>8 DEF SqEffect, Checked, Ok, Refused, SqDatabase, SqRefsResolve
<1>9. CASE s = "revokeFamily"
  BY <1>9 DEF SqEffect, Checked, Ok, Refused, SqDatabase, SqRefsResolve
<1>10. CASE s = "spendTokens"
  BY <1>10 DEF SqEffect, Checked, Ok, Refused, SqDatabase, SqRefsResolve
<1>11. CASE s = "refuseActive"
  BY <1>11 DEF SqEffect, Checked, Ok, Refused, SqDatabase, SqRefsResolve
<1>12. CASE s = "deleteClient"
  <2> DEFINE e == SqCascade([d EXCEPT !.client = FALSE])
  <2>1. \/ SqEffect(s, TRUE, d).db = d
        \/ SqEffect(s, TRUE, d).db = e
    BY <1>12 DEF SqEffect, Checked, DeleteParent, Ok, Refused
  <2>2. /\ e \in SqDatabase /\ e.fam = "none" /\ e.rt = "none" /\ e.consent = FALSE
        /\ e.jti = FALSE /\ e.link = d.link /\ e.res = d.res
    BY DEF SqDatabase, SqCascade
  <2> HIDE DEF e
  <2>3. SqRefsResolve(e)
    BY <2>2, Zenon DEF SqRefsResolve
  <2> QED BY <2>1, <2>2, <2>3, Zenon
<1>13. CASE s = "deleteUser"
  <2> DEFINE e == SqCascade([d EXCEPT !.user = FALSE])
  <2>1. \/ SqEffect(s, TRUE, d).db = d
        \/ SqEffect(s, TRUE, d).db = e
    BY <1>13 DEF SqEffect, Checked, DeleteParent, Ok, Refused
  <2>2. /\ e \in SqDatabase /\ e.fam = "none" /\ e.rt = "none" /\ e.consent = FALSE
        /\ e.jti = FALSE /\ e.link = d.link /\ e.res = d.res
    BY DEF SqDatabase, SqCascade
  <2> HIDE DEF e
  <2>3. SqRefsResolve(e)
    BY <2>2, Zenon DEF SqRefsResolve
  <2> QED BY <2>1, <2>2, <2>3, Zenon
<1>14. CASE s = "deleteLinks"
  <2> DEFINE e == [d EXCEPT !.link = FALSE, !.trail = d.trail \/ d.link]
  <2>1. \/ SqEffect(s, TRUE, d).db = d
        \/ SqEffect(s, TRUE, d).db = e
    BY <1>14 DEF SqEffect, Checked, DeleteParent, Ok, Refused
  <2>2. /\ e.fam = d.fam /\ e.rt = d.rt /\ e.consent = d.consent /\ e.jti = d.jti
        /\ e.user = d.user /\ e.client = d.client /\ e.res = d.res /\ e.link = FALSE
    BY DEF SqDatabase
  <2>3. e \in SqDatabase
    <3>1. (d.trail \/ d.link) \in BOOLEAN
      OBVIOUS
    <3> QED BY <3>1 DEF SqDatabase
  <2> HIDE DEF e
  <2>4. SqRefsResolve(e)
    BY <2>2, Zenon DEF SqRefsResolve
  <2> QED BY <2>1, <2>3, <2>4, Zenon
<1>15. CASE s = "deleteResource"
  <2> DEFINE e == [d EXCEPT !.res = FALSE]
  <2>1. \/ SqEffect(s, TRUE, d).db = d
        \/ SqEffect(s, TRUE, d).db = e /\ SqRefsResolve(e)
    BY <1>15 DEF SqEffect, Checked, DeleteParent, Ok, Refused
  <2>2. e \in SqDatabase
    BY DEF SqDatabase
  <2> QED BY <2>1, <2>2, Zenon
<1>16. CASE s = "setSetting"
  BY <1>16 DEF SqEffect, Checked, Ok, Refused, SqDatabase, SqRefsResolve
<1> QED BY <1>1, <1>2, <1>3, <1>4, <1>5, <1>6, <1>7, <1>8, <1>9, <1>10, <1>11, <1>12, <1>13, <1>14,
      <1>15, <1>16
    DEF SqStatements

\* Every body of a transaction is a list of statements.
LEMMA BodiesAreStatements ==
    ASSUME NEW b \in DOMAIN SqBody
    PROVE  SqBody[b] \in Seq(SqStatements)
<1>1. CASE b = "persistAndCode"
  BY <1>1 DEF SqBody, SqStatements, PersistAndCodeTx, CreateFamilyAndRefreshTx, DeleteClientTx,
       DeleteUserTx, DeleteResourceTx, ConsumeByCodeHashTx, ConsumeRefreshTokenTx, RevokeFamilyTx
<1>2. CASE b = "createFamily"
  BY <1>2 DEF SqBody, SqStatements, PersistAndCodeTx, CreateFamilyAndRefreshTx, DeleteClientTx,
       DeleteUserTx, DeleteResourceTx, ConsumeByCodeHashTx, ConsumeRefreshTokenTx, RevokeFamilyTx
<1>3. CASE b = "deleteClient"
  BY <1>3 DEF SqBody, SqStatements, PersistAndCodeTx, CreateFamilyAndRefreshTx, DeleteClientTx,
       DeleteUserTx, DeleteResourceTx, ConsumeByCodeHashTx, ConsumeRefreshTokenTx, RevokeFamilyTx
<1>4. CASE b = "forceDeleteClient"
  BY <1>4 DEF SqBody, SqStatements, PersistAndCodeTx, CreateFamilyAndRefreshTx, DeleteClientTx,
       DeleteUserTx, DeleteResourceTx, ConsumeByCodeHashTx, ConsumeRefreshTokenTx, RevokeFamilyTx
<1>5. CASE b = "deleteUser"
  BY <1>5 DEF SqBody, SqStatements, PersistAndCodeTx, CreateFamilyAndRefreshTx, DeleteClientTx,
       DeleteUserTx, DeleteResourceTx, ConsumeByCodeHashTx, ConsumeRefreshTokenTx, RevokeFamilyTx
<1>6. CASE b = "forceDeleteUser"
  BY <1>6 DEF SqBody, SqStatements, PersistAndCodeTx, CreateFamilyAndRefreshTx, DeleteClientTx,
       DeleteUserTx, DeleteResourceTx, ConsumeByCodeHashTx, ConsumeRefreshTokenTx, RevokeFamilyTx
<1>7. CASE b = "deleteResource"
  BY <1>7 DEF SqBody, SqStatements, PersistAndCodeTx, CreateFamilyAndRefreshTx, DeleteClientTx,
       DeleteUserTx, DeleteResourceTx, ConsumeByCodeHashTx, ConsumeRefreshTokenTx, RevokeFamilyTx
<1>8. CASE b = "cascadeDeleteResource"
  BY <1>8 DEF SqBody, SqStatements, PersistAndCodeTx, CreateFamilyAndRefreshTx, DeleteClientTx,
       DeleteUserTx, DeleteResourceTx, ConsumeByCodeHashTx, ConsumeRefreshTokenTx, RevokeFamilyTx
<1>9. CASE b = "consumeCode"
  BY <1>9 DEF SqBody, SqStatements, PersistAndCodeTx, CreateFamilyAndRefreshTx, DeleteClientTx,
       DeleteUserTx, DeleteResourceTx, ConsumeByCodeHashTx, ConsumeRefreshTokenTx, RevokeFamilyTx
<1>10. CASE b = "consumeRefresh"
  BY <1>10 DEF SqBody, SqStatements, PersistAndCodeTx, CreateFamilyAndRefreshTx, DeleteClientTx,
       DeleteUserTx, DeleteResourceTx, ConsumeByCodeHashTx, ConsumeRefreshTokenTx, RevokeFamilyTx
<1>11. CASE b = "revokeFamily"
  BY <1>11 DEF SqBody, SqStatements, PersistAndCodeTx, CreateFamilyAndRefreshTx, DeleteClientTx,
       DeleteUserTx, DeleteResourceTx, ConsumeByCodeHashTx, ConsumeRefreshTokenTx, RevokeFamilyTx
<1>12. CASE b = "setting"
  BY <1>12 DEF SqBody, SqStatements, PersistAndCodeTx, CreateFamilyAndRefreshTx, DeleteClientTx,
       DeleteUserTx, DeleteResourceTx, ConsumeByCodeHashTx, ConsumeRefreshTokenTx, RevokeFamilyTx
<1> QED BY <1>1, <1>2, <1>3, <1>4, <1>5, <1>6, <1>7, <1>8, <1>9, <1>10, <1>11, <1>12 DEF SqBody

\* SqNextVersion is one of the pending ones: a set of numbers has a least one.
LEMMA NextVersionIsPending ==
    ASSUME SqPending # {}
    PROVE  SqNextVersion \in SqPending
<1> DEFINE S == SqPending
<1>1. S \in SUBSET Nat
  BY SqVersionsAssumption DEF SqPending
<1>2. PICK v \in S : \A w \in S : ~(<<w, v>> \in OpToRel(<, Nat))
  BY <1>1, WFMin, NatLessThanWellFounded
<1>3. \A w \in S : ~(w < v)
  BY <1>1, <1>2 DEF OpToRel
<1>4. \A w \in S : v <= w
  BY <1>1, <1>3
<1> QED BY <1>4, Zenon DEF SqNextVersion

\* A rollback leaves the rows as they were committed.
LEMMA RollbackKeeps ==
    ASSUME SqInv, NEW p \in SqRequests, sqPhase = "serving", RollbackTx(p), SqUnmigrated
    PROVE  SqInv'
<1>1. sqTodo' \in [SqRequests -> Seq(SqStatements)]
  BY DEF SqInv, RollbackTx, SqEnds
<1>2. sqCall' \in [SqRequests -> DOMAIN SqBody \cup {"none"}]
  BY DEF SqInv, SqTypeOK, RollbackTx, SqEnds
<1>3. sqDb' = sqDb /\ sqWork' = sqDb /\ sqHold' = SqNobody
  BY DEF RollbackTx, SqReleased
<1>4. UNCHANGED <<sqPhase, sqFk, sqSchema, sqApplied, sqStep>>
  BY DEF SqUnmigrated
<1>5. SqTypeOK'
  BY <1>1, <1>2, <1>3, <1>4 DEF SqInv, SqTypeOK
<1> QED BY <1>1, <1>3, <1>4, <1>5 DEF SqInv, SqPending

\* A request of a serving process.
LEMMA ServeKeeps ==
    ASSUME SqInv, SqServe
    PROVE  SqInv'
<1>1. PICK p \in SqRequests : \/ SqStart(p) \/ BeginOrJoinTx(p) \/ ExecRaw(p)
                              \/ DbOrTx(p) \/ WithTransaction(p) \/ SqCancel(p)
  BY DEF SqServe
<1>2. UNCHANGED <<sqPhase, sqFk, sqSchema, sqApplied, sqStep>> /\ SqUnmigrated
  BY <1>1 DEF SqStart, BeginOrJoinTx, ExecRaw, DbOrTx, WithTransaction, SqCancel, SqUnmigrated
<1>3. sqPhase = "serving" /\ sqFk = TRUE
  <2>1. sqPhase # "serving" => sqHold # p /\ sqTodo[p] = <<>> /\ sqCall[p] = "none"
    BY SqNobodyAssumption DEF SqInv
  <2> QED BY <1>1, <2>1
      DEF SqInv, SqStart, BeginOrJoinTx, ExecRaw, DbOrTx, WithTransaction, SqCancel
<1>4. /\ sqDb \in SqDatabase /\ sqWork \in SqDatabase /\ SqRefsResolve(sqDb) /\ SqRefsResolve(sqWork)
      /\ sqTodo \in [SqRequests -> Seq(SqStatements)]
      /\ sqCall \in [SqRequests -> DOMAIN SqBody \cup {"none"}]
      /\ sqHold \in SqRequests \cup {SqNobody}
  BY DEF SqInv, SqTypeOK
<1>5. sqTodo[p] # <<>> => Head(sqTodo[p]) \in SqStatements /\ Tail(sqTodo[p]) \in Seq(SqStatements)
  BY <1>4
<1>6. SUFFICES \/ SqInv'
               \/ /\ sqDb' \in SqDatabase /\ sqWork' \in SqDatabase
                  /\ SqRefsResolve(sqDb') /\ SqRefsResolve(sqWork')
                  /\ sqTodo' \in [SqRequests -> Seq(SqStatements)]
                  /\ sqCall' \in [SqRequests -> DOMAIN SqBody \cup {"none"}]
                  /\ sqHold' \in SqRequests \cup {SqNobody}
  <2> SUFFICES ASSUME sqDb' \in SqDatabase, sqWork' \in SqDatabase,
                      SqRefsResolve(sqDb'), SqRefsResolve(sqWork'),
                      sqTodo' \in [SqRequests -> Seq(SqStatements)],
                      sqCall' \in [SqRequests -> DOMAIN SqBody \cup {"none"}],
                      sqHold' \in SqRequests \cup {SqNobody}
               PROVE  SqInv'
    OBVIOUS
  <2>1. SqTypeOK'
    BY <1>2 DEF SqInv, SqTypeOK
  <2> QED BY <1>2, <1>3, <2>1 DEF SqInv, SqPending
<1>7. CASE SqStart(p)
  <2>1. PICK b \in DOMAIN SqBody : /\ sqCall' = [sqCall EXCEPT ![p] = b]
                                   /\ sqTodo' = [sqTodo EXCEPT ![p] = SqBody[b]]
    BY <1>7 DEF SqStart
  <2>2. SqBody[b] \in Seq(SqStatements)
    BY <2>1, BodiesAreStatements
  <2>3. UNCHANGED <<sqDb, sqWork, sqHold>>
    BY <1>7 DEF SqStart
  <2> QED BY <1>4, <2>1, <2>2, <2>3
<1>8. CASE BeginOrJoinTx(p)
  BY <1>4, <1>8 DEF BeginOrJoinTx
<1>9. CASE ExecRaw(p)
  <2>1. sqTodo[p] # <<>> /\ sqDb' = SqEffect(Head(sqTodo[p]), TRUE, sqDb).db /\ sqWork' = sqDb'
    BY <1>3, <1>9 DEF ExecRaw
  <2>2. sqDb' \in SqDatabase /\ SqRefsResolve(sqDb')
    BY <1>4, <1>5, <2>1, StatementKeepsReferences
  <2>3. sqTodo' = [sqTodo EXCEPT ![p] = Tail(sqTodo[p])] /\ UNCHANGED sqHold
    BY <1>9 DEF ExecRaw
  <2>4. sqTodo' \in [SqRequests -> Seq(SqStatements)]
    BY <1>4, <1>5, <2>1, <2>3
  <2>5. sqCall' \in [SqRequests -> DOMAIN SqBody \cup {"none"}]
    BY <1>4, <1>9 DEF ExecRaw
  <2> QED BY <1>4, <2>1, <2>2, <2>3, <2>4, <2>5
<1>10. CASE DbOrTx(p)
  <2> DEFINE r == SqEffect(Head(sqTodo[p]), TRUE, sqWork)
  <2>1. /\ sqTodo[p] # <<>>
        /\ \/ /\ sqWork' = r.db /\ sqTodo' = [sqTodo EXCEPT ![p] = Tail(sqTodo[p])]
              /\ UNCHANGED <<sqDb, sqHold, sqCall>>
           \/ RollbackTx(p)
    BY <1>3, <1>10 DEF DbOrTx
  <2>2. r.db \in SqDatabase /\ SqRefsResolve(r.db)
    BY <1>4, <1>5, <2>1, StatementKeepsReferences
  <2> HIDE DEF r
  <2>3. CASE RollbackTx(p)
    BY <1>2, <1>3, <2>3, RollbackKeeps
  <2>4. CASE /\ sqWork' = r.db /\ sqTodo' = [sqTodo EXCEPT ![p] = Tail(sqTodo[p])]
             /\ UNCHANGED <<sqDb, sqHold, sqCall>>
    BY <1>4, <1>5, <2>1, <2>2, <2>4
  <2> QED BY <2>1, <2>3, <2>4
<1>11. CASE WithTransaction(p)
  <2>1. sqTodo' \in [SqRequests -> Seq(SqStatements)]
    BY <1>4, <1>11 DEF WithTransaction, SqEnds
  <2> QED BY <1>4, <1>11, <2>1 DEF WithTransaction, SqReleased, SqEnds
<1>12. CASE SqCancel(p)
  <2>1. CASE RollbackTx(p)
    BY <1>2, <1>3, <2>1, RollbackKeeps
  <2>2. CASE SqEnds(p) /\ UNCHANGED <<sqDb, sqWork, sqHold>>
    <3>1. sqTodo' \in [SqRequests -> Seq(SqStatements)]
      BY <1>4, <2>2 DEF SqEnds
    <3> QED BY <1>4, <2>2, <3>1 DEF SqEnds
  <2> QED BY <1>12, <2>1, <2>2 DEF SqCancel
<1> QED BY <1>1, <1>7, <1>8, <1>9, <1>10, <1>11, <1>12

\* Start-up and migrations: a script keeps the references, and the pragma is on again
\* before the process serves.
LEMMA BootKeeps ==
    ASSUME SqInv, SqBoot
    PROVE  SqInv'
<1>1. CASE OpenSQLite
  <2>1. SqTypeOK'
    BY <1>1 DEF OpenSQLite, sqFileVars, sqConnVars, SqInv, SqTypeOK
  <2> QED BY <1>1, <2>1 DEF OpenSQLite, sqFileVars, sqConnVars, SqInv, SqPending
<1>2. CASE MigrateNext
  <2>1. sqFk' \in BOOLEAN
    BY <1>2 DEF MigrateNext, MigrationPragma
  <2>2. SqTypeOK'
    BY <1>2, <2>1 DEF MigrateNext, sqFileVars, sqConnVars, SqInv, SqTypeOK
  <2> QED BY <1>2, <2>2 DEF MigrateNext, sqFileVars, sqConnVars, SqInv, SqPending
<1>3. CASE ApplyMigration
  <2> DEFINE v == SqNextVersion
             d == MigrationScript(v, sqDb)
  <2>1. /\ sqPhase = "migrating" /\ sqStep = "tx" /\ sqDb' = d
        /\ sqSchema' = sqSchema \cup {v} /\ sqApplied' = sqApplied \cup {v}
        /\ sqHold' = SqNobody /\ sqWork' = d /\ sqFk' = TRUE /\ sqStep' = "idle"
        /\ UNCHANGED <<sqCall, sqTodo, sqPhase>>
    BY <1>3 DEF ApplyMigration, SqReleased, ReenableForeignKeys
  <2>2. v \in SqVersions
    BY <2>1, NextVersionIsPending DEF SqInv, SqPending
  <2>3. d \in SqDatabase /\ SqRefsResolve(d)
    <3>1. sqDb \in SqDatabase /\ SqRefsResolve(sqDb)
      BY DEF SqInv, SqTypeOK
    <3>2. d = sqDb \/ d = SqCascade(sqDb)
      BY DEF MigrationScript
    <3>3. SqCascade(sqDb) \in SqDatabase /\ SqRefsResolve(SqCascade(sqDb))
      <4> DEFINE e == SqCascade(sqDb)
      <4>1. /\ e \in SqDatabase /\ e.fam = "none" /\ e.rt = "none" /\ e.consent = FALSE
            /\ e.jti = FALSE /\ e.link = sqDb.link /\ e.res = sqDb.res
        BY <3>1 DEF SqDatabase, SqCascade
      <4> HIDE DEF e
      <4>2. SqRefsResolve(e)
        BY <3>1, <4>1, Zenon DEF SqRefsResolve
      <4> QED BY <4>1, <4>2 DEF e
    <3> QED BY <3>1, <3>2, <3>3
  <2> HIDE DEF v, d
  <2>4. SqTypeOK'
    BY <2>1, <2>2, <2>3 DEF SqInv, SqTypeOK
  <2> QED BY <2>1, <2>3, <2>4 DEF SqInv
<1>4. CASE MigrationFails
  <2>1. SqTypeOK'
    BY <1>4 DEF MigrationFails, ReenableForeignKeys, sqFileVars, sqConnVars, SqInv, SqTypeOK
  <2> QED BY <1>4, <2>1 DEF MigrationFails, ReenableForeignKeys, sqFileVars, sqConnVars, SqInv
<1>5. CASE MigrateDone
  <2>1. SqTypeOK'
    BY <1>5 DEF MigrateDone, sqFileVars, sqConnVars, SqInv, SqTypeOK
  <2> QED BY <1>5, <2>1 DEF MigrateDone, sqFileVars, sqConnVars, SqInv
<1> QED BY <1>1, <1>2, <1>3, <1>4, <1>5 DEF SqBoot

\* A crash loses what no transaction has committed.
LEMMA CrashKeeps ==
    ASSUME SqInv, SqCrash
    PROVE  SqInv'
<1>1. SqTypeOK'
  BY DEF SqCrash, SqReleased, SqInv, SqTypeOK
<1> QED BY <1>1 DEF SqCrash, SqReleased, SqInv

\* The inductive invariant of the connection, always.
LEMMA SqInvHolds == SqSpec => []SqInv
<1>1. SqInit => SqInv
  <2> SUFFICES ASSUME SqInit PROVE SqInv
    OBVIOUS
  <2>1. sqDb \in SqDatabase /\ SqRefsResolve(sqDb)
    <3> DEFINE e == [SqEmpty EXCEPT !.consent = TRUE, !.code = "consumed", !.fam = "active",
                                    !.rt = "live", !.jti = TRUE]
    <3>1. SqEmpty \in SqDatabase /\ SqRefsResolve(SqEmpty)
      BY DEF SqEmpty, SqDatabase, SqRefsResolve
    <3>2. e \in SqDatabase
      BY DEF SqEmpty, SqDatabase
    <3>3. e.user = TRUE /\ e.client = TRUE /\ e.res = TRUE /\ e.fam = "active"
      BY DEF SqEmpty
    <3>4. SqRefsResolve(e)
      BY <3>3 DEF SqRefsResolve
    <3> QED BY <3>1, <3>2, <3>4 DEF SqInit
  <2>2. SqTypeOK
    BY <2>1 DEF SqInit, SqTypeOK
  <2> QED BY <2>1, <2>2 DEF SqInit, SqInv
<1>2. SqInv /\ [SqNext]_sqVars => SqInv'
  <2>1. SqInv /\ UNCHANGED sqVars => SqInv'
    BY DEF sqVars, SqInv, SqTypeOK, SqPending
  <2> QED BY <2>1, ServeKeeps, BootKeeps, CrashKeeps DEF SqNext
<1> QED BY <1>1, <1>2, PTL DEF SqSpec

\* db.go: whatever migrations, transactions, cancellations and crashes interleave, no
\* committed row names a missing one.  For any number of requests and migrations.
THEOREM SchemaStaysSound == SqSpec => []SqSchemaSound
<1>1. SqInv => SqSchemaSound
  BY DEF SqInv, SqSchemaSound, SqReferencesHold
<1> QED BY <1>1, SqInvHolds, PTL

-----------------------------------------------------------------------------
(* UserDirectory: the user row is a register *)

\* A row that was read at some time: not newer than the row, and the row itself
\* if nothing was written since and nobody deleted it.
Read(r) ==
    /\ r.version <= row.version
    /\ row.status # "absent" /\ r.version = row.version => r = row

\* A request about to write passed the checks on the row it holds.
PassedChecks(p) ==
    \/ op[p] \in Edits /\ Allowed(p)
    \/ op[p] = "signIn" /\ copy[p].status = "active"

\* Whatever a request holds or a cache serves was read at some time.
ReadInv ==
    /\ \A p \in Requests :
          /\ Read(copy[p])
          /\ pc[p] # "idle" => at[p] \in Instances
          /\ pc[p] = "signIn" => op[p] = "signIn"
          /\ pc[p] = "write" => PassedChecks(p)
    /\ \A i \in Instances : cache[i] # None => Read(cache[i])

UserInv == TypeOK /\ ReadInv

-----------------------------------------------------------------------------
(* Types *)

\* The row a request writes back is a row.
LEMMA EditIsARow ==
    ASSUME TypeOK, NEW p \in Requests
    PROVE  /\ Edit(p) \in Rows
           /\ [Edit(p) EXCEPT !.version = row.version + 1] \in Rows
<1>1. Edit(p) \in Rows
  BY DEF TypeOK, Edit, Rows, Statuses
<1> QED BY <1>1 DEF TypeOK, Rows

\* Every variable keeps its type.
LEMMA UserTypeStep ==
    ASSUME UserInv, [Next]_vars
    PROVE  TypeOK'
<1> USE NoneAssumption DEF UserInv, TypeOK, Goto
<1>1. ASSUME NEW p \in Requests, Arrive(p) PROVE TypeOK'
  BY <1>1, OpsAssumption DEF Arrive
<1>2. ASSUME NEW p \in Requests, CacheLoad(p) PROVE TypeOK'
  <2>1. cache[at[p]] # None => cache[at[p]] \in Rows
    BY <1>2 DEF ReadInv, CacheLoad
  <2> QED BY <1>2, <2>1 DEF CacheLoad
<1>3. ASSUME NEW p \in Requests, CacheRead(p) PROVE TypeOK'
  BY <1>3 DEF CacheRead
<1>4. ASSUME NEW p \in Requests, CacheStore(p) PROVE TypeOK'
  BY <1>4 DEF CacheStore
<1>5. ASSUME NEW p \in Requests, UseRow(p) PROVE TypeOK'
  BY <1>5 DEF UseRow
<1>6. ASSUME NEW p \in Requests, SignIn(p) PROVE TypeOK'
  BY <1>6 DEF SignIn
<1>7. ASSUME NEW p \in Requests, WriteRow(p) PROVE TypeOK'
  BY <1>7, EditIsARow DEF WriteRow
<1>8. ASSUME NEW p \in Requests, Invalidate(p) PROVE TypeOK'
  BY <1>8 DEF Invalidate
<1>9. ASSUME NEW p \in Requests, DeleteRow(p) PROVE TypeOK'
  BY <1>9 DEF DeleteRow
<1>10. ASSUME NEW p \in Requests, DropEntry(p) PROVE TypeOK'
  BY <1>10 DEF DropEntry
<1>11. ASSUME NEW p \in Requests, DeleteCommit(p) PROVE TypeOK'
  BY <1>11 DEF DeleteCommit, Rows, Statuses
<1>12. ASSUME NEW i \in Instances, CacheExpire(i) PROVE TypeOK'
  BY <1>12 DEF CacheExpire
<1>13. CASE UNCHANGED vars
  BY <1>13 DEF vars
<1> QED BY <1>1, <1>2, <1>3, <1>4, <1>5, <1>6, <1>7, <1>8, <1>9, <1>10, <1>11, <1>12, <1>13
        DEF Next, Step, Quiescent

-----------------------------------------------------------------------------
(* Copies *)

\* While the row stands still, what was read stays read.
LEMMA ReadStays ==
    ASSUME UserInv, UNCHANGED row, NEW r \in Rows, Read(r)
    PROVE  Read(r)'
BY DEF Read

\* A write raises the version and a delete ends the row for good: either way
\* every copy becomes an old one.
LEMMA ReadAges ==
    ASSUME UserInv, NEW p \in Requests, WriteRow(p) \/ DeleteCommit(p),
           NEW r \in Rows, Read(r)
    PROVE  Read(r)'
<1> USE DEF UserInv, TypeOK, Read
<1>1. CASE DeleteCommit(p)
  BY <1>1 DEF DeleteCommit, Rows
<1>2. CASE WriteRow(p)
  <2>1. CASE Current(p)
    <3>1. row'.version = row.version + 1
      BY <1>2, <2>1, EditIsARow DEF WriteRow, Rows
    <3> QED BY <3>1 DEF Rows
  <2>2. CASE ~Current(p)
    BY <1>2, <2>2 DEF WriteRow
  <2> QED BY <2>1, <2>2
<1> QED BY <1>1, <1>2

\* Every copy, held by a request or by a cache, was read at some time, and the
\* checks of a writer were made on its own copy.
LEMMA ReadStep ==
    ASSUME UserInv, [Next]_vars
    PROVE  ReadInv'
<1> USE NoneAssumption DEF UserInv, TypeOK, ReadInv, Goto
<1>1. ASSUME NEW p \in Requests, Arrive(p) PROVE ReadInv'
  BY <1>1 DEF Arrive, Read, PassedChecks, Allowed
<1>2. ASSUME NEW p \in Requests, CacheLoad(p) PROVE ReadInv'
  BY <1>2 DEF CacheLoad, Read, PassedChecks, Allowed
<1>3. ASSUME NEW p \in Requests, CacheRead(p) PROVE ReadInv'
  BY <1>3 DEF CacheRead, Read, PassedChecks, Allowed, Rows
<1>4. ASSUME NEW p \in Requests, CacheStore(p) PROVE ReadInv'
  BY <1>4 DEF CacheStore, Read, PassedChecks, Allowed
<1>5. ASSUME NEW p \in Requests, UseRow(p) PROVE ReadInv'
  BY <1>5 DEF UseRow, Read, PassedChecks, Allowed
<1>6. ASSUME NEW p \in Requests, SignIn(p) PROVE ReadInv'
  BY <1>6 DEF SignIn, Read, PassedChecks, Allowed, Rows
<1>7. ASSUME NEW p \in Requests, WriteRow(p) \/ DeleteCommit(p) PROVE ReadInv'
  <2>1. /\ UNCHANGED <<op, at, copy, cache>>
        /\ \A q \in Requests : pc'[q] = "write" => pc[q] = "write"
        /\ \A q \in Requests : pc'[q] # "idle" => pc[q] # "idle"
        /\ \A q \in Requests : pc'[q] = "signIn" => pc[q] = "signIn"
    BY <1>7 DEF WriteRow, DeleteCommit
  <2>2. \A q \in Requests : Read(copy[q])'
    BY <1>7, <2>1, ReadAges
  <2>3. \A i \in Instances : cache'[i] # None => Read(cache[i])'
    BY <1>7, <2>1, ReadAges
  <2>4. \A q \in Requests : pc'[q] = "write" => PassedChecks(q)'
    BY <2>1 DEF PassedChecks, Allowed
  <2>5. \A q \in Requests : /\ pc'[q] # "idle" => at'[q] \in Instances
                            /\ pc'[q] = "signIn" => op'[q] = "signIn"
    BY <2>1
  <2> QED BY <2>2, <2>3, <2>4, <2>5
<1>8. ASSUME NEW p \in Requests, Invalidate(p) PROVE ReadInv'
  BY <1>8 DEF Invalidate, Read, PassedChecks, Allowed
<1>9. ASSUME NEW p \in Requests, DeleteRow(p) PROVE ReadInv'
  BY <1>9 DEF DeleteRow, Read, PassedChecks, Allowed
<1>10. ASSUME NEW p \in Requests, DropEntry(p) PROVE ReadInv'
  BY <1>10 DEF DropEntry, Read, PassedChecks, Allowed
<1>11. ASSUME NEW i \in Instances, CacheExpire(i) PROVE ReadInv'
  BY <1>11 DEF CacheExpire, Read, PassedChecks, Allowed
<1>12. CASE UNCHANGED vars
  BY <1>12 DEF vars, Read, PassedChecks, Allowed
<1> QED BY <1>1, <1>2, <1>3, <1>4, <1>5, <1>6, <1>7, <1>8, <1>9, <1>10, <1>11, <1>12
        DEF Next, Step, Quiescent

-----------------------------------------------------------------------------
(* The refinement *)

\* The row written back is the current row with one operation applied, so a
\* write is one operation on the register, or none.
LEMMA UserWriteIsOneOperation ==
    ASSUME UserInv, NEW p \in Requests, WriteRow(p)
    PROVE  [Register!Next]_(Register!regVars)
<1> USE DEF UserInv, TypeOK, Rows, Register!regVars
<1>1. CASE ~Current(p)
  BY <1>1 DEF WriteRow
<1>2. CASE Current(p)
  <2>1. /\ copy[p] = row /\ PassedChecks(p) /\ row.status # "absent"
        /\ row' = [Edit(p) EXCEPT !.version = row.version + 1]
    BY <1>2 DEF WriteRow, ReadInv, Read, Current
  <2>2. CASE op[p] = "disable"
    <3>1. row.status = "active" /\ row'.status = "disabled" /\ row'.profile = row.profile
      BY <2>1, <2>2 DEF Edit, PassedChecks, Allowed
    <3>2. Register!Move(<<"active", "disabled">>)
      BY <3>1 DEF Register!Move
    <3> QED BY <3>2 DEF Register!Next
  <2>3. CASE op[p] = "enable"
    <3>1. row.status = "disabled" /\ row'.status = "active" /\ row'.profile = row.profile
      BY <2>1, <2>3 DEF Edit, PassedChecks, Allowed
    <3>2. Register!Move(<<"disabled", "active">>)
      BY <3>1 DEF Register!Move
    <3> QED BY <3>2 DEF Register!Next
  <2>4. CASE op[p] \notin {"disable", "enable"}
    <3>1. row'.status = row.status /\ row'.profile = p
      BY <2>1, <2>4 DEF Edit
    <3>2. Register!Write("profile", p)
      BY <2>1, <3>1 DEF Register!Write
    <3> QED BY <3>2 DEF Register!Next
  <2> QED BY <2>2, <2>3, <2>4
<1> QED BY <1>1, <1>2

\* Every step of requests and caches is one operation on the register, or none.
LEMMA UserStepSimulates ==
    ASSUME UserInv, [Next]_vars
    PROVE  [Register!Next]_(Register!regVars)
<1>1. ASSUME NEW p \in Requests, WriteRow(p) PROVE [Register!Next]_(Register!regVars)
  BY <1>1, UserWriteIsOneOperation
<1>2. ASSUME NEW p \in Requests, DeleteCommit(p) PROVE [Register!Next]_(Register!regVars)
  <2>1. Register!Remove
    BY <1>2 DEF DeleteCommit, Register!Remove, UserInv, TypeOK, Rows
  <2> QED BY <2>1 DEF Register!Next
<1>3. CASE UNCHANGED row
  BY <1>3 DEF Register!regVars
<1>4. ASSUME NEW p \in Requests,
             Arrive(p) \/ CacheLoad(p) \/ CacheRead(p) \/ CacheStore(p) \/ UseRow(p)
               \/ SignIn(p) \/ Invalidate(p) \/ DeleteRow(p) \/ DropEntry(p)
      PROVE  UNCHANGED row
  BY <1>4 DEF Arrive, CacheLoad, CacheRead, CacheStore, UseRow, SignIn, Invalidate,
              DeleteRow, DropEntry
<1>5. ASSUME NEW i \in Instances, CacheExpire(i) PROVE UNCHANGED row
  BY <1>5 DEF CacheExpire
<1>6. UNCHANGED vars => UNCHANGED row
  BY DEF vars
<1> QED BY <1>1, <1>2, <1>3, <1>4, <1>5, <1>6 DEF Next, Step, Quiescent

\* The users row is a register: however late the caches of the instances serve
\* it, no sign-in and no edit writes an old row over a newer one, undoes a
\* disable or brings a deleted user back (cachedUserStore, UserStore.Update).
THEOREM UserRowRefinesRegister == Spec => UserRowIsARegister
<1>1. Init => UserInv
  BY NoneAssumption DEF Init, NewRow, UserInv, TypeOK, Rows, Statuses, ReadInv, Read
<1>2. UserInv /\ [Next]_vars => UserInv'
  BY UserTypeStep, ReadStep DEF UserInv
<1>3. Init => Register!Init
  BY DEF Init, NewRow, Register!Init
<1>4. UserInv /\ [Next]_vars => [Register!Next]_(Register!regVars)
  BY UserStepSimulates
<1> QED BY <1>1, <1>2, <1>3, <1>4, PTL DEF Spec, UserRowIsARegister, Register!Spec

-----------------------------------------------------------------------------
(* SQLiteDirectory: rows that are read, held and written back *)

DrUser == [id : DirIds, email : DirKeys \cup {DirNull}, sub : DirKeys \cup {DirEmpty}, ver : Nat]
DrClient == [id : DirIds, url : DirKeys \cup {DirEmpty}, status : {"active", "suspended"},
             agent : BOOLEAN, ver : Nat]
DrConsent == [id : DirIds, user : DirIds, client : DirIds, res : DirIds, scopes : DirVals,
              revoked : BOOLEAN]
DrGrant == [id : DirIds, user : DirIds, provider : DirIds, cred : DirVals, ver : Nat,
            revoked : BOOLEAN]

\* The tables that the properties are about have rows of their columns.
DrTables ==
    /\ dir = [t \in DirTables |-> dir[t]]
    /\ dir["users"] \subseteq DrUser /\ dir["clients"] \subseteq DrClient
    /\ dir["consents"] \subseteq DrConsent /\ dir["bgrants"] \subseteq DrGrant

\* The indices and the references of the schema hold.
DrKeyed == (\A t \in DirTables : UniqueHolds(t, dir[t])) /\ ForeignKeysHold(dir)

\* The themes that have grants.
DrThemes ==
    /\ dirTheme # "consents" => dir["consents"] = {}
    /\ dirTheme # "brokers" => dir["bgrants"] = {}

\* Users and clients have ids that were drawn.
DrIssued == \A t \in {"users", "clients"} : dirTheme = t => \A r \in dir[t] : r.id \in dirDrawn

DrRow(t) == IF t = "users" THEN DrUser ELSE DrClient

\* What a caller that reads row r gets.
DrScan(t, r) == IF t = "users" THEN ScanUser(r) ELSE r

\* A copy of a row: the row has the version of the copy and is what was read, or has a
\* later one; when the row is deleted, its id is not drawn again.
DrCopy(t, c) ==
    /\ dirTheme = t /\ c.id \in dirDrawn
    /\ \A r \in dir[t] : r.id = c.id =>
          c.ver \in Nat /\ c.ver <= r.ver /\ (c.ver = r.ver => c = DrScan(t, r))

DrCopies ==
    /\ dirHeld = [p \in DirProcs |-> dirHeld[p]]
    /\ \A p \in DirProcs, t \in {"users", "clients"} : Holds(p, t) => DrCopy(t, dirHeld[p].row)

\* The inductive invariant of the directory.
DrInv == DrTables /\ DrKeyed /\ DrThemes /\ DrIssued /\ DrCopies

\* The steps that the three parts of DirectoryEditsSound allow.
DrEdits ==
    \A t \in {"users", "clients"} : \A r \in dir[t] :
        (\E q \in dir'[t] : q.id = r.id /\ q # r) =>
            \E p \in DirProcs : /\ dirHeld[p] # DirNull /\ dirHeld'[p] = DirNull
                                /\ dirHeld[p].row = IF t = "users" THEN ScanUser(r) ELSE r

DrWritesBack ==
    \A g \in dir.bgrants : g.revoked /\ dirHeld' # dirHeld =>
        \A h \in dir'.bgrants : h.id = g.id => h.revoked

DrKeepsIds ==
    \A t \in {"consents", "bgrants"} : \A g \in dir[t] :
        (\E u \in dir'.users : u.id = g.user) =>
            \E h \in dir'[t] : h.id = g.id /\ h.user = g.user

-----------------------------------------------------------------------------
\* A subset of rows without duplicates has none.
LEMMA DrFewerRows ==
    ASSUME NEW t, NEW rows, NEW some, some \subseteq rows, UniqueHolds(t, rows)
    PROVE  UniqueHolds(t, some)
BY DEF UniqueHolds

\* The index on the id.
LEMMA DrOneRow ==
    ASSUME NEW t, NEW rows, UniqueHolds(t, rows), NEW r \in rows, NEW q \in rows, r.id = q.id
    PROVE  r = q
<1>1. <<"id", r.id>> \in UniqueKeys(t, r) /\ <<"id", q.id>> \in UniqueKeys(t, q)
  BY DEF UniqueKeys
<1> QED BY <1>1, Zenon DEF UniqueHolds

\* A statement on table t takes no other table a row more, and leaves the indices and
\* the references whole.
LEMMA DrExecutes ==
    ASSUME DrKeyed, dir = [c \in DirTables |-> dir[c]],
           NEW t \in DirTables, NEW rows, Execute(t, rows)
    PROVE  /\ dir' = [c \in DirTables |-> dir'[c]] /\ DrKeyed'
           /\ dir'[t] \subseteq rows
           /\ \A c \in DirTables \ {t} : dir'[c] \subseteq dir[c]
<1> DEFINE d == [dir EXCEPT ![t] = rows]
           swept == [c \in DirTables |->
                       {r \in d[c] : \A ref \in References(c, r) :
                           <<ref[1], c>> \in DirCascading => Resolves(d, ref)}]
           e == IF rows \subseteq dir[t] THEN swept ELSE d
<1>1. UniqueHolds(t, rows) /\ ForeignKeysHold(e) /\ dir' = e
  BY Zenon DEF Execute
<1>2. /\ d[t] = rows /\ (\A c \in DirTables \ {t} : d[c] = dir[c])
      /\ d = [c \in DirTables |-> d[c]]
  OBVIOUS
<1>3. /\ e = [c \in DirTables |-> e[c]]
      /\ \A c \in DirTables : e[c] \subseteq d[c]
  <2> HIDE DEF d
  <2>1. swept = [c \in DirTables |-> swept[c]] /\ \A c \in DirTables : swept[c] \subseteq d[c]
    OBVIOUS
  <2> HIDE DEF swept
  <2> QED BY <1>2, <2>1
<1>4. /\ e[t] \subseteq rows
      /\ \A c \in DirTables \ {t} : e[c] \subseteq dir[c]
  BY <1>2, <1>3
<1>5. \A c \in DirTables : UniqueHolds(c, e[c])
  BY <1>1, <1>4, DrFewerRows DEF DrKeyed
<1> HIDE DEF e, d, swept
<1> QED BY <1>1, <1>3, <1>4, <1>5 DEF DrKeyed

\* A statement on a table from which nothing cascades writes that table and no other.
LEMMA DrWrites ==
    ASSUME DrKeyed, dir = [c \in DirTables |-> dir[c]],
           NEW t \in DirTables \ {"idps", "users", "clients"}, NEW rows, Execute(t, rows)
    PROVE  dir'[t] = rows /\ \A c \in DirTables \ {t} : dir'[c] = dir[c]
<1> DEFINE d == [dir EXCEPT ![t] = rows]
           swept == [c \in DirTables |->
                       {r \in d[c] : \A ref \in References(c, r) :
                           <<ref[1], c>> \in DirCascading => Resolves(d, ref)}]
<1>1. d[t] = rows /\ (\A c \in DirTables \ {t} : d[c] = dir[c])
  OBVIOUS
<1>2. dir' = IF rows \subseteq dir[t] THEN swept ELSE d
  BY Zenon DEF Execute
<1>3. CASE rows \subseteq dir[t]
  <2>1. ASSUME NEW c \in DirTables, NEW r \in d[c], NEW ref \in References(c, r),
               <<ref[1], c>> \in DirCascading
        PROVE  Resolves(d, ref)
    <3>1. r \in dir[c]
      BY <1>1, <1>3
    <3>2. Resolves(dir, ref)
      BY <3>1, <2>1 DEF DrKeyed, ForeignKeysHold
    <3>3. ref[1] \in {"idps", "users", "clients"}
      BY <2>1 DEF DirCascading
    <3>4. d[ref[1]] = dir[ref[1]]
      BY <3>3, <1>1 DEF DirTables
    <3> QED BY <3>2, <3>4 DEF Resolves
  <2> HIDE DEF d
  <2>2. \A c \in DirTables : swept[c] = d[c]
    BY <2>1
  <2> QED BY <1>1, <1>2, <1>3, <2>2
<1>4. CASE ~(rows \subseteq dir[t])
  BY <1>1, <1>2, <1>4
<1> QED BY <1>3, <1>4

\* A statement on users or clients.  It writes its table, leaves the other of the two
\* alone, and takes the grants with it whose user or client is gone.
LEMMA DrCascades ==
    ASSUME DrKeyed, dir = [c \in DirTables |-> dir[c]],
           NEW t \in {"users", "clients"}, NEW rows, Execute(t, rows)
    PROVE  /\ dir'[t] = rows
           /\ \A c \in {"users", "clients"} \ {t} : dir'[c] = dir[c]
           /\ t = "users" => \A c \in {"consents", "bgrants"} : \A g \in dir[c] :
                 (\E u \in rows : u.id = g.user) => g \in dir'[c]
<1> DEFINE d == [dir EXCEPT ![t] = rows]
           swept == [c \in DirTables |->
                       {r \in d[c] : \A ref \in References(c, r) :
                           <<ref[1], c>> \in DirCascading => Resolves(d, ref)}]
<1>0. t \in DirTables
  BY DEF DirTables
<1>1. d[t] = rows /\ (\A c \in DirTables \ {t} : d[c] = dir[c])
  BY <1>0
<1>2. dir' = IF rows \subseteq dir[t] THEN swept ELSE d
  BY Zenon DEF Execute
<1>3. {"users", "clients", "consents", "bgrants"} \subseteq DirTables
  BY DEF DirTables
<1>4. \A c \in {"users", "clients"} : swept[c] = d[c]
  <2>1. \A c \in {"users", "clients"} : \A r : References(c, r) = {}
    BY DEF References
  <2> HIDE DEF d
  <2> QED BY <1>3, <2>1
<1>5. ASSUME t = "users", NEW c \in {"consents", "bgrants"}, NEW g \in dir[c],
             NEW u \in rows, u.id = g.user
      PROVE  g \in swept[c]
  <2>1. g \in d[c] /\ c \in DirTables
    BY <1>1, <1>3, <1>5
  <2>2. ASSUME NEW ref \in References(c, g), <<ref[1], c>> \in DirCascading
        PROVE  Resolves(d, ref)
    <3>1. CASE ref[1] = "users"
      <4>1. ref = <<"users", "id", g.user>>
        BY <2>2, <3>1 DEF References
      <4>2. u \in d["users"] /\ u["id"] = g.user
        BY <1>1, <1>5
      <4> QED BY <4>1, <4>2 DEF Resolves
    <3>2. CASE ref[1] # "users"
      <4>1. ref[1] = "clients"
        BY <2>2, <3>2 DEF DirCascading
      <4>2. Resolves(dir, ref)
        BY <1>3, <2>2 DEF DrKeyed, ForeignKeysHold
      <4>3. d[ref[1]] = dir[ref[1]]
        BY <1>1, <1>3, <1>5, <4>1
      <4> QED BY <4>2, <4>3 DEF Resolves
    <3> QED BY <3>1, <3>2
  <2> HIDE DEF d
  <2> QED BY <2>1, <2>2
<1>6. ASSUME t = "users", NEW c \in {"consents", "bgrants"}, NEW g \in dir[c]
      PROVE  g \in d[c]
  BY <1>1, <1>3, <1>6
<1> HIDE DEF d, swept
<1>7. CASE rows \subseteq dir[t]
  BY <1>0, <1>1, <1>2, <1>3, <1>4, <1>5, <1>7
<1>8. CASE ~(rows \subseteq dir[t])
  BY <1>0, <1>1, <1>2, <1>3, <1>6, <1>8
<1> QED BY <1>7, <1>8

-----------------------------------------------------------------------------
\* A caller keeps a copy, or lets go of it.
LEMMA DrKeep ==
    ASSUME dirHeld = [q \in DirProcs |-> dirHeld[q]], NEW p \in DirProcs, NEW t, NEW r,
           Keep(p, t, r)
    PROVE  /\ dirHeld' = [q \in DirProcs |-> dirHeld'[q]] /\ dirHeld'[p] = [t |-> t, row |-> r]
           /\ \A q \in DirProcs \ {p} : dirHeld'[q] = dirHeld[q]
BY DEF Keep

\* The caller forgets its copy once the write back has answered.
LEMMA DrRelease ==
    ASSUME dirHeld = [q \in DirProcs |-> dirHeld[q]], NEW p \in DirProcs, Release(p)
    PROVE  /\ dirHeld' = [q \in DirProcs |-> dirHeld'[q]] /\ dirHeld'[p] = DirNull
           /\ \A q \in DirProcs \ {p} : dirHeld'[q] = dirHeld[q]
BY DEF Release

\* Nobody reads a user or a client.
DrNoCopies ==
    /\ dirHeld' = [p \in DirProcs |-> dirHeld'[p]]
    /\ \A p \in DirProcs, t \in {"users", "clients"} :
          dirHeld'[p] # DirNull /\ dirHeld'[p].t = t => dirHeld'[p] = dirHeld[p]

\* The calls after which nobody holds another copy of a user or a client than before.
LEMMA DrHolders ==
    ASSUME DrCopies
    PROVE  /\ Stateless => DrNoCopies
           /\ \A p \in DirProcs : Release(p) => DrNoCopies
           /\ \A p \in DirProcs, t \in DirTables \ {"users", "clients"} :
                 \A r : Keep(p, t, r) => DrNoCopies
<1>0. dirHeld = [p \in DirProcs |-> dirHeld[p]]
  BY DEF DrCopies
<1>1. Stateless => DrNoCopies
  BY <1>0 DEF Stateless, DrNoCopies
<1>2. ASSUME NEW p \in DirProcs, Release(p) PROVE DrNoCopies
  BY <1>0, <1>2, DrRelease DEF DrNoCopies
<1>3. ASSUME NEW p \in DirProcs, NEW t \in DirTables \ {"users", "clients"}, NEW r, Keep(p, t, r)
      PROVE  DrNoCopies
  <2>1. /\ dirHeld' = [q \in DirProcs |-> dirHeld'[q]] /\ dirHeld'[p] = [t |-> t, row |-> r]
        /\ \A q \in DirProcs \ {p} : dirHeld'[q] = dirHeld[q]
    BY <1>0, <1>3, DrKeep
  <2>2. dirHeld'[p].t = t
    BY <2>1
  <2> QED BY <2>1, <2>2 DEF DrNoCopies
<1> QED BY <1>1, <1>2, <1>3

\* The steps that the theorem allows, and the invariant after them.
DrGood == DrInv' /\ DrEdits /\ DrWritesBack /\ DrKeepsIds

\* A step that adds and edits no user and no client.
LEMMA DrCalm ==
    ASSUME DrInv, UNCHANGED <<dirTheme, dirDrawn>>, DrNoCopies,
           dir'["users"] \subseteq dir["users"], dir'["clients"] \subseteq dir["clients"]
    PROVE  DrIssued' /\ DrCopies' /\ DrEdits
<1>1. DrIssued'
  BY DEF DrInv, DrIssued
<1>2. ASSUME NEW p \in DirProcs, NEW t \in {"users", "clients"}, Holds(p, t)'
      PROVE  DrCopy(t, dirHeld[p].row)' 
  <2>1. dirHeld'[p] = dirHeld[p] /\ dirHeld[p] # DirNull /\ dirHeld[p].t = t
    BY <1>2 DEF Holds, DrNoCopies
  <2>2. DrCopy(t, dirHeld[p].row)
    BY <2>1 DEF DrInv, DrCopies, Holds
  <2> QED BY <2>1, <2>2 DEF DrCopy
<1>3. DrCopies'
  BY <1>2 DEF DrCopies, DrNoCopies
<1>4. DrEdits
  <2> SUFFICES ASSUME NEW t \in {"users", "clients"}, NEW r \in dir[t], NEW q \in dir'[t],
                      q.id = r.id, q # r
               PROVE  FALSE
    BY DEF DrEdits
  <2>1. q \in dir[t] /\ UniqueHolds(t, dir[t])
    BY DEF DrInv, DrKeyed, DirTables
  <2> QED BY <2>1, DrOneRow
<1> QED BY <1>1, <1>3, <1>4

\* Where the connections stay or go, no write brings one back.
LEMMA DrNoReconnect ==
    ASSUME DrInv, dir'["bgrants"] \subseteq dir["bgrants"]
    PROVE  DrWritesBack
<1> SUFFICES ASSUME NEW g \in dir["bgrants"], g.revoked, NEW h \in dir'["bgrants"], h.id = g.id
             PROVE  h.revoked
  BY DEF DrWritesBack
<1>1. UniqueHolds("bgrants", dir["bgrants"])
  BY DEF DrInv, DrKeyed, DirTables
<1>2. h = g
  BY <1>1, DrOneRow
<1> QED BY <1>2

\* A statement on a table of configuration, where there are no grants.
LEMMA DrAside ==
    ASSUME DrInv, dirTheme \notin {"consents", "brokers"},
           UNCHANGED <<dirTheme, dirDrawn>>, DrNoCopies,
           NEW t \in DirTables \ {"users", "clients", "consents", "bgrants"}, NEW rows,
           Execute(t, rows)
    PROVE  DrGood
<1>1. /\ dir' = [c \in DirTables |-> dir'[c]] /\ DrKeyed'
      /\ \A c \in DirTables \ {t} : dir'[c] \subseteq dir[c]
  BY DrExecutes DEF DrInv, DrTables
<1>2. \A c \in {"users", "clients", "consents", "bgrants"} : dir'[c] \subseteq dir[c]
  BY <1>1 DEF DirTables
<1>3. DrTables'
  BY <1>1, <1>2 DEF DrInv, DrTables
<1>4. DrThemes'
  BY <1>2 DEF DrInv, DrThemes
<1>5. DrIssued' /\ DrCopies' /\ DrEdits
  BY <1>2, DrCalm
<1>6. DrWritesBack
  BY <1>2, DrNoReconnect
<1>7. DrKeepsIds
  BY DEF DrInv, DrThemes, DrKeepsIds
<1> QED BY <1>1, <1>3, <1>4, <1>5, <1>6, <1>7 DEF DrGood, DrInv

\* A read of anything but a user or a client, or a step that does nothing.
LEMMA DrReads ==
    ASSUME DrInv, UNCHANGED <<dirTheme, dirDrawn, dir>>, DrNoCopies
    PROVE  DrGood
<1>1. DrTables' /\ DrThemes'
  BY DEF DrInv, DrTables, DrThemes
<1>2. DrKeyed'
  BY DEF DrInv, DrKeyed
<1>3. DrIssued' /\ DrCopies' /\ DrEdits
  BY DrCalm
<1>4. DrWritesBack
  BY DrNoReconnect
<1>5. DrKeepsIds
  BY DEF DrKeepsIds
<1> QED BY <1>1, <1>2, <1>3, <1>4, <1>5 DEF DrGood, DrInv

-----------------------------------------------------------------------------
\* settings.go, trusted_idp.go, xaa_policy.go, subject_mapping.go
LEMMA DrTrustStep ==
    ASSUME DrInv, SettingsNext \/ TrustNext
    PROVE  DrGood
<1>1. /\ dirTheme \notin {"consents", "brokers"} /\ UNCHANGED <<dirTheme, dirDrawn>>
      /\ Stateless
  BY DEF SettingsNext, TrustNext, Theme, NoneDrawn
<1>2. DrNoCopies
  BY <1>1, DrHolders DEF DrInv
<1>3. \E t \in {"settings", "idps", "policies", "mappings"} : \E rows : Execute(t, rows)
  <2>1. CASE SettingsNext
    BY <2>1, Zenon DEF SettingsNext, SettingSet
  <2>2. CASE TrustNext
    BY <2>2, Zenon DEF TrustNext, IDPSave, PolicySave, MappingSave, SaveById, IDPDelete,
                       PolicyDelete, MappingDelete, RemoveRows
  <2> QED BY <2>1, <2>2
<1>4. {"settings", "idps", "policies", "mappings"} \subseteq
          DirTables \ {"users", "clients", "consents", "bgrants"}
  BY DEF DirTables
<1> QED BY <1>1, <1>2, <1>3, <1>4, DrAside

\* resource_store.go, broker_provider_store.go, fronting_link_store.go
LEMMA DrRegistryStep ==
    ASSUME DrInv, RegistryNext \/ ProviderNext
    PROVE  DrGood
<1>1. dirTheme \notin {"consents", "brokers"} /\ UNCHANGED <<dirTheme, dirDrawn>>
  BY DEF RegistryNext, ProviderNext, Theme, NoneDrawn
<1>2. {"resources", "providers", "links"} \subseteq
          DirTables \ {"users", "clients", "consents", "bgrants"}
  BY DEF DirTables
<1>3. \/ \E p \in DirProcs : \E t \in {"resources", "providers"} :
            UNCHANGED dir /\ \E r : Keep(p, t, r)
      \/ /\ Stateless \/ \E p \in DirProcs : Release(p)
         /\ \E t \in {"resources", "providers", "links"} : \E rows : Execute(t, rows)
  <2>1. CASE RegistryNext
    BY <2>1, Zenon DEF RegistryNext, Reads, ResourceGetByID, ResourceUpdate, ResourceCreate,
       ResourceDelete, LinkCreate, LinkDelete, LinkUpdate, LinkDeleteForResource, Insert,
       Replace, RemoveRows
  <2>2. CASE ProviderNext
    BY <2>2, Zenon DEF ProviderNext, Reads, ProviderGetByID, ProviderUpdate, ProviderCreate,
       ProviderDelete, ResourceCreate, ResourceDelete, Insert, Replace, RemoveRows
  <2> QED BY <2>1, <2>2
<1>4. DrNoCopies
  BY <1>2, <1>3, DrHolders DEF DrInv
<1> QED BY <1>1, <1>2, <1>3, <1>4, DrAside, DrReads

-----------------------------------------------------------------------------
\* What a step on the table of the theme, users or clients, starts from.
DrAbout(t) ==
    /\ dirTheme = t /\ dirTheme' = t
    /\ dir = [c \in DirTables |-> dir[c]] /\ dirHeld = [q \in DirProcs |-> dirHeld[q]]
    /\ DrKeyed /\ UniqueHolds(t, dir[t]) /\ dir[t] \subseteq DrRow(t)
    /\ \A r \in dir[t] : r.id \in dirDrawn

\* What the invariant says about the table of the theme.
LEMMA DrStarts ==
    ASSUME DrInv, NEW t \in {"users", "clients"}, Theme(t)
    PROVE  DrAbout(t)
BY DEF Theme, DrInv, DrTables, DrKeyed, DrCopies, DrIssued, DirTables, DrAbout, DrRow

\* What is read of a row has its id and its version.
LEMMA DrScanned ==
    ASSUME NEW t \in {"users", "clients"}, NEW r \in DrRow(t)
    PROVE  DrScan(t, r).id = r.id /\ DrScan(t, r).ver = r.ver /\ r.ver \in Nat
BY DEF DrRow, DrUser, DrClient, ScanUser, DrScan

\* GetByID: a copy is taken of a row.
LEMMA DrReadRow ==
    ASSUME DrInv, NEW t \in {"users", "clients"}, DrAbout(t), NEW p \in DirProcs,
           NEW r \in dir[t], UNCHANGED <<dirDrawn, dir>>, Keep(p, t, DrScan(t, r))
    PROVE  DrGood
<1> DEFINE c == DrScan(t, r)
<1>1. /\ dirHeld' = [q \in DirProcs |-> dirHeld'[q]] /\ dirHeld'[p] = [t |-> t, row |-> c]
      /\ \A q \in DirProcs \ {p} : dirHeld'[q] = dirHeld[q]
  BY DrKeep DEF DrAbout
<1>2. UNCHANGED dirTheme
  BY DEF DrAbout
<1>3. DrTables' /\ DrThemes' /\ DrIssued'
  BY <1>2 DEF DrInv, DrTables, DrThemes, DrIssued
<1>4. DrKeyed'
  BY DEF DrInv, DrKeyed
<1>5. c.id = r.id /\ c.ver = r.ver /\ r.ver \in Nat
  BY DrScanned DEF DrAbout
<1>6. \A q \in dir[t] : q.id = c.id => q = r
  BY <1>5, DrOneRow DEF DrAbout
<1>7. DrCopy(t, c)'
  <2>1. \A q \in dir[t] : q.id = c.id => c.ver \in Nat /\ c.ver <= q.ver /\ c = DrScan(t, q)
    BY <1>5, <1>6
  <2>2. c.id \in dirDrawn /\ dirTheme = t
    BY <1>5 DEF DrAbout
  <2> HIDE DEF c
  <2> QED BY <1>2, <2>1, <2>2 DEF DrCopy
<1> HIDE DEF c
<1>8. ASSUME NEW q \in DirProcs, NEW u \in {"users", "clients"}, Holds(q, u)'
      PROVE  DrCopy(u, dirHeld[q].row)'
  <2>1. CASE q = p
    <3>1. dirHeld'[q].t = t /\ dirHeld'[q].row = c
      BY <1>1, <2>1
    <3> QED BY <1>7, <1>8, <3>1 DEF Holds
  <2>2. CASE q # p
    <3>1. dirHeld'[q] = dirHeld[q]
      BY <1>1, <2>2
    <3>2. DrCopy(u, dirHeld[q].row)
      BY <1>8, <3>1 DEF Holds, DrInv, DrCopies
    <3> QED BY <1>2, <3>1, <3>2 DEF DrCopy
  <2> QED BY <2>1, <2>2
<1>9. DrCopies'
  BY <1>1, <1>8 DEF DrCopies
<1>10. DrEdits
  <2> SUFFICES ASSUME NEW u \in {"users", "clients"}, NEW a \in dir[u], NEW q \in dir'[u],
                      q.id = a.id, q # a
               PROVE  FALSE
    BY DEF DrEdits
  <2>1. q \in dir[u] /\ UniqueHolds(u, dir[u])
    BY DEF DrInv, DrKeyed, DirTables
  <2> QED BY <2>1, DrOneRow
<1>11. DrWritesBack
  BY DrNoReconnect
<1>12. DrKeepsIds
  BY DEF DrKeepsIds
<1> QED BY <1>3, <1>4, <1>9, <1>10, <1>11, <1>12 DEF DrGood, DrInv

\* Rows are written.  One that was not there has a new id, or was written from the copy
\* of the row that it replaces, and has a later version.
DrWritten(t, rows) ==
    \A q \in rows \ dir[t] :
        \/ q.id \notin dirDrawn
        \/ \E p \in DirProcs, r \in dir[t] :
              /\ r.id = q.id /\ r.ver < q.ver
              /\ dirHeld[p] # DirNull /\ dirHeld'[p] = DirNull
              /\ dirHeld[p].row = DrScan(t, r)

\* A statement on users or clients that DrWritten allows keeps the invariant.
LEMMA DrWriteRows ==
    ASSUME DrInv, NEW t \in {"users", "clients"}, DrAbout(t),
           NEW rows, Execute(t, rows), rows \subseteq DrRow(t), DrWritten(t, rows),
           dirHeld' = [q \in DirProcs |-> dirHeld'[q]],
           \A q \in DirProcs : dirHeld'[q] # DirNull => dirHeld'[q] = dirHeld[q],
           \A r \in rows : r.id \in dirDrawn', dirDrawn \subseteq dirDrawn'
    PROVE  DrGood
<1>1. /\ dir' = [c \in DirTables |-> dir'[c]] /\ DrKeyed'
      /\ \A c \in DirTables \ {t} : dir'[c] \subseteq dir[c]
  BY DrExecutes DEF DirTables, DrAbout
<1>2. dir'[t] = rows
  BY DrCascades DEF DrAbout
<1>3. \A c \in {"users", "clients", "consents", "bgrants"} \ {t} : dir'[c] \subseteq dir[c]
  BY <1>1 DEF DirTables
<1>4. DrTables'
  BY <1>1, <1>2, <1>3 DEF DrInv, DrTables, DrRow
<1>5. DrThemes'
  BY <1>3 DEF DrInv, DrThemes, DrAbout
<1>6. DrIssued'
  BY <1>2 DEF DrIssued, DrAbout
<1>7. ASSUME NEW q \in DirProcs, NEW u \in {"users", "clients"}, Holds(q, u)'
      PROVE  DrCopy(u, dirHeld[q].row)'
  <2>1. dirHeld'[q] = dirHeld[q] /\ dirHeld[q] # DirNull /\ dirHeld[q].t = u
    BY <1>7 DEF Holds
  <2>2. DrCopy(u, dirHeld[q].row) /\ u = t
    BY <2>1 DEF Holds, DrInv, DrCopies, DrCopy, DrAbout
  <2> DEFINE c == dirHeld[q].row
  <2>3. c.id \in dirDrawn' /\ c.id \in dirDrawn
    BY <2>2 DEF DrCopy
  <2>4. ASSUME NEW r \in rows, r.id = c.id
        PROVE  c.ver \in Nat /\ c.ver <= r.ver /\ (c.ver = r.ver => c = DrScan(t, r))
    <3>1. CASE r \in dir[t]
      BY <2>2, <2>4, <3>1 DEF DrCopy
    <3>2. CASE r \notin dir[t]
      <4>1. PICK a \in dir[t] : a.id = r.id /\ a.ver < r.ver
        BY <2>3, <2>4, <3>2 DEF DrWritten
      <4>2. c.ver \in Nat /\ c.ver <= a.ver
        BY <2>2, <2>4, <4>1 DEF DrCopy
      <4>3. a.ver \in Nat /\ r.ver \in Nat
        BY DrScanned DEF DrAbout
      <4> QED BY <4>1, <4>2, <4>3
    <3> QED BY <3>1, <3>2
  <2> QED BY <1>2, <2>1, <2>2, <2>3, <2>4 DEF DrCopy, DrAbout
<1>8. DrCopies'
  BY <1>7 DEF DrCopies
<1>9. DrEdits
  <2> SUFFICES ASSUME NEW u \in {"users", "clients"}, NEW r \in dir[u], NEW q \in dir'[u],
                      q.id = r.id, q # r
               PROVE  \E p \in DirProcs : /\ dirHeld[p] # DirNull /\ dirHeld'[p] = DirNull
                                          /\ dirHeld[p].row = DrScan(u, r)
    BY DEF DrEdits, DrScan
  <2>1. UniqueHolds(u, dir[u])
    BY DEF DrInv, DrKeyed, DirTables
  <2>2. q \notin dir[u]
    BY <2>1, DrOneRow
  <2>3. u = t /\ q \in rows \ dir[t] /\ q.id \in dirDrawn
    BY <1>2, <1>3, <2>2 DEF DrAbout
  <2>4. PICK p \in DirProcs, a \in dir[t] :
            /\ a.id = q.id
            /\ dirHeld[p] # DirNull /\ dirHeld'[p] = DirNull
            /\ dirHeld[p].row = DrScan(t, a)
    BY <2>3 DEF DrWritten
  <2>5. a = r
    BY <2>1, <2>3, <2>4, DrOneRow
  <2> QED BY <2>3, <2>4, <2>5
<1>10. DrWritesBack
  BY <1>3, DrNoReconnect
<1>11. DrKeepsIds
  BY DEF DrInv, DrThemes, DrKeepsIds, DrAbout
<1> QED BY <1>1, <1>4, <1>5, <1>6, <1>8, <1>9, <1>10, <1>11 DEF DrGood, DrInv

\* user_store.go
LEMMA DrUsersStep ==
    ASSUME DrInv, UsersNext
    PROVE  DrGood
<1>0. DrAbout("users")
  BY DrStarts DEF UsersNext
<1>1. ASSUME NEW p \in DirProcs, NEW id \in DirIds, NoneDrawn, Reads(p), UserGetByID(p, id)
      PROVE  DrGood
  <2>1. PICK r \in dir["users"] : Keep(p, "users", ScanUser(r))
    BY <1>1, Zenon DEF UserGetByID, ById
  <2>2. Keep(p, "users", DrScan("users", r)) /\ UNCHANGED <<dirDrawn, dir>>
    BY <1>1, <2>1 DEF DrScan, NoneDrawn, Reads
  <2> QED BY <1>0, <2>2, DrReadRow
<1>2. ASSUME NEW p \in DirProcs, NEW k \in DirKeys \cup {DirEmpty}, NoneDrawn, UserUpdate(p, k)
      PROVE  DrGood
  <2> DEFINE c == dirHeld[p].row
  <2>1. PICK r \in dir["users"] :
            /\ r.id = c.id /\ r.ver = c.ver
            /\ Execute("users", (dir["users"] \ {r})
                   \cup {[c EXCEPT !.email = EmailParam(k), !.ver = r.ver + 1]})
    BY <1>2, Zenon DEF UserUpdate, ById, Replace
  <2>2. dirHeld[p] # DirNull /\ DrCopy("users", c)
    BY <1>2 DEF UserUpdate, Holds, DrInv, DrCopies
  <2>3. c = ScanUser(r) /\ r \in DrUser
    BY <1>0, <2>1, <2>2 DEF DrCopy, DrScan, DrAbout, DrRow
  <2> DEFINE n == [c EXCEPT !.email = EmailParam(k), !.ver = r.ver + 1]
             rows == (dir["users"] \ {r}) \cup {n}
  <2>4. n \in DrUser /\ n.id = r.id /\ n.ver = r.ver + 1 /\ r.ver \in Nat
    <3>1. ScanUser(r) \in [id : DirIds, email : DirKeys \cup {DirEmpty, DirNull},
                           sub : DirKeys \cup {DirEmpty}, ver : Nat]
      BY <2>3 DEF ScanUser, DrUser
    <3>2. EmailParam(k) \in DirKeys \cup {DirNull}
      BY DEF EmailParam
    <3> DEFINE T == [id : DirIds, email : DirKeys \cup {DirEmpty, DirNull},
                     sub : DirKeys \cup {DirEmpty}, ver : Nat]
    <3>3. c \in T /\ r.ver \in Nat /\ c.id = r.id
      BY <2>1, <2>3, <3>1 DEF DrUser
    <3> HIDE DEF c
    <3>5. r.ver + 1 \in Nat
      BY <3>3
    <3>6. /\ [c EXCEPT !.email = EmailParam(k), !.ver = r.ver + 1] \in DrUser
          /\ [c EXCEPT !.email = EmailParam(k), !.ver = r.ver + 1].id = c.id
          /\ [c EXCEPT !.email = EmailParam(k), !.ver = r.ver + 1].ver = r.ver + 1
      <4> HIDE DEF n, rows
      <4>1. PICK x \in T : x = c
        BY <3>3
      <4>2. PICK e \in DirKeys \cup {DirNull} : e = EmailParam(k)
        BY <3>2
      <4>3. PICK v \in Nat : v = r.ver + 1
        BY <3>5
      <4>4. /\ [x EXCEPT !.email = e, !.ver = v] \in DrUser
            /\ [x EXCEPT !.email = e, !.ver = v].id = x.id
            /\ [x EXCEPT !.email = e, !.ver = v].ver = v
        BY DEF DrUser
      <4> QED BY <4>1, <4>2, <4>3, <4>4
    <3> QED BY <3>3, <3>6
  <2>5. /\ dirHeld' = [q \in DirProcs |-> dirHeld'[q]] /\ dirHeld'[p] = DirNull
        /\ \A q \in DirProcs \ {p} : dirHeld'[q] = dirHeld[q]
    BY <1>0, <1>2, DrRelease DEF UserUpdate, DrAbout
  <2> HIDE DEF n
  <2>6. rows \subseteq DrRow("users") /\ Execute("users", rows)
    BY <1>0, <2>1, <2>4 DEF n, DrRow, DrAbout
  <2>7. dirDrawn' = dirDrawn /\ \A q \in rows : q.id \in dirDrawn
    BY <1>0, <1>2, <2>4 DEF NoneDrawn, DrAbout
  <2>8. \A q \in rows \ dir["users"] : q = n
    OBVIOUS
  <2>9. r.ver < n.ver
    BY <2>4
  <2> HIDE DEF rows, c
  <2>10. DrWritten("users", rows)
    BY <2>1, <2>2, <2>3, <2>4, <2>5, <2>8, <2>9 DEF c, DrWritten, DrScan
  <2> QED BY <1>0, <2>5, <2>6, <2>7, <2>10, DrWriteRows
<1>3. ASSUME Stateless, NEW id \in DirIds, NEW k \in DirKeys \cup {DirEmpty},
             NEW s \in DirKeys \cup {DirEmpty}, Fresh(id), UserCreate(id, k, s)
      PROVE  DrGood
  <2> DEFINE n == [id |-> id, email |-> EmailParam(k), sub |-> s, ver |-> 1]
             rows == dir["users"] \cup {n}
  <2>1. n \in DrUser /\ n.id = id /\ EmailParam(k) \in DirKeys \cup {DirNull}
    BY DEF DrUser, EmailParam
  <2>2. Execute("users", rows)
    BY <1>3 DEF UserCreate, Insert
  <2> HIDE DEF n
  <2>3. rows \subseteq DrRow("users") /\ \A q \in rows : q.id \in dirDrawn'
    BY <1>0, <1>3, <2>1 DEF Fresh, DrRow, DrAbout
  <2>4. DrWritten("users", rows)
    BY <1>3, <2>1 DEF Fresh, DrWritten
  <2>5. dirHeld' = dirHeld /\ dirDrawn \subseteq dirDrawn'
    BY <1>3 DEF Stateless, Fresh
  <2> HIDE DEF rows
  <2> QED BY <1>0, <2>2, <2>3, <2>4, <2>5, DrWriteRows DEF DrAbout
<1>4. ASSUME Stateless, NEW id \in DirIds, NoneDrawn, UserDelete(id)
      PROVE  DrGood
  <2> DEFINE rows == dir["users"] \ ById("users", id)
  <2>1. Execute("users", rows) /\ rows \subseteq dir["users"]
    BY <1>4 DEF UserDelete, RemoveRows
  <2>2. dirHeld' = dirHeld /\ dirDrawn' = dirDrawn
    BY <1>4 DEF Stateless, NoneDrawn
  <2>3. rows \subseteq DrRow("users") /\ DrWritten("users", rows)
    BY <1>0, <2>1 DEF DrAbout, DrWritten
  <2> HIDE DEF rows
  <2> QED BY <1>0, <2>1, <2>2, <2>3, DrWriteRows DEF DrAbout
<1> QED BY <1>1, <1>2, <1>3, <1>4, Zenon DEF UsersNext

\* client_store.go
LEMMA DrClientsStep ==
    ASSUME DrInv, ClientsNext
    PROVE  DrGood
<1>0. DrAbout("clients")
  BY DrStarts DEF ClientsNext
<1>1. ASSUME NEW p \in DirProcs, NEW id \in DirIds, NoneDrawn, Reads(p), ClientGetByID(p, id)
      PROVE  DrGood
  <2>1. PICK r \in dir["clients"] : Keep(p, "clients", r)
    BY <1>1, Zenon DEF ClientGetByID, ById
  <2>2. Keep(p, "clients", DrScan("clients", r)) /\ UNCHANGED <<dirDrawn, dir>>
    BY <1>1, <2>1 DEF DrScan, NoneDrawn, Reads
  <2> QED BY <1>0, <2>2, DrReadRow
<1>2. ASSUME NEW p \in DirProcs, NEW s \in {"active", "suspended"}, NoneDrawn,
             ClientUpdate(p, s)
      PROVE  DrGood
  <2> DEFINE c == dirHeld[p].row
  <2>1. PICK r \in dir["clients"] :
            /\ r.id = c.id /\ r.ver = c.ver
            /\ Execute("clients", (dir["clients"] \ {r})
                   \cup {[c EXCEPT !.status = s, !.ver = r.ver + 1]})
    BY <1>2, Zenon DEF ClientUpdate, ById, Replace
  <2>2. dirHeld[p] # DirNull /\ DrCopy("clients", c)
    BY <1>2 DEF ClientUpdate, Holds, DrInv, DrCopies
  <2>3. c = r /\ r \in DrClient
    BY <1>0, <2>1, <2>2 DEF DrCopy, DrScan, DrAbout, DrRow
  <2> DEFINE n == [c EXCEPT !.status = s, !.ver = r.ver + 1]
             rows == (dir["clients"] \ {r}) \cup {n}
  <2>4. n \in DrClient /\ n.id = r.id /\ n.ver = r.ver + 1 /\ r.ver \in Nat
    <3>1. r.ver \in Nat /\ r.ver + 1 \in Nat
      BY <2>3 DEF DrClient
    <3> HIDE DEF c, n, rows
    <3>2. PICK v \in Nat : v = r.ver + 1
      BY <3>1
    <3>3. /\ [r EXCEPT !.status = s, !.ver = v] \in DrClient
          /\ [r EXCEPT !.status = s, !.ver = v].id = r.id
          /\ [r EXCEPT !.status = s, !.ver = v].ver = v
      BY <2>3 DEF DrClient
    <3> QED BY <2>3, <3>1, <3>2, <3>3 DEF n
  <2>5. /\ dirHeld' = [q \in DirProcs |-> dirHeld'[q]] /\ dirHeld'[p] = DirNull
        /\ \A q \in DirProcs \ {p} : dirHeld'[q] = dirHeld[q]
    BY <1>0, <1>2, DrRelease DEF ClientUpdate, DrAbout
  <2> HIDE DEF n
  <2>6. rows \subseteq DrRow("clients") /\ Execute("clients", rows)
    BY <1>0, <2>1, <2>4 DEF n, DrRow, DrAbout
  <2>7. dirDrawn' = dirDrawn /\ \A q \in rows : q.id \in dirDrawn
    BY <1>0, <1>2, <2>4 DEF NoneDrawn, DrAbout
  <2>8. \A q \in rows \ dir["clients"] : q = n
    OBVIOUS
  <2>9. r.ver < n.ver
    BY <2>4
  <2> HIDE DEF rows, c
  <2>10. DrWritten("clients", rows)
    BY <2>1, <2>2, <2>3, <2>4, <2>5, <2>8, <2>9 DEF c, DrWritten, DrScan
  <2> QED BY <1>0, <2>5, <2>6, <2>7, <2>10, DrWriteRows
<1>3. ASSUME Stateless, NEW id \in DirIds, NEW k \in DirKeys \cup {DirEmpty},
             Fresh(id), ClientCreate(id, k)
      PROVE  DrGood
  <2> DEFINE n == [id |-> id, url |-> k, status |-> "active", agent |-> id \in DirKeys, ver |-> 1]
             rows == dir["clients"] \cup {n}
  <2>1. n \in DrClient /\ n.id = id
    BY DEF DrClient
  <2>2. Execute("clients", rows)
    BY <1>3 DEF ClientCreate, Insert
  <2> HIDE DEF n
  <2>3. rows \subseteq DrRow("clients") /\ \A q \in rows : q.id \in dirDrawn'
    BY <1>0, <1>3, <2>1 DEF Fresh, DrRow, DrAbout
  <2>4. DrWritten("clients", rows)
    BY <1>3, <2>1 DEF Fresh, DrWritten
  <2>5. dirHeld' = dirHeld /\ dirDrawn \subseteq dirDrawn'
    BY <1>3 DEF Stateless, Fresh
  <2> HIDE DEF rows
  <2> QED BY <1>0, <2>2, <2>3, <2>4, <2>5, DrWriteRows DEF DrAbout
<1>4. ASSUME Stateless, NEW id \in DirIds, NoneDrawn, ClientDelete(id)
      PROVE  DrGood
  <2> DEFINE rows == dir["clients"] \ ById("clients", id)
  <2>1. Execute("clients", rows) /\ rows \subseteq dir["clients"]
    BY <1>4 DEF ClientDelete, RemoveRows
  <2>2. dirHeld' = dirHeld /\ dirDrawn' = dirDrawn
    BY <1>4 DEF Stateless, NoneDrawn
  <2>3. rows \subseteq DrRow("clients") /\ DrWritten("clients", rows)
    BY <1>0, <2>1 DEF DrAbout, DrWritten
  <2> HIDE DEF rows
  <2> QED BY <1>0, <2>1, <2>2, <2>3, DrWriteRows DEF DrAbout
<1> QED BY <1>1, <1>2, <1>3, <1>4, Zenon DEF ClientsNext

-----------------------------------------------------------------------------
\* A statement of the themes about grants on a table other than users: it writes rows,
\* and the grants in it keep their ids and their users.
LEMMA DrGrantRows ==
    ASSUME DrInv, UNCHANGED <<dirTheme, dirDrawn>>, DrNoCopies,
           NEW t \in {"consents", "bgrants", "resources", "providers"},
           dirTheme # "consents" => t # "consents", dirTheme # "brokers" => t # "bgrants",
           NEW rows, Execute(t, rows),
           t = "consents" => rows \subseteq DrConsent, t = "bgrants" => rows \subseteq DrGrant,
           t \in {"consents", "bgrants"} =>
               \A g \in dir[t] : \E h \in rows : h.id = g.id /\ h.user = g.user
    PROVE  /\ DrInv' /\ DrEdits /\ DrKeepsIds /\ dir'[t] = rows
           /\ t # "bgrants" => DrWritesBack
<1>0. /\ t \in DirTables \ {"idps", "users", "clients"}
      /\ dir = [c \in DirTables |-> dir[c]] /\ DrKeyed
  BY DEF DirTables, DrInv, DrTables
<1>1. dir' = [c \in DirTables |-> dir'[c]] /\ DrKeyed'
  BY <1>0, DrExecutes
<1>2. dir'[t] = rows /\ \A c \in DirTables \ {t} : dir'[c] = dir[c]
  BY <1>0, DrWrites
<1>3. \A c \in {"users", "clients", "consents", "bgrants"} \ {t} : dir'[c] = dir[c]
  BY <1>2 DEF DirTables
<1>4. DrTables'
  BY <1>1, <1>2, <1>3 DEF DrInv, DrTables
<1>5. DrThemes'
  BY <1>2, <1>3 DEF DrInv, DrThemes
<1>6. dir'["users"] = dir["users"] /\ dir'["clients"] = dir["clients"]
  BY <1>3
<1>7. DrIssued' /\ DrCopies' /\ DrEdits
  BY <1>6, DrCalm
<1>8. DrKeepsIds
  <2> SUFFICES ASSUME NEW c \in {"consents", "bgrants"}, NEW g \in dir[c]
               PROVE  \E h \in dir'[c] : h.id = g.id /\ h.user = g.user
    BY DEF DrKeepsIds
  <2>1. CASE c = t
    BY <1>2, <2>1
  <2>2. CASE c # t
    BY <1>3, <2>2
  <2> QED BY <2>1, <2>2
<1>9. t # "bgrants" => DrWritesBack
  BY <1>3, DrNoReconnect
<1> QED BY <1>1, <1>2, <1>4, <1>5, <1>7, <1>8, <1>9 DEF DrInv

\* A user is deleted: the grants of the others stay.
LEMMA DrUserDeleted ==
    ASSUME DrInv, dirTheme \in {"consents", "brokers"}, UNCHANGED <<dirTheme, dirDrawn>>,
           Stateless, NEW id \in DirIds, UserDelete(id)
    PROVE  DrGood
<1> DEFINE rows == dir["users"] \ ById("users", id)
<1>0. "users" \in DirTables /\ dir = [c \in DirTables |-> dir[c]] /\ DrKeyed
  BY DEF DirTables, DrInv, DrTables
<1>1. Execute("users", rows) /\ rows \subseteq dir["users"]
  BY DEF UserDelete, RemoveRows
<1> HIDE DEF rows
<1>2. /\ dir' = [c \in DirTables |-> dir'[c]] /\ DrKeyed'
      /\ \A c \in DirTables \ {"users"} : dir'[c] \subseteq dir[c]
  BY <1>0, <1>1, DrExecutes
<1>3. /\ dir'["users"] = rows
      /\ \A c \in {"consents", "bgrants"} : \A g \in dir[c] :
            (\E u \in rows : u.id = g.user) => g \in dir'[c]
  BY <1>0, <1>1, DrCascades
<1>4. \A c \in {"users", "clients", "consents", "bgrants"} : dir'[c] \subseteq dir[c]
  BY <1>1, <1>2, <1>3 DEF DirTables
<1>5. DrTables'
  BY <1>2, <1>4 DEF DrInv, DrTables
<1>6. DrThemes'
  BY <1>4 DEF DrInv, DrThemes
<1>7. DrNoCopies
  BY DrHolders DEF DrInv
<1>8. DrIssued' /\ DrCopies' /\ DrEdits
  BY <1>4, <1>7, DrCalm
<1>9. DrWritesBack
  BY <1>4, DrNoReconnect
<1>10. DrKeepsIds
  BY <1>3 DEF DrKeepsIds
<1> QED BY <1>2, <1>5, <1>6, <1>8, <1>9, <1>10 DEF DrGood, DrInv

\* consent_grant_store.go
LEMMA DrConsentStep ==
    ASSUME DrInv, ConsentNext
    PROVE  DrGood
<1>0. /\ dirTheme = "consents" /\ UNCHANGED <<dirTheme, dirDrawn>> /\ DrCopies
      /\ dir["consents"] \subseteq DrConsent /\ "consents" \in DirTables \ {"users", "clients"}
  BY DEF ConsentNext, Theme, NoneDrawn, DrInv, DrTables, DirTables
<1>1. ASSUME NEW p \in DirProcs, NEW id \in DirIds, Reads(p), ConsentGetByID(p, id)
      PROVE  DrGood
  <2>1. \E g : Keep(p, "consents", g)
    BY <1>1, Zenon DEF ConsentGetByID
  <2>2. DrNoCopies
    BY <1>0, <2>1, DrHolders
  <2> QED BY <1>0, <1>1, <2>2, DrReads DEF Reads
<1>2. ASSUME NEW p \in DirProcs, ConsentRevoke(p)
      PROVE  DrGood
  <2>1. PICK g \in dir["consents"] :
            Execute("consents", (dir["consents"] \ {g}) \cup {[g EXCEPT !.revoked = TRUE]})
    BY <1>2, Zenon DEF ConsentRevoke, ById, Replace
  <2> DEFINE n == [g EXCEPT !.revoked = TRUE]
             rows == (dir["consents"] \ {g}) \cup {n}
  <2>2. n \in DrConsent /\ n.id = g.id /\ n.user = g.user
    BY <1>0 DEF DrConsent
  <2>3. DrNoCopies
    BY <1>0, <1>2, DrHolders DEF ConsentRevoke
  <2> HIDE DEF n
  <2>4. rows \subseteq DrConsent
    BY <1>0, <2>2
  <2>5. \A h \in dir["consents"] : \E a \in rows : a.id = h.id /\ a.user = h.user
    BY <2>2
  <2>6. Execute("consents", rows)
    BY <2>1 DEF n
  <2> HIDE DEF rows
  <2> QED BY <1>0, <2>3, <2>4, <2>5, <2>6, DrGrantRows DEF DrGood
<1>3. ASSUME Stateless, NEW id \in DirIds, NEW u \in DirIds, NEW r \in DirIds, NEW v \in DirVals,
             ConsentUpsert(id, u, u, r, v)
      PROVE  DrGood
  <2> DEFINE old == {g \in dir["consents"] : <<g.user, g.client, g.res>> = <<u, u, r>>}
             new == [id |-> id, user |-> u, client |-> u, res |-> r, scopes |-> v,
                     revoked |-> FALSE]
             Again(g) == [g EXCEPT !.scopes = v, !.revoked = FALSE]
             rows == (dir["consents"] \ old) \cup
                         (IF old = {} THEN {new} ELSE {Again(g) : g \in old})
  <2>1. Execute("consents", rows)
    BY <1>3 DEF ConsentUpsert
  <2>2. new \in DrConsent
    BY DEF DrConsent
  <2>3. \A g \in DrConsent :
            Again(g) \in DrConsent /\ Again(g).id = g.id /\ Again(g).user = g.user
    BY DEF DrConsent
  <2> HIDE DEF new, Again
  <2>4. rows \subseteq DrConsent
    BY <1>0, <2>2, <2>3
  <2>5. \A h \in dir["consents"] : \E a \in rows : a.id = h.id /\ a.user = h.user
    BY <1>0, <2>3
  <2>6. DrNoCopies
    BY <1>0, <1>3, DrHolders
  <2> HIDE DEF rows
  <2> QED BY <1>0, <2>1, <2>4, <2>5, <2>6, DrGrantRows DEF DrGood
<1>4. ASSUME Stateless, NEW rows, Execute("resources", rows)
      PROVE  DrGood
  <2>1. DrNoCopies
    BY <1>0, <1>4, DrHolders
  <2> QED BY <1>0, <1>4, <2>1, DrGrantRows DEF DrGood
<1>5. ASSUME Stateless, NEW id \in DirIds, NEW k \in DirKeys, ResourceCreate(id, k, DirNull)
      PROVE  DrGood
  BY <1>4, <1>5, Zenon DEF ResourceCreate, Insert
<1>6. ASSUME Stateless, NEW id \in DirIds, ResourceDelete(id)
      PROVE  DrGood
  BY <1>4, <1>6, Zenon DEF ResourceDelete, RemoveRows
<1>7. ASSUME Stateless, NEW id \in DirIds, UserDelete(id)
      PROVE  DrGood
  BY <1>0, <1>7, DrUserDeleted
<1> QED BY <1>1, <1>2, <1>3, <1>5, <1>6, <1>7, Zenon DEF ConsentNext

\* broker_grant_store.go
LEMMA DrBrokerStep ==
    ASSUME DrInv, BrokerNext
    PROVE  DrGood
<1>0. /\ dirTheme = "brokers" /\ UNCHANGED <<dirTheme, dirDrawn>> /\ DrCopies
      /\ dir["bgrants"] \subseteq DrGrant /\ "bgrants" \in DirTables \ {"users", "clients"}
      /\ UniqueHolds("bgrants", dir["bgrants"])
  BY DEF BrokerNext, Theme, NoneDrawn, DrInv, DrTables, DrKeyed, DirTables
<1>1. ASSUME NEW p \in DirProcs, NEW id \in DirIds, Reads(p), BrokerGrantGetByID(p, id)
      PROVE  DrGood
  <2>1. \E g : Keep(p, "bgrants", g)
    BY <1>1, Zenon DEF BrokerGrantGetByID
  <2>2. DrNoCopies
    BY <1>0, <2>1, DrHolders
  <2> QED BY <1>0, <1>1, <2>2, DrReads DEF Reads
<1>2. ASSUME NEW p \in DirProcs, NEW v \in DirVals, BrokerGrantUpdateWithVersion(p, v)
      PROVE  DrGood
  <2>1. PICK g \in dir["bgrants"] :
            Execute("bgrants", (dir["bgrants"] \ {g})
                                   \cup {[g EXCEPT !.cred = v, !.ver = g.ver + 1]})
    BY <1>2, Zenon DEF BrokerGrantUpdateWithVersion, ById, Replace
  <2> DEFINE n == [g EXCEPT !.cred = v, !.ver = g.ver + 1]
             rows == (dir["bgrants"] \ {g}) \cup {n}
  <2>2. n \in DrGrant /\ n.id = g.id /\ n.user = g.user /\ n.revoked = g.revoked
    <3> HIDE DEF n, rows
    <3>1. PICK m \in Nat : m = g.ver + 1
      BY <1>0 DEF DrGrant
    <3>2. n = [g EXCEPT !.cred = v, !.ver = m]
      BY <3>1 DEF n
    <3> QED BY <1>0, <3>2 DEF DrGrant
  <2>3. DrNoCopies
    BY <1>0, <1>2, DrHolders DEF BrokerGrantUpdateWithVersion
  <2> HIDE DEF n
  <2>4. rows \subseteq DrGrant
    BY <1>0, <2>2
  <2>5. \A h \in dir["bgrants"] : \E a \in rows : a.id = h.id /\ a.user = h.user
    BY <2>2
  <2>6. Execute("bgrants", rows)
    BY <2>1 DEF n
  <2>7. \A h \in dir["bgrants"] : h.revoked => \A a \in rows : a.id = h.id => a.revoked
    <3> SUFFICES ASSUME NEW h \in dir["bgrants"], h.revoked, NEW a \in rows, a.id = h.id
                 PROVE  a.revoked
      OBVIOUS
    <3>1. CASE a = n
      <4>1. g = h
        BY <1>0, <2>2, <3>1, DrOneRow
      <4> QED BY <2>2, <3>1, <4>1
    <3>2. CASE a # n
      <4>1. a = h
        BY <1>0, <3>2, DrOneRow
      <4> QED BY <4>1
    <3> QED BY <3>1, <3>2
  <2> HIDE DEF rows
  <2>8. DrInv' /\ DrEdits /\ DrKeepsIds /\ dir'["bgrants"] = rows
    BY <1>0, <2>3, <2>4, <2>5, <2>6, DrGrantRows
  <2>9. DrWritesBack
    BY <2>7, <2>8 DEF DrWritesBack
  <2> QED BY <2>8, <2>9 DEF DrGood
<1>3. ASSUME Stateless, NEW rows, Execute("bgrants", rows), rows \subseteq DrGrant,
             \A g \in dir["bgrants"] : \E h \in rows : h.id = g.id /\ h.user = g.user
      PROVE  DrGood
  <2>1. DrNoCopies
    BY <1>0, <1>3, DrHolders
  <2>2. DrInv' /\ DrEdits /\ DrKeepsIds
    BY <1>0, <1>3, <2>1, DrGrantRows
  <2>3. DrWritesBack
    BY <1>3 DEF Stateless, DrWritesBack
  <2> QED BY <2>2, <2>3 DEF DrGood
<1>4. ASSUME Stateless, NEW id \in DirIds, NEW u \in DirIds, NEW b \in DirIds, NEW v \in DirVals,
             BrokerGrantUpsert(id, u, b, v)
      PROVE  DrGood
  <2> DEFINE old == {g \in dir["bgrants"] : <<g.user, g.provider>> = <<u, b>>}
             new == [id |-> id, user |-> u, provider |-> b, cred |-> v, ver |-> 1,
                     revoked |-> FALSE]
             Again(g) == [g EXCEPT !.cred = v, !.ver = @ + 1, !.revoked = FALSE]
             rows == (dir["bgrants"] \ old) \cup
                         (IF old = {} THEN {new} ELSE {Again(g) : g \in old})
  <2>1. Execute("bgrants", rows)
    BY <1>4 DEF BrokerGrantUpsert
  <2>2. new \in DrGrant
    BY DEF DrGrant
  <2>3. ASSUME NEW g \in DrGrant
        PROVE  Again(g) \in DrGrant /\ Again(g).id = g.id /\ Again(g).user = g.user
    <3>1. PICK m \in Nat : m = g.ver + 1
      BY DEF DrGrant
    <3>2. Again(g) = [g EXCEPT !.cred = v, !.ver = m, !.revoked = FALSE]
      BY <3>1
    <3> HIDE DEF Again
    <3> QED BY <3>2 DEF DrGrant
  <2> HIDE DEF new, Again
  <2>4. rows \subseteq DrGrant
    BY <1>0, <2>2, <2>3
  <2>5. \A h \in dir["bgrants"] : \E a \in rows : a.id = h.id /\ a.user = h.user
    BY <1>0, <2>3
  <2> HIDE DEF rows
  <2> QED BY <1>3, <1>4, <2>1, <2>4, <2>5
<1>5. ASSUME Stateless, NEW id \in DirIds, BrokerGrantRevoke(id)
      PROVE  DrGood
  <2>1. PICK g \in dir["bgrants"] :
            Execute("bgrants", (dir["bgrants"] \ {g}) \cup {[g EXCEPT !.revoked = TRUE]})
    BY <1>5, Zenon DEF BrokerGrantRevoke, ById, Replace
  <2> DEFINE n == [g EXCEPT !.revoked = TRUE]
             rows == (dir["bgrants"] \ {g}) \cup {n}
  <2>2. n \in DrGrant /\ n.id = g.id /\ n.user = g.user
    BY <1>0 DEF DrGrant
  <2>3. Execute("bgrants", rows)
    BY <2>1
  <2> HIDE DEF n
  <2>4. rows \subseteq DrGrant
    BY <1>0, <2>2
  <2>5. \A h \in dir["bgrants"] : \E a \in rows : a.id = h.id /\ a.user = h.user
    BY <2>2
  <2> HIDE DEF rows
  <2> QED BY <1>3, <1>5, <2>3, <2>4, <2>5
<1>6. ASSUME Stateless, NEW id \in DirIds, ProviderDelete(id)
      PROVE  DrGood
  <2>1. DrNoCopies
    BY <1>0, <1>6, DrHolders
  <2>2. Execute("providers", dir["providers"] \ ById("providers", id))
    BY <1>6 DEF ProviderDelete, RemoveRows
  <2> QED BY <1>0, <2>1, <2>2, DrGrantRows DEF DrGood
<1>7. ASSUME Stateless, NEW id \in DirIds, UserDelete(id)
      PROVE  DrGood
  BY <1>0, <1>7, DrUserDeleted
<1> QED BY <1>1, <1>2, <1>4, <1>5, <1>6, <1>7, Zenon DEF BrokerNext

-----------------------------------------------------------------------------
\* The tables that a server is installed with.
LEMMA DrInits == DirInit => DrInv
<1> SUFFICES ASSUME DirInit PROVE DrInv
  OBVIOUS
<1>1. PICK id \in DirIds :
          dir = [t \in DirTables |->
                   IF dirTheme \notin {"consents", "brokers"} THEN {}
                   ELSE CASE t = "users"     -> {[id |-> id, email |-> DirNull, sub |-> DirEmpty, ver |-> 1]}
                          [] t = "clients"   -> {[id |-> id, url |-> DirEmpty, status |-> "active",
                                                  agent |-> FALSE, ver |-> 1]}
                          [] t = "providers" -> {[id |-> id, slug |-> CHOOSE k \in DirKeys : TRUE]}
                          [] OTHER           -> {}]
  BY DEF DirInit
<1>2. dir = [t \in DirTables |-> dir[t]]
  BY <1>1, Zenon
<1>3. \A t \in DirTables : dir[t] = {} \/ \E r : dir[t] = {r}
  BY <1>1
<1>4. \A t \in DirTables \ {"users", "clients", "providers"} : dir[t] = {}
  BY <1>1
<1>5. /\ dir["users"] = {} \/ (dirTheme \in {"consents", "brokers"}
            /\ dir["users"] = {[id |-> id, email |-> DirNull, sub |-> DirEmpty, ver |-> 1]})
      /\ dir["clients"] = {} \/ (dirTheme \in {"consents", "brokers"}
            /\ dir["clients"] = {[id |-> id, url |-> DirEmpty, status |-> "active",
                                  agent |-> FALSE, ver |-> 1]})
  BY <1>1 DEF DirTables
<1>6. dir["consents"] = {} /\ dir["bgrants"] = {}
  BY <1>4 DEF DirTables
<1>7. DrTables
  <2>1. [id |-> id, email |-> DirNull, sub |-> DirEmpty, ver |-> 1] \in DrUser
    BY DEF DrUser
  <2>2. [id |-> id, url |-> DirEmpty, status |-> "active", agent |-> FALSE, ver |-> 1] \in DrClient
    BY DEF DrClient
  <2>3. dir["users"] \subseteq DrUser /\ dir["clients"] \subseteq DrClient
    BY <1>5, <2>1, <2>2, Zenon
  <2> QED BY <1>2, <1>6, <2>3 DEF DrTables
<1>8. DrKeyed
  <2>1. \A t \in DirTables : UniqueHolds(t, dir[t])
    BY <1>3 DEF UniqueHolds
  <2>2. \A t \in {"users", "clients", "providers"} : \A r : References(t, r) = {}
    BY DEF References
  <2>3. ForeignKeysHold(dir)
    BY <1>4, <2>2 DEF ForeignKeysHold
  <2> QED BY <2>1, <2>3 DEF DrKeyed
<1>9. DrThemes
  BY <1>6 DEF DrThemes
<1>10. DrIssued
  BY <1>5 DEF DrIssued
<1>11. DrCopies
  BY DEF DirInit, DrCopies, Holds
<1> QED BY <1>7, <1>8, <1>9, <1>10, <1>11 DEF DrInv

\* Every call of every store keeps the invariant and takes an allowed step.
LEMMA DrSteps ==
    ASSUME DrInv, [DirNext]_dirVars
    PROVE  DrInv' /\ [DrEdits /\ DrWritesBack /\ DrKeepsIds]_dirVars
<1>1. CASE DirNext
  <2>1. DrGood
    BY <1>1, DrUsersStep, DrClientsStep, DrTrustStep, DrRegistryStep, DrConsentStep,
       DrBrokerStep DEF DirNext
  <2> QED BY <2>1 DEF DrGood
<1>2. CASE UNCHANGED dirVars
  <2>1. DrTables' /\ DrThemes' /\ DrIssued'
    BY <1>2 DEF dirVars, DrInv, DrTables, DrThemes, DrIssued
  <2>2. DrKeyed' /\ DrCopies'
    BY <1>2 DEF dirVars, DrInv, DrKeyed, DrCopies, DrCopy, Holds
  <2> QED BY <1>2, <2>1, <2>2 DEF DrInv
<1> QED BY <1>1, <1>2

\* adapters/sqlite, for any number of callers, ids and keys: a versioned write of a user or a
\* client replaces the very row that its caller read, a vend that writes back after a
\* disconnect does not connect the user again, and a grant keeps its id for as long as its
\* user is there.
THEOREM DirectoryEditsStaySound == DirSpec => DirectoryEditsSound
<1>1. DirSpec => [][DrEdits /\ DrWritesBack /\ DrKeepsIds]_dirVars
  BY DrInits, DrSteps, PTL DEF DirSpec
<1>2. [DrEdits /\ DrWritesBack /\ DrKeepsIds]_dirVars => [DrEdits]_dirVars
  OBVIOUS
<1>3. [DrEdits /\ DrWritesBack /\ DrKeepsIds]_dirVars => [DrWritesBack]_dirVars
  OBVIOUS
<1>4. [DrEdits /\ DrWritesBack /\ DrKeepsIds]_dirVars => [DrKeepsIds]_dirVars
  OBVIOUS
<1>5. DirSpec => [][DrEdits]_dirVars /\ [][DrWritesBack]_dirVars /\ [][DrKeepsIds]_dirVars
  BY <1>1, <1>2, <1>3, <1>4, PTL
<1> QED BY <1>5, PTL DEF DirectoryEditsSound, EditsReplaceWhatTheyRead,
               WriteBackNeverReconnects, GrantsKeepTheirId, DrEdits, DrWritesBack, DrKeepsIds

-----------------------------------------------------------------------------
(* SQLiteTokens: times as text *)

\* What the text of a time begins with, and how the texts of one second differ.
LEMMA TrParts ==
    ASSUME NEW t \in Nat
    PROVE  /\ Second(t) \in Nat /\ t % 4 \in {0, 1, 2, 3} /\ t = 4 * Second(t) + (t % 4)
BY DEF Second

\* Seconds go up with time.
LEMMA TrMonotone ==
    ASSUME NEW t \in Nat, NEW u \in Nat, t <= u
    PROVE  Second(t) <= Second(u)
BY DEF Second

\* A whole second, as AssertionKept builds it.
LEMMA TrWhole ==
    ASSUME NEW n \in Nat
    PROVE  4 * n \in Nat /\ Second(4 * n) = n
BY DEF Second

\* Where the text of a time begins, and what tells the four texts of a second apart.
LEMMA TrFormat ==
    ASSUME NEW t \in Nat
    PROVE  /\ FormatTime(t)[1] = Second(t)
           /\ t % 4 = 0 => Len(FormatTime(t)) = 2
           /\ t % 4 = 1 => Len(FormatTime(t)) = 5 /\ FormatTime(t)[3] = 0
           /\ t % 4 = 2 => Len(FormatTime(t)) = 4
           /\ t % 4 = 3 => Len(FormatTime(t)) = 5 /\ FormatTime(t)[3] = 1
<1>1. ASSUME NEW a \in Int, NEW s \in Seq(Int)
      PROVE  /\ Len(<<a>> \o s) = Len(s) + 1 /\ (<<a>> \o s)[1] = a
             /\ 2 \in 1 .. Len(s) => (<<a>> \o s)[3] = s[2]
  OBVIOUS
<1>2. PICK n \in Nat, a \in {0, 1, 2, 3} : n = Second(t) /\ a = t % 4
  BY TrParts
<1>3. PICK s : s = <<<<Zulu>>, <<Dot, 0, 1, Zulu>>, <<Dot, 1, Zulu>>, <<Dot, 1, 1, Zulu>>>>[a + 1]
  OBVIOUS
<1>4. FormatTime(t) = <<n>> \o s
  BY <1>2, <1>3 DEF FormatTime
<1>5. /\ a = 0 => s = <<9>>
      /\ a = 1 => s = <<-1, 0, 1, 9>>
      /\ a = 2 => s = <<-1, 1, 9>>
      /\ a = 3 => s = <<-1, 1, 1, 9>>
  BY <1>3 DEF Dot, Zulu
<1>6. s \in Seq(Int)
  <2>1. /\ <<9>> \in Seq(Int) /\ <<-1, 0, 1, 9>> \in Seq(Int)
        /\ <<-1, 1, 9>> \in Seq(Int) /\ <<-1, 1, 1, 9>> \in Seq(Int)
    OBVIOUS
  <2> QED BY <1>2, <1>5, <2>1, Zenon
<1>7. /\ Len(FormatTime(t)) = Len(s) + 1 /\ FormatTime(t)[1] = n
      /\ 2 \in 1 .. Len(s) => FormatTime(t)[3] = s[2]
  BY <1>1, <1>2, <1>4, <1>6
<1>8. /\ a = 0 => Len(s) = 1
      /\ a = 1 => Len(s) = 4 /\ s[2] = 0
      /\ a = 2 => Len(s) = 3
      /\ a = 3 => Len(s) = 4 /\ s[2] = 1
  BY <1>5
<1>9. /\ a = 0 => Len(FormatTime(t)) = 2
      /\ a = 1 => Len(FormatTime(t)) = 5 /\ FormatTime(t)[3] = 0
      /\ a = 2 => Len(FormatTime(t)) = 4
      /\ a = 3 => Len(FormatTime(t)) = 5 /\ FormatTime(t)[3] = 1
  <2>1. PICK x : x = FormatTime(t)
    OBVIOUS
  <2>2. Len(x) = Len(s) + 1 /\ (2 \in 1 .. Len(s) => x[3] = s[2])
    BY <1>7, <2>1
  <2>3. PICK k \in Nat, l \in Nat : k = Len(s) /\ l = Len(x)
    BY <1>6, <2>2
  <2>4. l = k + 1 /\ (2 <= k => x[3] = s[2])
    BY <2>2, <2>3
  <2>5. (a = 0 => k = 1) /\ (a = 1 => k = 4) /\ (a = 2 => k = 3) /\ (a = 3 => k = 4)
    BY <1>8, <2>3, Zenon
  <2>6. /\ (a = 0 => l = 2) /\ (a = 1 => l = 5) /\ (a = 2 => l = 4) /\ (a = 3 => l = 5)
        /\ (a \in {1, 3} => x[3] = s[2])
    BY <2>4, <2>5
  <2> QED BY <1>8, <2>1, <2>3, <2>6
<1> QED BY <1>2, <1>7, <1>9

\* The parsed time is the one that was written.
LEMMA TrInjective ==
    ASSUME NEW t \in Nat, NEW u \in Nat, FormatTime(t) = FormatTime(u)
    PROVE  t = u
<1>1. Second(t) = Second(u)
  BY TrFormat
<1>2. /\ t % 4 \in {0, 1, 2, 3} /\ t = 4 * Second(t) + (t % 4) /\ Second(t) \in Nat
      /\ u % 4 \in {0, 1, 2, 3} /\ u = 4 * Second(u) + (u % 4)
  BY TrParts
<1>3. PICK x : x = FormatTime(t) /\ x = FormatTime(u)
  OBVIOUS
<1>4. /\ t % 4 = 0 => Len(x) = 2
      /\ t % 4 = 1 => Len(x) = 5 /\ x[3] = 0
      /\ t % 4 = 2 => Len(x) = 4
      /\ t % 4 = 3 => Len(x) = 5 /\ x[3] = 1
  BY <1>3, TrFormat
<1>5. /\ u % 4 = 0 => Len(x) = 2
      /\ u % 4 = 1 => Len(x) = 5 /\ x[3] = 0
      /\ u % 4 = 2 => Len(x) = 4
      /\ u % 4 = 3 => Len(x) = 5 /\ x[3] = 1
  BY <1>3, TrFormat
<1>6. PICK a \in {0, 1, 2, 3}, b \in {0, 1, 2, 3} : a = t % 4 /\ b = u % 4
  BY <1>2
<1>7. a = b
  BY <1>4, <1>5, <1>6
<1>8. PICK n \in Nat : n = Second(t)
  BY <1>2
<1> QED BY <1>1, <1>2, <1>6, <1>7, <1>8

\* Comparing the texts of two times is exact to the second (TextLess).
LEMMA TrText ==
    ASSUME NEW t \in Nat, NEW u \in Nat
    PROVE  /\ TextBefore(t, u) => Second(t) <= Second(u)
           /\ Second(t) < Second(u) => TextBefore(t, u)
<1> DEFINE x == FormatTime(t)  y == FormatTime(u)  m == Min({Len(x), Len(y)})
<1>1. /\ x[1] = Second(t) /\ Len(x) \in {2, 4, 5} /\ y[1] = Second(u) /\ Len(y) \in {2, 4, 5}
      /\ Second(t) \in Nat /\ Second(u) \in Nat
  BY TrFormat, TrParts
<1> HIDE DEF x, y
<1>2. m \in Nat /\ 1 <= m
  <2>1. \E a \in {Len(x), Len(y)} : \A b \in {Len(x), Len(y)} : a <= b
    BY <1>1
  <2>2. m \in {Len(x), Len(y)}
    BY <2>1 DEF Min
  <2> QED BY <1>1, <2>2
<1> HIDE DEF m
<1>3. TextBefore(t, u) <=> \E i \in 1 .. m : x[i] < y[i] /\ \A j \in 1 .. i - 1 : x[j] = y[j]
  BY DEF TextBefore, TextLess, x, y, m
<1>4. ASSUME TextBefore(t, u) PROVE Second(t) <= Second(u)
  <2>1. PICK i \in 1 .. m : x[i] < y[i] /\ \A j \in 1 .. i - 1 : x[j] = y[j]
    BY <1>3, <1>4
  <2>2. CASE i = 1
    BY <1>1, <2>1, <2>2
  <2>3. CASE i # 1
    <3>1. 1 \in 1 .. i - 1
      BY <1>2, <2>3
    <3> QED BY <1>1, <2>1, <3>1
  <2> QED BY <2>2, <2>3
<1>5. ASSUME Second(t) < Second(u) PROVE TextBefore(t, u)
  <2>1. 1 \in 1 .. m /\ x[1] < y[1] /\ 1 .. 1 - 1 = {}
    BY <1>1, <1>2, <1>5
  <2> QED BY <1>3, <2>1
<1> QED BY <1>4, <1>5

-----------------------------------------------------------------------------
(* SQLiteTokens: what is ended is remembered, what lives is found *)

TrRow == [id : TkChain, exp : Nat]
TrSessionRow == [id : TkChain, exp : Nat, consumed : BOOLEAN, code : BOOLEAN]
TrRefreshRow == [id : TkChain, fam : TkChain, exp : Nat, consumed : BOOLEAN]
TrMachineRow == [id : TkChain, issued : Nat, exp : Nat, revoked : BOOLEAN]

TrTimes == [TkChain -> Nat \cup {TkNull}]

\* The types, and the lifetimes that tokens are minted with.
TrTyped ==
    /\ tkNow \in Nat /\ (tkGroup # "issuance" => tkNow <= TkMaxTime)
    /\ tk = [t \in TkTables |-> tk[t]]
    /\ tkPast \in [exp : TrTimes, coded : TrTimes, uses : [TkChain -> Nat], ended : SUBSET TkChain]
    /\ \A i \in TkChain : tkPast.exp[i] # TkNull => tkPast.exp[i] <= tkNow + TkLife
    /\ \A i \in TkChain : tkPast.uses[i] <= 1

\* The second in which x expires has come.
TrOver(x) == Second(x) <= Second(tkNow)

\* What has ended has a row that says so, unless it has expired.
TrEnded(rows) ==
    \A i \in tkPast.ended :
        tkPast.exp[i] # TkNull /\ ((\E r \in rows : r.id = i) \/ TrOver(tkPast.exp[i]))

\* auth_sessions
TrSession ==
    /\ tk["sessions"] \subseteq TrSessionRow
    /\ \A r \in tk["sessions"] :
          r.exp = tkPast.exp[r.id] /\ (r.consumed \/ tkPast.uses[r.id] = 0)
    /\ \A i \in TkChain : tkPast.exp[i] = TkNull => tkPast.coded[i] = TkNull /\ tkPast.uses[i] = 0
    /\ \A i \in TkChain : tkPast.coded[i] # TkNull =>
          Second(tkPast.coded[i]) <= Second(tkPast.exp[i])

\* refresh_tokens
TrFamily ==
    /\ tk["refresh"] \subseteq TrRefreshRow
    /\ \A r \in tk["refresh"] : r.exp = tkPast.exp[r.id] /\ r.fam = r.id
    /\ TrEnded({r \in tk["refresh"] : r.consumed})

\* access_token_jtis and revoked_jtis
TrDenylist ==
    /\ tk["tracked"] \subseteq TrRow /\ tk["denied"] \subseteq TrRow
    /\ \A r \in tk["tracked"] : r.exp = tkPast.exp[r.id]
    /\ \A r \in tk["denied"] : tkPast.exp[r.id] # TkNull /\ tkPast.exp[r.id] <= r.exp
    /\ TrEnded(tk["denied"])

\* machine_tokens
TrMachine ==
    /\ tk["machine"] \subseteq TrMachineRow
    /\ \A r \in tk["machine"] : r.exp = tkPast.exp[r.id]
    /\ TrEnded({r \in tk["machine"] : r.revoked})
    /\ \A i \in TkChain \ tkPast.ended : tkPast.exp[i] # TkNull =>
          (\E r \in tk["machine"] : r.id = i /\ ~r.revoked) \/ TrOver(tkPast.exp[i])

\* assertion_jtis
TrReplay ==
    /\ tk["spent"] \subseteq TrRow
    /\ \A r \in tk["spent"] :
          tkPast.exp[r.id] # TkNull /\ Second(r.exp) = Second(tkPast.exp[r.id]) + TkBuffer
    /\ \A i \in TkChain : tkPast.uses[i] # 0 =>
          /\ tkPast.exp[i] # TkNull
          /\ \/ \E r \in tk["spent"] : r.id = i
             \/ Second(tkPast.exp[i]) + TkBuffer <= Second(tkNow)

\* connect_pending_states and dpop_nonces
TrPending ==
    /\ tk["pending"] \subseteq TrRow /\ tk["nonces"] \subseteq TrRow
    /\ \A r \in tk["pending"] : tkPast.uses[r.id] = 0
    /\ \A i \in TkChain : tkPast.exp[i] = TkNull => tkPast.uses[i] = 0
    /\ \A r \in tk["pending"] : tkPast.exp[r.id] # TkNull
    /\ \A r \in tk["nonces"] : tkPast.coded[r.id] # TkNull /\ r.exp = tkPast.coded[r.id] + TkLife
    /\ \A i \in TkChain : tkPast.coded[i] # TkNull =>
          /\ tkPast.coded[i] <= TkMaxTime
          /\ (\E r \in tk["nonces"] : r.id = i) \/ TrOver(tkPast.coded[i] + TkLife)

\* The inductive invariant of the token tables.
TrInv ==
    /\ TrTyped
    /\ tkGroup = "session" => TrSession
    /\ tkGroup = "family" => TrFamily
    /\ tkGroup = "denylist" => TrDenylist
    /\ tkGroup = "machine" => TrMachine
    /\ tkGroup = "replay" => TrReplay
    /\ tkGroup = "pending" => TrPending

-----------------------------------------------------------------------------
\* A statement writes one table.
LEMMA TrTable ==
    ASSUME TrTyped, NEW t \in TkTables, NEW rows, tk' = [tk EXCEPT ![t] = rows]
    PROVE  /\ tk' = [c \in TkTables |-> tk'[c]] /\ tk'[t] = rows
           /\ \A c \in TkTables \ {t} : tk'[c] = tk[c]
BY DEF TrTyped

\* Draw: the token i is minted.
LEMMA TrDraw ==
    ASSUME TrTyped, NEW i \in TkChain, Draw(i), UNCHANGED <<tkNow, tkGroup>>,
           tk' = [t \in TkTables |-> tk'[t]]
    PROVE  /\ TrTyped' /\ tkPast.exp[i] = TkNull
           /\ tkPast'.exp[i] = tkNow + TkLife /\ tkPast'.exp[i] \in Nat
           /\ \A j \in TkChain \ {i} : tkPast'.exp[j] = tkPast.exp[j]
           /\ tkPast'.coded = tkPast.coded /\ tkPast'.uses = tkPast.uses
           /\ tkPast'.ended = tkPast.ended
<1> DEFINE P == [exp : TrTimes, coded : TrTimes, uses : [TkChain -> Nat], ended : SUBSET TkChain]
<1>1. PICK n \in Nat : n = tkNow + TkLife
  BY TkLifeAssumption DEF TrTyped
<1>2. tkPast' = [tkPast EXCEPT !.exp[i] = n] /\ tkPast.exp[i] = TkNull /\ tkPast \in P
  BY <1>1 DEF Draw, TrTyped
<1>3. /\ tkPast' \in P /\ tkPast'.exp = [tkPast.exp EXCEPT ![i] = n]
      /\ tkPast'.coded = tkPast.coded /\ tkPast'.uses = tkPast.uses
      /\ tkPast'.ended = tkPast.ended
  BY <1>2 DEF TrTimes
<1>4. tkPast.exp \in TrTimes
  BY <1>2
<1>5. tkPast'.exp[i] = n /\ \A j \in TkChain \ {i} : tkPast'.exp[j] = tkPast.exp[j]
  BY <1>3, <1>4 DEF TrTimes
<1>6. TrTyped'
  BY <1>1, <1>3, <1>5 DEF TrTyped
<1> QED BY <1>1, <1>2, <1>3, <1>5, <1>6

\* Ended: the tokens of s are revoked or spent.
LEMMA TrEnd ==
    ASSUME TrTyped, NEW s \in SUBSET TkChain, Ended(s), UNCHANGED <<tkNow, tkGroup>>,
           tk' = [t \in TkTables |-> tk'[t]]
    PROVE  /\ TrTyped' /\ tkPast'.ended = tkPast.ended \cup s
           /\ tkPast'.exp = tkPast.exp /\ tkPast'.coded = tkPast.coded
           /\ tkPast'.uses = tkPast.uses
BY DEF TrTyped, Ended

\* Used: a code, a state or an assertion has bought an answer.
LEMMA TrUse ==
    ASSUME TrTyped, NEW i \in TkChain, Used(i), tkPast.uses[i] = 0, UNCHANGED <<tkNow, tkGroup>>,
           tk' = [t \in TkTables |-> tk'[t]]
    PROVE  /\ TrTyped' /\ tkPast'.uses[i] = 1
           /\ \A j \in TkChain \ {i} : tkPast'.uses[j] = tkPast.uses[j]
           /\ tkPast'.exp = tkPast.exp /\ tkPast'.coded = tkPast.coded
           /\ tkPast'.ended = tkPast.ended
<1> DEFINE P == [exp : TrTimes, coded : TrTimes, uses : [TkChain -> Nat], ended : SUBSET TkChain]
<1>1. tkPast' = [tkPast EXCEPT !.uses[i] = 0 + 1] /\ tkPast \in P
  BY DEF Used, TrTyped
<1>2. /\ tkPast' \in P /\ tkPast'.uses = [tkPast.uses EXCEPT ![i] = 1]
      /\ tkPast'.coded = tkPast.coded /\ tkPast'.exp = tkPast.exp
      /\ tkPast'.ended = tkPast.ended
  BY <1>1
<1>3. tkPast.uses \in [TkChain -> Nat]
  BY <1>1
<1>4. tkPast'.uses[i] = 1 /\ \A j \in TkChain \ {i} : tkPast'.uses[j] = tkPast.uses[j]
  BY <1>2, <1>3
<1>5. TrTyped'
  BY <1>2, <1>4 DEF TrTyped
<1> QED BY <1>2, <1>4, <1>5

\* A code or a nonce is given out for i.
LEMMA TrCode ==
    ASSUME TrTyped, NEW i \in TkChain, tkPast' = [tkPast EXCEPT !.coded[i] = tkNow],
           UNCHANGED <<tkNow, tkGroup>>, tk' = [t \in TkTables |-> tk'[t]]
    PROVE  /\ TrTyped' /\ tkPast'.coded[i] = tkNow
           /\ \A j \in TkChain \ {i} : tkPast'.coded[j] = tkPast.coded[j]
           /\ tkPast'.exp = tkPast.exp /\ tkPast'.uses = tkPast.uses
           /\ tkPast'.ended = tkPast.ended
<1> DEFINE P == [exp : TrTimes, coded : TrTimes, uses : [TkChain -> Nat], ended : SUBSET TkChain]
<1>1. tkPast \in P /\ tkNow \in Nat
  BY DEF TrTyped
<1>2. /\ tkPast' \in P /\ tkPast'.coded = [tkPast.coded EXCEPT ![i] = tkNow]
      /\ tkPast'.exp = tkPast.exp /\ tkPast'.uses = tkPast.uses /\ tkPast'.ended = tkPast.ended
  BY <1>1 DEF TrTimes
<1>3. tkPast.coded \in TrTimes
  BY <1>1
<1>4. tkPast'.coded[i] = tkNow /\ \A j \in TkChain \ {i} : tkPast'.coded[j] = tkPast.coded[j]
  BY <1>2, <1>3 DEF TrTimes
<1>5. TrTyped'
  BY <1>2 DEF TrTyped
<1> QED BY <1>2, <1>4, <1>5

\* Quietly: nothing of note happens.
LEMMA TrQuiet ==
    ASSUME TrTyped, Quietly, UNCHANGED <<tkNow, tkGroup>>, tk' = [t \in TkTables |-> tk'[t]]
    PROVE  TrTyped' /\ tkPast' = tkPast
BY DEF TrTyped, Quietly

\* A purge by text takes rows of seconds that have begun.
LEMMA TrStale ==
    ASSUME tkNow \in Nat, NEW r, r.exp \in Nat, Stale(r)
    PROVE  TrOver(r.exp)
BY TrText DEF Stale, TrOver

-----------------------------------------------------------------------------
\* auth_session.go
LEMMA TrSessionStep ==
    ASSUME TrInv, SessionNext
    PROVE  TrInv'
<1>0. /\ tkGroup = "session" /\ UNCHANGED <<tkNow, tkGroup>> /\ TrTyped /\ TrSession
      /\ "sessions" \in TkTables /\ TkIds \subseteq TkChain /\ tkNow \in Nat
  BY TkChainAssumption DEF SessionNext, In, TrInv, TkTables, TrTyped
<1>1. SUFFICES TrTyped' /\ TrSession'
  BY <1>0 DEF TrInv
<1>2. ASSUME NEW i \in TkIds, Draw(i), SessionCreate(i)
      PROVE  TrTyped' /\ TrSession'
  <2>1. PICK n : n = [id |-> i, exp |-> tkNow + TkLife, consumed |-> FALSE, code |-> FALSE]
    OBVIOUS
  <2>2. tk' = [tk EXCEPT !["sessions"] = tk["sessions"] \cup {n}]
    BY <1>2, <2>1 DEF SessionCreate, InsertInto
  <2>3. tk' = [c \in TkTables |-> tk'[c]] /\ tk'["sessions"] = tk["sessions"] \cup {n}
    BY <1>0, <2>2, TrTable
  <2>4. /\ TrTyped' /\ tkPast.exp[i] = TkNull
        /\ tkPast'.exp[i] = tkNow + TkLife /\ tkPast'.exp[i] \in Nat
        /\ \A j \in TkChain \ {i} : tkPast'.exp[j] = tkPast.exp[j]
        /\ tkPast'.coded = tkPast.coded /\ tkPast'.uses = tkPast.uses
    BY <1>0, <1>2, <2>3, TrDraw
  <2>5. n \in TrSessionRow /\ n.id = i /\ n.exp = tkPast'.exp[i]
    BY <1>0, <2>1, <2>4 DEF TrSessionRow
  <2>6. tkPast.coded[i] = TkNull /\ tkPast.uses[i] = 0
    BY <1>0, <2>4 DEF TrSession
  <2>7. \A r \in tk["sessions"] : r.id \in TkChain \ {i}
    BY <1>0, <2>4, TkChainAssumption DEF TrSession, TrSessionRow
  <2>8. \A r \in tk'["sessions"] :
            r.exp = tkPast'.exp[r.id] /\ (r.consumed \/ tkPast'.uses[r.id] = 0)
    BY <1>0, <2>3, <2>4, <2>5, <2>6, <2>7 DEF TrSession
  <2>9. \A j \in TkChain :
            /\ tkPast'.exp[j] = TkNull => tkPast'.coded[j] = TkNull /\ tkPast'.uses[j] = 0
            /\ tkPast'.coded[j] # TkNull => Second(tkPast'.coded[j]) <= Second(tkPast'.exp[j])
    BY <1>0, <2>4, <2>6 DEF TrSession
  <2> QED BY <1>0, <2>3, <2>4, <2>5, <2>8, <2>9 DEF TrSession
<1>3. ASSUME NEW i \in TkIds, SessionUpdateCodeHash(i), tkPast' = [tkPast EXCEPT !.coded[i] = tkNow]
      PROVE  TrTyped' /\ TrSession'
  <2> DEFINE F(r) == IF r.id = i THEN [r EXCEPT !.code = TRUE] ELSE r
  <2>1. tk' = [tk EXCEPT !["sessions"] = {F(r) : r \in tk["sessions"]}]
    BY <1>3 DEF SessionUpdateCodeHash, Rewrite
  <2>2. \A r \in TrSessionRow :
            F(r) \in TrSessionRow /\ F(r).id = r.id /\ F(r).exp = r.exp /\ F(r).consumed = r.consumed
    BY DEF TrSessionRow
  <2> HIDE DEF F
  <2>3. tk' = [c \in TkTables |-> tk'[c]] /\ tk'["sessions"] = {F(r) : r \in tk["sessions"]}
    BY <1>0, <2>1, TrTable
  <2>4. /\ TrTyped' /\ tkPast'.coded[i] = tkNow
        /\ \A j \in TkChain \ {i} : tkPast'.coded[j] = tkPast.coded[j]
        /\ tkPast'.exp = tkPast.exp /\ tkPast'.uses = tkPast.uses
    BY <1>0, <1>3, <2>3, TrCode
  <2>5. PICK r \in tk["sessions"] : r.id = i /\ TextBefore(tkNow, r.exp)
    BY <1>3 DEF SessionUpdateCodeHash, SessionByID, RowsOf, UpdateCodeHashRow
  <2>6. r.exp = tkPast.exp[i] /\ r.exp \in Nat
    BY <1>0, <2>5 DEF TrSession, TrSessionRow
  <2>7. Second(tkNow) <= Second(tkPast.exp[i]) /\ tkPast.exp[i] # TkNull
    BY <1>0, <2>5, <2>6, TrText, TkChainAssumption
  <2>8. \A q \in tk'["sessions"] :
            /\ q \in TrSessionRow
            /\ q.exp = tkPast'.exp[q.id] /\ (q.consumed \/ tkPast'.uses[q.id] = 0)
    BY <1>0, <2>2, <2>3, <2>4 DEF TrSession
  <2>9. \A j \in TkChain :
            /\ tkPast'.exp[j] = TkNull => tkPast'.coded[j] = TkNull /\ tkPast'.uses[j] = 0
            /\ tkPast'.coded[j] # TkNull => Second(tkPast'.coded[j]) <= Second(tkPast'.exp[j])
    BY <1>0, <2>4, <2>7 DEF TrSession
  <2> QED BY <2>4, <2>8, <2>9 DEF TrSession
<1>4. ASSUME NEW i \in TkIds, SessionConsume(i), Used(i)
      PROVE  TrTyped' /\ TrSession'
  <2> DEFINE F(r) == IF r.id = i THEN [r EXCEPT !.consumed = TRUE] ELSE r
  <2>1. tk' = [tk EXCEPT !["sessions"] = {F(r) : r \in tk["sessions"]}]
    BY <1>4 DEF SessionConsume, Rewrite
  <2>2. \A r \in TrSessionRow :
            /\ F(r) \in TrSessionRow /\ F(r).id = r.id /\ F(r).exp = r.exp
            /\ r.id = i => F(r).consumed
            /\ r.id # i => F(r) = r
    BY DEF TrSessionRow
  <2> HIDE DEF F
  <2>3. tk' = [c \in TkTables |-> tk'[c]] /\ tk'["sessions"] = {F(r) : r \in tk["sessions"]}
    BY <1>0, <2>1, TrTable
  <2>4. PICK r \in tk["sessions"] : r.id = i /\ ~r.consumed
    BY <1>4 DEF SessionConsume, SessionByID, RowsOf
  <2>5. tkPast.uses[i] = 0 /\ tkPast.exp[i] # TkNull
    BY <1>0, <2>4, TkChainAssumption DEF TrSession, TrSessionRow
  <2>6. /\ TrTyped' /\ tkPast'.uses[i] = 1
        /\ \A j \in TkChain \ {i} : tkPast'.uses[j] = tkPast.uses[j]
        /\ tkPast'.exp = tkPast.exp /\ tkPast'.coded = tkPast.coded
    BY <1>0, <1>4, <2>3, <2>5, TrUse
  <2>7. ASSUME NEW q \in tk["sessions"]
        PROVE  /\ F(q) \in TrSessionRow /\ F(q).exp = tkPast'.exp[F(q).id]
               /\ F(q).consumed \/ tkPast'.uses[F(q).id] = 0
    <3>1. q \in TrSessionRow /\ q.id \in TkChain
      BY <1>0 DEF TrSession, TrSessionRow
    <3> QED BY <1>0, <2>2, <2>6, <3>1 DEF TrSession
  <2>8. \A j \in TkChain :
            /\ tkPast'.exp[j] = TkNull => tkPast'.coded[j] = TkNull /\ tkPast'.uses[j] = 0
            /\ tkPast'.coded[j] # TkNull => Second(tkPast'.coded[j]) <= Second(tkPast'.exp[j])
    BY <1>0, <2>5, <2>6 DEF TrSession
  <2> QED BY <2>3, <2>6, <2>7, <2>8 DEF TrSession
<1>5. ASSUME NEW rows \in SUBSET tk["sessions"], tk' = [tk EXCEPT !["sessions"] = rows], Quietly
      PROVE  TrTyped' /\ TrSession'
  <2>1. tk' = [c \in TkTables |-> tk'[c]] /\ tk'["sessions"] = rows
    BY <1>0, <1>5, TrTable
  <2>2. TrTyped' /\ tkPast' = tkPast
    BY <1>0, <1>5, <2>1, TrQuiet
  <2> QED BY <1>0, <2>1, <2>2 DEF TrSession
<1>6. ASSUME NEW i \in TkIds, SessionDelete(i), Quietly
      PROVE  TrTyped' /\ TrSession'
  BY <1>5, <1>6 DEF SessionDelete, DeleteFrom
<1>7. ASSUME SessionDeleteExpired, Quietly
      PROVE  TrTyped' /\ TrSession'
  BY <1>5, <1>7 DEF SessionDeleteExpired, DeleteFrom
<1> QED BY <1>2, <1>3, <1>4, <1>6, <1>7 DEF SessionNext

\* token_family.go, refresh_token.go
LEMMA TrFamilyStep ==
    ASSUME TrInv, FamilyNext
    PROVE  TrInv'
<1>0. /\ tkGroup = "family" /\ UNCHANGED <<tkNow, tkGroup>> /\ TrTyped /\ TrFamily
      /\ "refresh" \in TkTables /\ "families" \in TkTables /\ TkIds \subseteq TkChain /\ tkNow \in Nat
  BY TkChainAssumption DEF FamilyNext, In, TrInv, TkTables, TrTyped
<1>1. SUFFICES TrTyped' /\ TrFamily'
  BY <1>0 DEF TrInv
<1>2. ASSUME NEW rows, tk' = [tk EXCEPT !["families"] = rows], Quietly
      PROVE  TrTyped' /\ TrFamily'
  <2>1. tk' = [c \in TkTables |-> tk'[c]] /\ tk'["refresh"] = tk["refresh"]
    BY <1>0, <1>2, TrTable
  <2>2. TrTyped' /\ tkPast' = tkPast
    BY <1>0, <1>2, <2>1, TrQuiet
  <2> QED BY <1>0, <2>1, <2>2 DEF TrFamily, TrEnded, TrOver
<1>3. ASSUME NEW i \in TkIds, FamilyCreate(i), Quietly
      PROVE  TrTyped' /\ TrFamily'
  BY <1>2, <1>3 DEF FamilyCreate, InsertInto
<1>4. ASSUME NEW i \in TkIds, Draw(i), RefreshCreate(i)
      PROVE  TrTyped' /\ TrFamily'
  <2>1. PICK n : n = [id |-> i, fam |-> i, exp |-> tkNow + TkLife, consumed |-> FALSE]
    OBVIOUS
  <2>2. tk' = [tk EXCEPT !["refresh"] = tk["refresh"] \cup {n}]
    BY <1>4, <2>1 DEF RefreshCreate, InsertInto
  <2>3. tk' = [c \in TkTables |-> tk'[c]] /\ tk'["refresh"] = tk["refresh"] \cup {n}
    BY <1>0, <2>2, TrTable
  <2>4. /\ TrTyped' /\ tkPast.exp[i] = TkNull
        /\ tkPast'.exp[i] = tkNow + TkLife /\ tkPast'.exp[i] \in Nat
        /\ \A j \in TkChain \ {i} : tkPast'.exp[j] = tkPast.exp[j]
        /\ tkPast'.ended = tkPast.ended
    BY <1>0, <1>4, <2>3, TrDraw
  <2>5. n \in TrRefreshRow /\ n.id = i /\ n.fam = i /\ n.exp = tkPast'.exp[i] /\ ~n.consumed
    BY <1>0, <2>1, <2>4 DEF TrRefreshRow
  <2>6. \A r \in tk["refresh"] : r.id \in TkChain \ {i}
    BY <1>0, <2>4, TkChainAssumption DEF TrFamily, TrRefreshRow
  <2>7. tkPast.ended \subseteq TkChain \ {i}
    BY <1>0, <2>4 DEF TrFamily, TrEnded, TrTyped
  <2>8. \A r \in tk'["refresh"] : r \in TrRefreshRow /\ r.exp = tkPast'.exp[r.id] /\ r.fam = r.id
    BY <1>0, <2>3, <2>4, <2>5, <2>6 DEF TrFamily
  <2>9. TrEnded({r \in tk["refresh"] : r.consumed})'
    BY <1>0, <2>3, <2>4, <2>7 DEF TrFamily, TrEnded, TrOver
  <2> QED BY <2>4, <2>8, <2>9 DEF TrFamily
<1>5. ASSUME NEW s \in SUBSET TkChain, Ended(s), tk' = [c \in TkTables |-> tk'[c]],
             \A q \in tk'["refresh"] : q \in TrRefreshRow /\ \E r \in tk["refresh"] :
                q.id = r.id /\ q.fam = r.fam /\ q.exp = r.exp,
             \A r \in tk["refresh"] : \E q \in tk'["refresh"] :
                q.id = r.id /\ (r.consumed \/ r.id \in s => q.consumed),
             \A i \in s : \E r \in tk["refresh"] : r.id = i
      PROVE  TrTyped' /\ TrFamily'
  <2>1. /\ TrTyped' /\ tkPast'.ended = tkPast.ended \cup s /\ tkPast'.exp = tkPast.exp
    BY <1>0, <1>5, TrEnd
  <2>2. \A q \in tk'["refresh"] : q \in TrRefreshRow /\ q.exp = tkPast'.exp[q.id] /\ q.fam = q.id
    BY <1>0, <1>5, <2>1 DEF TrFamily
  <2>3. ASSUME NEW i \in s
        PROVE  tkPast'.exp[i] # TkNull /\ \E q \in tk'["refresh"] : q.id = i /\ q.consumed
    <3>1. PICK r \in tk["refresh"] : r.id = i
      BY <1>5
    <3>2. tkPast.exp[i] # TkNull
      BY <1>0, <3>1, TkChainAssumption DEF TrFamily, TrRefreshRow
    <3> QED BY <1>5, <2>1, <3>1, <3>2
  <2>4. ASSUME NEW i \in tkPast.ended
        PROVE  /\ tkPast'.exp[i] # TkNull
               /\ (\E q \in tk'["refresh"] : q.id = i /\ q.consumed) \/ TrOver(tkPast.exp[i])
    BY <1>0, <1>5, <2>1 DEF TrFamily, TrEnded
  <2>5. TrEnded({r \in tk["refresh"] : r.consumed})'
    BY <1>0, <2>1, <2>3, <2>4 DEF TrEnded, TrOver
  <2> QED BY <2>1, <2>2, <2>5 DEF TrFamily
<1>6. ASSUME NEW i \in TkIds, RefreshConsume(i), Ended({i})
      PROVE  TrTyped' /\ TrFamily'
  <2> DEFINE F(r) == IF r.id = i THEN [r EXCEPT !.consumed = TRUE] ELSE r
  <2>1. tk' = [tk EXCEPT !["refresh"] = {F(r) : r \in tk["refresh"]}]
    BY <1>6 DEF RefreshConsume, Rewrite
  <2>2. \A r \in TrRefreshRow :
            /\ F(r) \in TrRefreshRow /\ F(r).id = r.id /\ F(r).fam = r.fam /\ F(r).exp = r.exp
            /\ r.consumed => F(r).consumed
            /\ r.id = i => F(r).consumed
    BY DEF TrRefreshRow
  <2> HIDE DEF F
  <2>3. tk' = [c \in TkTables |-> tk'[c]] /\ tk'["refresh"] = {F(r) : r \in tk["refresh"]}
    BY <1>0, <2>1, TrTable
  <2>4. PICK h \in tk["refresh"] : h.id = i
    BY <1>6 DEF RefreshConsume, RefreshByHash, RowsOf
  <2>5. tk["refresh"] \subseteq TrRefreshRow /\ {i} \in SUBSET TkChain
    BY <1>0 DEF TrFamily
  <2>6. \A r \in tk["refresh"] : \E q \in tk'["refresh"] :
            q.id = r.id /\ (r.consumed \/ r.id \in {i} => q.consumed)
    BY <2>2, <2>3, <2>5
  <2>7. \A q \in tk'["refresh"] : q \in TrRefreshRow /\ \E a \in tk["refresh"] :
            q.id = a.id /\ q.fam = a.fam /\ q.exp = a.exp
    BY <2>2, <2>3, <2>5
  <2> QED BY <1>5, <1>6, <2>3, <2>4, <2>5, <2>6, <2>7
<1>7. ASSUME NEW i \in TkIds, FamilyRevoke(i), Ended({r.id : r \in RefreshByHash(i)})
      PROVE  TrTyped' /\ TrFamily'
  <2> DEFINE F(r) == IF r.fam = i THEN SpentByRevocation(r) ELSE r
             G(r) == IF r.id = i /\ r.status = "active"
                     THEN [r EXCEPT !.status = "revoked", !.revoked = tkNow] ELSE r
             s == {r.id : r \in RefreshByHash(i)}
  <2>1. tk' = [tk EXCEPT !["families"] = {G(r) : r \in tk["families"]},
                         !["refresh"] = {F(r) : r \in tk["refresh"]}]
    BY <1>0, <1>7 DEF FamilyRevoke, TrTyped
  <2>2. \A r \in TrRefreshRow :
            /\ F(r) \in TrRefreshRow /\ F(r).id = r.id /\ F(r).fam = r.fam /\ F(r).exp = r.exp
            /\ r.consumed => F(r).consumed
            /\ r.fam = i => F(r).consumed
    BY DEF TrRefreshRow, SpentByRevocation
  <2> HIDE DEF F, G
  <2>3. tk' = [c \in TkTables |-> tk'[c]] /\ tk'["refresh"] = {F(r) : r \in tk["refresh"]}
    BY <1>0, <2>1 DEF TrTyped
  <2>4. tk["refresh"] \subseteq TrRefreshRow /\ \A r \in tk["refresh"] : r.fam = r.id
    BY <1>0 DEF TrFamily
  <2>5. s \in SUBSET TkChain /\ \A j \in s : j = i /\ \E r \in tk["refresh"] : r.id = i
    BY <1>0 DEF RefreshByHash, RowsOf
  <2>6. Ended(s)
    BY <1>7
  <2> HIDE DEF s
  <2>7. \A r \in tk["refresh"] : \E q \in tk'["refresh"] :
            q.id = r.id /\ (r.consumed \/ r.id \in s => q.consumed)
    BY <2>2, <2>3, <2>4, <2>5
  <2>8. \A q \in tk'["refresh"] : q \in TrRefreshRow /\ \E a \in tk["refresh"] :
            q.id = a.id /\ q.fam = a.fam /\ q.exp = a.exp
    BY <2>2, <2>3, <2>4
  <2> QED BY <1>5, <2>3, <2>5, <2>6, <2>7, <2>8
<1>8. ASSUME FamiliesRevokeByClient, Quietly
      PROVE  TrTyped' /\ TrFamily'
  BY <1>2, <1>8 DEF FamiliesRevokeByClient, Rewrite
<1>9. ASSUME RefreshPurgeExpired, Quietly
      PROVE  TrTyped' /\ TrFamily'
  <2>1. tk' = [tk EXCEPT !["refresh"] = {r \in tk["refresh"] : ~Stale(r)}]
    BY <1>9 DEF RefreshPurgeExpired, DeleteFrom
  <2>2. tk' = [c \in TkTables |-> tk'[c]] /\ tk'["refresh"] = {r \in tk["refresh"] : ~Stale(r)}
    BY <1>0, <2>1, TrTable
  <2>3. TrTyped' /\ tkPast' = tkPast
    BY <1>0, <1>9, <2>2, TrQuiet
  <2>4. ASSUME NEW i \in tkPast.ended
        PROVE  /\ tkPast.exp[i] # TkNull
               /\ (\E r \in tk'["refresh"] : r.id = i /\ r.consumed) \/ TrOver(tkPast.exp[i])
    <3>1. CASE TrOver(tkPast.exp[i])
      BY <1>0, <3>1 DEF TrFamily, TrEnded
    <3>2. CASE ~TrOver(tkPast.exp[i])
      <4>1. PICK r \in tk["refresh"] : r.id = i /\ r.consumed
        BY <1>0, <3>2 DEF TrFamily, TrEnded
      <4>2. r.exp = tkPast.exp[i] /\ r.exp \in Nat
        BY <1>0, <4>1 DEF TrFamily, TrRefreshRow
      <4>3. ~Stale(r)
        BY <1>0, <3>2, <4>2, TrStale
      <4> QED BY <1>0, <2>2, <4>1, <4>3 DEF TrFamily, TrEnded
    <3> QED BY <3>1, <3>2
  <2>5. TrEnded({r \in tk["refresh"] : r.consumed})'
    BY <1>0, <2>3, <2>4 DEF TrEnded, TrOver
  <2> QED BY <1>0, <2>2, <2>3, <2>5 DEF TrFamily
<1> QED BY <1>3, <1>4, <1>6, <1>7, <1>8, <1>9 DEF FamilyNext

\* machine_token.go
LEMMA TrMachineStep ==
    ASSUME TrInv, MachineNext
    PROVE  TrInv'
<1>0. /\ tkGroup = "machine" /\ UNCHANGED <<tkNow, tkGroup>> /\ TrTyped /\ TrMachine
      /\ "machine" \in TkTables /\ TkIds \subseteq TkChain /\ tkNow \in Nat
      /\ tk["machine"] \subseteq TrMachineRow
  BY TkChainAssumption DEF MachineNext, In, TrInv, TkTables, TrTyped, TrMachine
<1>1. SUFFICES TrTyped' /\ TrMachine'
  BY <1>0 DEF TrInv
<1>2. ASSUME NEW i \in TkIds, Draw(i), MachineSave(i)
      PROVE  TrTyped' /\ TrMachine'
  <2>1. PICK n : n = [id |-> i, issued |-> tkNow, exp |-> tkNow + TkLife, revoked |-> FALSE]
    OBVIOUS
  <2>2. tk' = [tk EXCEPT !["machine"] = tk["machine"] \cup {n}]
    BY <1>2, <2>1 DEF MachineSave, InsertInto
  <2>3. tk' = [c \in TkTables |-> tk'[c]] /\ tk'["machine"] = tk["machine"] \cup {n}
    BY <1>0, <2>2, TrTable
  <2>4. /\ TrTyped' /\ tkPast.exp[i] = TkNull
        /\ tkPast'.exp[i] = tkNow + TkLife /\ tkPast'.exp[i] \in Nat
        /\ \A j \in TkChain \ {i} : tkPast'.exp[j] = tkPast.exp[j]
        /\ tkPast'.ended = tkPast.ended
    BY <1>0, <1>2, <2>3, TrDraw
  <2>5. n \in TrMachineRow /\ n.id = i /\ n.exp = tkPast'.exp[i] /\ ~n.revoked
    BY <1>0, <2>1, <2>4 DEF TrMachineRow
  <2>6. \A r \in tk["machine"] : r.id \in TkChain \ {i}
    BY <1>0, <2>4, TkChainAssumption DEF TrMachine, TrMachineRow
  <2>7. tkPast.ended \subseteq TkChain \ {i}
    BY <1>0, <2>4 DEF TrMachine, TrEnded, TrTyped
  <2>8. \A r \in tk'["machine"] : r \in TrMachineRow /\ r.exp = tkPast'.exp[r.id]
    BY <1>0, <2>3, <2>4, <2>5, <2>6 DEF TrMachine
  <2>9. TrEnded({r \in tk["machine"] : r.revoked})'
    BY <1>0, <2>3, <2>4, <2>7 DEF TrMachine, TrEnded, TrOver
  <2>10. ASSUME NEW j \in TkChain \ tkPast.ended, tkPast'.exp[j] # TkNull
         PROVE  (\E r \in tk'["machine"] : r.id = j /\ ~r.revoked) \/ TrOver(tkPast.exp[j])'
    <3>1. CASE j = i
      BY <2>3, <2>5, <3>1
    <3>2. CASE j # i
      BY <1>0, <2>3, <2>4, <2>10, <3>2 DEF TrMachine, TrOver
    <3> QED BY <3>1, <3>2
  <2> QED BY <2>4, <2>8, <2>9, <2>10 DEF TrMachine
<1>3. ASSUME NEW s \in SUBSET TkChain, Ended(s), tk' = [c \in TkTables |-> tk'[c]],
             \A q \in tk'["machine"] : q \in TrMachineRow /\ \E r \in tk["machine"] :
                q.id = r.id /\ q.exp = r.exp,
             \A r \in tk["machine"] : \E q \in tk'["machine"] :
                /\ q.id = r.id
                /\ r.revoked \/ r.id \in s => q.revoked
                /\ ~r.revoked /\ r.id \notin s => ~q.revoked,
             \A i \in s : \E r \in tk["machine"] : r.id = i
      PROVE  TrTyped' /\ TrMachine'
  <2>1. /\ TrTyped' /\ tkPast'.ended = tkPast.ended \cup s /\ tkPast'.exp = tkPast.exp
    BY <1>0, <1>3, TrEnd
  <2>2. \A q \in tk'["machine"] : q \in TrMachineRow /\ q.exp = tkPast'.exp[q.id]
    BY <1>0, <1>3, <2>1 DEF TrMachine
  <2>3. ASSUME NEW i \in s
        PROVE  tkPast'.exp[i] # TkNull /\ \E q \in tk'["machine"] : q.id = i /\ q.revoked
    <3>1. PICK r \in tk["machine"] : r.id = i
      BY <1>3
    <3>2. tkPast.exp[i] # TkNull
      BY <1>0, <3>1, TkChainAssumption DEF TrMachine, TrMachineRow
    <3> QED BY <1>3, <2>1, <3>1, <3>2
  <2>4. ASSUME NEW i \in tkPast.ended
        PROVE  /\ tkPast'.exp[i] # TkNull
               /\ (\E q \in tk'["machine"] : q.id = i /\ q.revoked) \/ TrOver(tkPast.exp[i])
    BY <1>0, <1>3, <2>1 DEF TrMachine, TrEnded
  <2>5. TrEnded({r \in tk["machine"] : r.revoked})'
    BY <1>0, <2>1, <2>3, <2>4 DEF TrEnded, TrOver
  <2>6. ASSUME NEW j \in TkChain \ tkPast'.ended, tkPast'.exp[j] # TkNull
        PROVE  (\E q \in tk'["machine"] : q.id = j /\ ~q.revoked) \/ TrOver(tkPast.exp[j])'
    <3>0. j \notin s /\ j \in TkChain \ tkPast.ended /\ tkPast.exp[j] # TkNull
      BY <2>1, <2>6
    <3>1. CASE TrOver(tkPast.exp[j])
      BY <1>0, <2>1, <3>1 DEF TrOver
    <3>2. CASE ~TrOver(tkPast.exp[j])
      <4>1. PICK r \in tk["machine"] : r.id = j /\ ~r.revoked
        BY <1>0, <3>0, <3>2 DEF TrMachine
      <4> QED BY <1>3, <3>0, <4>1
    <3> QED BY <3>1, <3>2
  <2> QED BY <2>1, <2>2, <2>5, <2>6 DEF TrMachine
<1>4. ASSUME NEW i \in TkIds, MachineRevoke(i), Ended({i})
      PROVE  TrTyped' /\ TrMachine'
  <2> DEFINE F(r) == IF r.id = i THEN [r EXCEPT !.revoked = TRUE] ELSE r
  <2>1. tk' = [tk EXCEPT !["machine"] = {F(r) : r \in tk["machine"]}]
    BY <1>4 DEF MachineRevoke, Rewrite
  <2>2. \A r \in TrMachineRow :
            /\ F(r) \in TrMachineRow /\ F(r).id = r.id /\ F(r).exp = r.exp
            /\ r.id = i => F(r).revoked
            /\ r.id # i => F(r) = r
    BY DEF TrMachineRow
  <2> HIDE DEF F
  <2>3. tk' = [c \in TkTables |-> tk'[c]] /\ tk'["machine"] = {F(r) : r \in tk["machine"]}
    BY <1>0, <2>1, TrTable
  <2>4. \E r \in tk["machine"] : r.id = i
    BY <1>4 DEF MachineRevoke, MachineByJTI, RowsOf
  <2>5. \A q \in tk'["machine"] : q \in TrMachineRow /\ \E r \in tk["machine"] :
            q.id = r.id /\ q.exp = r.exp
    BY <1>0, <2>2, <2>3
  <2>6. ASSUME NEW r \in tk["machine"]
        PROVE  \E q \in tk'["machine"] :
                 /\ q.id = r.id
                 /\ r.revoked \/ r.id \in {i} => q.revoked
                 /\ ~r.revoked /\ r.id \notin {i} => ~q.revoked
    <3>1. r \in TrMachineRow /\ F(r) \in tk'["machine"]
      BY <1>0, <2>3
    <3> QED BY <2>2, <3>1
  <2>7. {i} \in SUBSET TkChain
    BY <1>0
  <2> QED BY <1>3, <1>4, <2>3, <2>4, <2>5, <2>6, <2>7
<1>5. ASSUME MachineRevokeByClient, Ended({r.id : r \in tk["machine"]})
      PROVE  TrTyped' /\ TrMachine'
  <2> DEFINE F(r) == IF ~r.revoked THEN [r EXCEPT !.revoked = TRUE] ELSE r
             s == {r.id : r \in tk["machine"]}
  <2>1. tk' = [tk EXCEPT !["machine"] = {F(r) : r \in tk["machine"]}]
    BY <1>5 DEF MachineRevokeByClient, Rewrite
  <2>2. \A r \in TrMachineRow :
            F(r) \in TrMachineRow /\ F(r).id = r.id /\ F(r).exp = r.exp /\ F(r).revoked
    BY DEF TrMachineRow
  <2> HIDE DEF F
  <2>3. tk' = [c \in TkTables |-> tk'[c]] /\ tk'["machine"] = {F(r) : r \in tk["machine"]}
    BY <1>0, <2>1, TrTable
  <2>4. s \in SUBSET TkChain
    BY <1>0 DEF TrMachineRow
  <2>5. \A q \in tk'["machine"] : q \in TrMachineRow /\ \E r \in tk["machine"] :
            q.id = r.id /\ q.exp = r.exp
    BY <1>0, <2>2, <2>3
  <2>6. \A r \in tk["machine"] : r.id \in s /\ \E q \in tk'["machine"] : q.id = r.id /\ q.revoked
    BY <1>0, <2>2, <2>3
  <2>7. \A i \in s : \E r \in tk["machine"] : r.id = i
    OBVIOUS
  <2>8. Ended(s)
    BY <1>5
  <2> HIDE DEF s
  <2> QED BY <1>3, <2>3, <2>4, <2>5, <2>6, <2>7, <2>8
<1>6. ASSUME MachinePurgeExpired, Quietly
      PROVE  TrTyped' /\ TrMachine'
  <2>1. tk' = [tk EXCEPT !["machine"] = {r \in tk["machine"] : ~Stale(r)}]
    BY <1>6 DEF MachinePurgeExpired, DeleteFrom
  <2>2. tk' = [c \in TkTables |-> tk'[c]] /\ tk'["machine"] = {r \in tk["machine"] : ~Stale(r)}
    BY <1>0, <2>1, TrTable
  <2>3. TrTyped' /\ tkPast' = tkPast
    BY <1>0, <1>6, <2>2, TrQuiet
  <2>4. ASSUME NEW r \in tk["machine"], ~TrOver(tkPast.exp[r.id])
        PROVE  r \in tk'["machine"]
    <3>1. r.exp = tkPast.exp[r.id] /\ r.exp \in Nat
      BY <1>0 DEF TrMachine, TrMachineRow
    <3>2. ~Stale(r)
      BY <1>0, <2>4, <3>1, TrStale
    <3> QED BY <2>2, <3>2
  <2>5. TrEnded({r \in tk["machine"] : r.revoked})'
    BY <1>0, <2>3, <2>4 DEF TrMachine, TrEnded, TrOver
  <2>6. ASSUME NEW j \in TkChain \ tkPast.ended, tkPast.exp[j] # TkNull
        PROVE  (\E r \in tk'["machine"] : r.id = j /\ ~r.revoked) \/ TrOver(tkPast.exp[j])
    BY <1>0, <2>4, <2>6 DEF TrMachine
  <2> QED BY <1>0, <2>2, <2>3, <2>5, <2>6 DEF TrMachine, TrOver
<1> QED BY <1>2, <1>4, <1>5, <1>6 DEF MachineNext

\* revocation.go
LEMMA TrDenylistStep ==
    ASSUME TrInv, DenylistNext
    PROVE  TrInv'
<1>0. /\ tkGroup = "denylist" /\ UNCHANGED <<tkNow, tkGroup>> /\ TrTyped /\ TrDenylist
      /\ "tracked" \in TkTables /\ "denied" \in TkTables /\ TkIds \subseteq TkChain /\ tkNow \in Nat
      /\ tk = [c \in TkTables |-> tk[c]]
      /\ tk["tracked"] \subseteq TrRow /\ tk["denied"] \subseteq TrRow
  BY TkChainAssumption DEF DenylistNext, In, TrInv, TkTables, TrTyped, TrDenylist
<1>1. SUFFICES TrTyped' /\ TrDenylist'
  BY <1>0 DEF TrInv
<1>2. ASSUME NEW i \in TkIds, Draw(i), UNCHANGED tk
      PROVE  TrTyped' /\ TrDenylist'
  <2>1. /\ TrTyped' /\ tkPast.exp[i] = TkNull /\ tkPast'.exp[i] \in Nat
        /\ \A j \in TkChain \ {i} : tkPast'.exp[j] = tkPast.exp[j]
        /\ tkPast'.ended = tkPast.ended
    BY <1>0, <1>2, TrDraw
  <2>2. /\ \A r \in tk["tracked"] : r.id \in TkChain \ {i}
        /\ \A r \in tk["denied"] : r.id \in TkChain \ {i}
    BY <1>0, <2>1, TkChainAssumption DEF TrDenylist, TrRow
  <2>3. tkPast.ended \subseteq TkChain \ {i}
    BY <1>0, <2>1 DEF TrDenylist, TrEnded, TrTyped
  <2>4. TrEnded(tk["denied"])'
    BY <1>0, <1>2, <2>1, <2>3 DEF TrDenylist, TrEnded, TrOver
  <2> QED BY <1>0, <1>2, <2>1, <2>2, <2>4 DEF TrDenylist
<1>3. ASSUME NEW i \in TkIds, tkPast.exp[i] = tkNow + TkLife, TrackJTIRow(i), Quietly
      PROVE  TrTyped' /\ TrDenylist'
  <2>1. PICK n : n = [id |-> i, exp |-> tkPast.exp[i]]
    OBVIOUS
  <2>2. tk' = [tk EXCEPT !["tracked"] = tk["tracked"] \cup {n}]
    BY <1>3, <2>1 DEF TrackJTIRow, InsertInto
  <2>3. /\ tk' = [c \in TkTables |-> tk'[c]] /\ tk'["tracked"] = tk["tracked"] \cup {n}
        /\ tk'["denied"] = tk["denied"]
    BY <1>0, <2>2, TrTable
  <2>4. TrTyped' /\ tkPast' = tkPast
    BY <1>0, <1>3, <2>3, TrQuiet
  <2>5. n \in TrRow /\ n.exp = tkPast.exp[n.id]
    BY <1>0, <1>3, <2>1, TkLifeAssumption DEF TrRow
  <2>6. TrEnded(tk["denied"])'
    BY <1>0, <2>3, <2>4 DEF TrDenylist, TrEnded, TrOver
  <2> QED BY <1>0, <2>3, <2>4, <2>5, <2>6 DEF TrDenylist
<1>4. ASSUME NEW s \in SUBSET TkChain, Ended(s), tk' = [c \in TkTables |-> tk'[c]],
             tk'["tracked"] = tk["tracked"], tk["denied"] \subseteq tk'["denied"],
             \A r \in tk'["denied"] : r \in TrRow /\ tkPast.exp[r.id] # TkNull /\ tkPast.exp[r.id] <= r.exp,
             \A i \in s : \E r \in tk'["denied"] : r.id = i
      PROVE  TrTyped' /\ TrDenylist'
  <2>1. TrTyped' /\ tkPast'.ended = tkPast.ended \cup s /\ tkPast'.exp = tkPast.exp
    BY <1>0, <1>4, TrEnd
  <2>2. \A i \in s : tkPast'.exp[i] # TkNull /\ \E r \in tk'["denied"] : r.id = i
    BY <1>4, <2>1
  <2>3. \A i \in tkPast.ended : tkPast'.exp[i] # TkNull
            /\ ((\E r \in tk'["denied"] : r.id = i) \/ TrOver(tkPast.exp[i]))
    BY <1>0, <1>4, <2>1 DEF TrDenylist, TrEnded
  <2>4. TrEnded(tk["denied"])'
    BY <1>0, <2>1, <2>2, <2>3 DEF TrEnded, TrOver
  <2> QED BY <1>0, <1>4, <2>1, <2>4 DEF TrDenylist
<1>5. ASSUME NEW i \in TkIds, tkPast.exp[i] # TkNull, RevokeJTIRow(i), Ended({i})
      PROVE  TrTyped' /\ TrDenylist'
  <2>0. {i} \in SUBSET TkChain /\ tkPast.exp[i] \in Nat
    BY <1>0, <1>5 DEF TrTyped, TrTimes
  <2>1. CASE Present("denied", i)
    <3>1. UNCHANGED tk
      BY <1>5, <2>1 DEF RevokeJTIRow
    <3>2. \E r \in tk["denied"] : r.id = i
      BY <2>1 DEF Present
    <3>3. \A r \in tk["denied"] : r \in TrRow /\ tkPast.exp[r.id] # TkNull /\ tkPast.exp[r.id] <= r.exp
      BY <1>0 DEF TrDenylist
    <3> QED BY <1>0, <1>4, <1>5, <2>0, <3>1, <3>2, <3>3
  <2>2. CASE ~Present("denied", i)
    <3>1. PICK n : n = [id |-> i, exp |-> RevokedUntil(i)]
      OBVIOUS
    <3>2. tk' = [tk EXCEPT !["denied"] = tk["denied"] \cup {n}]
      BY <1>5, <2>2, <3>1 DEF RevokeJTIRow, InsertInto
    <3>3. /\ tk' = [c \in TkTables |-> tk'[c]] /\ tk'["denied"] = tk["denied"] \cup {n}
          /\ tk'["tracked"] = tk["tracked"]
      BY <1>0, <3>2, TrTable
    <3>4. RevokedUntil(i) \in Nat /\ tkPast.exp[i] <= RevokedUntil(i)
      <4>1. CASE Present("tracked", i)
        <5>1. PICK r \in tk["tracked"] : r.id = i
          BY <4>1 DEF Present
        <5>2. Row("tracked", i) \in tk["tracked"] /\ Row("tracked", i).id = i
          BY <5>1 DEF Row
        <5>3. Row("tracked", i).exp = tkPast.exp[i]
          BY <1>0, <5>2 DEF TrDenylist
        <5> QED BY <2>0, <4>1, <5>3 DEF RevokedUntil
      <4>2. CASE ~Present("tracked", i)
        <5>1. tkPast.exp[i] <= tkNow + TkLife
          BY <1>0, <1>5 DEF TrTyped
        <5>2. RevokedUntil(i) = tkNow + TkFallback
          BY <4>2 DEF RevokedUntil
        <5> QED BY <1>0, <2>0, <5>1, <5>2, TkLifeAssumption
      <4> QED BY <4>1, <4>2
    <3>5. n \in TrRow /\ n.id = i /\ n.exp = RevokedUntil(i)
      BY <1>0, <3>1, <3>4 DEF TrRow
    <3>6. \A r \in tk'["denied"] : r \in TrRow /\ tkPast.exp[r.id] # TkNull /\ tkPast.exp[r.id] <= r.exp
      BY <1>0, <1>5, <3>3, <3>4, <3>5 DEF TrDenylist
    <3> QED BY <1>4, <1>5, <2>0, <3>3, <3>5, <3>6
  <2> QED BY <2>1, <2>2
<1>6. ASSUME RevokeByFamilyRows, Ended({r.id : r \in tk["tracked"]})
      PROVE  TrTyped' /\ TrDenylist'
  <2> DEFINE s == {r.id : r \in tk["tracked"]}
             new == {r \in tk["tracked"] : \A d \in tk["denied"] : d.id # r.id}
  <2>1. tk' = [tk EXCEPT !["denied"] = tk["denied"] \cup new]
    BY <1>6 DEF RevokeByFamilyRows
  <2>2. /\ tk' = [c \in TkTables |-> tk'[c]] /\ tk'["denied"] = tk["denied"] \cup new
        /\ tk'["tracked"] = tk["tracked"]
    BY <1>0, <2>1, TrTable
  <2>3. \A r \in tk["tracked"] : tkPast.exp[r.id] # TkNull /\ tkPast.exp[r.id] <= r.exp
    BY <1>0, TkChainAssumption DEF TrDenylist, TrRow
  <2>4. \A r \in tk'["denied"] : r \in TrRow /\ tkPast.exp[r.id] # TkNull /\ tkPast.exp[r.id] <= r.exp
    BY <1>0, <2>2, <2>3 DEF TrDenylist
  <2>5. s \in SUBSET TkChain
    BY <1>0 DEF TrRow
  <2>6. \A i \in s : \E r \in tk'["denied"] : r.id = i
    BY <2>2
  <2>7. Ended(s)
    BY <1>6
  <2> HIDE DEF s
  <2> QED BY <1>4, <2>2, <2>4, <2>5, <2>6, <2>7
<1>7. ASSUME RevocationPurgeExpired, Quietly
      PROVE  TrTyped' /\ TrDenylist'
  <2>1. /\ tk' = [c \in TkTables |-> tk'[c]]
        /\ tk'["tracked"] = {r \in tk["tracked"] : ~Stale(r)}
        /\ tk'["denied"] = {r \in tk["denied"] : ~Stale(r)}
    BY <1>0, <1>7 DEF RevocationPurgeExpired
  <2>2. TrTyped' /\ tkPast' = tkPast
    BY <1>0, <1>7, <2>1, TrQuiet
  <2>3. ASSUME NEW r \in tk["denied"], ~TrOver(tkPast.exp[r.id])
        PROVE  r \in tk'["denied"]
    <3>1. tkPast.exp[r.id] \in Nat /\ r.exp \in Nat /\ tkPast.exp[r.id] <= r.exp
      BY <1>0 DEF TrDenylist, TrRow, TrTyped, TrTimes
    <3>2. PICK a \in Nat, b \in Nat, c \in Nat :
              a = Second(tkPast.exp[r.id]) /\ b = Second(r.exp) /\ c = Second(tkNow)
      BY <1>0, <3>1, TrParts
    <3>3. a <= b /\ c < a
      BY <2>3, <3>1, <3>2, TrMonotone DEF TrOver
    <3>4. ~TrOver(r.exp)
      BY <3>2, <3>3 DEF TrOver
    <3>5. ~Stale(r)
      BY <1>0, <3>1, <3>4, TrStale
    <3> QED BY <2>1, <3>5
  <2>4. TrEnded(tk["denied"])'
    BY <1>0, <2>2, <2>3 DEF TrDenylist, TrEnded, TrOver
  <2> QED BY <1>0, <2>1, <2>2, <2>4 DEF TrDenylist
<1> QED BY <1>2, <1>3, <1>5, <1>6, <1>7 DEF DenylistNext

\* assertion_jti.go
LEMMA TrReplayStep ==
    ASSUME TrInv, ReplayNext
    PROVE  TrInv'
<1>0. /\ tkGroup = "replay" /\ UNCHANGED <<tkNow, tkGroup>> /\ TrTyped /\ TrReplay
      /\ "spent" \in TkTables /\ TkIds \subseteq TkChain /\ tkNow \in Nat
      /\ tk = [c \in TkTables |-> tk[c]] /\ tk["spent"] \subseteq TrRow
  BY TkChainAssumption DEF ReplayNext, In, TrInv, TkTables, TrTyped, TrReplay
<1>1. SUFFICES TrTyped' /\ TrReplay'
  BY <1>0 DEF TrInv
<1>2. ASSUME NEW i \in TkIds, Draw(i), UNCHANGED tk
      PROVE  TrTyped' /\ TrReplay'
  <2>1. /\ TrTyped' /\ tkPast.exp[i] = TkNull /\ tkPast'.exp[i] \in Nat
        /\ \A j \in TkChain \ {i} : tkPast'.exp[j] = tkPast.exp[j]
        /\ tkPast'.uses = tkPast.uses
    BY <1>0, <1>2, TrDraw
  <2>2. \A r \in tk["spent"] : r.id \in TkChain \ {i}
    BY <1>0, <2>1 DEF TrReplay, TrRow
  <2>3. \A j \in TkChain : tkPast.uses[j] # 0 => j # i
    BY <1>0, <2>1 DEF TrReplay
  <2>4. \A r \in tk'["spent"] :
            tkPast'.exp[r.id] # TkNull /\ Second(r.exp) = Second(tkPast'.exp[r.id]) + TkBuffer
    BY <1>0, <1>2, <2>1, <2>2 DEF TrReplay
  <2>5. \A j \in TkChain : tkPast'.uses[j] # 0 =>
            /\ tkPast'.exp[j] # TkNull
            /\ \/ \E r \in tk'["spent"] : r.id = j
               \/ Second(tkPast'.exp[j]) + TkBuffer <= Second(tkNow)
    BY <1>0, <1>2, <2>1, <2>3 DEF TrReplay
  <2> QED BY <1>0, <1>2, <2>1, <2>4, <2>5 DEF TrReplay
<1>3. ASSUME NEW i \in TkIds, tkPast.exp[i] # TkNull, VerifyExpiry(i), AssertionConsume(i), Used(i)
      PROVE  TrTyped' /\ TrReplay'
  <2>1. PICK x \in Nat : x = tkPast.exp[i]
    BY <1>0, <1>3 DEF TrTyped, TrTimes
  <2>2. PICK e \in Nat, c \in Nat : e = Second(x) /\ c = Second(tkNow)
    BY <1>0, TrParts
  <2>3. PICK n : n = [id |-> i, exp |-> 4 * (e + TkBuffer)]
    OBVIOUS
  <2>4. /\ ~Present("spent", i)
        /\ tk' = [tk EXCEPT !["spent"] = tk["spent"] \cup {n}]
    BY <1>3, <2>1, <2>2, <2>3 DEF AssertionConsume, AssertionKept, InsertInto
  <2>5. tk' = [t \in TkTables |-> tk'[t]] /\ tk'["spent"] = tk["spent"] \cup {n}
    BY <1>0, <2>4, TrTable
  <2>6. c <= e + TkSkew
    BY <1>3, <2>1, <2>2 DEF VerifyExpiry
  <2>7. ~(e + TkBuffer <= c)
    BY <2>6, TkBufferAssumption
  <2>8. tkPast.uses[i] = 0
    BY <1>0, <2>1, <2>2, <2>4, <2>7 DEF TrReplay, Present
  <2>9. /\ TrTyped' /\ tkPast'.uses[i] = 1
        /\ \A j \in TkChain \ {i} : tkPast'.uses[j] = tkPast.uses[j]
        /\ tkPast'.exp = tkPast.exp
    BY <1>0, <1>3, <2>5, <2>8, TrUse
  <2>10. e + TkBuffer \in Nat
    BY TkBufferAssumption
  <2>11. n \in TrRow /\ n.id = i /\ Second(n.exp) = e + TkBuffer
    BY <1>0, <2>3, <2>10, TrWhole DEF TrRow
  <2>12. \A r \in tk'["spent"] : r \in TrRow /\
            tkPast'.exp[r.id] # TkNull /\ Second(r.exp) = Second(tkPast'.exp[r.id]) + TkBuffer
    BY <1>0, <1>3, <2>1, <2>2, <2>5, <2>9, <2>11 DEF TrReplay
  <2>13. ASSUME NEW j \in TkChain, tkPast'.uses[j] # 0
         PROVE  /\ tkPast'.exp[j] # TkNull
                /\ \/ \E r \in tk'["spent"] : r.id = j
                   \/ Second(tkPast'.exp[j]) + TkBuffer <= Second(tkNow)
    <3>1. CASE j = i
      BY <1>3, <2>5, <2>9, <2>11, <3>1
    <3>2. CASE j # i
      BY <1>0, <2>5, <2>9, <2>13, <3>2 DEF TrReplay
    <3> QED BY <3>1, <3>2
  <2> QED BY <1>0, <2>9, <2>12, <2>13 DEF TrReplay
<1>4. ASSUME AssertionPurgeExpired, Quietly
      PROVE  TrTyped' /\ TrReplay'
  <2>1. tk' = [tk EXCEPT !["spent"] = {r \in tk["spent"] : ~Stale(r)}]
    BY <1>4 DEF AssertionPurgeExpired, DeleteFrom
  <2>2. tk' = [t \in TkTables |-> tk'[t]] /\ tk'["spent"] = {r \in tk["spent"] : ~Stale(r)}
    BY <1>0, <2>1, TrTable
  <2>3. TrTyped' /\ tkPast' = tkPast
    BY <1>0, <1>4, <2>2, TrQuiet
  <2>4. ASSUME NEW r \in tk["spent"], ~(Second(tkPast.exp[r.id]) + TkBuffer <= Second(tkNow))
        PROVE  r \in tk'["spent"]
    <3>1. r.exp \in Nat /\ Second(r.exp) = Second(tkPast.exp[r.id]) + TkBuffer
      BY <1>0 DEF TrReplay, TrRow
    <3>2. ~Stale(r)
      BY <1>0, <2>4, <3>1, TrStale DEF TrOver
    <3> QED BY <2>2, <3>2
  <2>5. \A j \in TkChain : tkPast'.uses[j] # 0 =>
            /\ tkPast'.exp[j] # TkNull
            /\ \/ \E r \in tk'["spent"] : r.id = j
               \/ Second(tkPast'.exp[j]) + TkBuffer <= Second(tkNow)
    BY <1>0, <2>3, <2>4 DEF TrReplay
  <2> QED BY <1>0, <2>2, <2>3, <2>5 DEF TrReplay
<1> QED BY <1>2, <1>3, <1>4 DEF ReplayNext

\* connect_pending_state.go, dpop_nonce.go
LEMMA TrPendingStep ==
    ASSUME TrInv, PendingNext
    PROVE  TrInv'
<1>0. /\ tkGroup = "pending" /\ UNCHANGED <<tkNow, tkGroup>> /\ TrTyped /\ TrPending
      /\ "pending" \in TkTables /\ "nonces" \in TkTables /\ TkIds \subseteq TkChain
      /\ tkNow \in Nat /\ tkNow <= TkMaxTime /\ tk = [c \in TkTables |-> tk[c]]
      /\ tk["pending"] \subseteq TrRow /\ tk["nonces"] \subseteq TrRow
  BY TkChainAssumption DEF PendingNext, In, TrInv, TkTables, TrTyped, TrPending
<1>1. SUFFICES TrTyped' /\ TrPending'
  BY <1>0 DEF TrInv
<1>2. ASSUME NEW i \in TkIds, Draw(i), PendingInsert(i)
      PROVE  TrTyped' /\ TrPending'
  <2>1. PICK n : n = [id |-> i, exp |-> tkNow + TkLife]
    OBVIOUS
  <2>2. tk' = [tk EXCEPT !["pending"] = tk["pending"] \cup {n}]
    BY <1>2, <2>1 DEF PendingInsert, InsertInto
  <2>3. /\ tk' = [t \in TkTables |-> tk'[t]] /\ tk'["pending"] = tk["pending"] \cup {n}
        /\ tk'["nonces"] = tk["nonces"]
    BY <1>0, <2>2, TrTable
  <2>4. /\ TrTyped' /\ tkPast.exp[i] = TkNull
        /\ tkPast'.exp[i] = tkNow + TkLife /\ tkPast'.exp[i] \in Nat
        /\ \A j \in TkChain \ {i} : tkPast'.exp[j] = tkPast.exp[j]
        /\ tkPast'.coded = tkPast.coded /\ tkPast'.uses = tkPast.uses
    BY <1>0, <1>2, <2>3, TrDraw
  <2>5. n \in TrRow /\ n.id = i /\ tkPast.uses[i] = 0 /\ tkPast'.exp[i] # TkNull
    BY <1>0, <2>1, <2>4, TkChainAssumption DEF TrRow, TrPending
  <2>6. \A j \in TkChain : tkPast'.exp[j] = TkNull => tkPast'.uses[j] = 0
    BY <1>0, <2>4, <2>5 DEF TrPending
  <2>7. \A r \in tk'["pending"] : /\ r \in TrRow /\ tkPast'.uses[r.id] = 0
                                  /\ tkPast'.exp[r.id] # TkNull
    <3>1. \A r \in tk["pending"] : r.id \in TkChain
      BY <1>0 DEF TrRow
    <3> QED BY <1>0, <2>3, <2>4, <2>5, <3>1 DEF TrPending
  <2>8. \A j \in TkChain : tkPast'.coded[j] # TkNull =>
            /\ tkPast'.coded[j] <= TkMaxTime
            /\ (\E r \in tk'["nonces"] : r.id = j) \/ TrOver(tkPast.coded[j] + TkLife)'
    BY <1>0, <2>3, <2>4 DEF TrPending, TrOver
  <2>9. \A r \in tk'["nonces"] :
            tkPast'.coded[r.id] # TkNull /\ r.exp = tkPast'.coded[r.id] + TkLife
    BY <1>0, <2>3, <2>4 DEF TrPending
  <2> QED BY <1>0, <2>3, <2>4, <2>6, <2>7, <2>8, <2>9 DEF TrPending
<1>3. ASSUME NEW i \in TkIds, PendingConsume(i), Used(i)
      PROVE  TrTyped' /\ TrPending'
  <2>1. tk' = [tk EXCEPT !["pending"] = {r \in tk["pending"] : ~(r.id = i)}]
    BY <1>3 DEF PendingConsume, DeleteFrom
  <2>2. /\ tk' = [t \in TkTables |-> tk'[t]] /\ tk'["pending"] = {r \in tk["pending"] : ~(r.id = i)}
        /\ tk'["nonces"] = tk["nonces"]
    BY <1>0, <2>1, TrTable
  <2>3. PICK r \in tk["pending"] : r.id = i
    BY <1>3 DEF PendingConsume
  <2>4. tkPast.uses[i] = 0 /\ tkPast.exp[i] # TkNull
    BY <1>0, <2>3 DEF TrPending
  <2>5. /\ TrTyped' /\ tkPast'.uses[i] = 1
        /\ \A j \in TkChain \ {i} : tkPast'.uses[j] = tkPast.uses[j]
        /\ tkPast'.exp = tkPast.exp /\ tkPast'.coded = tkPast.coded
    BY <1>0, <1>3, <2>2, <2>4, TrUse
  <2>6. \A q \in tk'["pending"] : q \in TrRow /\ q.id \in TkChain \ {i}
    BY <1>0, <2>2 DEF TrRow
  <2>7. \A q \in tk'["pending"] : tkPast'.uses[q.id] = 0 /\ tkPast'.exp[q.id] # TkNull
    BY <1>0, <2>2, <2>5, <2>6 DEF TrPending
  <2>8. \A j \in TkChain : tkPast'.exp[j] = TkNull => tkPast'.uses[j] = 0
    BY <1>0, <2>4, <2>5 DEF TrPending
  <2>9. \A j \in TkChain : tkPast'.coded[j] # TkNull =>
            /\ tkPast'.coded[j] <= TkMaxTime
            /\ (\E q \in tk'["nonces"] : q.id = j) \/ TrOver(tkPast.coded[j] + TkLife)'
    BY <1>0, <2>2, <2>5 DEF TrPending, TrOver
  <2> QED BY <1>0, <2>2, <2>5, <2>6, <2>7, <2>8, <2>9 DEF TrPending
<1>4. ASSUME NEW i \in TkIds, tkPast.coded[i] = TkNull, NonceIssue(i),
             tkPast' = [tkPast EXCEPT !.coded[i] = tkNow]
      PROVE  TrTyped' /\ TrPending'
  <2>1. PICK n : n = [id |-> i, exp |-> tkNow + TkLife]
    OBVIOUS
  <2>2. tk' = [tk EXCEPT !["nonces"] = tk["nonces"] \cup {n}]
    BY <1>4, <2>1 DEF NonceIssue, InsertInto
  <2>3. /\ tk' = [t \in TkTables |-> tk'[t]] /\ tk'["nonces"] = tk["nonces"] \cup {n}
        /\ tk'["pending"] = tk["pending"]
    BY <1>0, <2>2, TrTable
  <2>4. /\ TrTyped' /\ tkPast'.coded[i] = tkNow
        /\ \A j \in TkChain \ {i} : tkPast'.coded[j] = tkPast.coded[j]
        /\ tkPast'.exp = tkPast.exp /\ tkPast'.uses = tkPast.uses
    BY <1>0, <1>4, <2>3, TrCode
  <2>5. /\ n \in TrRow /\ n.id = i /\ n.exp = tkPast'.coded[i] + TkLife
        /\ tkPast'.coded[i] # TkNull
    BY <1>0, <2>1, <2>4, TkLifeAssumption, TkChainAssumption DEF TrRow
  <2>6. \A r \in tk["nonces"] : r.id \in TkChain \ {i}
    BY <1>0, <1>4 DEF TrPending, TrRow
  <2>7. \A r \in tk'["nonces"] :
            r \in TrRow /\ tkPast'.coded[r.id] # TkNull /\ r.exp = tkPast'.coded[r.id] + TkLife
    BY <1>0, <2>3, <2>4, <2>5, <2>6 DEF TrPending
  <2>8. ASSUME NEW j \in TkChain, tkPast'.coded[j] # TkNull
        PROVE  /\ tkPast'.coded[j] <= TkMaxTime
               /\ (\E r \in tk'["nonces"] : r.id = j) \/ TrOver(tkPast.coded[j] + TkLife)'
    <3>1. CASE j = i
      BY <1>0, <2>3, <2>4, <2>5, <3>1
    <3>2. CASE j # i
      BY <1>0, <2>3, <2>4, <2>8, <3>2 DEF TrPending, TrOver
    <3> QED BY <3>1, <3>2
  <2> QED BY <1>0, <2>3, <2>4, <2>7, <2>8 DEF TrPending
<1>5. ASSUME PendingPurgeExpired, Quietly
      PROVE  TrTyped' /\ TrPending'
  <2>1. tk' = [tk EXCEPT !["pending"] = {r \in tk["pending"] : ~Stale(r)}]
    BY <1>5 DEF PendingPurgeExpired, DeleteFrom
  <2>2. /\ tk' = [t \in TkTables |-> tk'[t]] /\ tk'["pending"] = {r \in tk["pending"] : ~Stale(r)}
        /\ tk'["nonces"] = tk["nonces"]
    BY <1>0, <2>1, TrTable
  <2>3. TrTyped' /\ tkPast' = tkPast
    BY <1>0, <1>5, <2>2, TrQuiet
  <2> QED BY <1>0, <2>2, <2>3 DEF TrPending, TrOver
<1>6. ASSUME NoncePurgeExpired, Quietly
      PROVE  TrTyped' /\ TrPending'
  <2>1. tk' = [tk EXCEPT !["nonces"] = {r \in tk["nonces"] : ~Stale(r)}]
    BY <1>6 DEF NoncePurgeExpired, DeleteFrom
  <2>2. /\ tk' = [t \in TkTables |-> tk'[t]] /\ tk'["nonces"] = {r \in tk["nonces"] : ~Stale(r)}
        /\ tk'["pending"] = tk["pending"]
    BY <1>0, <2>1, TrTable
  <2>3. TrTyped' /\ tkPast' = tkPast
    BY <1>0, <1>6, <2>2, TrQuiet
  <2>4. ASSUME NEW r \in tk["nonces"], ~TrOver(tkPast.coded[r.id] + TkLife)
        PROVE  r \in tk'["nonces"]
    <3>1. r.exp \in Nat /\ r.exp = tkPast.coded[r.id] + TkLife
      BY <1>0 DEF TrPending, TrRow
    <3>2. ~Stale(r)
      BY <1>0, <2>4, <3>1, TrStale
    <3> QED BY <2>2, <3>2
  <2>5. \A j \in TkChain : tkPast'.coded[j] # TkNull =>
            /\ tkPast'.coded[j] <= TkMaxTime
            /\ (\E r \in tk'["nonces"] : r.id = j) \/ TrOver(tkPast.coded[j] + TkLife)'
    BY <1>0, <2>3, <2>4 DEF TrPending, TrOver
  <2> QED BY <1>0, <2>2, <2>3, <2>5 DEF TrPending
<1> QED BY <1>2, <1>3, <1>4, <1>5, <1>6 DEF PendingNext

\* issuance.go and audit.go: these statements touch none of the rows above.
LEMMA TrOtherStep ==
    ASSUME TrInv, IssuanceNext \/ AuditNext
    PROVE  TrInv'
<1>0. /\ tkGroup \in {"issuance", "audit"} /\ UNCHANGED <<tkNow, tkGroup>> /\ TrTyped
      /\ "issuances" \in TkTables /\ "audit" \in TkTables
  BY DEF IssuanceNext, AuditNext, In, TrInv, TkTables
<1>1. SUFFICES TrTyped'
  BY <1>0 DEF TrInv
<1>2. ASSUME NEW t \in TkTables, NEW rows, tk' = [tk EXCEPT ![t] = rows]
      PROVE  tk' = [c \in TkTables |-> tk'[c]]
  BY <1>0, <1>2, TrTable
<1>3. ASSUME NEW t \in TkTables, NEW r, InsertInto(t, r), Quietly
      PROVE  TrTyped'
  <2>1. tk' = [tk EXCEPT ![t] = tk[t] \cup {r}]
    BY <1>3 DEF InsertInto
  <2> QED BY <1>0, <1>2, <1>3, <2>1, TrQuiet
<1>4. ASSUME NEW i \in TkChain, IssuanceRevoke(i), Ended({i})
      PROVE  TrTyped'
  <2>1. PICK rows : tk' = [tk EXCEPT !["issuances"] = rows]
    BY <1>4 DEF IssuanceRevoke, Rewrite
  <2>2. {i} \in SUBSET TkChain
    OBVIOUS
  <2> QED BY <1>0, <1>2, <1>4, <2>1, <2>2, TrEnd
<1>5. ASSUME IssuanceRevokeFamily, Ended(ExchangedFrom)
      PROVE  TrTyped'
  <2>1. PICK rows : tk' = [tk EXCEPT !["issuances"] = rows]
    BY <1>5 DEF IssuanceRevokeFamily, Rewrite
  <2>2. ExchangedFrom \in SUBSET TkChain
    BY Zenon DEF ExchangedFrom
  <2> QED BY <1>0, <1>2, <1>5, <2>1, <2>2, TrEnd
<1>6. ASSUME NEW i \in TkChain, NEW p, NEW own, IssuanceInsert(i, p, own), Quietly
      PROVE  TrTyped'
  BY <1>0, <1>3, <1>6 DEF IssuanceInsert
<1>7. ASSUME NEW i \in TkIds, AuditRecord(i), Quietly
      PROVE  TrTyped'
  BY <1>0, <1>3, <1>7 DEF AuditRecord
<1>8. CASE IssuanceNext
  BY <1>4, <1>5, <1>6, <1>8 DEF IssuanceNext
<1>9. CASE AuditNext
  BY <1>7, <1>9 DEF AuditNext
<1> QED BY <1>8, <1>9

\* Time passes: a second that has begun stays begun.
LEMMA TrTickStep ==
    ASSUME TrInv, TkTick
    PROVE  TrInv'
<1>0. /\ UNCHANGED <<tkGroup, tk, tkPast>> /\ tkNow \in Nat /\ tkNow' = tkNow + 1 /\ TrTyped
      /\ tkGroup # "issuance" => tkNow < TkMaxTime
  BY DEF TkTick, TrInv, TrTyped
<1>1. tkNow' \in Nat /\ Second(tkNow) <= Second(tkNow') /\ tkNow <= tkNow'
  BY <1>0, TrMonotone
<1>2. PICK c \in Nat, d \in Nat : c = Second(tkNow) /\ d = Second(tkNow') /\ c <= d
  BY <1>0, <1>1, TrParts
<1>3. TrTyped'
  <2>1. \A i \in TkChain : tkPast.exp[i] # TkNull => tkPast.exp[i] <= tkNow' + TkLife
    <3>1. ASSUME NEW i \in TkChain, tkPast.exp[i] # TkNull
          PROVE  tkPast.exp[i] <= tkNow' + TkLife
      <4>1. tkPast.exp[i] \in Nat /\ tkPast.exp[i] <= tkNow + TkLife
        BY <1>0, <3>1 DEF TrTyped, TrTimes
      <4> QED BY <1>0, <4>1, TkLifeAssumption
    <3> QED BY <3>1
  <2>2. tkGroup' # "issuance" => tkNow' <= TkMaxTime
    BY <1>0, TkClockAssumption
  <2> QED BY <1>0, <1>1, <2>1, <2>2 DEF TrTyped
<1>4. ASSUME NEW x \in Nat, TrOver(x)
      PROVE  TrOver(x)'
  <2>1. PICK e \in Nat : e = Second(x)
    BY TrParts
  <2>2. e <= c /\ Second(x) = e
    BY <1>2, <1>4, <2>1 DEF TrOver
  <2>3. e <= d
    BY <1>2, <2>2
  <2> QED BY <1>2, <2>1, <2>3 DEF TrOver
<1>5. \A i \in TkChain : /\ tkPast.exp[i] # TkNull => tkPast.exp[i] \in Nat
                         /\ tkPast.coded[i] # TkNull => tkPast.coded[i] + TkLife \in Nat
  BY <1>0, TkLifeAssumption DEF TrTyped, TrTimes
<1>6. ASSUME NEW rows, TrEnded(rows)
      PROVE  \A i \in tkPast'.ended : tkPast'.exp[i] # TkNull
                 /\ ((\E r \in rows : r.id = i) \/ TrOver(tkPast.exp[i])')
  <2>1. tkPast.ended \subseteq TkChain
    BY <1>0 DEF TrTyped
  <2>2. ASSUME NEW i \in tkPast.ended
        PROVE  /\ tkPast.exp[i] # TkNull
               /\ (\E r \in rows : r.id = i) \/ TrOver(tkPast.exp[i])'
    <3>1. PICK x \in Nat : x = tkPast.exp[i]
      BY <1>5, <1>6, <2>1 DEF TrEnded
    <3>2. x = tkPast'.exp[i]
      BY <1>0, <3>1
    <3>3. (\E r \in rows : r.id = i) \/ TrOver(x)
      BY <1>6, <3>1 DEF TrEnded
    <3>4. (\E r \in rows : r.id = i) \/ TrOver(x)'
      BY <1>4, <3>3
    <3> QED BY <1>0, <1>6, <3>2, <3>4 DEF TrEnded, TrOver
  <2> QED BY <1>0, <2>2
<1>7. tkGroup = "session" => TrSession'
  BY <1>0 DEF TrInv, TrSession
<1>8. tkGroup = "family" => TrFamily'
  BY <1>0, <1>6 DEF TrInv, TrFamily, TrEnded
<1>9. tkGroup = "denylist" => TrDenylist'
  BY <1>0, <1>6 DEF TrInv, TrDenylist, TrEnded
<1>10. tkGroup = "machine" => TrMachine'
  <2> SUFFICES ASSUME tkGroup = "machine"
               PROVE  TrMachine'
    OBVIOUS
  <2>0. TrMachine
    BY DEF TrInv
  <2>1. TrEnded({r \in tk["machine"] : r.revoked})'
    BY <1>0, <1>6, <2>0 DEF TrMachine, TrEnded
  <2>2. ASSUME NEW i \in TkChain \ tkPast.ended, tkPast.exp[i] # TkNull
        PROVE  (\E r \in tk["machine"] : r.id = i /\ ~r.revoked) \/ TrOver(tkPast.exp[i])'
    <3>1. PICK x \in Nat : x = tkPast.exp[i]
      BY <1>5, <2>2
    <3>2. (\E r \in tk["machine"] : r.id = i /\ ~r.revoked) \/ TrOver(x)
      BY <2>0, <2>2, <3>1 DEF TrMachine
    <3>3. (\E r \in tk["machine"] : r.id = i /\ ~r.revoked) \/ TrOver(x)'
      BY <1>4, <3>2
    <3> QED BY <1>0, <3>1, <3>3 DEF TrOver
  <2> QED BY <1>0, <2>0, <2>1, <2>2 DEF TrMachine
<1>11. tkGroup = "replay" => TrReplay'
  <2> SUFFICES ASSUME tkGroup = "replay"
               PROVE  TrReplay'
    OBVIOUS
  <2>0. TrReplay
    BY DEF TrInv
  <2>1. ASSUME NEW i \in TkChain, tkPast.uses[i] # 0
        PROVE  /\ tkPast.exp[i] # TkNull
               /\ \/ \E r \in tk["spent"] : r.id = i
                  \/ Second(tkPast.exp[i]) + TkBuffer <= Second(tkNow')
    <3>1. /\ tkPast.exp[i] # TkNull
          /\ (\E r \in tk["spent"] : r.id = i) \/ Second(tkPast.exp[i]) + TkBuffer <= c
      BY <1>2, <2>0, <2>1 DEF TrReplay
    <3>2. PICK e \in Nat : e = Second(tkPast.exp[i])
      BY <1>5, <3>1, TrParts
    <3>3. e + TkBuffer <= c => e + TkBuffer <= d
      BY <1>2, <3>2, TkBufferAssumption
    <3> QED BY <1>2, <3>1, <3>2, <3>3
  <2> QED BY <1>0, <2>0, <2>1 DEF TrReplay
<1>12. tkGroup = "pending" => TrPending'
  <2> SUFFICES ASSUME tkGroup = "pending"
               PROVE  TrPending'
    OBVIOUS
  <2>0. TrPending
    BY DEF TrInv
  <2>1. ASSUME NEW i \in TkChain, tkPast.coded[i] # TkNull
        PROVE  (\E r \in tk["nonces"] : r.id = i) \/ TrOver(tkPast.coded[i] + TkLife)'
    <3>1. PICK x \in Nat : x = tkPast.coded[i] + TkLife
      BY <1>5, <2>1
    <3>2. (\E r \in tk["nonces"] : r.id = i) \/ TrOver(x)
      BY <2>0, <2>1, <3>1 DEF TrPending
    <3>3. (\E r \in tk["nonces"] : r.id = i) \/ TrOver(x)'
      BY <1>4, <3>2
    <3> QED BY <1>0, <3>1, <3>3 DEF TrOver
  <2> QED BY <1>0, <2>0, <2>1 DEF TrPending
<1> QED BY <1>0, <1>3, <1>7, <1>8, <1>9, <1>10, <1>11, <1>12 DEF TrInv

\* The tables start empty, and nothing has been minted.
LEMMA TrStarts == TkInit => TrInv
<1> SUFFICES ASSUME TkInit PROVE TrInv
  OBVIOUS
<1>1. /\ tkNow = 0 /\ tk = [t \in TkTables |-> {}] /\ tkPast.ended = {}
      /\ \A i \in TkChain : tkPast.exp[i] = TkNull /\ tkPast.coded[i] = TkNull /\ tkPast.uses[i] = 0
      /\ tkPast \in [exp : TrTimes, coded : TrTimes, uses : [TkChain -> Nat], ended : SUBSET TkChain]
  BY DEF TkInit, TrTimes
<1>2. TrTyped
  BY <1>1, TkClockAssumption DEF TrTyped
<1>3. \A t \in TkTables : tk[t] = {}
  BY <1>1
<1>4. /\ tk["sessions"] = {} /\ tk["refresh"] = {} /\ tk["tracked"] = {} /\ tk["denied"] = {}
      /\ tk["machine"] = {} /\ tk["spent"] = {} /\ tk["pending"] = {} /\ tk["nonces"] = {}
  BY <1>3 DEF TkTables
<1> QED BY <1>1, <1>2, <1>4
        DEF TrInv, TrSession, TrFamily, TrDenylist, TrMachine, TrReplay, TrPending, TrEnded

\* Every statement, every purge and every tick keeps the invariant.
LEMMA TrSteps == TrInv /\ [TkNext]_tkVars => TrInv'
<1> SUFFICES ASSUME TrInv, [TkNext]_tkVars
             PROVE  TrInv'
  OBVIOUS
<1>1. CASE TkNext
  BY <1>1, TrSessionStep, TrFamilyStep, TrDenylistStep, TrMachineStep, TrReplayStep,
     TrPendingStep, TrOtherStep, TrTickStep DEF TkNext
<1>2. CASE UNCHANGED tkVars
  BY <1>2 DEF tkVars, TrInv, TrTyped, TrSession, TrFamily, TrDenylist, TrMachine, TrReplay,
              TrPending, TrEnded, TrOver
<1> QED BY <1>1, <1>2

\* EndedIsRememberedUntilExp from the invariant.
LEMMA TrRemembers == TrInv => EndedIsRememberedUntilExp
<1> SUFFICES ASSUME TrInv, tkGroup \in {"denylist", "machine", "family"}, NEW i \in tkPast.ended,
                    ~(Second(tkNow) >= Second(tkPast.exp[i]))
             PROVE  Remembered(i)
  BY DEF EndedIsRememberedUntilExp
<1>1. i \in TkChain /\ tkNow \in Nat
  BY DEF TrInv, TrTyped
<1>2. ASSUME tkPast.exp[i] # TkNull
      PROVE  ~TrOver(tkPast.exp[i])
  <2>1. tkPast.exp[i] \in Nat
    BY <1>1, <1>2 DEF TrInv, TrTyped, TrTimes
  <2>2. PICK a \in Nat, b \in Nat : a = Second(tkNow) /\ b = Second(tkPast.exp[i])
    BY <1>1, <2>1, TrParts
  <2> QED BY <2>2 DEF TrOver
<1>3. CASE tkGroup = "denylist"
  <2>1. \E r \in tk["denied"] : r.id = i
    BY <1>2, <1>3 DEF TrInv, TrDenylist, TrEnded
  <2> QED BY <1>3, <2>1 DEF Remembered, IsRevokedRow, Present
<1>4. CASE tkGroup = "machine"
  <2>1. \E r \in tk["machine"] : r.id = i /\ r.revoked
    BY <1>2, <1>4 DEF TrInv, TrMachine, TrEnded
  <2> QED BY <1>4, <2>1 DEF Remembered, MachineByJTI, RowsOf
<1>5. CASE tkGroup = "family"
  <2>1. \E r \in tk["refresh"] : r.id = i /\ r.consumed
    BY <1>2, <1>5 DEF TrInv, TrFamily, TrEnded
  <2> QED BY <1>5, <2>1 DEF Remembered, RefreshByHash, RowsOf
<1> QED BY <1>3, <1>4, <1>5

\* LiveRowsAreFound from the invariant.
LEMMA TrFinds == TrInv => LiveRowsAreFound
<1> SUFFICES ASSUME TrInv
             PROVE  LiveRowsAreFound
  OBVIOUS
<1>0. tkNow \in Nat /\ TrTyped
  BY DEF TrInv, TrTyped
<1>1. PICK c \in Nat : c = Second(tkNow)
  BY <1>0, TrParts
<1>2. ASSUME tkGroup = "pending", NEW i \in TkChain, tkPast.coded[i] # TkNull
      PROVE  /\ Second(tkNow) < Second(tkPast.coded[i] + TkLife) => NonceValid(i)
             /\ NonceValid(i) => Second(tkNow) <= Second(tkPast.coded[i] + TkLife)
  <2>0. tkNow <= TkMaxTime /\ TrPending
    BY <1>2 DEF TrInv, TrTyped
  <2>1. PICK n \in Nat : n = tkPast.coded[i]
    BY <1>0, <1>2 DEF TrTyped, TrTimes
  <2>2. PICK x \in Nat : x = tkPast.coded[i] + TkLife
    BY <2>1, TkLifeAssumption
  <2>3. x \in 0 .. TkMaxTime + TkFallback + 4 * TkBuffer + 4
    <3>1. n <= TkMaxTime
      BY <1>2, <2>0, <2>1 DEF TrPending
    <3>2. x = n + TkLife /\ TkMaxTime \in Nat /\ TkLife \in Nat /\ TkFallback \in Nat
          /\ TkLife <= TkFallback /\ TkBuffer \in Nat
      BY <2>1, <2>2, TkClockAssumption, TkLifeAssumption, TkBufferAssumption
    <3> QED BY <3>1, <3>2
  <2>4. ScanTime(FormatTime(x)) = x
    <3> DEFINE R == 0 .. TkMaxTime + TkFallback + 4 * TkBuffer + 4
    <3>1. R \subseteq Nat
      BY TkClockAssumption, TkLifeAssumption, TkBufferAssumption
    <3>2. x \in R /\ \A t \in R : FormatTime(t) = FormatTime(x) => t = x
      BY <2>3, <3>1, TrInjective
    <3>3. ScanTime(FormatTime(x)) = CHOOSE t \in R : FormatTime(t) = FormatTime(x)
      BY DEF ScanTime
    <3> HIDE DEF R
    <3> QED BY <3>2, <3>3
  <2>5. \A r \in tk["nonces"] : r.id = i => r.exp = x
    BY <2>0, <2>2 DEF TrPending
  <2>6. NonceValid(i) <=> (\E r \in tk["nonces"] : r.id = i) /\ ~(x < tkNow)
    BY <2>4, <2>5 DEF NonceValid
  <2>7. PICK e \in Nat : e = Second(x)
    BY TrParts
  <2>8. ASSUME c < e PROVE NonceValid(i)
    <3>1. ~TrOver(x)
      BY <1>1, <2>7, <2>8 DEF TrOver
    <3>2. \E r \in tk["nonces"] : r.id = i
      BY <1>2, <2>0, <2>2, <3>1 DEF TrPending
    <3>3. ~(x < tkNow)
      <4>1. x <= tkNow => e <= c
        BY <1>0, <1>1, <2>7, TrMonotone
      <4> QED BY <1>0, <1>1, <2>7, <2>8, <4>1
    <3> QED BY <2>6, <3>2, <3>3
  <2>9. ASSUME NonceValid(i) PROVE c <= e
    <3>1. tkNow <= x
      BY <1>0, <2>6, <2>9
    <3> QED BY <1>0, <1>1, <2>7, <3>1, TrMonotone
  <2> QED BY <1>1, <2>2, <2>7, <2>8, <2>9
<1>3. ASSUME tkGroup = "machine", NEW i \in TkChain \ tkPast.ended, tkPast.exp[i] # TkNull
      PROVE  /\ Second(tkNow) < Second(tkPast.exp[i]) => \E r \in MachineList : r.id = i
             /\ (\E r \in MachineList : r.id = i) => Second(tkNow) <= Second(tkPast.exp[i])
  <2>0. TrMachine
    BY <1>3 DEF TrInv
  <2>1. PICK x \in Nat : x = tkPast.exp[i]
    BY <1>0, <1>3 DEF TrTyped, TrTimes
  <2>2. \A r \in tk["machine"] : r.id = i => r.exp = x
    BY <2>0, <2>1 DEF TrMachine
  <2>3. PICK e \in Nat : e = Second(x)
    BY TrParts
  <2>4. ASSUME c < e PROVE \E r \in MachineList : r.id = i
    <3>1. ~TrOver(x)
      BY <1>1, <2>3, <2>4 DEF TrOver
    <3>2. PICK r \in tk["machine"] : r.id = i /\ ~r.revoked
      BY <1>3, <2>0, <2>1, <3>1 DEF TrMachine
    <3>3. TextBefore(tkNow, r.exp)
      BY <1>0, <1>1, <2>2, <2>3, <2>4, <3>2, TrText
    <3> QED BY <3>2, <3>3 DEF MachineList
  <2>5. ASSUME NEW r \in MachineList, r.id = i PROVE c <= e
    <3>1. r \in tk["machine"] /\ TextBefore(tkNow, r.exp)
      BY <2>5 DEF MachineList
    <3> QED BY <1>0, <1>1, <2>2, <2>3, <2>5, <3>1, TrText
  <2> QED BY <1>1, <2>1, <2>3, <2>4, <2>5
<1> QED BY <1>2, <1>3 DEF LiveRowsAreFound

\* The rows of the SQLite stores, for every lifetime, clock and set of tokens: although
\* every expiry is compared as text, no code is bound to an expired session, what has been
\* revoked or spent is remembered until its second of expiry, live nonces and machine
\* tokens are found, and a code, a state or an assertion buys one answer.
THEOREM TokenRowsAreKept ==
    TkSpec => [](CodeOnlyForLiveSession /\ EndedIsRememberedUntilExp /\ LiveRowsAreFound /\ SpentOnce)
<1>1. TrInv => CodeOnlyForLiveSession
  BY DEF TrInv, TrSession, CodeOnlyForLiveSession
<1>2. TrInv => SpentOnce
  BY DEF TrInv, TrTyped, SpentOnce
<1> QED BY <1>1, <1>2, TrRemembers, TrFinds, TrStarts, TrSteps, PTL DEF TkSpec
=============================================================================
