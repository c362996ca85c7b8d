----------------------------- MODULE ClientAdmin -----------------------------
(***************************************************************************)
(* The admin operations on one row of the clients table                    *)
(* (services/admin.go, domain/client/entity.go): each reads the row, edits  *)
(* its copy and writes the whole row back under an optimistic version       *)
(* check.  DeleteClient counts the live tokens and deletes in one           *)
(* transaction, beside requests that issue tokens to the client.            *)
(***************************************************************************)
EXTENDS Naturals

CONSTANTS Requests,  \* admin calls and token requests
          Ops,       \* the operations a run starts
          Serial,    \* TRUE: SQLite, one connection, a transaction holds it
                     \* FALSE: PostgreSQL, READ COMMITTED
          None

ASSUME SerialAssumption == Serial \in BOOLEAN
ASSUME NoneAssumption == None \notin Requests

Edits == {"suspend", "reactivate", "revoke", "rotateSecret", "update"}
Deletes == {"delete", "forceDelete"}

VARIABLES
    row,   \* the clients row
    live,  \* live token families and machine tokens, by the request that got them
    txs,   \* the requests whose DeleteClient transaction is open
    pc,    \* what a request does next
    op,    \* its operation
    copy   \* the row as it read it

vars == <<row, live, txs, pc, op, copy>>

Statuses == {"active", "suspended", "revoked", "absent"}
Contents == Requests \cup {None}
Rows == [status : Statuses, secret : Contents, metadata : Contents, version : Nat]

TypeOK ==
    /\ row \in Rows
    /\ live \in SUBSET Requests
    /\ txs \in SUBSET Requests
    /\ pc \in [Requests -> {"idle", "write", "count", "commit", "issue", "done"}]
    /\ op \in [Requests -> Edits \cup Deletes \cup {"issue", "none"}]
    /\ copy \in [Requests -> Rows]

NewRow == [status |-> "active", secret |-> None, metadata |-> None, version |-> 1]

Init ==
    /\ row = NewRow
    /\ live = {}
    /\ txs = {}
    /\ pc = [p \in Requests |-> "idle"]
    /\ op = [p \in Requests |-> "none"]
    /\ copy = [p \in Requests |-> NewRow]

Goto(p, label) == pc' = [pc EXCEPT ![p] = label]

\* Mutant: the transaction does not hold the connection.
Connected_NoTransaction(p) == TRUE

\* A call that needs the one SQLite connection waits for the transaction.
Connected(p) == Serial => txs \subseteq {p}

-----------------------------------------------------------------------------
(* Read, edit, write back *)

\* GetByID and the transition of the entity, which refuses a status it does
\* not start from.
Allowed(o, c) ==
    /\ c.status # "absent"
    /\ o = "suspend" => c.status = "active"
    /\ o = "reactivate" => c.status = "suspended"

ReadRow(p) ==
    \E o \in Edits \cap Ops :
        /\ pc[p] = "idle"
        /\ Connected(p)
        /\ op' = [op EXCEPT ![p] = o]
        /\ copy' = [copy EXCEPT ![p] = row]
        /\ Goto(p, IF Allowed(o, row) THEN "write" ELSE "done")
        /\ UNCHANGED <<row, live, txs>>

\* The copy as operation o of request p leaves it.
Edit(p) ==
    CASE op[p] = "suspend"      -> [copy[p] EXCEPT !.status = "suspended"]
      [] op[p] = "reactivate"   -> [copy[p] EXCEPT !.status = "active"]
      [] op[p] = "revoke"       -> [copy[p] EXCEPT !.status = "revoked"]
      [] op[p] = "rotateSecret" -> [copy[p] EXCEPT !.secret = p]
      [] OTHER                  -> [copy[p] EXCEPT !.metadata = p]

\* Mutant: UPDATE ... WHERE id = ? alone.
Current_AnyVersion(p) == row.status # "absent"

\* UPDATE ... WHERE id = ? AND version = ?
Current(p) == row.status # "absent" /\ row.version = copy[p].version

\* Update: every column of the copy, or ErrClientConflict.
WriteRow(p) ==
    /\ pc[p] = "write"
    /\ Connected(p)
    /\ row' = IF Current(p) THEN [Edit(p) EXCEPT !.version = row.version + 1] ELSE row
    /\ Goto(p, "done")
    /\ UNCHANGED <<live, txs, op, copy>>

-----------------------------------------------------------------------------
(* DeleteClient *)

\* The transaction opens; the client must exist.
DeleteBegin(p) ==
    \E o \in Deletes \cap Ops :
        /\ pc[p] = "idle"
        /\ Connected(p)
        /\ row.status # "absent"
        /\ op' = [op EXCEPT ![p] = o]
        /\ txs' = txs \cup {p}
        /\ Goto(p, "count")
        /\ UNCHANGED <<row, live, copy>>

\* CountActiveByClientID and the machine-token count.  Live tokens stop an
\* unforced delete, which rolls back.
DeleteCount(p) ==
    /\ pc[p] = "count"
    /\ IF live # {} /\ op[p] = "delete"
       THEN Goto(p, "done") /\ txs' = txs \ {p}
       ELSE Goto(p, "commit") /\ UNCHANGED txs
    /\ UNCHANGED <<row, live, op, copy>>

\* RevokeByClientID when forced, the DELETE and the commit: the foreign keys
\* take every token row committed by now with them.
DeleteCommit(p) ==
    /\ pc[p] = "commit"
    /\ row' = [row EXCEPT !.status = "absent"]
    /\ live' = {}
    /\ txs' = txs \ {p}
    /\ Goto(p, "done")
    /\ UNCHANGED <<op, copy>>

-----------------------------------------------------------------------------
(* Token requests of the client *)

\* authenticateClient.
IssueRead(p) ==
    /\ "issue" \in Ops
    /\ pc[p] = "idle"
    /\ Connected(p)
    /\ op' = [op EXCEPT ![p] = "issue"]
    /\ copy' = [copy EXCEPT ![p] = row]
    /\ Goto(p, IF row.status = "active" THEN "issue" ELSE "done")
    /\ UNCHANGED <<row, live, txs>>

\* The INSERT of the family or machine token; its foreign key needs the client.
IssueCommit(p) ==
    /\ pc[p] = "issue"
    /\ Connected(p)
    /\ live' = IF row.status = "absent" THEN live ELSE live \cup {p}
    /\ Goto(p, "done")
    /\ UNCHANGED <<row, txs, op, copy>>

-----------------------------------------------------------------------------

Quiescent == (\A p \in Requests : pc[p] = "done") /\ UNCHANGED vars

\* A delete that finds no client ends at once.
DeleteMissing(p) ==
    \E o \in Deletes \cap Ops :
        /\ pc[p] = "idle"
        /\ Connected(p)
        /\ row.status = "absent"
        /\ op' = [op EXCEPT ![p] = o]
        /\ Goto(p, "done")
        /\ UNCHANGED <<row, live, txs, copy>>

Next ==
    \/ \E p \in Requests :
          \/ ReadRow(p) \/ WriteRow(p)
          \/ DeleteBegin(p) \/ DeleteMissing(p) \/ DeleteCount(p) \/ DeleteCommit(p)
          \/ IssueRead(p) \/ IssueCommit(p)
    \/ Quiescent

Spec == Init /\ [][Next]_vars

-----------------------------------------------------------------------------
(* Properties *)

Register == INSTANCE AccountRegister
    WITH Fields <- {"secret", "metadata"},
         Values <- Contents,
         Moves  <- {<<"active", "suspended">>, <<"suspended", "active">>,
                    <<"active", "revoked">>, <<"suspended", "revoked">>},
         status <- row.status,
         field  <- [f \in {"secret", "metadata"} |->
                       IF f = "secret" THEN row.secret ELSE row.metadata]

\* No administrator's stale copy ever wins: a suspension, a revocation, a rotated
\* secret and a metadata edit survive every concurrent write of the whole row, a
\* revoked client never comes back and a deleted one is never written again
\* (ClientStore.Update).
ClientRowIsARegister == Register!Spec

\* What DeleteClient says of its transaction (admin.go:433, "to prevent TOCTOU races
\* where tokens are issued between the count and the delete"): an unforced delete
\* takes no live token with it.  It is so on SQLite (Serial), where the transaction
\* holds the one connection; on PostgreSQL the transaction is READ COMMITTED, a token
\* committed after the count is deleted with its client, and the property fails.
UnforcedDeleteSparesTokens ==
    [][\A p \in Requests :
          op[p] = "delete" /\ row.status # "absent" /\ row'.status = "absent"
            /\ pc[p] # pc'[p] => live = {}]_vars
=============================================================================
