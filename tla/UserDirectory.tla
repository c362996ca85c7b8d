---------------------------- MODULE UserDirectory ----------------------------
(***************************************************************************)
(* One row of the users table behind the read-through cache of each server *)
(* instance (adapters/storage/user_cache.go): the admin operations and the  *)
(* OIDC sign-in that rewrite the row, DeleteUser, and the session           *)
(* middleware that asks on every request whether the user is still active.  *)
(* Statements interleave as on PostgreSQL; SQLite's one connection allows   *)
(* fewer behaviours.                                                        *)
(***************************************************************************)
EXTENDS Naturals

CONSTANTS Requests,   \* admin calls, sign-ins and browser requests
          Instances,  \* server processes, each with its own cache
          Ops,        \* the operations a run starts
          None

ASSUME NoneAssumption == None \notin Requests /\ None \notin Instances

VARIABLES
    row,       \* the users row
    cache,     \* per instance: the cached row, or None
    deleting,  \* the request whose uncommitted DELETE locks the row
    pc, op,    \* what a request does next, and its operation
    at,        \* the instance that serves it
    copy       \* the row as it was read to it

vars == <<row, cache, deleting, pc, op, at, copy>>

Edits == {"disable", "enable", "update"}
Statuses == {"active", "disabled", "absent"}

ASSUME OpsAssumption == Ops \subseteq Edits \cup {"signIn", "delete", "session"}

Rows == [status : Statuses, profile : Requests \cup {None}, version : Nat]

TypeOK ==
    /\ row \in Rows
    /\ cache \in [Instances -> Rows \cup {None}]
    /\ deleting \in Requests \cup {None}
    /\ pc \in [Requests -> {"idle", "load", "read", "store", "use", "signIn", "write",
                            "invalidate", "delete", "dropEntry", "commit", "done"}]
    /\ op \in [Requests -> Edits \cup {"signIn", "delete", "session", "none"}]
    /\ at \in [Requests -> Instances \cup {None}]
    /\ copy \in [Requests -> Rows]

NewRow == [status |-> "active", profile |-> None, version |-> 1]

Init ==
    /\ row = NewRow
    /\ cache = [i \in Instances |-> None]
    /\ deleting = None
    /\ pc = [p \in Requests |-> "idle"]
    /\ op = [p \in Requests |-> "none"]
    /\ at = [p \in Requests |-> None]
    /\ copy = [p \in Requests |-> NewRow]

Goto(p, label) == pc' = [pc EXCEPT ![p] = label]

Arrive(p) ==
    \E o \in Ops, i \in Instances :
        /\ pc[p] = "idle"
        /\ op' = [op EXCEPT ![p] = o]
        /\ at' = [at EXCEPT ![p] = i]
        /\ Goto(p, IF o = "signIn" THEN "signIn" ELSE "load")
        /\ UNCHANGED <<row, cache, deleting, copy>>

-----------------------------------------------------------------------------
(* cachedUserStore.GetByID *)

\* A hit, also of a cached ErrUserNotFound, answers without the database.
CacheLoad(p) ==
    /\ pc[p] = "load"
    /\ IF cache[at[p]] # None
       THEN copy' = [copy EXCEPT ![p] = cache[at[p]]] /\ Goto(p, "use")
       ELSE Goto(p, "read") /\ UNCHANGED copy
    /\ UNCHANGED <<row, cache, deleting, op, at>>

CacheRead(p) ==
    /\ pc[p] = "read"
    /\ copy' = [copy EXCEPT ![p] = row]
    /\ Goto(p, "store")
    /\ UNCHANGED <<row, cache, deleting, op, at>>

\* The entry is stored after the read, whatever was invalidated in between.
CacheStore(p) ==
    /\ pc[p] = "store"
    /\ cache' = [cache EXCEPT ![at[p]] = copy[p]]
    /\ Goto(p, "use")
    /\ UNCHANGED <<row, deleting, op, at, copy>>

\* Mutant: a TTL of zero, which NewMemoryTTLBounded takes as "never".
CacheExpire_NoTTL(i) == FALSE /\ UNCHANGED vars

\* The TTL of the entry passes, or the entry is evicted.
CacheExpire(i) ==
    /\ cache[i] # None
    /\ cache' = [cache EXCEPT ![i] = None]
    /\ UNCHANGED <<row, deleting, pc, op, at, copy>>

-----------------------------------------------------------------------------
(* What the caller does with the row it got *)

\* Disable and Enable refuse a status they do not start from.
Allowed(p) ==
    /\ copy[p].status # "absent"
    /\ op[p] = "disable" => copy[p].status = "active"
    /\ op[p] = "enable" => copy[p].status = "disabled"

\* SessionMiddleware.Wrap accepts the cookie of an active user and goes on
\* anonymously otherwise; either way it writes nothing.
UseRow(p) ==
    /\ pc[p] = "use"
    /\ Goto(p, CASE op[p] \in Edits /\ Allowed(p) -> "write"
                 [] op[p] = "delete" /\ copy[p].status # "absent" -> "delete"
                 [] OTHER -> "done")
    /\ UNCHANGED <<row, cache, deleting, op, at, copy>>

\* OIDC sign-in finds the user by (provider, subject), past the cache, and
\* refuses one that is not active.
SignIn(p) ==
    /\ pc[p] = "signIn"
    /\ copy' = [copy EXCEPT ![p] = row]
    /\ Goto(p, IF row.status = "active" THEN "write" ELSE "done")
    /\ UNCHANGED <<row, cache, deleting, op, at>>

-----------------------------------------------------------------------------
(* cachedUserStore.Update *)

Edit(p) ==
    CASE op[p] = "disable" -> [copy[p] EXCEPT !.status = "disabled"]
      [] op[p] = "enable"  -> [copy[p] EXCEPT !.status = "active"]
      [] OTHER             -> [copy[p] EXCEPT !.profile = p]

\* Mutant: UPDATE ... WHERE id = ? alone.
Current_AnyVersion(p) == row.status # "absent"

\* UPDATE ... WHERE id = ? AND version = ?
Current(p) == row.status # "absent" /\ row.version = copy[p].version

\* The whole copy, or ErrUserConflict.  The row lock of an uncommitted DELETE
\* makes the UPDATE wait.
WriteRow(p) ==
    /\ pc[p] = "write"
    /\ deleting = None
    /\ row' = IF Current(p) THEN [Edit(p) EXCEPT !.version = row.version + 1] ELSE row
    /\ Goto(p, "invalidate")
    /\ UNCHANGED <<cache, deleting, op, at, copy>>

\* The entry of this instance goes, whether or not the write succeeded.
Invalidate(p) ==
    /\ pc[p] = "invalidate"
    /\ cache' = [cache EXCEPT ![at[p]] = None]
    /\ Goto(p, "done")
    /\ UNCHANGED <<row, deleting, op, at, copy>>

-----------------------------------------------------------------------------
(* AdminService.DeleteUser and cachedUserStore.Delete *)

\* The DELETE inside the transaction, unless active families stop an unforced
\* one.
DeleteRow(p) ==
    /\ pc[p] = "delete"
    /\ deleting = None
    /\ \/ deleting' = p /\ Goto(p, "dropEntry")
       \/ Goto(p, "done") /\ UNCHANGED deleting
    /\ UNCHANGED <<row, cache, op, at, copy>>

\* The invalidation runs before the commit.
DropEntry(p) ==
    /\ pc[p] = "dropEntry"
    /\ cache' = [cache EXCEPT ![at[p]] = None]
    /\ Goto(p, "commit")
    /\ UNCHANGED <<row, deleting, op, at, copy>>

DeleteCommit(p) ==
    /\ pc[p] = "commit"
    /\ row' = [row EXCEPT !.status = "absent"]
    /\ deleting' = None
    /\ Goto(p, "done")
    /\ UNCHANGED <<cache, op, at, copy>>

-----------------------------------------------------------------------------

Step(p) ==
    \/ CacheLoad(p) \/ CacheRead(p) \/ CacheStore(p) \/ UseRow(p) \/ SignIn(p)
    \/ WriteRow(p) \/ Invalidate(p)
    \/ DeleteRow(p) \/ DropEntry(p) \/ DeleteCommit(p)

Quiescent == (\A p \in Requests : pc[p] = "done") /\ UNCHANGED vars

Next ==
    \/ \E p \in Requests : Arrive(p) \/ Step(p)
    \/ \E i \in Instances : CacheExpire(i)
    \/ Quiescent

Spec == Init /\ [][Next]_vars

\* A request in flight keeps running, and the TTL of an entry passes.
FairSpec ==
    /\ Spec
    /\ \A p \in Requests : WF_vars(Step(p))
    /\ \A i \in Instances : WF_vars(CacheExpire(i))

-----------------------------------------------------------------------------
(* Properties *)

Register == INSTANCE AccountRegister
    WITH Fields <- {"profile"},
         Values <- Requests \cup {None},
         Moves  <- {<<"active", "disabled">>, <<"disabled", "active">>},
         status <- row.status,
         field  <- [f \in {"profile"} |-> row.profile]

\* A row that a cache served late never overwrites a newer one: a disable is not
\* undone by a sign-in or an edit in flight on any instance, and a deleted user
\* is never written back (cachedUserStore.GetByID, UserStore.Update).
UserRowIsARegister == Register!Spec

\* The TTL bounds what the two invalidation windows leave behind: once a user is
\* deleted every instance comes to stop answering that the user is active, for
\* good (SessionMiddleware.Wrap, WrapUserStore).
DeletedUserIsForgotten ==
    (row.status = "absent") ~>
        [](\A i \in Instances : cache[i] # None => cache[i].status # "active")
=============================================================================
