------------------------------ MODULE MCStores ------------------------------
(***************************************************************************)
(* Two parts of the stores that must always come to an end, for TLC: a     *)
(* behaviour is about the single SQLite connection, or about one user      *)
(* behind the caches of two instances.  The other part stays in an initial *)
(* state in which none of its fair actions is enabled.                     *)
(***************************************************************************)
EXTENDS SQLiteDB, UserDirectory

CONSTANTS p1, p2, p3, i1, i2

VARIABLE part

storeVars == <<part, sqVars, vars>>

StoresInit ==
    /\ part \in {"connection", "user"}
    /\ SqInit /\ Init
    /\ part = "user" => sqDb = SqEmpty

\* The requests and the instances of the user part are interchangeable: the
\* requests are numbered by what they ask for, and the first is at i1.
Rank(o) == CASE o = "session" -> 1 [] o = "signIn" -> 2
             [] o = "disable" -> 3 [] OTHER -> 4

Numbered ==
    /\ \A m \in {<<p1, p2>>, <<p1, p3>>, <<p2, p3>>} :
          \/ "none" \in {op'[m[1]], op'[m[2]]}
          \/ Rank(op'[m[1]]) =< Rank(op'[m[2]])
    /\ op'[p1] # "none" => at'[p1] = i1

StoresNext ==
    /\ UNCHANGED part
    /\ \/ part = "connection" /\ SqNext /\ UNCHANGED vars
       \/ part = "user" /\ Next /\ Numbered /\ UNCHANGED sqVars

StoresSpec ==
    /\ StoresInit /\ [][StoresNext]_storeVars
    /\ SqFairness
    /\ \A p \in Requests : WF_vars(Step(p))
    /\ \A i \in Instances : WF_vars(CacheExpire(i))
=============================================================================
