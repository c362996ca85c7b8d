------------------------------ MODULE MCGrants ------------------------------
(***************************************************************************)
(* What is handed out on the strength of a grant, and the tables it is     *)
(* kept in, for TLC.  A behaviour is about one part, chosen at the start;  *)
(* the others stay as they are.                                            *)
(*                                                                         *)
(*   "exchange"  TokenExchange and Introspection: resource r1 fronts r2,   *)
(*               c1 is the client of the user's token, c2 runs both        *)
(*   "tokens"    SQLiteTokens: one row, a chain of three for lineages      *)
(*   "directory" SQLiteDirectory: two callers, two ids, two keys           *)
(***************************************************************************)
EXTENDS Introspection, SQLiteTokens, SQLiteDirectory

CONSTANTS p1, p2, p3, c1, c2, r1, r2, root, ta, tb, tc

VARIABLE part

grantVars == <<part, introspectVars, tkVars, dirVars>>

GrantSymmetry == Permutations({p1, p2})

-----------------------------------------------------------------------------
MCCatalog == r1 :> {1, 2} @@ r2 :> {1, 2}
MCAllowed == r1 :> {c1, c2} @@ r2 :> {}
MCRuntime == r1 :> {c2} @@ r2 :> {c2}

MCLink(m) == [l \in {r1, r2} \X {r1, r2} |-> IF l = <<r1, r2>> THEN m ELSE TxNone]

\* With the link and, once it is gone, without it.
MCLinks == {MCLink(TxNone), MCLink(1 :> {2} @@ 2 :> {1, 2})}

\* A token of the code flow with a scope, or without one.
MCRootTokens == [client : {c1}, aud : {r1}, scope : {{2}, {}}]

MCConsents == {[k \in {c1, c2} \X {r1, r2} |-> IF k[1] = c1 THEN {1, 2} ELSE {}]}

MCTxOps == [p \in {p1, p2} |-> {"exchange"}] @@ p3 :> {"credentials", "consent", "introspect"}

\* Only a consent revocation overlaps exchanges.  An introspection and the client
\* credentials grant run between them, and what the user cache answers changes between
\* them: they write rows of their own token at most, which no exchange can be given
\* before it is handed out, and an exchange reads the user when it begins.
OnlyRevocationOverlaps ==
    \/ \A p \in {p1, p2} : txAt'[p] \in {"idle", "done"}
    \/ txUser' = txUser /\ txAt'[p3] \in {"idle", "cascade", "cascadeFailed", "done"}

\* Ids of issuances are interchangeable: they are drawn in this order.
IdsInOrder == {r.id : r \in tk'.issuances} \in {{}, {ta}, {ta, tb}, {ta, tb, tc}}

-----------------------------------------------------------------------------
\* A part that rests does so in one of its initial states.
Rests(p, state) == part # p => state

GrantInit ==
    /\ part \in {"exchange", "tokens", "directory"}
    /\ IntrospectInit /\ TkInit /\ DirInit
    /\ Rests("exchange", txLink = MCLink(TxNone))
    /\ Rests("tokens", tkGroup = "audit")
    /\ Rests("directory", dirTheme = "settings")

GrantNext ==
    /\ UNCHANGED part
    /\ \/ part = "exchange" /\ IntrospectNext /\ OnlyRevocationOverlaps
          /\ UNCHANGED <<tkVars, dirVars>>
       \/ part = "tokens" /\ TkNext /\ IdsInOrder /\ UNCHANGED <<introspectVars, dirVars>>
       \/ part = "directory" /\ DirNext /\ UNCHANGED <<introspectVars, tkVars>>

GrantSpec == GrantInit /\ [][GrantNext]_grantVars

\* The rows of both groups of SQLite tables: what a look-up finds is what was stored
\* under that key (adapters/sqlite).  While exchanges run, both groups rest.
StoredRowsSound == part # "exchange" => TokenRowsSound /\ DirTypeOK /\ LookupsAreKeyed
=============================================================================
