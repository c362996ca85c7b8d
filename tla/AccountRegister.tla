--------------------------- MODULE AccountRegister ---------------------------
(***************************************************************************)
(* What the client table and the user table promise about one row: every   *)
(* operation acts on the current row and on nothing else.  A status moves   *)
(* only along Moves, a write of one field keeps the status and the other    *)
(* fields, and a removed row stays removed.                                 *)
(***************************************************************************)
CONSTANTS Fields,  \* the groups of columns that operations write
          Values,  \* what they can hold
          Moves    \* the allowed changes of status, as pairs

VARIABLES status,  \* a status, or "absent" once the row is deleted
          field    \* the contents of each group of columns

regVars == <<status, field>>

Move(m) ==
    /\ m \in Moves
    /\ status = m[1]
    /\ status' = m[2]
    /\ UNCHANGED field

Write(f, v) ==
    /\ status # "absent"
    /\ field' = [field EXCEPT ![f] = v]
    /\ UNCHANGED status

Remove ==
    /\ status' = "absent"
    /\ UNCHANGED field

Init == status = "active" /\ field \in [Fields -> Values]

Next ==
    \/ \E m \in Moves : Move(m)
    \/ \E f \in Fields, v \in Values : Write(f, v)
    \/ Remove

Spec == Init /\ [][Next]_regVars
=============================================================================
