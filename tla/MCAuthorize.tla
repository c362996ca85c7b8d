----------------------------- MODULE MCAuthorize -----------------------------
(***************************************************************************)
(* The authorization endpoint and the lockout of its login form, for TLC.  *)
(* A behaviour is about one part, chosen at the start; the other stays as  *)
(* it is.                                                                  *)
(*                                                                         *)
(*   "authorize" AuthorizeFlow: three requests of two users, two scopes    *)
(*   "lockout"   AuthLockout: two logins over three keys, of which two fit *)
(*                                                                         *)
(* The parts take their values from the same interchangeable pairs and     *)
(* triple, so that one small symmetry group serves both.                   *)
(***************************************************************************)
EXTENDS AuthorizeFlow, AuthLockout, TLC

CONSTANTS x1, x2, y1, y2, z1, z2, z3, client, res

VARIABLE part

partVars == <<part, azVars, vars>>

PartSymmetry == Permutations({x1, x2}) \cup Permutations({y1, y2}) \cup Permutations({z1, z2, z3})

MCCeiling == client :> {}

PartInit == part \in {"authorize", "lockout"} /\ AuthorizeInit /\ Init

PartNext ==
    /\ UNCHANGED part
    /\ \/ part = "authorize" /\ AuthorizeNext /\ UNCHANGED vars
       \/ part = "lockout" /\ Next /\ UNCHANGED azVars

PartSpec == PartInit /\ [][PartNext]_partVars
=============================================================================
