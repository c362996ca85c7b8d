---------------------------- MODULE MCTokenSystem ----------------------------
(* Small instances of TokenSystem for TLC. *)
EXTENDS TokenSystem, TLC

CONSTANTS p1, p2, p3, p4, s1, s2

\* The rightful client; a holder of the request but not of the client secret;
\* another client that has the code and the verifier; a client without the
\* verifier.
CallerCreds == {Proofs, {"client", "verifier"}, {"secret", "verifier"}, {"client", "secret"}}

OwnerCreds == {Proofs}

RequestSymmetry == Permutations(Requests)
=============================================================================
