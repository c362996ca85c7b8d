-------------------------------- MODULE DPoP --------------------------------
(***************************************************************************)
(* The replay guards of the token endpoint: the tables of consumed DPoP    *)
(* proofs and identity assertions and of DPoP nonces                       *)
(* (internal/adapters/postgres/dpop_nonce.go, assertion_jti_store.go), the *)
(* checks of a proof (internal/crypto/dpop.go) and the middleware that     *)
(* hands out nonces (api/public/oauth/dpop.go), over a clock that all of   *)
(* them read.  Expired rows go when an operator runs a purge command.      *)
(***************************************************************************)
EXTENDS Naturals, FiniteSets

CONSTANTS Proofs,        \* proofs, by jti
          ProofIat,      \* their iat claims
          DpRequests,    \* the requests of the token endpoint
          ProofNonce,    \* the request whose answer carried a proof's nonce, or DpNone
          ProofLifetime, \* dpop.proof_lifetime
          NonceTTL,      \* how long a nonce is accepted
          RequireNonce,  \* dpop.require_nonce
          Jtis,          \* the jti claims of assertions
          MaxClock,      \* bound: the last instant
          DpNone

ASSUME DPoPAssumption ==
    /\ ProofLifetime \in Nat /\ NonceTTL \in Nat /\ MaxClock \in Nat
    /\ ProofIat \in [Proofs -> 0 .. MaxClock]
    /\ ProofNonce \in [Proofs -> DpRequests \cup {DpNone}]
    /\ RequireNonce \in BOOLEAN
ASSUME DpNoneAssumption == DpNone \notin DpRequests \cup Nat

VARIABLES
    clock,
    dpJtis,    \* dpop_jtis: proof to the expiry of its row
    dpNonces,  \* dpop_nonces: by the request they were handed to, their expiry
    xaJtis     \* assertion_jtis: jti to the expiry of its row

dpVars == <<clock, dpJtis, dpNonces, xaJtis>>

DPoPTypeOK ==
    /\ clock \in 0 .. MaxClock
    /\ dpJtis \in [Proofs -> (0 .. MaxClock + 2 * ProofLifetime) \cup {DpNone}]
    /\ dpNonces \in [DpRequests -> (0 .. MaxClock + NonceTTL) \cup {DpNone}]
    /\ xaJtis \in [Jtis -> Nat \cup {DpNone}]

DPoPInit ==
    /\ clock = 0
    /\ dpJtis = [q \in Proofs |-> DpNone]
    /\ dpNonces = [p \in DpRequests |-> DpNone]
    /\ xaJtis = [j \in Jtis |-> DpNone]

\* IssueNonce: a new row, with its expiry.
IssueNonce(p) == dpNonces' = [dpNonces EXCEPT ![p] = clock + NonceTTL]

\* DPoPNonceMiddleware: only a request that carries a proof is handed a nonce.
DPoPNonceMiddleware(p, q) == IF q = DpNone THEN UNCHANGED dpNonces ELSE IssueNonce(p)

\* ValidateNonce: the nonce has a row that has not expired; the row stays.
ValidateNonce(q) ==
    ProofNonce[q] # DpNone /\ dpNonces[ProofNonce[q]] # DpNone
                           /\ clock <= dpNonces[ProofNonce[q]]

\* ValidateProof: iat is at most a lifetime away, in either direction.
ValidateProof(q) ==
    /\ clock <= ProofIat[q] + ProofLifetime
    /\ ProofIat[q] <= clock + ProofLifetime

\* Mutant: the row lives as long as a proof does that was made just now.
ProofRowExpiry_OneLifetime == clock + ProofLifetime

\* validateDPoP keeps the jti for two lifetimes.
ProofRowExpiry == clock + 2 * ProofLifetime

\* ConsumeJTI of the proof store: an insert that a present row refuses.
ConsumeProof(q) ==
    /\ dpJtis[q] = DpNone
    /\ dpJtis' = [dpJtis EXCEPT ![q] = ProofRowExpiry]

\* ConsumeJTI of the assertion store.
ConsumeJTI(j, expires) ==
    /\ xaJtis[j] = DpNone
    /\ xaJtis' = [xaJtis EXCEPT ![j] = expires]

Kept(rows) == [k \in DOMAIN rows |->
                 IF rows[k] # DpNone /\ rows[k] < clock THEN DpNone ELSE rows[k]]

\* PurgeExpired of the proof store: first the jtis, then the nonces.
PurgeProofs ==
    /\ dpJtis' = Kept(dpJtis)
    /\ dpNonces' = Kept(dpNonces)
    /\ UNCHANGED <<clock, xaJtis>>

\* PurgeExpired of the assertion store.
PurgeAssertions ==
    /\ xaJtis' = Kept(xaJtis)
    /\ UNCHANGED <<clock, dpJtis, dpNonces>>
=============================================================================
