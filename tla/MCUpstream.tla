----------------------------- MODULE MCUpstream -----------------------------
(***************************************************************************)
(* Identities and credentials that come from elsewhere, and the rate       *)
(* limiter in front, for TLC.  A behaviour is about one part, chosen at    *)
(* the start; the others stay as they are.                                 *)
(*                                                                         *)
(*   "signIn"     SignIn: two browsers, two users, one of five workloads   *)
(*   "keys"       OidcKeys: two calls, two keys of which the upstream      *)
(*                rotates one                                              *)
(*   "federation" Federation and DPoP: one client, one issuer with two     *)
(*                keys, one of eight workloads                             *)
(*   "connect"    Connections: two users and one provider; scope 3 has no  *)
(*                upstream name                                            *)
(*   "limit"      RateLimiter: two requests of one address                 *)
(*                                                                         *)
(* The parts take their interchangeable values from the same two pairs.    *)
(***************************************************************************)
EXTENDS SignIn, OidcKeys, Federation, Connections, RateLimiter, TLC

CONSTANTS x1, x2, y1, y2, p1, p2, p3, p4, r1, r2, r3, cid, res, j1, j2, q, key, anchor,
          z1, z2, w1, w2, d1, back

VARIABLE part

upstreamVars == <<part, siVars, okVars, fdVars, cnVars, rlVars>>

UpstreamSymmetry == Permutations({x1, x2}) \cup Permutations({y1, y2})

-----------------------------------------------------------------------------
\* Sign-ins: what each request may be, and what may happen around them.

Work(kinds, world) == [kinds |-> kinds, world |-> world]

\* Two flows, each finished by whoever has its state.
Crossed ==
    Work(p1 :> {"start"} @@ p2 :> {"start"} @@ p3 :> {"callback"} @@ p4 :> {"callback"}, {})

\* A session in use while it grows old and an administrator acts on the user.
Standing ==
    Work(p1 :> {"start"} @@ p2 :> {"callback"} @@ p3 :> {"page"} @@ p4 :> {},
         {"time", "admin", "storeFails"})

Failing ==
    Work(p1 :> {"start"} @@ p2 :> {"start", "callback"} @@ p3 :> {"callback"} @@ p4 :> {},
         {"time", "fails", "separator"})

\* Login forms of several tabs, the nonce perhaps planted beforehand.
Tabs ==
    Work(p1 :> {"getLogin"} @@ p2 :> {"getLogin", "logout"} @@ p3 :> {"getLogin", "postLogin"}
         @@ p4 :> {"postLogin"}, {"planted"})

\* Login forms whose nonce runs out, or that another site posts.
Orphans ==
    Work(p1 :> {"getLogin"} @@ p2 :> {"postLogin"} @@ p3 :> {"postLogin"} @@ p4 :> {},
         {"crossSite", "lapses"})

\* An administrator acts on one of the users, whose row has at most two changes
\* at different instants.
FewChanges ==
    \E u \in SiUsers : siFormer'[u] = {} /\ \A v \in SiUsers : Cardinality(siFormer'[v]) <= 2

\* Among failing sign-ins the clock runs until a state of the first instant has lapsed.
UntilStateLapses == siWork = Failing => siClock' <= StateMaxAge + 1

MCSiWorkloads == {Crossed, Standing, Failing, Tabs, Orphans}

-----------------------------------------------------------------------------
\* The upstream's documents: discovery outlives the run, the keys are stale at
\* once and may be used for one more tick.

MCTtl == "discovery" :> 6 @@ "jwks" :> 0
MCStale == "discovery" :> 0 @@ "jwks" :> 1

-----------------------------------------------------------------------------
\* Assertions of the federated issuer, policies, and who does what.

MCAssertions ==
    {[jti |-> j1, iat |-> 0, exp |-> 1, key |-> 1, client |-> cid, resource |-> FdNone,
      scopes |-> {}],
     [jti |-> j2, iat |-> 1, exp |-> 3, key |-> 1, client |-> cid, resource |-> res,
      scopes |-> {1}]}

MCCeiling == cid :> {1, 2}

MCIat == q :> 1

MCProofNonce == q :> r1

MCEdits ==
    {[enabled |-> TRUE, clients |-> {cid}, resources |-> {res}, scopes |-> {}],
     [enabled |-> TRUE, clients |-> {}, resources |-> {}, scopes |-> {1}],
     [enabled |-> FALSE, clients |-> {}, resources |-> {}, scopes |-> FdNone]}

\* In strict mode, with both assertions, requests that name no scope.
Plain(a, b, d, world) ==
    [modes |-> {"strict"}, with |-> MCAssertions, asks |-> {{}},
     ops |-> r1 :> a @@ r2 :> b @@ r3 :> d, world |-> world]

Replays == Plain({"grant"}, {"grant"}, {}, {"time", "purge"})

ProofReplays == Plain({"proof"}, {"proof"}, {}, {"time", "purge", "proofs"})

ResourceReplays == Plain({"resource"}, {"resource"}, {}, {"time", "purge", "proofs"})

Reregistration == Plain({"deleteIdp"}, {"register"}, {"updateIdp", "updatePolicy"}, {})

KeyRefresh == Plain({"grant"}, {"refresh"}, {"deleteIdp"}, {"time", "rotation"})

KeyOutage ==
    [Plain({"grant"}, {"grant"}, {"grant"}, {"time", "rotation", "fetchFails"})
        EXCEPT !.with = {a \in MCAssertions : a.jti = j1}]

\* Of the grants of a key outage the first two overlap, in one order, and the
\* third follows the first.
OutageInOrder ==
    ~ (/\ fdWork = KeyOutage
       /\ \/ fdAt'[r1] = "idle" /\ fdAt'[r2] # "idle"
          \/ fdAt'[r1] # "done" /\ fdAt'[r3] # "idle")

Administration ==
    [modes |-> {"strict", "auto_map"}, with |-> MCAssertions, asks |-> {{}, {1, 2}},
     ops |-> r1 :> {"grant"} @@ r2 :> {"updateIdp", "updatePolicy", "createPolicy", "createMapping"}
             @@ r3 :> {"deleteIdp", "deletePolicy", "deleteMapping"},
     world |-> {"mappingFails", "insertFails"}]

Users ==
    [Plain({"grant"}, {"createMapping"}, {"deleteMapping"}, {"user", "proofs", "mappingFails"})
        EXCEPT !.modes = {"strict", "auto_map"}]

MCAdministered == {Administration}

MCWorkloads ==
    {Replays, ProofReplays, ResourceReplays, Administration, Users, Reregistration,
     KeyOutage, KeyRefresh}

-----------------------------------------------------------------------------
\* Connections: two of each request, and a disconnect.

MCWire == 1 :> 1 @@ 2 :> 2 @@ 3 :> CnNone
MCAllowedReturns == res :> {back}
MCBrokerLinks == {CnNone, 1 :> {2} @@ 2 :> {1, 2} @@ 3 :> {}}

MCCnOps ==
    [p \in {y1, y2} |-> {"start"}] @@ [p \in {z1, z2} |-> {"callback"}]
    @@ [p \in {w1, w2} |-> {"vend"}] @@ d1 :> {"disconnect"}

\* Two connects and one vend, or one connect and two vends.  The callbacks, and
\* the vends, are interchangeable: each pair starts in order.
ConnectInOrder ==
    /\ "idle" \in {cnAt'[z2], cnAt'[w2]}
    /\ \A m \in {<<z1, z2>>, <<w1, w2>>} :
          ~ (cnAt'[m[1]] = "idle" /\ cnAt'[m[2]] # "idle")

-----------------------------------------------------------------------------
\* A part that rests does so in one of its initial states.
Rests(p, state) == part # p => state

UpstreamInit ==
    /\ part \in {"signIn", "keys", "federation", "connect", "limit"}
    /\ SiInit /\ OkInit /\ FederationInit /\ ConnInit /\ RlInit
    /\ published = OkKeys
    /\ Rests("signIn", siWork = Crossed)
    /\ Rests("federation", fdWork = (CHOOSE w \in Workloads : TRUE) /\ fdMode = "strict")
    /\ Rests("connect", cnPolicy = "keep")

UpstreamNext ==
    /\ UNCHANGED part
    /\ \/ /\ part = "signIn" /\ SiNext /\ FewChanges /\ UntilStateLapses
          /\ UNCHANGED <<okVars, fdVars, cnVars, rlVars>>
       \/ /\ part = "keys" /\ OkNext /\ anchor \in published'
          /\ UNCHANGED <<siVars, fdVars, cnVars, rlVars>>
       \/ /\ part = "federation" /\ FederationNext /\ OutageInOrder
          /\ UNCHANGED <<siVars, okVars, cnVars, rlVars>>
       \/ /\ part = "connect" /\ ConnNext /\ ConnectInOrder
          /\ UNCHANGED <<siVars, okVars, fdVars, rlVars>>
       \/ /\ part = "limit" /\ RlNext
          /\ UNCHANGED <<siVars, okVars, fdVars, cnVars>>

UpstreamSpec == UpstreamInit /\ [][UpstreamNext]_upstreamVars
=============================================================================
