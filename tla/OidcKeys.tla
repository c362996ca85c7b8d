------------------------------ MODULE OidcKeys ------------------------------
(***************************************************************************)
(* What a sign-in knows of its upstream: the discovery document and the key*)
(* set (internal/adapters/oidc: provider.go, cache.go, verify.go).  Both   *)
(* are read through a TTL cache whose misses share one fetch, and served   *)
(* stale when the fetch fails; a key that the set does not hold forces a   *)
(* fetch of its own, shared through another group.                         *)
(*                                                                         *)
(* A fetch reads the upstream in one step and is stored in a later one, at *)
(* most HttpTimeout after it began.  The upstream publishes and withdraws  *)
(* keys when it likes.  Key bytes in the configuration would pin the set   *)
(* and bypass all of this; the server's wiring never sets them.            *)
(***************************************************************************)
EXTENDS Naturals, FiniteSets

CONSTANTS OkCalls,      \* calls of ExchangeCode
          OkKeys,       \* the upstream's keys
          Ttl,          \* the cache lifetime of each document
          StaleFor,     \* how much longer each is served when its fetch fails
          HttpTimeout,  \* the timeout of one HTTP exchange
          OkLast,       \* bound: the last instant
          MaxOutages,   \* bound: fetches that fail
          OkNone

Documents == {"discovery", "jwks"}

ASSUME OkAssumption ==
  /\ Ttl \in [Documents -> Nat] /\ StaleFor \in [Documents -> Nat]
  /\ HttpTimeout \in Nat /\ OkLast \in Nat /\ MaxOutages \in Nat
  /\ OkNone \notin OkKeys

\* A fetch under way: who waits for it, what it has read, and when it began.
OkFlight == [calls : SUBSET OkCalls, keys : (SUBSET OkKeys) \cup {OkNone}, at : Nat]

ASSUME OkFlightAssumption == OkNone \notin OkFlight

VARIABLES
  okClock,
  published,   \* keys the upstream publishes
  since,       \* [key -> when it was last published or withdrawn]
  entries,     \* [document -> [keys, exp] or OkNone]: the caches
  flights,     \* [group -> the fetch under way or OkNone]
  okAt,        \* [call -> where it is]
  okHas,       \* [call -> the key set it works with]
  okFrom,      \* [call -> when it last turned to the network or took its set]
  okEnded,     \* {[key, at, ok, named]}: the ID tokens verified or refused last, and
               \* whether they named their key (history)
  outages

okVars == <<okClock, published, since, entries, flights, okAt, okHas, okFrom, okEnded, outages>>

\* The groups that share a fetch: one per cache, and jwksRefresh.
Flights == Documents \cup {"refresh"}

DocOf(g) == IF g = "discovery" THEN "discovery" ELSE "jwks"

OkInit ==
  /\ okClock = 0 /\ outages = 0 /\ okEnded = {}
  /\ published \in (SUBSET OkKeys) \ {{}}
  /\ since = [k \in OkKeys |-> 0]
  /\ entries = [d \in Documents |-> OkNone]
  /\ flights = [g \in Flights |-> OkNone]
  /\ okAt = [c \in OkCalls |-> "idle"]
  /\ okHas = [c \in OkCalls |-> {}]
  /\ okFrom = [c \in OkCalls |-> 0]

OkFresh(d) == entries[d] # OkNone /\ okClock <= entries[d].exp

\* Mutant: any copy is better than none.
Peek_Uncapped(d) == entries[d] # OkNone

\* Peek: the copy is not expired by more than the cap.
Peek(d) == entries[d] # OkNone /\ okClock <= entries[d].exp + StaleFor[d]

\* Store.
Stored(d, keys) == [entries EXCEPT ![d] = [keys |-> keys, exp |-> okClock + Ttl[d], at |-> okClock]]

\* Where a call goes when it found no fresh copy, and when it has its document.
Missed(d) == IF d = "discovery" THEN "noDiscovery" ELSE "noKeys"

After(d) == IF d = "discovery" THEN "jwks" ELSE "exchange"

Resolved(cs, d, keys) ==
  /\ okAt' = [c \in OkCalls |-> IF c \in cs THEN After(d) ELSE okAt[c]]
  /\ okHas' = [c \in OkCalls |-> IF c \in cs THEN keys ELSE okHas[c]]
  /\ okFrom' = [c \in OkCalls |-> IF c \in cs THEN okClock ELSE okFrom[c]]

\* ExchangeCode begins: the configuration, then the two documents.
BeginExchange(c) ==
  /\ okAt[c] = "idle"
  /\ okAt' = [okAt EXCEPT ![c] = "discovery"]
  /\ UNCHANGED <<okClock, published, since, entries, flights, okHas, okFrom, okEnded, outages>>

\* Load, first look: a fresh copy, or on to the shared fetch.
LoadLook(c, d) ==
  /\ okAt[c] = d
  /\ IF OkFresh(d) THEN Resolved({c}, d, entries[d].keys)
     ELSE okAt' = [okAt EXCEPT ![c] = Missed(d)] /\ UNCHANGED <<okHas, okFrom>>
  /\ UNCHANGED <<okClock, published, since, entries, flights, okEnded, outages>>

NewFlight(c) == [calls |-> {c}, keys |-> OkNone, at |-> okClock]

\* The winner of the flight looks again before it fetches.
LoadRecheck(d) == OkFresh(d)

\* Load, in the group: join the fetch under way, or win the flight.
LoadJoin(c, d) ==
  /\ okAt[c] = Missed(d)
  /\ IF flights[d] # OkNone
     THEN /\ flights' = [flights EXCEPT ![d].calls = @ \cup {c}]
          /\ okAt' = [okAt EXCEPT ![c] = "wait"] /\ UNCHANGED <<okHas, okFrom>>
     ELSE IF LoadRecheck(d) THEN Resolved({c}, d, entries[d].keys) /\ UNCHANGED flights
     ELSE /\ flights' = [flights EXCEPT ![d] = NewFlight(c)]
          /\ okAt' = [okAt EXCEPT ![c] = "wait"] /\ UNCHANGED <<okHas, okFrom>>
  /\ UNCHANGED <<okClock, published, since, entries, okEnded, outages>>

\* fetchDiscovery, fetchJWKS: the upstream answers with what it publishes now.
FetchReads(g) ==
  /\ flights[g] # OkNone /\ flights[g].keys = OkNone
  /\ flights' = [flights EXCEPT ![g].keys = IF DocOf(g) = "jwks" THEN published ELSE {}]
  /\ UNCHANGED <<okClock, published, since, entries, okAt, okHas, okFrom, okEnded, outages>>

Ends(cs, at) == okAt' = [c \in OkCalls |-> IF c \in cs THEN at ELSE okAt[c]]

\* The fetch of a Load is stored, and everyone who waits has the document.
LoadStores(d) ==
  /\ flights[d] # OkNone /\ flights[d].keys # OkNone
  /\ entries' = Stored(d, flights[d].keys)
  /\ flights' = [flights EXCEPT ![d] = OkNone]
  /\ Resolved(flights[d].calls, d, flights[d].keys)
  /\ UNCHANGED <<okClock, published, since, okEnded, outages>>

\* discover and resolveJWKS after a failed Load: the stale copy within its cap.
LoadFails(d) ==
  /\ flights[d] # OkNone /\ outages < MaxOutages
  /\ outages' = outages + 1
  /\ flights' = [flights EXCEPT ![d] = OkNone]
  /\ IF Peek(d) THEN Resolved(flights[d].calls, d, entries[d].keys)
     ELSE Ends(flights[d].calls, "done") /\ UNCHANGED <<okHas, okFrom>>
  /\ UNCHANGED <<okClock, published, since, entries, okEnded>>

\* What verifyIDToken finds: the set holds the key that the token names ...
Named(k, keys) == [key |-> k, at |-> okClock, ok |-> k \in keys, named |-> TRUE]

\* ... or, of a token without a kid, the first key of the set is the one that signed.
Unnamed(k, first) == [key |-> k, at |-> okClock, ok |-> k = first, named |-> FALSE]

\* keys[0] of a set whose order the upstream chooses.
Firsts(keys) == IF keys = {} THEN {OkNone} ELSE keys

\* verifyIDToken, of a token that names its key: a set without it is fetched again.
OkVerifyIDToken(c, k) ==
  /\ okAt[c] = "exchange"
  /\ IF k \in okHas[c]
     THEN /\ okEnded' = {Named(k, okHas[c])}
          /\ okAt' = [okAt EXCEPT ![c] = "done"] /\ UNCHANGED okHas
     ELSE /\ okAt' = [okAt EXCEPT ![c] = "refresh"]
          /\ okHas' = [okHas EXCEPT ![c] = {k}]
          /\ UNCHANGED okEnded
  /\ UNCHANGED <<okClock, published, since, entries, flights, okFrom, outages>>

\* verifyIDToken, of a token without a kid: getKeys gives it the whole set, the
\* first key decides, and only an empty set is fetched again (okHas stays empty).
OkVerifyUnnamed(c, k) ==
  /\ okAt[c] = "exchange"
  /\ IF okHas[c] # {}
     THEN /\ \E first \in okHas[c] : okEnded' = {Unnamed(k, first)}
          /\ okAt' = [okAt EXCEPT ![c] = "done"]
     ELSE okAt' = [okAt EXCEPT ![c] = "refresh"] /\ UNCHANGED okEnded
  /\ UNCHANGED <<okClock, published, since, entries, flights, okHas, okFrom, outages>>

\* refreshJWKS never looks into the cache.
RefreshAnswer == OkNone

\* The refresh joins a refresh under way or begins one.
RefreshJoin(c) ==
  LET f == flights["refresh"]
  IN /\ okAt[c] = "refresh"
     /\ flights' = [flights EXCEPT !["refresh"] =
                      IF f # OkNone THEN [f EXCEPT !.calls = @ \cup {c}]
                      ELSE [NewFlight(c) EXCEPT !.keys = RefreshAnswer]]
     /\ okAt' = [okAt EXCEPT ![c] = "wait"]
     /\ UNCHANGED <<okClock, published, since, entries, okHas, okFrom, okEnded, outages>>

\* What a refreshed set decides for a call: okHas holds the key that was missing, and
\* is empty for a token without a kid, whatever key signed that.
Verdicts(c, keys, first) ==
  IF okHas[c] # {} THEN {Named(k, keys) : k \in okHas[c]}
  ELSE {Unnamed(k, first) : k \in OkKeys}

\* The fresh set is stored and decides.
RefreshStores ==
  LET f == flights["refresh"]
  IN /\ f # OkNone /\ f.keys # OkNone
     /\ entries' = Stored("jwks", f.keys)
     /\ flights' = [flights EXCEPT !["refresh"] = OkNone]
     /\ \E first \in Firsts(f.keys) :
          okEnded' = UNION {Verdicts(c, f.keys, first) : c \in f.calls}
     /\ Ends(f.calls, "done")
     /\ UNCHANGED <<okClock, published, since, okHas, okFrom, outages>>

\* A failed refresh refuses the sign-in as unavailable.
RefreshFails ==
  /\ flights["refresh"] # OkNone /\ outages < MaxOutages
  /\ outages' = outages + 1
  /\ flights' = [flights EXCEPT !["refresh"] = OkNone]
  /\ Ends(flights["refresh"].calls, "done")
  /\ UNCHANGED <<okClock, published, since, entries, okHas, okFrom, okEnded>>

\* The upstream publishes or withdraws a key (external).
OkRotate(k) ==
  /\ published' = IF k \in published THEN published \ {k} ELSE published \cup {k}
  /\ since' = [since EXCEPT ![k] = okClock]
  /\ since[k] < okClock
  /\ UNCHANGED <<okClock, entries, flights, okAt, okHas, okFrom, okEnded, outages>>

\* Time: no HTTP exchange outlasts its timeout.
OkTick ==
  /\ okClock < OkLast
  /\ \A g \in Flights : flights[g] # OkNone => okClock < flights[g].at + HttpTimeout
  /\ \A c \in OkCalls : okAt[c] = "exchange" => okClock < okFrom[c] + HttpTimeout
  /\ \A c \in OkCalls : okAt[c] # "refresh"
  /\ okClock' = okClock + 1
  /\ UNCHANGED <<published, since, entries, flights, okAt, okHas, okFrom, okEnded, outages>>

OkNext ==
  \/ \E c \in OkCalls : \/ BeginExchange(c) \/ RefreshJoin(c)
                        \/ \E d \in Documents : LoadLook(c, d) \/ LoadJoin(c, d)
                        \/ \E k \in OkKeys : OkVerifyIDToken(c, k) \/ OkVerifyUnnamed(c, k)
  \/ \E g \in Flights : FetchReads(g)
  \/ \E d \in Documents : LoadStores(d) \/ LoadFails(d)
  \/ RefreshStores \/ RefreshFails
  \/ \E k \in OkKeys : OkRotate(k)
  \/ OkTick

OkSpec == OkInit /\ [][OkNext]_okVars

----------------------------------------------------------------------------
\* The caches, flights and calls have their shape; only a call that waits is in
\* a flight (cache.go, Load), so no sign-in is left behind by the fetch it joined.
OkTypeOK ==
  /\ okClock \in 0 .. OkLast /\ published \subseteq OkKeys
  /\ \A d \in Documents : entries[d] # OkNone =>
        entries[d].keys \subseteq OkKeys /\ entries[d].exp <= okClock + Ttl[d]
  /\ \A c \in OkCalls : okAt[c] = "wait" <=> \E g \in Flights : flights[g] # OkNone /\ c \in flights[g].calls

\* A key that the upstream has withdrawn verifies no ID token once the cache's
\* lifetime, the stale cap, the fetch that was under way and the exchange that
\* held the set have passed, whatever fetches fail meanwhile (Peek, cache.go:72).
UpstreamKeyDies ==
  \A e \in okEnded :
    e.ok /\ e.key \notin published /\ since[e.key] < e.at =>
      e.at <= since[e.key] + Ttl["jwks"] + StaleFor["jwks"] + 2 * HttpTimeout

\* An ID token that names a published key is refused for its key only while the set
\* that refused it is younger than one HTTP exchange: a rotation needs neither
\* the TTL nor a restart to be seen (verifyIDToken, verify.go:53).  Of a token without
\* a kid nothing of the kind is true: verify.go:103 gives it the cached set, whatever
\* its age, and verify.go:70 tries the first key of that.
NewKeyIsFound ==
  \A e \in okEnded :
    e.named /\ ~e.ok /\ e.key \in published /\ since[e.key] <= e.at => e.at <= since[e.key] + HttpTimeout

\* A miss fetches only when no copy is fresh: a call that saw the expired entry
\* and won the flight late does not fetch again what was just stored
\* (Load, cache.go:96).
NoRefetchWhileFresh ==
  \A d \in Documents : flights[d] # OkNone /\ entries[d] # OkNone
                         => entries[d].at >= flights[d].at \/ flights[d].at > entries[d].exp

\* The upstream's keys as the sign-in sees them: withdrawn ones die, new ones are
\* found, and no fetch is wasted (cache.go, verify.go).
UpstreamKeysSound ==
  /\ OkTypeOK
  /\ UpstreamKeyDies
  /\ NewKeyIsFound
  /\ NoRefetchWhileFresh
=============================================================================
