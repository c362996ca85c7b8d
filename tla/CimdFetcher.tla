---------------------------- MODULE CimdFetcher ----------------------------
(***************************************************************************)
(* The fetcher of Client ID Metadata Documents (internal/adapters/cimd).   *)
(* One process answers Fetch calls that arrive concurrently.  Calls with   *)
(* the same fetchKey share one flight (singleflight.DoChan); a flight that *)
(* has to dial holds one of maxConcurrentFetches slots, or is shed; a good *)
(* document is cached for a lifetime its own headers shape, a failure for  *)
(* negativeCacheTTL.  A caller may leave its flight (ctx.Done) and the     *)
(* flight goes on without it.                                              *)
(*                                                                         *)
(* Time is counted in ticks.  The web server behind a URL is external: it  *)
(* answers with any document, any headers, or not at all.                  *)
(***************************************************************************)
EXTENDS Naturals, FiniteSets, Functions

CONSTANTS
  FtCalls,              \* the calls of Fetch
  FtURLs,               \* client_id URLs
  FtLiterals,           \* the URLs whose host is a private address as written
  FtPlain,              \* the URLs whose scheme is http
  FtBare,               \* the URLs that no call may ask for: their path leads back to the
                        \* origin, or their scheme is neither http nor https
  FtPrivate,            \* the URLs whose host resolves to a private address
  FtBodies,             \* what a valid document may say
  MaxConcurrentFetches, \* fetcher.go: maxConcurrentFetches
  MaxCacheEntries,      \* maxCacheEntries, and maxNegativeCacheEntries
  NegativeCacheTTL,     \* negativeCacheTTL, in ticks
  MinCacheTTL,          \* minCacheTTL, in ticks
  CacheTTL,             \* the operator's ceiling, cimd.cache_ttl, in ticks
  FtLast                \* the last tick of a run

ASSUME FtAssumption ==
  /\ FtLiterals \subseteq FtPrivate /\ FtPrivate \subseteq FtURLs
  /\ FtPlain \subseteq FtURLs /\ FtBare \subseteq FtURLs
  /\ MaxConcurrentFetches \in Nat \ {0} /\ MaxCacheEntries \in Nat \ {0}
  /\ {NegativeCacheTTL, MinCacheTTL, CacheTTL} \subseteq Nat \ {0}
  /\ FtLast \in Nat

VARIABLES
  ftNow,      \* the clock
  ftIn,       \* [call -> [url, https, allow]]: what the caller asks, under which policy
  ftAt,       \* [call -> "idle" | "looked" | "waiting" | "answered"]
  ftGot,      \* [call -> the answer]
  ftFlights,  \* [key -> flight], the single-flight group
  ftDocs,     \* [key -> [doc, exp]], the document cache
  ftFails,    \* [key -> expiry], the negative cache
  ftContact   \* [key -> tick]: when the target of the key last failed (history)

ftVars == <<ftNow, ftIn, ftAt, ftGot, ftFlights, ftDocs, ftFails, ftContact>>

FtNothing == [kind |-> "none"]

FtDoc(id, allow, b) == [url |-> id, dial |-> allow, at |-> ftNow, body |-> b]

FtAnswer(d) == [kind |-> "doc", doc |-> d, since |-> ftNow]

FtError(why) == [kind |-> "error", why |-> why]

FetchKey_URLOnly(u, allow) == <<"filtered", u>>

\* fetchKey: the URL and the address policy of the call.
FetchKey(u, allow) == <<IF allow THEN "unfiltered" ELSE "filtered", u>>

FtKeys == {"filtered", "unfiltered"} \X FtURLs

KeyOf(c) == FetchKey(ftIn[c].url, ftIn[c].allow)

\* getCached and getCachedFailure: an entry counts up to and including its
\* expiry.
GetCached(k) == k \in DOMAIN ftDocs /\ ftNow <= ftDocs[k].exp

GetCachedFailure(k) == k \in DOMAIN ftFails /\ ftNow <= ftFails[k]

\* evictOneLocked, on the expiries of a map: an expired entry if there is one
\* (the map's order decides which), otherwise one that expires soonest.
EvictOne(exp) ==
  LET dead == {k \in DOMAIN exp : ftNow > exp[k]}
  IN  IF dead # {} THEN dead
      ELSE {k \in DOMAIN exp : \A j \in DOMAIN exp : exp[k] <= exp[j]}

\* The keys a full map may keep when k needs an entry of its own.
Keeps(exp, k) ==
  IF k \notin DOMAIN exp /\ Cardinality(DOMAIN exp) >= MaxCacheEntries
  THEN {DOMAIN exp \ {j} : j \in EvictOne(exp)}
  ELSE {DOMAIN exp}

FtPut(m, k, v) == [j \in DOMAIN m \cup {k} |-> IF j = k THEN v ELSE m[j]]

\* putCache and putFailure.
PutCache(k, d, ttl) ==
  \E keep \in Keeps([j \in DOMAIN ftDocs |-> ftDocs[j].exp], k) :
    ftDocs' = FtPut(Restrict(ftDocs, keep), k, [doc |-> d, exp |-> ftNow + ttl])

PutFailure(k) ==
  \E keep \in Keeps(ftFails, k) :
    ftFails' = FtPut(Restrict(ftFails, keep), k, ftNow + NegativeCacheTTL)

Smaller(a, b) == IF a < b THEN a ELSE b

\* cacheLifetime, empty when the response must not be stored.  The header is
\* {} when it names no lifetime: the ceiling is the lifetime then.  It is {d}
\* for a max-age or an Expires, raised to the floor and then cut to the ceiling;
\* {0} stands for no-store, no-cache, max-age=0 and an Expires that is past or
\* unreadable.
CacheLifetime(header) ==
  IF header = {} THEN {CacheTTL}
  ELSE {Smaller(IF d < MinCacheTTL THEN MinCacheTTL ELSE d, CacheTTL)
          : d \in header \ {0}}

FtHeaders == {{}} \cup {{d} : d \in 0..(CacheTTL + 1)}

\* shouldNegativeCache: a shed fetch says nothing about its target.
ShouldNegativeCache(why) == why # "capacity"

FtInit ==
  /\ ftNow = 0
  /\ ftAt = [c \in FtCalls |-> "idle"]
  /\ ftGot = [c \in FtCalls |-> FtNothing]
  /\ ftFlights = <<>> /\ ftDocs = <<>> /\ ftFails = <<>> /\ ftContact = <<>>

FtAnswered(cs, answer) ==
  /\ ftAt' = [c \in FtCalls |-> IF c \in cs THEN "answered" ELSE ftAt[c]]
  /\ ftGot' = [c \in FtCalls |-> IF c \in cs THEN answer ELSE ftGot[c]]

\* The scheme against RequireHTTPS of this call.  The key of the caches carries
\* the address policy and not this one.
SchemeAllowed(c) == ftIn[c].https => ftIn[c].url \notin FtPlain

\* hasMeaningfulPath, and the refusal of a scheme other than http and https.
HasMeaningfulPath(u) == u \notin FtBare

\* validateURLSafety reads a literal address only.
ValidateURLSafety(u, allow) == allow \/ u \notin FtLiterals

\* The gates the URL of a call passes before anything is looked up.
URLAccepted(c) ==
  /\ SchemeAllowed(c) /\ HasMeaningfulPath(ftIn[c].url)
  /\ ValidateURLSafety(ftIn[c].url, ftIn[c].allow)

\* Fetch, up to the single-flight group.
Fetch(c) ==
  LET k == KeyOf(c) IN
  /\ ftAt[c] = "idle"
  /\ \/ /\ ~URLAccepted(c)
        /\ FtAnswered({c}, FtError("unsafe"))
     \/ /\ URLAccepted(c) /\ GetCached(k)
        /\ FtAnswered({c}, FtAnswer(ftDocs[k].doc))
     \/ /\ URLAccepted(c) /\ ~GetCached(k)
        /\ GetCachedFailure(k)
        /\ FtAnswered({c}, FtError("suppressed"))
     \/ /\ URLAccepted(c) /\ ~GetCached(k)
        /\ ~GetCachedFailure(k)
        /\ ftAt' = [ftAt EXCEPT ![c] = "looked"] /\ UNCHANGED ftGot
  /\ UNCHANGED <<ftNow, ftIn, ftFlights, ftDocs, ftFails, ftContact>>

\* sf.DoChan: the first caller of a key starts its flight, under its own
\* configuration; the others wait for it.
DoChan(c) ==
  LET k == KeyOf(c) IN
  /\ ftAt[c] = "looked"
  /\ ftAt' = [ftAt EXCEPT ![c] = "waiting"]
  /\ ftFlights' = IF k \in DOMAIN ftFlights
                  THEN [ftFlights EXCEPT ![k].waiters = @ \cup {c}]
                  ELSE FtPut(ftFlights, k,
                         [stage |-> "recheck", waiters |-> {c}, allow |-> ftIn[c].allow])
  /\ UNCHANGED <<ftNow, ftIn, ftGot, ftDocs, ftFails, ftContact>>

\* ctx.Done: the caller leaves, its flight does not notice.
LeaveFlight(c) ==
  /\ ftAt[c] = "waiting"
  /\ FtAnswered({c}, FtError("cancelled"))
  /\ ftFlights' = [ftFlights EXCEPT ![KeyOf(c)].waiters = @ \ {c}]
  /\ UNCHANGED <<ftNow, ftIn, ftDocs, ftFails, ftContact>>

\* The flight's function returns: the key is free again, every caller that
\* still waits has the answer.
Land(k, answer) ==
  /\ FtAnswered(ftFlights[k].waiters, answer)
  /\ ftFlights' = Restrict(ftFlights, DOMAIN ftFlights \ {k})

\* The re-check inside the flight: another flight of this key may have landed
\* between the caller's look at the caches and DoChan.
FlightRecheck(k) ==
  /\ ftFlights[k].stage = "recheck"
  /\ \/ /\ GetCached(k) /\ Land(k, FtAnswer(ftDocs[k].doc))
     \/ /\ ~GetCached(k) /\ GetCachedFailure(k) /\ Land(k, FtError("suppressed"))
     \/ /\ ~GetCached(k) /\ ~GetCachedFailure(k)
        /\ ftFlights' = [ftFlights EXCEPT ![k].stage = "acquire"]
        /\ UNCHANGED <<ftAt, ftGot>>
  /\ UNCHANGED <<ftNow, ftIn, ftDocs, ftFails, ftContact>>

FtDialling == {k \in DOMAIN ftFlights : ftFlights[k].stage = "dial"}

\* A failed fetch lands, and is remembered when the error speaks of its target.
FlightFails(k, why) ==
  /\ Land(k, FtError(why))
  /\ IF ShouldNegativeCache(why) THEN PutFailure(k) ELSE UNCHANGED ftFails

\* acquire: a slot, at once or within maxAcquireWait ...
Acquire(k) ==
  /\ ftFlights[k].stage = "acquire"
  /\ Cardinality(FtDialling) < MaxConcurrentFetches
  /\ ftFlights' = [ftFlights EXCEPT ![k].stage = "dial"]
  /\ UNCHANGED <<ftNow, ftIn, ftAt, ftGot, ftDocs, ftFails, ftContact>>

\* ... or the wait ends first and the fetch is shed.
Shed(k) ==
  /\ ftFlights[k].stage = "acquire"
  /\ Cardinality(FtDialling) >= MaxConcurrentFetches
  /\ FlightFails(k, "capacity")
  /\ UNCHANGED <<ftNow, ftIn, ftDocs, ftContact>>

\* dispatchTransport: the strict transport, unless the call that started the
\* flight may reach private addresses.
StrictTransport(k) == ~ftFlights[k].allow

\* The dialer of ssrf.NewSafeTransport: no address of the host may be private.
DialRefused(k) == StrictTransport(k) /\ k[2] \in FtPrivate

\* validateDocument: a document speaks for the URL it was fetched from.
ValidateDocument(id, u) == id = u

\* doFetch without a document: a refused dial, a transport error, a timeout, a
\* status, content type, size or document that is not accepted.
FetchFails(k) ==
  /\ ftFlights[k].stage = "dial"
  /\ FlightFails(k, "target")
  /\ ftContact' = FtPut(ftContact, k, ftNow)
  /\ UNCHANGED <<ftNow, ftIn, ftDocs>>

\* doFetch with a document that validateDocument accepts.  What it says is the
\* client's; its defaults are filled in before it is stored.
FetchSucceeds(k) ==
  /\ ftFlights[k].stage = "dial"
  /\ ~DialRefused(k)
  /\ \E id \in FtURLs, b \in FtBodies, header \in FtHeaders :
       LET d == FtDoc(id, ftFlights[k].allow, b) IN
       /\ ValidateDocument(id, k[2])
       /\ Land(k, FtAnswer(d))
       /\ \/ \E ttl \in CacheLifetime(header) : PutCache(k, d, ttl)
          \/ CacheLifetime(header) = {} /\ UNCHANGED ftDocs
  /\ UNCHANGED <<ftNow, ftIn, ftFails, ftContact>>

FtTick ==
  /\ ftNow < FtLast
  /\ ftNow' = ftNow + 1
  /\ UNCHANGED <<ftIn, ftAt, ftGot, ftFlights, ftDocs, ftFails, ftContact>>

FlightStep(k) ==
  FlightRecheck(k) \/ Acquire(k) \/ Shed(k) \/ FetchFails(k) \/ FetchSucceeds(k)

FtNext ==
  \/ \E c \in FtCalls : Fetch(c) \/ DoChan(c) \/ LeaveFlight(c)
  \/ \E k \in DOMAIN ftFlights : FlightStep(k)
  \/ FtTick

\* Every call is for a URL, under the policies of its configuration.
FtAsks == [FtCalls -> [url : FtURLs, https : BOOLEAN, allow : BOOLEAN]]

FtSpec == FtInit /\ ftIn \in FtAsks /\ [][FtNext]_ftVars

(***************************************************************************)
(* Properties                                                              *)
(***************************************************************************)

\* Keys, stages and the bounds of the two caches (putCache, putFailure).
FtTypeOK ==
  /\ ftNow \in 0..FtLast
  /\ ftAt \in [FtCalls -> {"idle", "looked", "waiting", "answered"}]
  /\ \A c \in FtCalls : (ftGot[c] # FtNothing) <=> (ftAt[c] = "answered")
  /\ \A m \in {DOMAIN ftFlights, DOMAIN ftDocs, DOMAIN ftFails} : m \subseteq FtKeys
  /\ Cardinality(DOMAIN ftDocs) <= MaxCacheEntries
  /\ Cardinality(DOMAIN ftFails) <= MaxCacheEntries
  /\ \A k \in DOMAIN ftFlights :
       ftFlights[k].waiters \subseteq {c \in FtCalls : ftAt[c] = "waiting"}

\* A call is answered with a document of its own URL, and a call that asks for
\* address filtering never with one that a dial without the filter produced,
\* neither from the cache nor from a flight it joined (fetchKey).
FilteredAnswersWereFiltered ==
  \A c \in FtCalls :
    ftGot[c].kind = "doc" =>
      /\ ftGot[c].doc.url = ftIn[c].url
      /\ ftGot[c].doc.dial => ftIn[c].allow

\* No request goes out for a key while an answer for it still stands: the
\* re-check inside the flight closes the gap between look-up and DoChan.
NoRedundantOutbound ==
  \A k \in DOMAIN ftFlights :
    ftFlights[k].stage \in {"acquire", "dial"} => ~GetCached(k) /\ ~GetCachedFailure(k)

\* A standing entry of the negative cache follows from a contact with that very
\* target, and outlives it by negativeCacheTTL and no more: load on this
\* instance never locks a URL out (shouldNegativeCache).
SuppressionIsEarned ==
  \A k \in DOMAIN ftFails :
    k \in DOMAIN ftContact /\ ftFails[k] = ftContact[k] + NegativeCacheTTL

\* No document is served beyond the operator's ceiling, whatever lifetime the
\* client's own headers ask for (cacheLifetime, getCached).
ServedWhileFresh ==
  \A c \in FtCalls :
    ftGot[c].kind = "doc" => ftGot[c].since <= ftGot[c].doc.at + CacheTTL

\* What a fetched document promises its caller, together: the right answer, for no
\* longer than it stands, with no request that was not needed (DocumentFetcher.Fetch).
DocumentCacheSound ==
  /\ FtTypeOK
  /\ FilteredAnswersWereFiltered
  /\ NoRedundantOutbound
  /\ SuppressionIsEarned
  /\ ServedWhileFresh
=============================================================================
