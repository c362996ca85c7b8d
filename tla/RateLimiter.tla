---------------------------- MODULE RateLimiter ----------------------------
(***************************************************************************)
(* The throughput limiter of the public server (api/shared/ratelimit.go),  *)
(* for one client address: a token bucket that getVisitor finds or makes   *)
(* under the lock, that Allow charges after the lock is gone, and that the *)
(* cleanup drops when it is full.  A request can hold a bucket that the    *)
(* cleanup has dropped.  The buckets of other addresses are independent.   *)
(***************************************************************************)
EXTENDS Integers, FiniteSets

CONSTANTS RlSlots,   \* requests that may be in the middleware at once
          Burst,     \* rate_limit.burst
          Rate,      \* rate_limit.requests_per_second, per instant
          RlLast,    \* bound: the last instant
          MaxMade    \* bound: buckets made

ASSUME RlAssumption ==
  /\ Burst \in Nat \ {0} /\ Rate \in Nat /\ RlLast \in Nat /\ MaxMade \in Nat
  /\ IsFiniteSet(RlSlots)

VARIABLES
  rlClock,
  made,      \* buckets made so far; a bucket is named by its number
  bucket,    \* [bucket -> [tokens, last]]
  visitor,   \* the bucket of the map, 0 without an entry
  rlHolds,   \* [slot -> the bucket its request got, 0 when idle]
  passed,    \* [instant -> requests let through up to its end] (history)
  strays     \* requests that held a bucket when the cleanup dropped it (history)

rlVars == <<rlClock, made, bucket, visitor, rlHolds, passed, strays>>

RlInit ==
  /\ rlClock = 0 /\ made = 0 /\ visitor = 0 /\ strays = 0
  /\ bucket = [i \in 1 .. MaxMade |-> [tokens |-> Burst, last |-> 0]]
  /\ rlHolds = [s \in RlSlots |-> 0]
  /\ passed = [t \in 0 .. RlLast |-> 0]

\* rate.Limiter.Tokens (external): what has dripped in since, up to the burst.
Tokens(i) ==
  LET all == bucket[i].tokens + Rate * (rlClock - bucket[i].last)
  IN IF all > Burst THEN Burst ELSE all

\* getVisitor: the bucket of the map, or a full one that is put there.
GetVisitor(s) ==
  /\ rlHolds[s] = 0
  /\ IF visitor # 0 THEN rlHolds' = [rlHolds EXCEPT ![s] = visitor] /\ UNCHANGED <<made, bucket, visitor>>
     ELSE /\ made < MaxMade
          /\ made' = made + 1 /\ visitor' = made + 1
          /\ bucket' = [bucket EXCEPT ![made + 1] = [tokens |-> Burst, last |-> rlClock]]
          /\ rlHolds' = [rlHolds EXCEPT ![s] = made + 1]
  /\ UNCHANGED <<rlClock, passed, strays>>

\* Middleware: Allow charges the bucket, or the request is told to slow down.
Middleware(s) ==
  LET i == rlHolds[s]
  IN /\ i # 0
     /\ rlHolds' = [rlHolds EXCEPT ![s] = 0]
     /\ IF Tokens(i) >= 1
        THEN /\ bucket' = [bucket EXCEPT ![i] = [tokens |-> Tokens(i) - 1, last |-> rlClock]]
             /\ passed' = [t \in 0 .. RlLast |-> passed[t] + IF t < rlClock THEN 0 ELSE 1]
        ELSE UNCHANGED <<bucket, passed>>
     /\ UNCHANGED <<rlClock, made, visitor, strays>>

\* Mutant: a bucket with room is as good as a new one.
Droppable_Idle(i) == Tokens(i) >= 1

\* A bucket back at full burst is equivalent to a fresh one.
Droppable(i) == Tokens(i) >= Burst

\* cleanupLoop, one tick of it.
Cleanup ==
  /\ visitor # 0 /\ Droppable(visitor)
  /\ visitor' = 0
  /\ strays' = strays + Cardinality({s \in RlSlots : rlHolds[s] = visitor})
  /\ UNCHANGED <<rlClock, made, bucket, rlHolds, passed>>

RlTick ==
  /\ rlClock < RlLast
  /\ rlClock' = rlClock + 1
  /\ UNCHANGED <<made, bucket, visitor, rlHolds, passed, strays>>

RlNext ==
  \/ \E s \in RlSlots : GetVisitor(s) \/ Middleware(s)
  \/ Cleanup \/ RlTick

RlSpec == RlInit /\ [][RlNext]_rlVars

\* The requests let through from the start of one instant to the end of another.
PassedIn(from, to) == passed[to] - IF from = 0 THEN 0 ELSE passed[from - 1]

\* In every stretch of time an address gets its burst and what drips in, and one
\* request more for each that was between getVisitor and Allow when the cleanup
\* dropped its bucket: dropping full buckets gives nothing else away
\* (cleanupLoop, ratelimit.go:58).
PassedWithinBudget ==
  \A from, to \in 0 .. RlLast :
    from <= to => PassedIn(from, to) <= Burst + Rate * (to - from) + strays
=============================================================================
