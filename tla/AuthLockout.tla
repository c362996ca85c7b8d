----------------------------- MODULE AuthLockout -----------------------------
(***************************************************************************)
(* The account lockout (api/shared/authlockout.go) and the login handler    *)
(* that drives it (api/public/oauth/login.go): a bounded map from the       *)
(* submitted identity and source address to a failure count and a lockout   *)
(* deadline.  The handler checks the lockout, verifies the password outside *)
(* the mutex, and then counts the failure or clears the entry.              *)
(*                                                                         *)
(* Times are relative to now: the age of the first failure (past the window *)
(* all ages are alike) and the time left of the lockout, moved by Tick.     *)
(***************************************************************************)
EXTENDS Naturals, FiniteSets, FiniteSetsExt

CONSTANTS Requests,     \* concurrent POST /login
          Keys,         \* values of lockoutKey(identity, ip)
          None,
          AuthFailMax, AuthFailWindow, AuthLockoutTime,
          MaxEntries,   \* maxEntries
          SampleSize    \* sampleSize of evictOneLocked

ASSUME LockoutAssumption ==
    /\ {AuthFailMax, AuthFailWindow, AuthLockoutTime, MaxEntries, SampleSize} \subseteq Nat \ {0}
    /\ None \notin Keys

VARIABLES
    states,    \* the tracked keys and their failState
    verifying, \* per login: the key whose password it is verifying, or None
    recent     \* history: the failures that are no older than each age, of those
               \* counted since the key was last locked, cleared or evicted

vars == <<states, verifying, recent>>

Ages == 0 .. AuthFailWindow
Entries == [failCount : 0 .. AuthFailMax - 1,
            age       : 0 .. AuthFailWindow + 1,
            lockLeft  : 0 .. AuthLockoutTime]
NoEntry == [failCount |-> 0, age |-> 0, lockLeft |-> 0]
NoFailures == [a \in Ages |-> 0]
Tracked == DOMAIN states

TypeOK ==
    /\ Tracked \subseteq Keys
    /\ states \in [Tracked -> Entries]
    /\ verifying \in [Requests -> Keys \cup {None}]
    /\ recent \in [Keys -> [Ages -> Nat]]

Init ==
    /\ states = [k \in {} |-> NoEntry]
    /\ verifying = [p \in Requests |-> None]
    /\ recent = [k \in Keys |-> NoFailures]

-----------------------------------------------------------------------------
(* AuthLockout *)

\* now.Before(v.lockedUntil)
Locked(k) == k \in Tracked /\ states[k].lockLeft > 0

\* The entries without those of ks.
Drop(ks) == [k \in Tracked \ ks |-> states[k]]

Finish(p) == verifying' = [verifying EXCEPT ![p] = None]

\* What RecordFailure makes of an entry: a lockout in force stays as it is, an
\* old window starts over, and the failure that reaches the maximum locks.
Counted(e) ==
    LET fresh == e.failCount = 0 \/ e.age > AuthFailWindow
        n     == IF fresh THEN 1 ELSE e.failCount + 1
    IN  IF e.lockLeft > 0 THEN e
        ELSE IF n >= AuthFailMax THEN [NoEntry EXCEPT !.lockLeft = AuthLockoutTime]
        ELSE [failCount |-> n, age |-> IF fresh THEN 0 ELSE e.age, lockLeft |-> 0]

\* The failure of k is counted in the map tracked, in which lost were evicted.
Count(k, tracked, lost) ==
    LET old == IF k \in DOMAIN tracked THEN tracked[k] ELSE NoEntry
        new == Counted(old)
    IN  /\ states' = [x \in DOMAIN tracked \cup {k} |-> IF x = k THEN new ELSE tracked[x]]
        /\ recent' = [x \in Keys |->
              IF x \in lost \/ (x = k /\ new.lockLeft > old.lockLeft) THEN NoFailures
              ELSE IF x = k /\ old.lockLeft = 0 THEN [a \in Ages |-> recent[k][a] + 1]
              ELSE recent[x]]

\* Mutant: the oldest failure goes, locked or not.
Victims_Oldest(sample) ==
    {k \in sample : \A x \in sample : states[x].age <= states[k].age}

\* evictOneLocked: of the sampled entries that are not locked, one with the
\* lowest failure count.
Victims(sample) ==
    LET unlocked == {k \in sample : ~Locked(k)}
    IN  {k \in unlocked : \A x \in unlocked : states[k].failCount <= states[x].failCount}

\* Mutant: the bound is checked one entry late.
Full_Late == Cardinality(Tracked) > MaxEntries

Full == Cardinality(Tracked) >= MaxEntries

\* The password was wrong.  A sample without an unlocked entry refuses the
\* newcomer: the failure is not counted.
RecordFailure(p) ==
    LET k == verifying[p]
    IN  /\ k # None
        /\ Finish(p)
        /\ IF k \in Tracked \/ ~Full
           THEN Count(k, states, {})
           ELSE \E sample \in kSubset(Min({SampleSize, Cardinality(Tracked)}), Tracked) :
                    \/ \E v \in Victims(sample) : Count(k, Drop({v}), {v})
                    \/ Victims(sample) = {} /\ UNCHANGED <<states, recent>>

\* The password was right: the entry goes, with its failures and its lockout.
Reset(p) ==
    /\ verifying[p] # None
    /\ Finish(p)
    /\ states' = Drop({verifying[p]})
    /\ recent' = [recent EXCEPT ![verifying[p]] = NoFailures]

\* Mutant: every entry that is not locked goes.
Sweepable_Unlocked(e) == e.lockLeft = 0

\* Neither locked nor inside the failure window.
Sweepable(e) == e.lockLeft = 0 /\ ~(e.failCount > 0 /\ e.age <= AuthFailWindow)

sweep ==
    /\ states' = Drop({k \in Tracked : Sweepable(states[k])})
    /\ UNCHANGED <<verifying, recent>>

-----------------------------------------------------------------------------
(* loginHandler.handlePostLogin *)

\* LockedUntil turns a locked identity away before the password is verified.
Login(p) ==
    \E k \in Keys :
        /\ verifying[p] = None
        /\ ~Locked(k)
        /\ verifying' = [verifying EXCEPT ![p] = k]
        /\ UNCHANGED <<states, recent>>

\* Authenticate failed on an internal error, which counts for nothing.
LoginError(p) ==
    /\ verifying[p] # None
    /\ Finish(p)
    /\ UNCHANGED <<states, recent>>

-----------------------------------------------------------------------------

\* Time passes.
Tick ==
    /\ states' = [k \in Tracked |->
          LET e == states[k]
          IN  [e EXCEPT !.age = IF e.failCount > 0 /\ e.age <= AuthFailWindow THEN e.age + 1 ELSE e.age,
                        !.lockLeft = IF e.lockLeft > 0 THEN e.lockLeft - 1 ELSE 0]]
    /\ recent' = [k \in Keys |-> [a \in Ages |-> IF a = 0 THEN 0 ELSE recent[k][a - 1]]]
    /\ UNCHANGED verifying

Next ==
    \/ \E p \in Requests : Login(p) \/ RecordFailure(p) \/ Reset(p) \/ LoginError(p)
    \/ sweep
    \/ Tick

Spec == Init /\ [][Next]_vars

-----------------------------------------------------------------------------
(* Properties *)

\* The failures of k within the last window.
Failures(k) == recent[k][AuthFailWindow]

\* The counter restarts with each window and sweeps drop entries beside it, yet a
\* tracked identity never fails more often than twice the maximum less two within
\* any window without being locked (RecordFailure, sweep).
FailureBudget == \A k \in Keys : Failures(k) <= 2 * (AuthFailMax - 1)

\* Caller-chosen identities never grow the map past its bound (RecordFailure).
TrackedIsBounded == Cardinality(Tracked) <= MaxEntries

\* A lockout in force is shortened by time alone: no flood of new identities, no
\* sweep and no further failure ends or moves it, only the success of a login that
\* was verifying its password when the lockout engaged (evictOneLocked, sweep).
LockoutHolds ==
    [][\A k \in Keys : Locked(k) =>
          \/ k \in Tracked' /\ states'[k].lockLeft \in {states[k].lockLeft, states[k].lockLeft - 1}
          \/ \E p \in Requests : verifying[p] = k /\ verifying'[p] = None /\ k \notin Tracked']_vars
=============================================================================
