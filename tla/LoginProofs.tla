---------------------------- MODULE LoginProofs -----------------------------
(***************************************************************************)
(* Proofs about how a browser comes to a code, and what slows it down.    *)
(*                                                                         *)
(* The lockout map keeps its bound, a lockout in force holds, and failures *)
(* stay within two windows' worth, for every number of identities and of   *)
(* concurrent logins and every setting (AuthLockout).  BudgetInv says that *)
(* the failures younger than an entry's window are counted in it, so that  *)
(* a window that begins finds only those of the one before.                *)
(*                                                                         *)
(* The limiter lets an address through within its burst and rate however   *)
(* the cleanup and the requests interleave (RateLimiter).  RlLedger is the *)
(* account: what was let through since any instant, what is left in the    *)
(* bucket, and one for each request that holds a dropped bucket.           *)
(*                                                                         *)
(* Codes and what they buy are what the session's own user approved, and a *)
(* denial is final, for every number of users, clients, resources and      *)
(* requests (AuthorizeFlow).                                               *)
(***************************************************************************)
EXTENDS AuthLockout, RateLimiter, AuthorizeFlow, FiniteSetTheorems, TLAPS

-----------------------------------------------------------------------------
(* The lockout map *)

\* The map is a finite function with room for no more than MaxEntries keys.
BoundInv ==
    /\ Tracked \subseteq Keys
    /\ states \in [Tracked -> Entries]
    /\ verifying \in [Requests -> Keys \cup {None}]
    /\ IsFiniteSet(Tracked)
    /\ TrackedIsBounded

\* RecordFailure keeps an entry an entry, and leaves a locked one alone.
LEMMA CountedEntry ==
    ASSUME NEW e \in Entries
    PROVE  /\ Counted(e) \in Entries
           /\ e.lockLeft > 0 => Counted(e) = e
<1> DEFINE fresh == e.failCount = 0 \/ e.age > AuthFailWindow
           n     == IF fresh THEN 1 ELSE e.failCount + 1
<1>1. /\ e.failCount \in Nat /\ e.failCount <= AuthFailMax - 1
      /\ e.age \in 0 .. AuthFailWindow + 1
      /\ e.lockLeft \in Nat
      /\ AuthFailMax \in Nat \ {0} /\ AuthFailWindow \in Nat \ {0}
      /\ AuthLockoutTime \in Nat \ {0}
  BY LockoutAssumption DEF Entries
<1>2. CASE e.lockLeft > 0
  BY <1>1, <1>2 DEF Counted
<1>3. CASE ~(e.lockLeft > 0)
  <2>1. CASE n >= AuthFailMax
    <3>1. Counted(e) = [NoEntry EXCEPT !.lockLeft = AuthLockoutTime]
      BY <1>3, <2>1 DEF Counted
    <3>2. QED BY <1>1, <1>3, <3>1 DEF Entries, NoEntry
  <2>2. CASE ~(n >= AuthFailMax)
    <3>1. Counted(e) = [failCount |-> n, age |-> IF fresh THEN 0 ELSE e.age, lockLeft |-> 0]
      BY <1>3, <2>2 DEF Counted
    <3>2. n \in 0 .. AuthFailMax - 1
      BY <1>1, <2>2
    <3>3. QED BY <1>1, <1>3, <3>1, <3>2 DEF Entries
  <2>3. QED BY <2>1, <2>2
<1>4. QED BY <1>2, <1>3

\* Counting a failure in a part of the map that has room for its key.
LEMMA CountStep ==
    ASSUME BoundInv,
           NEW k \in Keys, NEW kept \in SUBSET Tracked, NEW lost,
           k \in kept \/ Cardinality(kept) < MaxEntries,
           Count(k, [x \in kept |-> states[x]], lost)
    PROVE  /\ Tracked' = kept \cup {k}
           /\ states' \in [Tracked' -> Entries]
           /\ IsFiniteSet(Tracked')
           /\ TrackedIsBounded'
           /\ \A x \in kept : Locked(x) => states'[x] = states[x]
<1> DEFINE tracked == [x \in kept |-> states[x]]
           old == IF k \in DOMAIN tracked THEN tracked[k] ELSE NoEntry
           new == Counted(old)
<1>1. states' = [x \in kept \cup {k} |-> IF x = k THEN new ELSE states[x]]
  BY DEF Count
<1>2. NoEntry \in Entries
  BY LockoutAssumption DEF NoEntry, Entries
<1>3. \A x \in kept : states[x] \in Entries
  BY DEF BoundInv
<1>4. old \in Entries
  BY <1>2, <1>3
<1>5. new \in Entries /\ (old.lockLeft > 0 => new = old)
  BY <1>4, CountedEntry
<1>6. Tracked' = kept \cup {k}
  BY <1>1 DEF Tracked
<1>7. states' \in [Tracked' -> Entries]
  BY <1>1, <1>3, <1>5, <1>6
<1>8. IsFiniteSet(kept) /\ Cardinality(kept) <= Cardinality(Tracked)
  BY FS_Subset DEF BoundInv
<1>9. IsFiniteSet(Tracked') /\ Cardinality(Tracked') <= MaxEntries
  <2>1. Cardinality(kept) \in Nat /\ Cardinality(Tracked) \in Nat /\ MaxEntries \in Nat
    BY <1>8, FS_CardinalityType, LockoutAssumption DEF BoundInv
  <2>2. IsFiniteSet(kept \cup {k})
        /\ Cardinality(kept \cup {k}) = IF k \in kept THEN Cardinality(kept) ELSE Cardinality(kept) + 1
    BY <1>8, FS_AddElement
  <2>3. QED BY <1>6, <1>8, <2>1, <2>2 DEF BoundInv, TrackedIsBounded
<1>10. \A x \in kept : Locked(x) => states'[x] = states[x]
  BY <1>1, <1>5 DEF Locked
<1>11. QED BY <1>6, <1>7, <1>9, <1>10 DEF TrackedIsBounded

\* Removing entries keeps the map and its bound.
LEMMA DropStep ==
    ASSUME BoundInv, NEW ks, states' = Drop(ks)
    PROVE  /\ Tracked' = Tracked \ ks
           /\ states' \in [Tracked' -> Entries]
           /\ IsFiniteSet(Tracked')
           /\ TrackedIsBounded'
<1>1. Tracked' = Tracked \ ks /\ states' \in [Tracked' -> Entries]
  BY DEF Drop, Tracked, BoundInv
<1>2. IsFiniteSet(Tracked') /\ Cardinality(Tracked') <= Cardinality(Tracked)
  BY <1>1, FS_Subset DEF BoundInv
<1>3. Cardinality(Tracked') \in Nat /\ Cardinality(Tracked) \in Nat /\ MaxEntries \in Nat
  BY <1>2, FS_CardinalityType, LockoutAssumption DEF BoundInv
<1>4. QED BY <1>1, <1>2, <1>3 DEF BoundInv, TrackedIsBounded

\* A login that counts a failure keeps the invariant and every lockout.
LEMMA RecordStep ==
    ASSUME BoundInv, NEW p \in Requests, RecordFailure(p)
    PROVE  /\ BoundInv'
           /\ \A x \in Keys : Locked(x) => x \in Tracked' /\ states'[x] = states[x]
<1> DEFINE k == verifying[p]
<1>1. k \in Keys /\ verifying' \in [Requests -> Keys \cup {None}]
  BY DEF RecordFailure, BoundInv, Finish
<1>2. Cardinality(Tracked) \in Nat /\ MaxEntries \in Nat
  BY FS_CardinalityType, LockoutAssumption DEF BoundInv
<1>3. CASE k \in Tracked \/ ~Full
  <2>1. states = [x \in Tracked |-> states[x]]
    BY DEF BoundInv
  <2>2. Count(k, [x \in Tracked |-> states[x]], {})
    BY <1>3, <2>1 DEF RecordFailure
  <2>3. k \in Tracked \/ Cardinality(Tracked) < MaxEntries
    BY <1>2, <1>3 DEF Full
  <2>4. QED BY <1>1, <2>2, <2>3, CountStep DEF BoundInv, Locked
<1>4. CASE ~(k \in Tracked \/ ~Full)
  <2>1. PICK sample \in kSubset(Min({SampleSize, Cardinality(Tracked)}), Tracked) :
           \/ \E v \in Victims(sample) : Count(k, Drop({v}), {v})
           \/ Victims(sample) = {} /\ UNCHANGED <<states, recent>>
    BY <1>4 DEF RecordFailure
  <2>2. sample \subseteq Tracked
    BY DEF kSubset
  <2>3. CASE \E v \in Victims(sample) : Count(k, Drop({v}), {v})
    <3>1. PICK v \in Victims(sample) : Count(k, Drop({v}), {v})
      BY <2>3
    <3>2. v \in Tracked /\ ~Locked(v)
      BY <2>2 DEF Victims
    <3>3. Drop({v}) = [x \in Tracked \ {v} |-> states[x]]
      BY DEF Drop
    <3>4. Cardinality(Tracked \ {v}) = Cardinality(Tracked) - 1
      BY <3>2, FS_RemoveElement DEF BoundInv
    <3>5. Cardinality(Tracked \ {v}) < MaxEntries
      BY <1>2, <3>4 DEF BoundInv, TrackedIsBounded
    <3>6. Count(k, [x \in Tracked \ {v} |-> states[x]], {v})
      BY <3>1, <3>3
    <3>7. /\ Tracked' = (Tracked \ {v}) \cup {k}
          /\ states' \in [Tracked' -> Entries]
          /\ IsFiniteSet(Tracked')
          /\ TrackedIsBounded'
          /\ \A x \in Tracked \ {v} : Locked(x) => states'[x] = states[x]
      BY <1>1, <3>5, <3>6, CountStep
    <3>8. BoundInv'
      BY <1>1, <3>7 DEF BoundInv
    <3>9. \A x \in Keys : Locked(x) => x \in Tracked \ {v}
      BY <3>2 DEF Locked
    <3>10. QED BY <3>7, <3>8, <3>9
  <2>4. CASE Victims(sample) = {} /\ UNCHANGED <<states, recent>>
    BY <1>1, <2>4 DEF BoundInv, TrackedIsBounded, Tracked, Locked
  <2>5. QED BY <2>1, <2>3, <2>4
<1>5. QED BY <1>3, <1>4

-----------------------------------------------------------------------------

\* Every step keeps the map within its bound.
LEMMA BoundStep == BoundInv /\ [Next]_vars => BoundInv'
<1> SUFFICES ASSUME BoundInv, [Next]_vars PROVE BoundInv'
  OBVIOUS
<1>1. ASSUME NEW p \in Requests, Login(p) PROVE BoundInv'
  BY <1>1 DEF Login, BoundInv, TrackedIsBounded, Tracked
<1>2. ASSUME NEW p \in Requests, RecordFailure(p) PROVE BoundInv'
  BY <1>2, RecordStep
<1>3. ASSUME NEW p \in Requests, Reset(p) PROVE BoundInv'
  <2>1. states' = Drop({verifying[p]}) /\ verifying' \in [Requests -> Keys \cup {None}]
    BY <1>3 DEF Reset, Finish, BoundInv
  <2>2. QED BY <2>1, DropStep DEF BoundInv
<1>4. ASSUME NEW p \in Requests, LoginError(p) PROVE BoundInv'
  BY <1>4 DEF LoginError, Finish, BoundInv, TrackedIsBounded, Tracked
<1>5. CASE sweep
  <2>1. states' = Drop({k \in Tracked : Sweepable(states[k])}) /\ verifying' = verifying
    BY <1>5 DEF sweep
  <2>2. QED BY <2>1, DropStep DEF BoundInv
<1>6. CASE Tick
  <2>1. Tracked' = Tracked /\ verifying' = verifying
    BY <1>6 DEF Tick, Tracked
  <2>2. ASSUME NEW k \in Tracked PROVE states'[k] \in Entries
    <3> DEFINE e == states[k]
    <3>1. e \in Entries
      BY DEF BoundInv
    <3>2. states'[k] = [e EXCEPT !.age = IF e.failCount > 0 /\ e.age <= AuthFailWindow THEN e.age + 1 ELSE e.age,
                                 !.lockLeft = IF e.lockLeft > 0 THEN e.lockLeft - 1 ELSE 0]
      BY <1>6 DEF Tick
    <3>3. /\ AuthFailWindow \in Nat
          /\ e.failCount \in 0 .. AuthFailMax - 1
          /\ e.age \in 0 .. AuthFailWindow + 1
          /\ e.lockLeft \in 0 .. AuthLockoutTime
      BY <3>1, LockoutAssumption DEF Entries
    <3> DEFINE a == IF e.failCount > 0 /\ e.age <= AuthFailWindow THEN e.age + 1 ELSE e.age
               l == IF e.lockLeft > 0 THEN e.lockLeft - 1 ELSE 0
    <3>4. a \in 0 .. AuthFailWindow + 1 /\ l \in 0 .. AuthLockoutTime
      BY <3>3, LockoutAssumption
    <3>5. states'[k] = [e EXCEPT !.age = a, !.lockLeft = l]
      BY <3>2
    <3> HIDE DEF a, l
    <3>6. QED BY <3>1, <3>4, <3>5 DEF Entries
  <2>3. states' \in [Tracked' -> Entries]
    BY <1>6, <2>1, <2>2 DEF Tick
  <2>4. QED BY <2>1, <2>3 DEF BoundInv, TrackedIsBounded
<1>7. CASE UNCHANGED vars
  BY <1>7 DEF vars, BoundInv, TrackedIsBounded, Tracked
<1>8. QED BY <1>1, <1>2, <1>3, <1>4, <1>5, <1>6, <1>7 DEF Next

\* The map starts empty.
LEMMA BoundInit == Init => BoundInv
<1> SUFFICES ASSUME Init PROVE BoundInv
  OBVIOUS
<1>1. Tracked = {} /\ states \in [Tracked -> Entries]
  BY DEF Init, Tracked
<1>2. IsFiniteSet({}) /\ Cardinality({}) = 0
  BY FS_EmptySet
<1>3. QED BY <1>1, <1>2, LockoutAssumption DEF Init, BoundInv, TrackedIsBounded

\* No flood of identities grows the map past MaxEntries (RecordFailure).
THEOREM LockoutMapBounded == Spec => []TrackedIsBounded
<1>1. BoundInv => TrackedIsBounded
  BY DEF BoundInv
<1>2. QED BY <1>1, BoundInit, BoundStep, PTL DEF Spec

\* What a step may do to a lockout in force.
HoldsStep ==
    \A k \in Keys : Locked(k) =>
        \/ k \in Tracked' /\ states'[k].lockLeft \in {states[k].lockLeft, states[k].lockLeft - 1}
        \/ \E p \in Requests : verifying[p] = k /\ verifying'[p] = None /\ k \notin Tracked'

\* Eviction, sweeps and further failures leave a lockout in force alone.
LEMMA LockoutStep == BoundInv /\ [Next]_vars => HoldsStep
<1> SUFFICES ASSUME BoundInv, [Next]_vars, NEW k \in Keys, Locked(k)
             PROVE  \/ k \in Tracked' /\ states'[k].lockLeft \in {states[k].lockLeft, states[k].lockLeft - 1}
                    \/ \E p \in Requests : verifying[p] = k /\ verifying'[p] = None /\ k \notin Tracked'
  BY DEF HoldsStep
<1>0. k \in Tracked /\ states[k] \in Entries /\ states[k].lockLeft > 0
  BY DEF Locked, BoundInv
<1>1. ASSUME NEW p \in Requests, Login(p) \/ LoginError(p) PROVE k \in Tracked' /\ states'[k] = states[k]
  BY <1>0, <1>1 DEF Login, LoginError, Tracked
<1>2. ASSUME NEW p \in Requests, RecordFailure(p) PROVE k \in Tracked' /\ states'[k] = states[k]
  BY <1>2, RecordStep
<1>3. ASSUME NEW p \in Requests, Reset(p)
      PROVE  \/ k \in Tracked' /\ states'[k] = states[k]
             \/ verifying[p] = k /\ verifying'[p] = None /\ k \notin Tracked'
  <2>1. Tracked' = Tracked \ {verifying[p]}
    BY <1>3, DropStep DEF Reset
  <2>2. verifying'[p] = None
    BY <1>3 DEF Reset, Finish, BoundInv
  <2>3. CASE verifying[p] = k
    BY <2>1, <2>2, <2>3
  <2>4. CASE verifying[p] # k
    BY <1>0, <1>3, <2>1, <2>4 DEF Reset, Drop
  <2>5. QED BY <2>3, <2>4
<1>4. CASE sweep
  <2>1. ~Sweepable(states[k])
    BY <1>0 DEF Sweepable, Entries
  <2>2. k \in Tracked' /\ states'[k] = states[k]
    BY <1>0, <1>4, <2>1 DEF sweep, Drop, Tracked
  <2>3. QED BY <2>2
<1>5. CASE Tick
  <2>1. Tracked' = Tracked
    BY <1>5 DEF Tick, Tracked
  <2>2. states'[k].lockLeft = states[k].lockLeft - 1
    BY <1>0, <1>5 DEF Tick, Entries
  <2>3. QED BY <1>0, <2>1, <2>2
<1>6. CASE UNCHANGED vars
  BY <1>0, <1>6 DEF vars, Tracked
<1>7. QED BY <1>1, <1>2, <1>3, <1>4, <1>5, <1>6 DEF Next

\* A lockout in force is ended by time or by a login that was already verifying,
\* and by nothing else (evictOneLocked, sweep, RecordFailure).
THEOREM LockoutNotEvictable == Spec => LockoutHolds
<1>1. BoundInv /\ [Next]_vars => [HoldsStep]_vars
  BY LockoutStep
<1>2. LockoutHolds <=> [][HoldsStep]_vars
  BY DEF LockoutHolds, HoldsStep
<1>3. QED BY <1>1, <1>2, BoundInit, BoundStep, PTL DEF Spec

-----------------------------------------------------------------------------
(* The failures of one identity *)

\* What is known of the failures of an identity with entry e, r[a] of which are no
\* older than a: those younger than the window of the entry are counted in it, and
\* the others are of the window before.
Budgeted(e, r) ==
    IF e.failCount > 0
    THEN /\ e.lockLeft = 0
         /\ \A a \in Ages : /\ r[a] <= AuthFailMax - 1 + e.failCount
                            /\ a < e.age => r[a] <= e.failCount
    ELSE \A a \in Ages : r[a] <= AuthFailMax - 1

EntryOf(k) == IF k \in Tracked THEN states[k] ELSE NoEntry

BudgetInv ==
    /\ BoundInv
    /\ recent \in [Keys -> [Ages -> Nat]]
    /\ \A k \in Keys : Budgeted(EntryOf(k), recent[k])

\* The settings and the fields of an entry are numbers.
LEMMA EntryFields ==
    ASSUME NEW e \in Entries
    PROVE  /\ AuthFailMax \in Nat /\ AuthFailMax >= 1 /\ AuthFailWindow \in Nat /\ AuthFailWindow >= 1
           /\ AuthLockoutTime \in Nat /\ AuthLockoutTime >= 1
           /\ e.failCount \in Nat /\ e.failCount <= AuthFailMax - 1
           /\ e.age \in Nat /\ e.age <= AuthFailWindow + 1 /\ e.lockLeft \in Nat
  BY LockoutAssumption DEF Entries

\* No entry and no failures.
LEMMA NothingFits ==
    /\ NoEntry \in Entries /\ NoEntry.failCount = 0 /\ NoEntry.lockLeft = 0 /\ NoEntry.age = 0
    /\ NoFailures \in [Ages -> Nat]
    /\ \A e : e.failCount = 0 => Budgeted(e, NoFailures)
<1>1. NoEntry \in Entries
  BY LockoutAssumption DEF NoEntry, Entries
<1>2. AuthFailMax \in Nat /\ AuthFailMax >= 1
  BY LockoutAssumption
<1> QED BY <1>1, <1>2 DEF NoEntry, NoFailures, Budgeted

\* A counted failure fits, whether it goes on with the window, begins one or locks.
LEMMA CountedFits ==
    ASSUME NEW e \in Entries, NEW r \in [Ages -> Nat], Budgeted(e, r)
    PROVE  /\ Counted(e).lockLeft > e.lockLeft => Budgeted(Counted(e), NoFailures)
           /\ ~(Counted(e).lockLeft > e.lockLeft) /\ e.lockLeft = 0
                => Budgeted(Counted(e), [a \in Ages |-> r[a] + 1])
           /\ e.lockLeft > 0 => Counted(e) = e
<1>0. /\ AuthFailMax \in Nat /\ AuthFailMax >= 1 /\ AuthFailWindow \in Nat /\ AuthFailWindow >= 1
      /\ AuthLockoutTime \in Nat /\ AuthLockoutTime >= 1
      /\ e.failCount \in Nat /\ e.failCount <= AuthFailMax - 1
      /\ e.age \in Nat /\ e.age <= AuthFailWindow + 1 /\ e.lockLeft \in Nat
  BY EntryFields
<1>1. CASE e.lockLeft > 0
  BY <1>0, <1>1 DEF Counted
<1>2. CASE e.lockLeft = 0
  <2> DEFINE fresh == e.failCount = 0 \/ e.age > AuthFailWindow
             n     == IF fresh THEN 1 ELSE e.failCount + 1
  <2>2. n \in Nat /\ n > 0
    BY <1>0
  <2>3. CASE n >= AuthFailMax
    <3>1. Counted(e) = [NoEntry EXCEPT !.lockLeft = AuthLockoutTime]
      BY <1>2, <2>3 DEF Counted
    <3>2. Counted(e).lockLeft = AuthLockoutTime /\ Counted(e).failCount = 0
      BY <3>1 DEF NoEntry
    <3> QED BY <1>0, <1>2, <3>2, NothingFits
  <2>4. CASE n < AuthFailMax
    <3>1. Counted(e) = [failCount |-> n, age |-> IF fresh THEN 0 ELSE e.age, lockLeft |-> 0]
      BY <1>0, <1>2, <2>4 DEF Counted
    <3>2. /\ Counted(e).failCount = n /\ Counted(e).lockLeft = 0
          /\ Counted(e).age = IF fresh THEN 0 ELSE e.age
      BY <3>1
    <3>3. ASSUME NEW a \in Ages
          PROVE  /\ r[a] + 1 <= AuthFailMax - 1 + n
                 /\ a < Counted(e).age => r[a] + 1 <= n
      <4>1. a \in Nat /\ a <= AuthFailWindow /\ r[a] \in Nat
        BY <1>0 DEF Ages
      <4>2. CASE fresh
        <5>1. r[a] <= AuthFailMax - 1
          <6>1. CASE e.failCount = 0
            BY <1>0, <6>1 DEF Budgeted
          <6>2. CASE e.failCount > 0 /\ e.age > AuthFailWindow
            BY <1>0, <4>1, <6>2 DEF Budgeted
          <6> QED BY <1>0, <4>2, <6>1, <6>2
        <5> QED BY <1>0, <2>2, <3>2, <4>1, <4>2, <5>1
      <4>3. CASE ~fresh
        <5>1. e.failCount > 0 /\ n = e.failCount + 1 /\ Counted(e).age = e.age
          BY <1>0, <3>2, <4>3
        <5>2. /\ r[a] <= AuthFailMax - 1 + e.failCount
              /\ a < e.age => r[a] <= e.failCount
          BY <5>1 DEF Budgeted
        <5> QED BY <1>0, <4>1, <5>1, <5>2
      <4> QED BY <4>2, <4>3
    <3> HIDE DEF n, fresh
    <3>5. Budgeted(Counted(e), [a \in Ages |-> r[a] + 1])
      BY <2>2, <3>2, <3>3 DEF Budgeted
    <3> QED BY <1>0, <1>2, <3>2, <3>5
  <2> QED BY <1>0, <2>2, <2>3, <2>4
<1> QED BY <1>0, <1>1, <1>2

\* Time moves the window and the failures alike.
LEMMA TickedFits ==
    ASSUME NEW e \in Entries, NEW r \in [Ages -> Nat], Budgeted(e, r), NEW f,
           f.failCount = e.failCount, e.lockLeft = 0 => f.lockLeft = 0,
           f.age = IF e.failCount > 0 /\ e.age <= AuthFailWindow THEN e.age + 1 ELSE e.age
    PROVE  /\ [a \in Ages |-> IF a = 0 THEN 0 ELSE r[a - 1]] \in [Ages -> Nat]
           /\ Budgeted(f, [a \in Ages |-> IF a = 0 THEN 0 ELSE r[a - 1]])
<1>0. /\ AuthFailMax \in Nat /\ AuthFailMax >= 1 /\ AuthFailWindow \in Nat /\ AuthFailWindow >= 1
      /\ e.failCount \in Nat /\ e.failCount <= AuthFailMax - 1
      /\ e.age \in Nat /\ e.age <= AuthFailWindow + 1 /\ e.lockLeft \in Nat
  BY EntryFields
<1>1. ASSUME NEW a \in Ages, a # 0
      PROVE  a - 1 \in Ages /\ a \in Nat /\ a <= AuthFailWindow /\ r[a - 1] \in Nat
  BY <1>0, <1>1 DEF Ages
<1>2. [a \in Ages |-> IF a = 0 THEN 0 ELSE r[a - 1]] \in [Ages -> Nat]
  BY <1>1
<1>3. CASE e.failCount > 0
  <2>1. f.failCount > 0 /\ f.lockLeft = 0
    BY <1>3 DEF Budgeted
  <2>2. ASSUME NEW a \in Ages, a # 0
        PROVE  /\ r[a - 1] <= AuthFailMax - 1 + e.failCount
               /\ a < f.age => r[a - 1] <= e.failCount
    <3>1. /\ r[a - 1] <= AuthFailMax - 1 + e.failCount
          /\ a - 1 < e.age => r[a - 1] <= e.failCount
      BY <1>1, <1>3, <2>2 DEF Budgeted
    <3>2. a < f.age => a - 1 < e.age
      BY <1>0, <1>1, <2>2
    <3> QED BY <3>1, <3>2
  <2>3. ASSUME NEW a \in Ages
        PROVE  /\ (IF a = 0 THEN 0 ELSE r[a - 1]) <= AuthFailMax - 1 + f.failCount
               /\ a < f.age => (IF a = 0 THEN 0 ELSE r[a - 1]) <= f.failCount
    BY <1>0, <2>2
  <2>4. Budgeted(f, [a \in Ages |-> IF a = 0 THEN 0 ELSE r[a - 1]])
    BY <2>1, <2>3 DEF Budgeted
  <2> QED BY <1>2, <2>4
<1>4. CASE e.failCount = 0
  <2>1. \A a \in Ages : a # 0 => r[a - 1] <= AuthFailMax - 1
    BY <1>0, <1>1, <1>4 DEF Budgeted
  <2> QED BY <1>0, <1>2, <1>4, <2>1 DEF Budgeted
<1> QED BY <1>0, <1>2, <1>3, <1>4

\* The entry of k, tracked or not, is an entry, and its failures are counted.
LEMMA KeyFits ==
    ASSUME BudgetInv, NEW k \in Keys
    PROVE  EntryOf(k) \in Entries /\ recent[k] \in [Ages -> Nat] /\ Budgeted(EntryOf(k), recent[k])
  BY NothingFits DEF BudgetInv, BoundInv, EntryOf

\* An entry that a sweep or an eviction leaves alone is what it was.
LEMMA SameFits ==
    ASSUME BudgetInv, NEW k \in Keys, EntryOf(k)' = EntryOf(k), recent'[k] = recent[k]
    PROVE  recent'[k] \in [Ages -> Nat] /\ Budgeted(EntryOf(k)', recent'[k])
  BY KeyFits

\* A failure of k is counted in what is kept of the map.
LEMMA CountFits ==
    ASSUME BudgetInv, NEW k \in Keys, NEW kept \in SUBSET Tracked, NEW lost \in SUBSET Keys,
           kept = Tracked \ lost, k \notin lost,
           Count(k, [x \in kept |-> states[x]], lost), NEW x \in Keys
    PROVE  recent'[x] \in [Ages -> Nat] /\ Budgeted(EntryOf(x)', recent'[x])
<1>1. PICK old : old = EntryOf(k)
  OBVIOUS
<1>2. old = IF k \in kept THEN states[k] ELSE NoEntry
  BY <1>1 DEF EntryOf
<1>3. /\ states' = [y \in kept \cup {k} |-> IF y = k THEN Counted(old) ELSE states[y]]
      /\ recent' = [y \in Keys |->
            IF y \in lost \/ (y = k /\ Counted(old).lockLeft > old.lockLeft) THEN NoFailures
            ELSE IF y = k /\ old.lockLeft = 0 THEN [a \in Ages |-> recent[k][a] + 1]
            ELSE recent[y]]
  BY <1>2 DEF Count
<1>4. Tracked' = kept \cup {k}
  BY <1>3 DEF Tracked
<1>5. old \in Entries /\ recent[k] \in [Ages -> Nat] /\ Budgeted(old, recent[k])
  BY <1>1, KeyFits
<1>6. CASE x = k
  <2>1. EntryOf(x)' = Counted(old)
    BY <1>3, <1>4, <1>6 DEF EntryOf
  <2>2. old.lockLeft \in Nat
    BY <1>5, EntryFields
  <2>3. CASE Counted(old).lockLeft > old.lockLeft
    <3>1. recent'[x] = NoFailures
      BY <1>3, <1>6, <2>3
    <3> QED BY <1>5, <2>1, <2>3, <3>1, CountedFits, NothingFits
  <2>4. CASE ~(Counted(old).lockLeft > old.lockLeft) /\ old.lockLeft = 0
    <3>1. recent'[x] = [a \in Ages |-> recent[k][a] + 1]
      BY <1>3, <1>6, <2>4
    <3>2. [a \in Ages |-> recent[k][a] + 1] \in [Ages -> Nat]
      BY <1>5
    <3> QED BY <1>5, <2>1, <2>4, <3>1, <3>2, CountedFits
  <2>5. CASE ~(Counted(old).lockLeft > old.lockLeft) /\ old.lockLeft # 0
    <3>1. recent'[x] = recent[x]
      BY <1>3, <1>6, <2>5
    <3>2. Counted(old) = old
      <4>1. old.lockLeft > 0
        BY <2>2, <2>5
      <4> QED BY <1>5, <4>1, CountedEntry
    <3> QED BY <1>5, <1>6, <2>1, <3>1, <3>2
  <2> QED BY <2>3, <2>4, <2>5
<1>7. CASE x # k /\ x \in lost
  <2>1. EntryOf(x)' = NoEntry /\ recent'[x] = NoFailures
    BY <1>3, <1>4, <1>7 DEF EntryOf
  <2> QED BY <2>1, NothingFits
<1>8. CASE x # k /\ x \notin lost
  <2>1. recent'[x] = recent[x]
    BY <1>3, <1>8
  <2>2. EntryOf(x)' = EntryOf(x)
    BY <1>3, <1>4, <1>8 DEF EntryOf
  <2> QED BY <2>1, <2>2, SameFits
<1> QED BY <1>6, <1>7, <1>8

\* Every step keeps the failures of every identity within what its entry says.
LEMMA BudgetStep == BudgetInv /\ [Next]_vars => BudgetInv'
<1> SUFFICES ASSUME BudgetInv, [Next]_vars PROVE BudgetInv'
  OBVIOUS
<1>0. BoundInv /\ BoundInv'
  BY BoundStep DEF BudgetInv
<1> DEFINE Fit(x) == recent'[x] \in [Ages -> Nat] /\ Budgeted(EntryOf(x)', recent'[x])
<1>1. ASSUME UNCHANGED <<states, recent>>, NEW x \in Keys PROVE Fit(x)
  BY <1>1, SameFits DEF EntryOf, Tracked
<1>2. ASSUME NEW p \in Requests, RecordFailure(p), NEW x \in Keys PROVE Fit(x)
  <2>1. PICK k : k = verifying[p]
    OBVIOUS
  <2>2. k \in Keys
    BY <1>0, <1>2, <2>1 DEF RecordFailure, BoundInv
  <2>3. CASE k \in Tracked \/ ~Full
    <3>1. states = [y \in Tracked |-> states[y]]
      BY <1>0 DEF BoundInv
    <3>2. Count(k, [y \in Tracked |-> states[y]], {})
      BY <1>2, <2>1, <2>3, <3>1 DEF RecordFailure
    <3> QED BY <2>2, <3>2, CountFits
  <2>4. CASE ~(k \in Tracked \/ ~Full)
    <3>1. PICK sample \in kSubset(Min({SampleSize, Cardinality(Tracked)}), Tracked) :
             \/ \E v \in Victims(sample) : Count(k, Drop({v}), {v})
             \/ Victims(sample) = {} /\ UNCHANGED <<states, recent>>
      BY <1>2, <2>1, <2>4 DEF RecordFailure
    <3>2. sample \subseteq Tracked
      BY DEF kSubset
    <3>3. CASE \E v \in Victims(sample) : Count(k, Drop({v}), {v})
      <4>1. PICK v \in Victims(sample) : Count(k, Drop({v}), {v})
        BY <3>3
      <4>2. v \in Tracked /\ v # k /\ v \in Keys
        BY <1>0, <2>4, <3>2 DEF Victims, BoundInv
      <4>3. Count(k, [y \in Tracked \ {v} |-> states[y]], {v})
        BY <4>1 DEF Drop
      <4> QED BY <2>2, <4>2, <4>3, CountFits
    <3>4. CASE UNCHANGED <<states, recent>>
      BY <1>1, <3>4
    <3> QED BY <3>1, <3>3, <3>4
  <2> QED BY <2>3, <2>4
<1>3. ASSUME NEW p \in Requests, Reset(p), NEW x \in Keys PROVE Fit(x)
  <2>1. verifying[p] \in Keys
    BY <1>0, <1>3 DEF Reset, BoundInv
  <2>2. /\ states' = [y \in Tracked \ {verifying[p]} |-> states[y]]
        /\ recent' = [recent EXCEPT ![verifying[p]] = NoFailures]
    BY <1>3 DEF Reset, Drop
  <2>3. Tracked' = Tracked \ {verifying[p]}
    BY <2>2 DEF Tracked
  <2>4. CASE x = verifying[p]
    <3>1. EntryOf(x)' = NoEntry /\ recent'[x] = NoFailures
      BY <2>2, <2>3, <2>4 DEF EntryOf, BudgetInv
    <3> QED BY <3>1, NothingFits
  <2>5. CASE x # verifying[p]
    <3>1. EntryOf(x)' = EntryOf(x) /\ recent'[x] = recent[x]
      BY <2>2, <2>3, <2>5 DEF EntryOf, BudgetInv
    <3> QED BY <3>1, SameFits
  <2> QED BY <2>4, <2>5
<1>4. ASSUME sweep, NEW x \in Keys PROVE Fit(x)
  <2>1. /\ states' = [y \in Tracked \ {k \in Tracked : Sweepable(states[k])} |-> states[y]]
        /\ recent' = recent
    BY <1>4 DEF sweep, Drop
  <2>2. Tracked' = Tracked \ {k \in Tracked : Sweepable(states[k])}
    BY <2>1 DEF Tracked
  <2>3. CASE x \in Tracked /\ Sweepable(states[x])
    <3>1. EntryOf(x)' = NoEntry /\ EntryOf(x) = states[x]
      BY <2>2, <2>3 DEF EntryOf
    <3>2. PICK e : e = states[x]
      OBVIOUS
    <3>3. /\ e \in Entries /\ recent[x] \in [Ages -> Nat] /\ Budgeted(e, recent[x])
          /\ e.lockLeft = 0 /\ ~(e.failCount > 0 /\ e.age <= AuthFailWindow)
      BY <2>3, <3>1, <3>2, KeyFits DEF Sweepable
    <3>4. /\ AuthFailMax \in Nat /\ AuthFailWindow \in Nat /\ e.failCount \in Nat
          /\ e.failCount <= AuthFailMax - 1 /\ e.age \in Nat
      BY <3>3, EntryFields
    <3>5. ASSUME NEW a \in Ages PROVE recent[x][a] <= AuthFailMax - 1
      <4>1. a \in Nat /\ a <= AuthFailWindow /\ recent[x][a] \in Nat
        BY <3>3, <3>4 DEF Ages
      <4>2. CASE e.failCount > 0
        <5>1. recent[x][a] <= e.failCount
          BY <3>3, <3>4, <4>1, <4>2 DEF Budgeted
        <5> QED BY <3>4, <4>1, <5>1
      <4>3. CASE e.failCount = 0
        BY <3>3, <4>3 DEF Budgeted
      <4> QED BY <3>4, <4>2, <4>3
    <3> QED BY <2>1, <3>1, <3>3, <3>5, NothingFits DEF Budgeted
  <2>4. CASE ~(x \in Tracked /\ Sweepable(states[x]))
    <3>1. EntryOf(x)' = EntryOf(x) /\ recent'[x] = recent[x]
      BY <2>1, <2>2, <2>4 DEF EntryOf
    <3> QED BY <3>1, SameFits
  <2> QED BY <2>3, <2>4
<1>5. ASSUME Tick, NEW x \in Keys PROVE Fit(x)
  <2>1. /\ Tracked' = Tracked
        /\ recent'[x] = [a \in Ages |-> IF a = 0 THEN 0 ELSE recent[x][a - 1]]
    BY <1>5 DEF Tick, Tracked
  <2>2. PICK e : e = EntryOf(x)
    OBVIOUS
  <2>3. e \in Entries /\ recent[x] \in [Ages -> Nat] /\ Budgeted(e, recent[x])
    BY <2>2, KeyFits
  <2>4. PICK f : f = EntryOf(x)'
    OBVIOUS
  <2>5. /\ f.failCount = e.failCount /\ (e.lockLeft = 0 => f.lockLeft = 0)
        /\ f.age = IF e.failCount > 0 /\ e.age <= AuthFailWindow THEN e.age + 1 ELSE e.age
    <3>1. CASE x \in Tracked
      <4>1. e = states[x] /\ f = states'[x]
        BY <2>1, <2>2, <2>4, <3>1 DEF EntryOf
      <4>2. f = [e EXCEPT !.age = IF e.failCount > 0 /\ e.age <= AuthFailWindow THEN e.age + 1
                                  ELSE e.age,
                          !.lockLeft = IF e.lockLeft > 0 THEN e.lockLeft - 1 ELSE 0]
        BY <1>5, <3>1, <4>1 DEF Tick
      <4>3. e.lockLeft \in Nat
        BY <2>3, EntryFields
      <4> QED BY <2>3, <4>2, <4>3 DEF Entries
    <3>2. CASE x \notin Tracked
      <4>1. e = NoEntry /\ f = NoEntry
        BY <2>1, <2>2, <2>4, <3>2 DEF EntryOf
      <4> QED BY <4>1, NothingFits
    <3> QED BY <3>1, <3>2
  <2> QED BY <2>1, <2>3, <2>4, <2>5, TickedFits
<1>6. ASSUME NEW x \in Keys PROVE Fit(x)
  <2>1. ASSUME NEW p \in Requests, Login(p) \/ LoginError(p) PROVE Fit(x)
    BY <1>1, <2>1 DEF Login, LoginError
  <2>2. CASE UNCHANGED vars
    BY <1>1, <2>2 DEF vars
  <2> QED BY <1>2, <1>3, <1>4, <1>5, <2>1, <2>2 DEF Next
<1>7. DOMAIN recent' = Keys /\ recent' = [x \in Keys |-> recent'[x]]
  BY DEF BudgetInv, Next, vars, Login, LoginError, RecordFailure, Reset, sweep, Tick, Count
<1> QED BY <1>0, <1>6, <1>7 DEF BudgetInv

\* However its failures fall, in one window or across two, with sweeps, evictions and
\* other identities between them, an identity that is not locked has failed at most
\* twice AuthFailMax - 1 times within the last AuthFailWindow (RecordFailure, sweep).
THEOREM FailuresStayWithinBudget == Spec => []FailureBudget
<1>1. Init => BudgetInv
  <2> SUFFICES ASSUME Init PROVE BudgetInv
    OBVIOUS
  <2>1. recent = [k \in Keys |-> NoFailures] /\ Tracked = {}
    BY DEF Init, Tracked
  <2> QED BY <2>1, BoundInit, NothingFits DEF BudgetInv, EntryOf
<1>2. BudgetInv => FailureBudget
  <2> SUFFICES ASSUME BudgetInv, NEW k \in Keys PROVE recent[k][AuthFailWindow] <= 2 * (AuthFailMax - 1)
    BY DEF FailureBudget, Failures
  <2>1. PICK e : e = EntryOf(k)
    OBVIOUS
  <2>2. e \in Entries /\ recent[k] \in [Ages -> Nat] /\ Budgeted(e, recent[k])
    BY <2>1, KeyFits
  <2>3. /\ AuthFailMax \in Nat /\ AuthFailMax >= 1 /\ AuthFailWindow \in Nat
        /\ e.failCount \in Nat /\ e.failCount <= AuthFailMax - 1
    BY <2>2, EntryFields
  <2>4. AuthFailWindow \in Ages /\ recent[k][AuthFailWindow] \in Nat
    BY <2>2, <2>3 DEF Ages
  <2> QED BY <2>2, <2>3, <2>4 DEF Budgeted
<1> QED BY <1>1, <1>2, BudgetStep, PTL DEF Spec

-----------------------------------------------------------------------------
(* The throughput limiter *)

\* The variables have their types, and no bucket was charged in the future.
RlTyped ==
    /\ rlClock \in 0 .. RlLast /\ made \in 0 .. MaxMade /\ visitor \in 0 .. made
    /\ bucket \in [1 .. MaxMade -> [tokens : 0 .. Burst, last : 0 .. rlClock]]
    /\ rlHolds \in [RlSlots -> 0 .. made]
    /\ passed \in [0 .. RlLast -> Nat] /\ strays \in Nat

\* The requests that hold a bucket the cleanup has dropped.
RlLoose == {s \in RlSlots : rlHolds[s] # 0 /\ rlHolds[s] # visitor}

\* What the address may still spend at once: a new bucket would be full.
RlLeft == IF visitor = 0 THEN Burst ELSE Tokens(visitor)

\* Requests let through before an instant.
RlBefore(from) == IF from = 0 THEN 0 ELSE passed[from - 1]

\* Each loose request was counted when its bucket was dropped.
RlCounted == Cardinality(RlLoose) <= strays

\* What was let through since an instant, what is left, and what loose requests may
\* take, stay within what that stretch allows.
RlLedger ==
    \A from \in 0 .. rlClock :
        passed[rlClock] - RlBefore(from) + RlLeft + Cardinality(RlLoose)
            <= Burst + Rate * (rlClock - from) + strays

\* The future is empty, and the stretches that have ended are within their budget.
RlClosed ==
    /\ \A t \in rlClock .. RlLast : passed[t] = passed[rlClock]
    /\ \A from, to \in 0 .. RlLast : from <= to /\ to < rlClock =>
          PassedIn(from, to) <= Burst + Rate * (to - from) + strays

RlInv == RlTyped /\ RlCounted /\ RlLedger /\ RlClosed

\* The rate over one more instant.
LEMMA RateGrows ==
    \A x \in Nat : Rate * x \in Nat /\ Rate * (x + 1) = Rate * x + Rate /\ Rate * 0 = 0
  BY RlAssumption

\* The rate over a longer stretch.
LEMMA RateMonotone ==
    ASSUME NEW x \in Nat, NEW y \in Nat, x <= y
    PROVE  Rate * x <= Rate * y
<1>1. y - x \in Nat /\ y = x + (y - x)
  OBVIOUS
<1>2. Rate * y = Rate * x + Rate * (y - x) /\ Rate * (y - x) \in Nat /\ Rate * x \in Nat
  BY <1>1, RlAssumption
<1> QED BY <1>2

\* The tokens of a bucket, now.
LEMMA TokensType ==
    ASSUME RlTyped, NEW i \in 1 .. MaxMade
    PROVE  /\ Tokens(i) \in 0 .. Burst
           /\ bucket[i].tokens \in 0 .. Burst /\ bucket[i].last \in 0 .. rlClock
           /\ rlClock - bucket[i].last \in Nat
<1>1. /\ bucket[i].tokens \in 0 .. Burst /\ bucket[i].last \in 0 .. rlClock
      /\ Burst \in Nat /\ rlClock \in Nat
  BY RlAssumption DEF RlTyped
<1>2. rlClock - bucket[i].last \in Nat
  BY <1>1
<1>3. Rate * (rlClock - bucket[i].last) \in Nat
  BY <1>2, RateGrows
<1> QED BY <1>1, <1>2, <1>3 DEF Tokens

\* The loose requests are finitely many, and there is something left or nothing.
RlNumbers ==
    /\ IsFiniteSet(RlLoose) /\ Cardinality(RlLoose) \in Nat
    /\ RlLeft \in 0 .. Burst /\ Burst \in Nat /\ Burst >= 1 /\ Rate \in Nat
    /\ rlClock \in Nat /\ RlLast \in Nat /\ rlClock <= RlLast /\ strays \in Nat

\* The sums of the ledger are of numbers.
LEMMA LedgerTypes == RlTyped => RlNumbers
<1> SUFFICES ASSUME RlTyped PROVE RlNumbers
  OBVIOUS
<1>1. IsFiniteSet(RlSlots) /\ RlLoose \subseteq RlSlots
  BY RlAssumption DEF RlLoose
<1>2. IsFiniteSet(RlLoose) /\ Cardinality(RlLoose) \in Nat
  BY <1>1, FS_Subset, FS_CardinalityType
<1>3. visitor # 0 => visitor \in 1 .. MaxMade
  BY RlAssumption DEF RlTyped
<1>4. RlLeft \in 0 .. Burst
  BY <1>3, TokensType, RlAssumption DEF RlLeft
<1> QED BY <1>2, <1>4, RlAssumption DEF RlTyped, RlNumbers

\* Nothing is let through, no more is left, and the loose requests are the same or
\* were counted: the ledger holds.
LEMMA LedgerRests ==
    ASSUME RlInv, RlTyped', rlClock' = rlClock, passed' = passed, RlLeft' <= RlLeft,
           strays' >= strays,
           Cardinality(RlLoose)' - Cardinality(RlLoose) <= strays' - strays
    PROVE  RlInv'
<1>1. /\ Cardinality(RlLoose) \in Nat /\ RlLeft \in Nat /\ strays \in Nat
      /\ Burst \in Nat /\ Rate \in Nat /\ rlClock \in Nat /\ RlLast \in Nat /\ rlClock <= RlLast
  BY LedgerTypes DEF RlInv, RlNumbers
<1>n. RlNumbers'
  BY LedgerTypes, PTL
<1>2. Cardinality(RlLoose)' \in Nat /\ RlLeft' \in Nat /\ strays' \in Nat
  BY <1>n DEF RlNumbers
<1>3. RlCounted'
  BY <1>1, <1>2 DEF RlInv, RlCounted
<1>4. RlLedger'
  <2> SUFFICES ASSUME NEW from \in 0 .. rlClock
               PROVE  passed[rlClock] - RlBefore(from) + RlLeft' + Cardinality(RlLoose)'
                        <= Burst + Rate * (rlClock - from) + strays'
    BY DEF RlLedger, RlBefore
  <2>1. passed[rlClock] - RlBefore(from) + RlLeft + Cardinality(RlLoose)
          <= Burst + Rate * (rlClock - from) + strays
    BY DEF RlInv, RlLedger
  <2>2. passed[rlClock] \in Nat /\ RlBefore(from) \in Nat
    BY <1>1 DEF RlInv, RlTyped, RlBefore
  <2>3. Rate * (rlClock - from) \in Nat
    BY <1>1, RateGrows
  <2> QED BY <1>1, <1>2, <2>1, <2>2, <2>3
<1>5. RlClosed'
  <2>1. ASSUME NEW from \in 0 .. RlLast, NEW to \in 0 .. RlLast, from <= to, to < rlClock
        PROVE  PassedIn(from, to) <= Burst + Rate * (to - from) + strays'
    <3>1. PassedIn(from, to) <= Burst + Rate * (to - from) + strays
      BY <2>1 DEF RlInv, RlClosed
    <3>2. PassedIn(from, to) \in Int
      <4>1. passed[to] \in Nat /\ (from # 0 => from - 1 \in 0 .. RlLast)
        BY <1>1, <2>1 DEF RlInv, RlTyped
      <4>2. from # 0 => passed[from - 1] \in Nat
        BY <4>1 DEF RlInv, RlTyped
      <4> QED BY <4>1, <4>2 DEF PassedIn
    <3>3. Rate * (to - from) \in Nat
      <4>1. to - from \in Nat
        BY <1>1, <2>1
      <4> QED BY <4>1, RateGrows
    <3> QED BY <1>1, <1>2, <3>1, <3>2, <3>3
  <2> QED BY <2>1 DEF RlInv, RlClosed, PassedIn
<1> QED BY <1>3, <1>4, <1>5 DEF RlInv

\* A request that is let through takes a token, or is loose no more.
LEMMA LedgerCharged ==
    ASSUME RlInv, RlTyped', rlClock' = rlClock, strays' = strays,
           passed' = [t \in 0 .. RlLast |-> passed[t] + IF t < rlClock THEN 0 ELSE 1],
           RlLeft' + Cardinality(RlLoose)' + 1 <= RlLeft + Cardinality(RlLoose),
           Cardinality(RlLoose)' <= Cardinality(RlLoose)
    PROVE  RlInv'
<1>1. /\ Cardinality(RlLoose) \in Nat /\ RlLeft \in Nat /\ strays \in Nat
      /\ Burst \in Nat /\ Rate \in Nat /\ rlClock \in Nat /\ RlLast \in Nat /\ rlClock <= RlLast
  BY LedgerTypes DEF RlInv, RlNumbers
<1>n. RlNumbers'
  BY LedgerTypes, PTL
<1>2. Cardinality(RlLoose)' \in Nat /\ RlLeft' \in Nat
  BY <1>n DEF RlNumbers
<1>3. RlCounted'
  BY <1>1, <1>2 DEF RlInv, RlCounted
<1>4. \A t \in 0 .. RlLast : passed[t] \in Nat
  BY DEF RlInv, RlTyped
<1>5. RlLedger'
  <2> SUFFICES ASSUME NEW from \in 0 .. rlClock
               PROVE  passed'[rlClock] - RlBefore(from)' + RlLeft' + Cardinality(RlLoose)'
                        <= Burst + Rate * (rlClock - from) + strays
    BY DEF RlLedger
  <2>1. passed[rlClock] - RlBefore(from) + RlLeft + Cardinality(RlLoose)
          <= Burst + Rate * (rlClock - from) + strays
    BY DEF RlInv, RlLedger
  <2>2. passed[rlClock] \in Nat /\ passed'[rlClock] = passed[rlClock] + 1
    BY <1>1, <1>4
  <2>3. RlBefore(from)' = RlBefore(from) /\ RlBefore(from) \in Nat
    <3>1. CASE from = 0
      BY <3>1 DEF RlBefore
    <3>2. CASE from # 0
      <4>1. from - 1 \in 0 .. RlLast /\ from - 1 < rlClock
        BY <1>1, <3>2
      <4>2. passed'[from - 1] = passed[from - 1] /\ passed[from - 1] \in Nat
        BY <1>4, <4>1
      <4> QED BY <3>2, <4>2 DEF RlBefore
    <3> QED BY <3>1, <3>2
  <2>4. Rate * (rlClock - from) \in Nat
    BY <1>1, RateGrows
  <2>5. passed'[rlClock] - RlBefore(from)' = passed[rlClock] - RlBefore(from) + 1
    BY <2>2, <2>3
  <2>6. /\ passed[rlClock] - RlBefore(from) \in Int
        /\ RlLeft' + Cardinality(RlLoose)' + 1 <= RlLeft + Cardinality(RlLoose)
    BY <2>2, <2>3
  <2>7. PICK d \in Int : d = passed[rlClock] - RlBefore(from)
    BY <2>6
  <2>8. PICK m \in Nat : m = Rate * (rlClock - from)
    BY <2>4
  <2>9. d + RlLeft + Cardinality(RlLoose) <= Burst + m + strays
    BY <2>1, <2>7, <2>8
  <2>10. d + 1 + RlLeft' + Cardinality(RlLoose)' <= Burst + m + strays
    BY <1>1, <1>2, <2>6, <2>9
  <2> QED BY <2>5, <2>7, <2>8, <2>10
<1>6. RlClosed'
  <2>1. \A t \in rlClock .. RlLast : passed'[t] = passed'[rlClock]
    BY <1>1, <1>4 DEF RlInv, RlClosed
  <2>2. ASSUME NEW from \in 0 .. RlLast, NEW to \in 0 .. RlLast, from <= to, to < rlClock
        PROVE  PassedIn(from, to)' = PassedIn(from, to)
    <3>1. passed'[to] = passed[to]
      BY <1>1, <1>4, <2>2
    <3>2. from # 0 => passed'[from - 1] = passed[from - 1]
      BY <1>1, <1>4, <2>2
    <3> QED BY <3>1, <3>2 DEF PassedIn
  <2>3. \A from, to \in 0 .. RlLast : from <= to /\ to < rlClock =>
          PassedIn(from, to)' <= Burst + Rate * (to - from) + strays
    BY <2>2 DEF RlInv, RlClosed
  <2> QED BY <2>1, <2>3 DEF RlClosed
<1> QED BY <1>3, <1>5, <1>6 DEF RlInv

\* A request holds a bucket that was made.
LEMMA HeldBucket ==
    ASSUME RlTyped, NEW s \in RlSlots
    PROVE  rlHolds[s] # 0 => rlHolds[s] \in 1 .. MaxMade
<1>1. rlHolds[s] \in 0 .. made /\ made \in Nat /\ MaxMade \in Nat /\ made <= MaxMade
  BY RlAssumption DEF RlTyped
<1> QED BY <1>1

\* Every step keeps the variables typed.
LEMMA LimiterTypes == RlTyped /\ [RlNext]_rlVars => RlTyped'
<1> SUFFICES ASSUME RlTyped, [RlNext]_rlVars PROVE RlTyped'
  OBVIOUS
<1>0. /\ Burst \in Nat /\ Burst >= 1 /\ MaxMade \in Nat /\ RlLast \in Nat
      /\ rlClock \in Nat /\ made \in Nat /\ strays \in Nat
  BY RlAssumption DEF RlTyped
<1>1. ASSUME NEW s \in RlSlots, GetVisitor(s) PROVE RlTyped'
  <2>1. CASE visitor # 0
    BY <1>1, <2>1 DEF GetVisitor, RlTyped
  <2>2. CASE visitor = 0
    <3>1. /\ made < MaxMade /\ made' = made + 1 /\ visitor' = made + 1
          /\ bucket' = [bucket EXCEPT ![made + 1] = [tokens |-> Burst, last |-> rlClock]]
          /\ rlHolds' = [rlHolds EXCEPT ![s] = made + 1]
          /\ rlClock' = rlClock /\ passed' = passed /\ strays' = strays
      BY <1>1, <2>2 DEF GetVisitor
    <3>2. [tokens |-> Burst, last |-> rlClock] \in [tokens : 0 .. Burst, last : 0 .. rlClock]
      BY <1>0
    <3>3. bucket' \in [1 .. MaxMade -> [tokens : 0 .. Burst, last : 0 .. rlClock]]
      BY <3>1, <3>2 DEF RlTyped
    <3>4. rlHolds' \in [RlSlots -> 0 .. made']
      BY <1>0, <3>1 DEF RlTyped
    <3>5. made' \in 0 .. MaxMade /\ visitor' \in 0 .. made'
      BY <1>0, <3>1
    <3> QED BY <3>1, <3>3, <3>4, <3>5 DEF RlTyped
  <2> QED BY <2>1, <2>2
<1>2. ASSUME NEW s \in RlSlots, Middleware(s) PROVE RlTyped'
  <2>1. PICK i : i = rlHolds[s]
    OBVIOUS
  <2>2. i # 0 /\ i \in 1 .. MaxMade
    BY <1>2, <2>1, HeldBucket DEF Middleware
  <2>3. /\ rlHolds' = [rlHolds EXCEPT ![s] = 0] /\ rlClock' = rlClock /\ made' = made
        /\ visitor' = visitor /\ strays' = strays
    BY <1>2 DEF Middleware
  <2>4. rlHolds' \in [RlSlots -> 0 .. made]
    BY <1>0, <2>3 DEF RlTyped
  <2>5. CASE UNCHANGED <<bucket, passed>>
    BY <2>3, <2>4, <2>5 DEF RlTyped
  <2>6. CASE /\ Tokens(i) >= 1
             /\ bucket' = [bucket EXCEPT ![i] = [tokens |-> Tokens(i) - 1, last |-> rlClock]]
             /\ passed' = [t \in 0 .. RlLast |-> passed[t] + IF t < rlClock THEN 0 ELSE 1]
    <3>1. Tokens(i) - 1 \in 0 .. Burst
      BY <1>0, <2>2, <2>6, TokensType
    <3>2. PICK b : b = [tokens |-> Tokens(i) - 1, last |-> rlClock]
      OBVIOUS
    <3>3. b \in [tokens : 0 .. Burst, last : 0 .. rlClock]
      BY <1>0, <3>1, <3>2
    <3>4. bucket' \in [1 .. MaxMade -> [tokens : 0 .. Burst, last : 0 .. rlClock]]
      BY <2>6, <3>2, <3>3 DEF RlTyped
    <3>5. passed' \in [0 .. RlLast -> Nat]
      BY <2>6 DEF RlTyped
    <3> QED BY <2>3, <2>4, <3>4, <3>5 DEF RlTyped
  <2> QED BY <1>2, <2>1, <2>5, <2>6 DEF Middleware
<1>3. CASE Cleanup
  <2>1. Cardinality({s \in RlSlots : rlHolds[s] = visitor}) \in Nat
    BY RlAssumption, FS_Subset, FS_CardinalityType
  <2>2. 0 \in 0 .. made /\ strays' \in Nat
    BY <1>0, <1>3, <2>1 DEF Cleanup
  <2> QED BY <1>3, <2>2 DEF Cleanup, RlTyped
<1>4. CASE RlTick
  <2>1. rlClock' \in 0 .. RlLast /\ \A x \in 0 .. rlClock : x \in 0 .. rlClock'
    BY <1>0, <1>4 DEF RlTick
  <2>2. ASSUME NEW i \in 1 .. MaxMade
        PROVE  bucket[i] \in [tokens : 0 .. Burst, last : 0 .. rlClock']
    BY <2>1 DEF RlTyped
  <2>3. bucket' \in [1 .. MaxMade -> [tokens : 0 .. Burst, last : 0 .. rlClock']]
    BY <1>4, <2>2 DEF RlTick, RlTyped
  <2> QED BY <1>4, <2>1, <2>3 DEF RlTick, RlTyped
<1>5. CASE UNCHANGED rlVars
  BY <1>5 DEF rlVars, RlTyped
<1> QED BY <1>1, <1>2, <1>3, <1>4, <1>5 DEF RlNext

\* Every step keeps the ledger.
LEMMA LimiterStep == RlInv /\ [RlNext]_rlVars => RlInv'
<1> SUFFICES ASSUME RlInv, [RlNext]_rlVars PROVE RlInv'
  OBVIOUS
<1>0. RlTyped /\ RlTyped'
  BY LimiterTypes DEF RlInv
<1>t. /\ IsFiniteSet(RlLoose) /\ Cardinality(RlLoose) \in Nat /\ RlLeft \in 0 .. Burst
      /\ Burst \in Nat /\ Burst >= 1 /\ Rate \in Nat /\ rlClock \in Nat /\ RlLast \in Nat
      /\ rlClock <= RlLast /\ strays \in Nat
  BY <1>0, LedgerTypes DEF RlNumbers
<1>n. RlNumbers'
  BY <1>0, LedgerTypes, PTL
<1>1. ASSUME NEW s \in RlSlots, GetVisitor(s) PROVE RlInv'
  <2>1. rlHolds[s] = 0 /\ rlClock' = rlClock /\ passed' = passed /\ strays' = strays
    BY <1>1 DEF GetVisitor
  <2>2. CASE visitor # 0
    <3>1. /\ rlHolds' = [rlHolds EXCEPT ![s] = visitor] /\ visitor' = visitor /\ bucket' = bucket
      BY <1>1, <2>2 DEF GetVisitor
    <3>2. RlLoose' = RlLoose
      BY <1>0, <2>1, <3>1 DEF RlLoose, RlTyped
    <3>3. RlLeft' = RlLeft
      BY <2>1, <3>1 DEF RlLeft, Tokens
    <3> QED BY <1>0, <1>t, <2>1, <3>2, <3>3, LedgerRests
  <2>3. CASE visitor = 0
    <3>1. /\ made < MaxMade /\ visitor' = made + 1
          /\ bucket' = [bucket EXCEPT ![made + 1] = [tokens |-> Burst, last |-> rlClock]]
          /\ rlHolds' = [rlHolds EXCEPT ![s] = made + 1]
      BY <1>1, <2>3 DEF GetVisitor
    <3>2. made \in Nat /\ \A r \in RlSlots : rlHolds[r] \in 0 .. made
      BY <1>0, RlAssumption DEF RlTyped
    <3>3. RlLoose' = RlLoose
      <4>1. ASSUME NEW r \in RlSlots PROVE r \in RlLoose' <=> r \in RlLoose
        <5>1. CASE r = s
          BY <1>0, <2>1, <3>1, <5>1 DEF RlLoose, RlTyped
        <5>2. CASE r # s
          BY <1>0, <2>3, <3>1, <3>2, <5>2 DEF RlLoose, RlTyped
        <5> QED BY <5>1, <5>2
      <4> QED BY <4>1 DEF RlLoose
    <3>4. RlLeft' <= RlLeft
      <4>1. RlLeft' \in 0 .. Burst /\ RlLeft = Burst
        BY <1>n, <2>3 DEF RlNumbers, RlLeft
      <4> QED BY <1>t, <4>1
    <3> QED BY <1>0, <1>t, <2>1, <3>3, <3>4, LedgerRests
  <2> QED BY <2>2, <2>3
<1>2. ASSUME NEW s \in RlSlots, Middleware(s) PROVE RlInv'
  <2>1. PICK i : i = rlHolds[s]
    OBVIOUS
  <2>2. /\ i # 0 /\ i \in 1 .. MaxMade
        /\ rlHolds' = [rlHolds EXCEPT ![s] = 0] /\ rlClock' = rlClock
        /\ visitor' = visitor /\ strays' = strays
    <3>1. i # 0 => i \in 1 .. MaxMade
      BY <1>0, <2>1, HeldBucket
    <3> QED BY <1>2, <2>1, <3>1 DEF Middleware
  <2>3. /\ i = visitor => RlLoose' = RlLoose
        /\ i # visitor => s \in RlLoose /\ RlLoose' = RlLoose \ {s}
    BY <1>0, <2>1, <2>2 DEF RlLoose, RlTyped
  <2>4. i # visitor => Cardinality(RlLoose)' = Cardinality(RlLoose) - 1
    BY <1>t, <2>3, FS_RemoveElement
  <2>5. Cardinality(RlLoose)' <= Cardinality(RlLoose)
    BY <1>t, <2>3, <2>4
  <2>6. CASE UNCHANGED <<bucket, passed>>
    <3>1. RlLeft' = RlLeft
      BY <2>2, <2>6 DEF RlLeft, Tokens
    <3>2. Cardinality(RlLoose)' \in Nat
      BY <1>n DEF RlNumbers
    <3> QED BY <1>0, <1>t, <2>2, <2>5, <2>6, <3>1, <3>2, LedgerRests
  <2>7. CASE /\ Tokens(i) >= 1
             /\ bucket' = [bucket EXCEPT ![i] = [tokens |-> Tokens(i) - 1, last |-> rlClock]]
             /\ passed' = [t \in 0 .. RlLast |-> passed[t] + IF t < rlClock THEN 0 ELSE 1]
    <3>1. CASE i = visitor
      <4>1. Tokens(i) \in 0 .. Burst /\ RlLeft = Tokens(i)
        BY <1>0, <2>2, <3>1, TokensType DEF RlLeft
      <4>2. bucket'[i].tokens = Tokens(i) - 1 /\ bucket'[i].last = rlClock
        BY <1>0, <2>2, <2>7 DEF RlTyped
      <4>3. Tokens(i)' = Tokens(i) - 1
        <5>1. Rate * (rlClock' - bucket'[i].last) = 0
          BY <1>t, <2>2, <4>2, RateGrows
        <5> QED BY <1>t, <4>1, <4>2, <5>1 DEF Tokens
      <4>4. RlLeft' = RlLeft - 1
        BY <2>2, <3>1, <4>1, <4>3 DEF RlLeft
      <4>5. RlLeft' + Cardinality(RlLoose)' + 1 <= RlLeft + Cardinality(RlLoose)
        BY <1>t, <2>3, <3>1, <4>4
      <4> QED BY <1>0, <2>2, <2>5, <2>7, <4>5, LedgerCharged
    <3>2. CASE i # visitor
      <4>1. RlLeft' = RlLeft
        <5>1. visitor # 0 => bucket'[visitor] = bucket[visitor]
          BY <1>0, <2>7, <3>2, RlAssumption DEF RlTyped
        <5> QED BY <2>2, <5>1 DEF RlLeft, Tokens
      <4>2. RlLeft' + Cardinality(RlLoose)' + 1 <= RlLeft + Cardinality(RlLoose)
        BY <1>t, <2>4, <3>2, <4>1
      <4> QED BY <1>0, <2>2, <2>5, <2>7, <4>2, LedgerCharged
    <3> QED BY <3>1, <3>2
  <2> QED BY <1>2, <2>1, <2>6, <2>7 DEF Middleware
<1>3. CASE Cleanup
  <2> DEFINE dropped == {s \in RlSlots : rlHolds[s] = visitor}
  <2>1. /\ visitor # 0 /\ Tokens(visitor) >= Burst /\ visitor' = 0 /\ rlHolds' = rlHolds
        /\ strays' = strays + Cardinality(dropped) /\ rlClock' = rlClock /\ passed' = passed
    BY <1>3 DEF Cleanup, Droppable
  <2>2. RlLoose' = RlLoose \cup dropped /\ RlLoose \cap dropped = {}
    BY <2>1 DEF RlLoose
  <2>3. IsFiniteSet(dropped) /\ Cardinality(dropped) \in Nat
    BY RlAssumption, FS_Subset, FS_CardinalityType
  <2>4. Cardinality(RlLoose \cup dropped) = Cardinality(RlLoose) + Cardinality(dropped)
    <3>1. Cardinality(RlLoose \cup dropped)
            = Cardinality(RlLoose) + Cardinality(dropped) - Cardinality(RlLoose \cap dropped)
      BY <1>t, <2>3, FS_Union
    <3> QED BY <1>t, <2>2, <2>3, <3>1, FS_EmptySet
  <2>5. RlLeft' = Burst /\ RlLeft = Tokens(visitor)
    BY <2>1 DEF RlLeft
  <2> HIDE DEF dropped
  <2>6. /\ Cardinality(RlLoose)' = Cardinality(RlLoose) + Cardinality(dropped)
        /\ RlLeft' <= RlLeft
    BY <1>t, <2>1, <2>2, <2>4, <2>5
  <2> QED BY <1>0, <1>t, <2>1, <2>3, <2>6, LedgerRests
<1>4. CASE RlTick
  <2>1. /\ rlClock < RlLast /\ rlClock' = rlClock + 1 /\ passed' = passed /\ strays' = strays
        /\ bucket' = bucket /\ visitor' = visitor /\ rlHolds' = rlHolds
    BY <1>4 DEF RlTick
  <2>2. RlLoose' = RlLoose
    BY <2>1 DEF RlLoose
  <2>3. RlLeft' <= RlLeft + Rate /\ RlLeft' \in 0 .. Burst
    <3>1. RlLeft' \in 0 .. Burst
      BY <1>n DEF RlNumbers
    <3>2. CASE visitor = 0
      BY <1>t, <2>1, <3>1, <3>2 DEF RlLeft
    <3>3. CASE visitor # 0
      <4>1. visitor \in 1 .. MaxMade
        BY <1>0, <3>3, RlAssumption DEF RlTyped
      <4>2. PICK x : x = rlClock - bucket[visitor].last
        OBVIOUS
      <4>3. x \in Nat /\ bucket[visitor].last \in Nat /\ bucket[visitor].tokens \in Nat
        BY <1>0, <1>t, <4>1, <4>2, TokensType
      <4>4. rlClock' - bucket'[visitor'].last = x + 1
        BY <1>t, <2>1, <4>2, <4>3
      <4>5. Rate * (x + 1) = Rate * x + Rate /\ Rate * x \in Nat
        BY <4>3, RateGrows
      <4>6. RlLeft = IF bucket[visitor].tokens + Rate * x > Burst THEN Burst
                     ELSE bucket[visitor].tokens + Rate * x
        BY <3>3, <4>2 DEF RlLeft, Tokens
      <4>7. RlLeft' = IF bucket[visitor].tokens + Rate * (x + 1) > Burst THEN Burst
                      ELSE bucket[visitor].tokens + Rate * (x + 1)
        BY <2>1, <3>3, <4>4 DEF RlLeft, Tokens
      <4> QED BY <1>t, <3>1, <4>3, <4>5, <4>6, <4>7
    <3> QED BY <3>2, <3>3
  <2>4. \A t \in 0 .. RlLast : passed[t] \in Nat
    BY <1>0 DEF RlTyped
  <2>5. passed[rlClock] = passed[rlClock + 1] /\ \A t \in rlClock + 1 .. RlLast : passed[t] = passed[rlClock]
    BY <1>t, <2>1 DEF RlInv, RlClosed
  <2>6. RlCounted'
    BY <2>1, <2>2 DEF RlInv, RlCounted
  <2>7. RlLedger'
    <3> SUFFICES ASSUME NEW from \in 0 .. rlClock'
                 PROVE  passed'[rlClock'] - RlBefore(from)' + RlLeft' + Cardinality(RlLoose)'
                          <= Burst + Rate * (rlClock' - from) + strays'
      BY DEF RlLedger
    <3>0. RlBefore(from)' = RlBefore(from)
      BY <2>1 DEF RlBefore
    <3> SUFFICES passed[rlClock + 1] - RlBefore(from) + RlLeft' + Cardinality(RlLoose)
                   <= Burst + Rate * (rlClock + 1 - from) + strays
      <4>1. passed'[rlClock'] = passed[rlClock + 1] /\ strays' = strays
        BY <2>1
      <4>2. Cardinality(RlLoose)' = Cardinality(RlLoose)
        BY <2>2
      <4>3. Rate * (rlClock' - from) = Rate * (rlClock + 1 - from)
        BY <1>t, <2>1
      <4> QED BY <3>0, <4>1, <4>2, <4>3
    <3>1. CASE from = rlClock + 1
      <4>1. RlBefore(from) = passed[rlClock]
        BY <1>t, <3>1 DEF RlBefore
      <4>2. Rate * (rlClock + 1 - from) = 0
        BY <1>t, <3>1, RateGrows
      <4>3. Cardinality(RlLoose) <= strays
        BY DEF RlInv, RlCounted
      <4> QED BY <1>t, <2>1, <2>3, <2>4, <2>5, <4>1, <4>2, <4>3
    <3>2. CASE from # rlClock + 1
      <4>1. from \in 0 .. rlClock /\ rlClock - from \in Nat
        BY <1>t, <2>1, <3>2
      <4>2. passed[rlClock] - RlBefore(from) + RlLeft + Cardinality(RlLoose)
              <= Burst + Rate * (rlClock - from) + strays
        BY <4>1 DEF RlInv, RlLedger
      <4>3. rlClock + 1 - from = rlClock - from + 1
        BY <1>t, <4>1
      <4>4. /\ Rate * (rlClock + 1 - from) = Rate * (rlClock - from) + Rate
            /\ Rate * (rlClock - from) \in Nat
        BY <4>1, <4>3, RateGrows
      <4>5. RlBefore(from) \in Nat /\ passed[rlClock] \in Nat
        BY <1>t, <2>4, <4>1 DEF RlBefore
      <4> QED BY <1>t, <2>3, <2>5, <4>2, <4>4, <4>5
    <3> QED BY <3>1, <3>2
  <2>8. RlClosed'
    <3>1. ASSUME NEW from \in 0 .. RlLast, NEW to \in 0 .. RlLast, from <= to, to < rlClock + 1
          PROVE  PassedIn(from, to) <= Burst + Rate * (to - from) + strays
      <4>1. CASE to < rlClock
        BY <3>1, <4>1 DEF RlInv, RlClosed
      <4>2. CASE to = rlClock
        <5>1. passed[rlClock] - RlBefore(from) + RlLeft + Cardinality(RlLoose)
                <= Burst + Rate * (rlClock - from) + strays
          BY <1>t, <3>1, <4>2 DEF RlInv, RlLedger
        <5>2. PassedIn(from, to) = passed[rlClock] - RlBefore(from)
          BY <4>2 DEF PassedIn, RlBefore
        <5>3. RlBefore(from) \in Nat /\ passed[rlClock] \in Nat
          BY <1>t, <2>4, <3>1, <4>2 DEF RlBefore
        <5>4. Rate * (rlClock - from) \in Nat
          <6>1. rlClock - from \in Nat
            BY <1>t, <3>1, <4>2
          <6> QED BY <6>1, RateGrows
        <5> QED BY <1>t, <4>2, <5>1, <5>2, <5>3, <5>4
      <4> QED BY <1>t, <3>1, <4>1, <4>2
    <3>2. \A t \in rlClock + 1 .. RlLast : passed[t] = passed[rlClock + 1]
      BY <2>5
    <3> QED BY <2>1, <3>1, <3>2 DEF RlClosed, PassedIn
  <2> QED BY <1>0, <2>6, <2>7, <2>8 DEF RlInv
<1>5. CASE UNCHANGED rlVars
  <2>1. /\ rlClock' = rlClock /\ passed' = passed /\ RlLeft' = RlLeft /\ RlLoose' = RlLoose
        /\ strays' = strays
    BY <1>5 DEF rlVars, RlLeft, RlLoose, Tokens
  <2> QED BY <1>0, <1>t, <2>1, LedgerRests
<1> QED BY <1>1, <1>2, <1>3, <1>4, <1>5 DEF RlNext

\* The limiter starts with nothing spent.
LEMMA LimiterInit == RlInit => RlInv
<1> SUFFICES ASSUME RlInit PROVE RlInv
  OBVIOUS
<1>1. RlTyped
  BY RlAssumption DEF RlInit, RlTyped
<1>2. RlLoose = {} /\ RlLeft = Burst /\ Cardinality(RlLoose) = 0
  BY FS_EmptySet DEF RlInit, RlLoose, RlLeft
<1>3. \A t \in 0 .. RlLast : passed[t] = 0
  BY DEF RlInit
<1>4. rlClock = 0 /\ strays = 0 /\ RlLast \in Nat /\ Burst \in Nat
  BY RlAssumption DEF RlInit
<1>5. RlCounted
  BY <1>2, <1>4 DEF RlCounted
<1>6. RlLedger
  <2> SUFFICES ASSUME NEW from \in 0 .. rlClock
               PROVE  passed[rlClock] - RlBefore(from) + RlLeft + Cardinality(RlLoose)
                        <= Burst + Rate * (rlClock - from) + strays
    BY DEF RlLedger
  <2>1. from = 0 /\ RlBefore(from) = 0 /\ passed[rlClock] = 0
    BY <1>3, <1>4 DEF RlBefore
  <2>2. Rate * (rlClock - from) = 0
    BY <1>4, <2>1, RateGrows
  <2> QED BY <1>2, <1>4, <2>1, <2>2
<1>7. RlClosed
  BY <1>3, <1>4 DEF RlClosed
<1> QED BY <1>1, <1>5, <1>6, <1>7 DEF RlInv

\* RateLimiter.Middleware and cleanupLoop: for any burst and rate and any number of
\* requests, in every stretch of time an address is let through no more often than its
\* burst, what drips in, and once for each request that held a dropped bucket.
THEOREM LimiterKeepsBudget == RlSpec => []PassedWithinBudget
<1>1. RlInv => PassedWithinBudget
  <2> SUFFICES ASSUME RlInv, NEW from \in 0 .. RlLast, NEW to \in 0 .. RlLast, from <= to
               PROVE  PassedIn(from, to) <= Burst + Rate * (to - from) + strays
    BY DEF PassedWithinBudget
  <2>1. /\ Cardinality(RlLoose) \in Nat /\ RlLeft \in 0 .. Burst /\ strays \in Nat
        /\ Burst \in Nat /\ Rate \in Nat /\ rlClock \in Nat /\ RlLast \in Nat /\ rlClock <= RlLast
    BY LedgerTypes DEF RlInv, RlNumbers
  <2>2. \A t \in 0 .. RlLast : passed[t] \in Nat
    BY DEF RlInv, RlTyped
  <2>3. to - from \in Nat /\ Rate * (to - from) \in Nat
    <3>1. to - from \in Nat
      BY <2>1
    <3> QED BY <3>1, RateGrows
  <2>4. CASE to < rlClock
    BY <2>4 DEF RlInv, RlClosed
  <2>5. CASE rlClock <= to /\ from <= rlClock
    <3>1. passed[rlClock] - RlBefore(from) + RlLeft + Cardinality(RlLoose)
            <= Burst + Rate * (rlClock - from) + strays
      BY <2>1, <2>5 DEF RlInv, RlLedger
    <3>2. PassedIn(from, to) = passed[rlClock] - RlBefore(from)
      BY <2>1, <2>5 DEF RlInv, RlClosed, PassedIn, RlBefore
    <3>3. RlBefore(from) \in Nat /\ passed[rlClock] \in Nat
      BY <2>1, <2>2 DEF RlBefore
    <3>4. Rate * (rlClock - from) <= Rate * (to - from) /\ Rate * (rlClock - from) \in Nat
      <4>1. rlClock - from \in Nat /\ rlClock - from <= to - from
        BY <2>1, <2>5
      <4> QED BY <2>3, <4>1, RateMonotone, RateGrows
    <3> QED BY <2>1, <2>3, <3>1, <3>2, <3>3, <3>4
  <2>6. CASE rlClock < from
    <3>1. passed[to] = passed[rlClock] /\ passed[from - 1] = passed[rlClock]
      BY <2>1, <2>6 DEF RlInv, RlClosed
    <3>2. PassedIn(from, to) = 0
      BY <2>1, <2>2, <2>6, <3>1 DEF PassedIn
    <3> QED BY <2>1, <2>3, <3>2
  <2> QED BY <2>1, <2>4, <2>5, <2>6
<1> QED BY <1>1, LimiterInit, LimiterStep, PTL DEF RlSpec

-----------------------------------------------------------------------------
(* The authorization flow *)

\* What a request is doing fits what it came with.
AzPhase ==
    \A p \in AzRequests :
        /\ azAt[p] = "idle" => azIn[p].op = "none"
        /\ azAt[p] \in {"create", "read", "complete"} => azIn[p].op = "authorize"
        /\ azAt[p] \in {"submit", "record"} => azIn[p].op = "consent"
        /\ azAt[p] \in {"deny", "delete"} => azIn[p].op = "deny"
        /\ azIn[p].op = "authorize" =>
              /\ azIn[p].sess = p /\ azIn[p].client \in AzClients
              /\ azIn[p].silent => azIn[p].user # AzNone /\ azIn[p].res # AzNone
        /\ azIn[p].op \in {"consent", "deny"} =>
              azIn[p].user \in AzUsers /\ azIn[p].sess \in azDisclosed
        /\ azAt[p] \in {"read", "complete"} => azIn[p].silent /\ p \notin azDisclosed

\* A session is the row of the request that created it, and is shown to its user alone
AzSessions ==
    \A s \in AzRequests :
        /\ azSess[s] # AzNone =>
              /\ azIn[s].op = "authorize" /\ azAt[s] # "create"
              /\ azSess[s].client = azIn[s].client
              /\ azSess[s].user = azIn[s].user /\ azSess[s].res = azIn[s].res
        /\ s \in azDisclosed =>
              /\ azIn[s].op = "authorize" /\ azAt[s] = "done"
              /\ azIn[s].user # AzNone /\ ~azIn[s].silent
        /\ s \in azDenied => s \in azDisclosed /\ azSess[s] = AzNone

\* the consent that is recorded is for the session's user, client and resource
AzRecords ==
    \A p \in AzRequests : azAt[p] = "record" =>
        LET s == azIn[p].sess IN
        azIn[p].user = azIn[s].user /\ azIn[p].client = azIn[s].client /\ azIn[p].res = azIn[s].res

\* A code in a session was written by a request on that session, which has ended, with the
\* scopes of that request, and the session's user approved them.
CodeIsOwn(s) ==
    LET k == azSess[s].code IN
    /\ k \in AzRequests /\ azAt[k] = "done" /\ azIn[k].sess = s
    /\ azSess[s].scope = azIn[k].scope
    /\ azSess[s].user \in AzUsers
    /\ \A t \in azSess[s].scope :
          azApproved[<<azSess[s].user, azSess[s].client, azSess[s].res>>][t] > 0

AzCode == \A s \in AzRequests : azSess[s] # AzNone /\ azSess[s].code # AzNone => CodeIsOwn(s)

\* An approval belongs to an epoch of its grant, and those of a standing grant to the last.
AzApprovals ==
    \A k \in GrantKeys, s \in AzScopes :
        /\ azApproved[k][s] <= azEpoch[k] + 1
        /\ ~azGrant[k].revoked /\ s \in azGrant[k].scopes => azApproved[k][s] = azEpoch[k] + 1

\* A silent flow rests on approvals younger than the last revocation it could see.
AzSilent ==
    \A p \in AzRequests : azIn[p].op = "authorize" /\ azIn[p].silent =>
        \A s \in azIn[p].scope :
            azApproved[<<azIn[p].user, azIn[p].client, azIn[p].res>>][s] > azIn[p].epoch

\* What a redeemed code bought was approved by a user.
Bought(row) ==
    /\ row.user \in AzUsers
    /\ \A s \in row.scope : azApproved[<<row.user, row.client, row.res>>][s] > 0
AzTokens == \A k \in AzRequests : azTokens[k] # AzNone => Bought(azTokens[k])

\* The inductive invariant of the authorization flow.
AuthorizeInv ==
    /\ AuthorizeTypeOK /\ AzPhase /\ AzSessions /\ AzRecords
    /\ AzCode /\ AzApprovals /\ AzSilent /\ AzTokens


\* What one submitted form does (HandlePostConsent).
Submitted(p, u, s, action, scopes) ==
    /\ azAt[p] = "idle"
    /\ azShown[<<u, s>>] # {}
    /\ (action = "consent") = (scopes # {})
    /\ azIn' = [azIn EXCEPT ![p] =
           [Fresh EXCEPT !.op = action, !.user = u, !.scope = scopes, !.sess = s]]
    /\ AzGoto(p, IF action = "deny" THEN "deny" ELSE "submit")
    /\ UNCHANGED <<azSessVars, azGrant, azCatalog, azDisclosed, azCodes, azHistVars>>

\* The code k is redeemed from session s (HandleAuthCodeExchange).
CodeRedeemed(k, s) ==
    /\ k \in azCodes
    /\ HasSession(s) /\ azSess[s].code = k /\ ~azSess[s].consumed
    /\ azSess' = [azSess EXCEPT ![s].consumed = TRUE]
    /\ azTokens' = IF s \in azExpired \/ azSess[s].user = AzNone THEN azTokens
                   ELSE [azTokens EXCEPT ![k] = azSess[s]]
    /\ UNCHANGED <<azReqVars, azExpired, azGrant, azCatalog, azDisclosed,
                   azCodes, azShown, azApproved, azDenied, azEpoch>>

\* The statement that writes a code changes its session's code and scope alone.
LEMMA CodeWritten ==
    ASSUME AuthorizeTypeOK, NEW s \in AzRequests, NEW k \in AzRequests,
           NEW scope \in SUBSET AzScopes, UpdateCodeHashAndScope(s, k, scope)
    PROVE  /\ azSess[s] \in AzRow /\ azSess'[s] \in AzRow
           /\ azSess'[s].client = azSess[s].client /\ azSess'[s].user = azSess[s].user
           /\ azSess'[s].res = azSess[s].res
           /\ azSess'[s].code = k /\ azSess'[s].scope = scope
           /\ \A t \in AzRequests \ {s} : azSess'[t] = azSess[t]
           /\ azSess' \in [AzRequests -> AzRow \cup {AzNone}]
<1>1. azSess[s] \in AzRow /\ azSess \in [AzRequests -> AzRow \cup {AzNone}]
  BY DEF AuthorizeTypeOK, UpdateCodeHashAndScope, HasSession
<1>2. azSess' = [azSess EXCEPT ![s] = [[azSess[s] EXCEPT !.code = k] EXCEPT !.scope = scope]]
  BY <1>1 DEF UpdateCodeHashAndScope, AzRow
<1>3. [[azSess[s] EXCEPT !.code = k] EXCEPT !.scope = scope] \in AzRow
  BY <1>1 DEF AzRow
<1>4. azSess'[s] = [[azSess[s] EXCEPT !.code = k] EXCEPT !.scope = scope]
  BY <1>1, <1>2
<1> QED BY <1>1, <1>2, <1>3, <1>4 DEF AzRow

\* Consuming a code leaves what its session says alone.
LEMMA CodeConsumed ==
    ASSUME AuthorizeTypeOK, NEW s \in AzRequests, HasSession(s),
           azSess' = [azSess EXCEPT ![s].consumed = TRUE]
    PROVE  /\ azSess[s] \in AzRow /\ azSess'[s] \in AzRow
           /\ azSess'[s].client = azSess[s].client /\ azSess'[s].user = azSess[s].user
           /\ azSess'[s].res = azSess[s].res /\ azSess'[s].scope = azSess[s].scope
           /\ azSess'[s].code = azSess[s].code
           /\ \A t \in AzRequests \ {s} : azSess'[t] = azSess[t]
           /\ azSess' \in [AzRequests -> AzRow \cup {AzNone}]
<1>1. azSess[s] \in AzRow /\ azSess \in [AzRequests -> AzRow \cup {AzNone}]
  BY DEF AuthorizeTypeOK, HasSession
<1>2. azSess' = [azSess EXCEPT ![s] = [azSess[s] EXCEPT !.consumed = TRUE]]
  BY <1>1 DEF AzRow
<1>3. [azSess[s] EXCEPT !.consumed = TRUE] \in AzRow
  BY <1>1 DEF AzRow
<1>4. azSess'[s] = [azSess[s] EXCEPT !.consumed = TRUE]
  BY <1>1, <1>2
<1> QED BY <1>1, <1>2, <1>3, <1>4 DEF AzRow

\* The transaction of GrantConsent, in parts.
LEMMA ConsentRecorded ==
    ASSUME AuthorizeTypeOK, AzPhase, NEW p \in AzRequests, azAt[p] = "record", PersistAndCode(p),
           azIn[p].client \in AzClients
    PROVE  LET i == azIn[p]  k == <<i.user, i.client, i.res>> IN
           /\ i.sess \in AzRequests /\ i.user \in AzUsers /\ i.scope \in SUBSET AzScopes
           /\ UpdateCodeHashAndScope(i.sess, p, i.scope)
           /\ k \in AzUsers \X AzClients \X MaybeResource
           /\ i.res # AzNone => k \in GrantKeys
           /\ azGrant' = IF i.res = AzNone THEN azGrant
                         ELSE [azGrant EXCEPT ![k] = [scopes |-> i.scope, revoked |-> FALSE]]
           /\ azApproved' = [azApproved EXCEPT ![k] = azApproved'[k]]
           /\ azApproved'[k] = [s \in AzScopes |-> IF s \in i.scope
                                  THEN 1 + (IF i.res = AzNone THEN 0 ELSE azEpoch[k])
                                  ELSE azApproved[k][s]]
           /\ azApproved' \in [AzUsers \X AzClients \X MaybeResource -> [AzScopes -> Nat]]
           /\ azGrant' \in [GrantKeys -> [scopes : SUBSET AzScopes, revoked : BOOLEAN]]
<1> DEFINE i == azIn[p]
           k == <<i.user, i.client, i.res>>
           new == [s \in AzScopes |-> IF s \in i.scope
                     THEN 1 + (IF i.res = AzNone THEN 0 ELSE azEpoch[k])
                     ELSE azApproved[k][s]]
<1>1. i \in AzInput /\ i.op = "consent" /\ i.user \in AzUsers /\ i.sess \in azDisclosed
  BY DEF AuthorizeTypeOK, AzPhase
<1>2. i.sess \in AzRequests /\ i.scope \in SUBSET AzScopes /\ i.res \in MaybeResource
  BY <1>1 DEF AuthorizeTypeOK, AzInput
<1>3. k \in AzUsers \X AzClients \X MaybeResource /\ (i.res # AzNone => k \in GrantKeys)
  BY <1>1, <1>2 DEF GrantKeys, MaybeResource
<1>4. azApproved' = [azApproved EXCEPT ![k] = new]
  BY DEF PersistAndCode
<1>5. new \in [AzScopes -> Nat]
  BY <1>3 DEF AuthorizeTypeOK
<1> HIDE DEF new
<1>6. /\ azApproved'[k] = new
      /\ azApproved' \in [AzUsers \X AzClients \X MaybeResource -> [AzScopes -> Nat]]
  BY <1>3, <1>4, <1>5 DEF AuthorizeTypeOK
<1>7. azGrant' = IF i.res = AzNone THEN azGrant
                 ELSE [azGrant EXCEPT ![k] = [scopes |-> i.scope, revoked |-> FALSE]]
  BY DEF PersistAndCode, ConsentUpsert
<1>8. UpdateCodeHashAndScope(i.sess, p, i.scope)
  BY DEF PersistAndCode
<1>9. azGrant' \in [GrantKeys -> [scopes : SUBSET AzScopes, revoked : BOOLEAN]]
  <2>1. [scopes |-> i.scope, revoked |-> FALSE] \in [scopes : SUBSET AzScopes, revoked : BOOLEAN]
    BY <1>2
  <2> DEFINE g == [scopes |-> i.scope, revoked |-> FALSE]
  <2> HIDE DEF g
  <2>2. g \in [scopes : SUBSET AzScopes, revoked : BOOLEAN]
    BY <2>1 DEF g
  <2>3. azGrant' = IF i.res = AzNone THEN azGrant ELSE [azGrant EXCEPT ![k] = g]
    BY <1>7 DEF g
  <2> QED BY <2>2, <2>3, <1>3 DEF AuthorizeTypeOK
<1> QED BY <1>1, <1>2, <1>3, <1>4, <1>6, <1>7, <1>8, <1>9 DEF new

\* The client of a consent being recorded is that of its session.
LEMMA RecordedClient ==
    ASSUME AzPhase, AzSessions, AzRecords, NEW p \in AzRequests, azAt[p] = "record",
           azDisclosed \in SUBSET AzRequests
    PROVE  azIn[p].client \in AzClients
<1> DEFINE s == azIn[p].sess
<1>1. s \in azDisclosed /\ azIn[p].client = azIn[s].client
  BY DEF AzPhase, AzRecords
<1>2. azIn[s].op = "authorize"
  BY <1>1 DEF AzSessions
<1> QED BY <1>1, <1>2 DEF AzPhase

\* Every variable keeps its type.
LEMMA AzTypeStep ==
    ASSUME AuthorizeTypeOK, AzPhase, AzSessions, AzRecords, [AuthorizeNext]_azVars
    PROVE  AuthorizeTypeOK'
<1> USE CeilingAssumption, CatalogsAssumption, AzNoneAssumption
    DEF AuthorizeTypeOK, AzGoto, azReqVars, azSessVars, azHistVars
<1>1. ASSUME NEW p \in AzRequests, HandleAuthorize(p) PROVE AuthorizeTypeOK'
  BY <1>1 DEF HandleAuthorize, AuthorizeRequest, RequestedScope, CollectDefaultScopes,
       AzInput, AzLabels, MaybeUser, MaybeResource, GrantKeys
<1>2. ASSUME NEW p \in AzRequests, AuthorizeCreate(p) PROVE AuthorizeTypeOK'
  BY <1>2 DEF AuthorizeCreate, CreateSession, AzPhase, AzInput, AzRow, AzLabels
<1>3. ASSUME NEW p \in AzRequests, CompleteRead(p) PROVE AuthorizeTypeOK'
  BY <1>3 DEF CompleteRead, AzLabels
<1>4. ASSUME NEW p \in AzRequests, CompleteAuthorization(p) PROVE AuthorizeTypeOK'
  <2>1. azIn[p].scope \in SUBSET AzScopes
    BY DEF AzInput
  <2>2. azSess' \in [AzRequests -> AzRow \cup {AzNone}] /\ azCodes' \in SUBSET AzRequests
    BY <1>4, <2>1, CodeWritten DEF CompleteAuthorization
  <2> QED BY <1>4, <2>2 DEF CompleteAuthorization, AzLabels
<1>5. ASSUME NEW p \in AzRequests, HandlePostConsent(p) PROVE AuthorizeTypeOK'
  <2>1. PICK u \in AzUsers, s \in azDisclosed, action \in {"consent", "deny"} :
          \E scopes \in SUBSET azShown[<<u, s>>] : Submitted(p, u, s, action, scopes)
    BY <1>5, Zenon DEF HandlePostConsent, Submitted
  <2>2. PICK scopes \in SUBSET azShown[<<u, s>>] : Submitted(p, u, s, action, scopes)
    BY <2>1
  <2>3. s \in AzRequests /\ scopes \in SUBSET AzScopes
    BY <2>2
  <2>4. [Fresh EXCEPT !.op = action, !.user = u, !.scope = scopes, !.sess = s] \in AzInput
    BY <2>3 DEF Fresh, AzInput, MaybeUser, MaybeResource
  <2>5. azIn' \in [AzRequests -> AzInput]
    BY <2>2, <2>4 DEF Submitted
  <2> QED BY <2>2, <2>5 DEF Submitted, AzLabels
<1>6. ASSUME NEW p \in AzRequests, GrantConsentRead(p) PROVE AuthorizeTypeOK'
  <2>1. CASE UNCHANGED azIn
    BY <1>6, <2>1 DEF GrantConsentRead, AzLabels
  <2>2. CASE azIn' # azIn
    <3> DEFINE s == azIn[p].sess
    <3>1. s \in AzRequests /\ azSess[s] \in AzRow
      <4>1. s \in azDisclosed
        BY <1>6 DEF GrantConsentRead, AzPhase
      <4>2. HasSession(s)
        BY <1>6, <2>2 DEF GrantConsentRead
      <4> QED BY <4>1, <4>2 DEF HasSession
    <3>2. azIn' = [azIn EXCEPT ![p] = [[azIn[p] EXCEPT !.client = azSess[s].client]
                                              EXCEPT !.res = azSess[s].res]]
      BY <1>6, <2>2 DEF GrantConsentRead, AzInput
    <3>3. [[azIn[p] EXCEPT !.client = azSess[s].client] EXCEPT !.res = azSess[s].res] \in AzInput
      <4>1. azSess[s].client \in AzClients /\ azSess[s].res \in MaybeResource
        BY <3>1 DEF AzRow
      <4>2. PICK i \in AzInput : i = azIn[p]
        OBVIOUS
      <4>3. [[i EXCEPT !.client = azSess[s].client] EXCEPT !.res = azSess[s].res] \in AzInput
        BY <4>1 DEF AzInput
      <4> QED BY <4>2, <4>3
    <3>4. azIn' \in [AzRequests -> AzInput]
      BY <3>2, <3>3
    <3> QED BY <1>6, <3>4 DEF GrantConsentRead, AzLabels
  <2> QED BY <2>1, <2>2
<1>7. ASSUME NEW p \in AzRequests, GrantConsent(p) PROVE AuthorizeTypeOK'
  <2>1. CASE PersistAndCode(p)
    <3>1. azIn[p].client \in AzClients
      BY <1>7, RecordedClient DEF GrantConsent
    <3> HIDE DEF AuthorizeTypeOK
    <3>2. /\ azSess' \in [AzRequests -> AzRow \cup {AzNone}]
          /\ azApproved' \in [AzUsers \X AzClients \X MaybeResource -> [AzScopes -> Nat]]
      BY <1>7, <2>1, <3>1, ConsentRecorded, CodeWritten DEF GrantConsent
    <3>3. azGrant' \in [GrantKeys -> [scopes : SUBSET AzScopes, revoked : BOOLEAN]]
      BY <1>7, <2>1, <3>1, ConsentRecorded DEF GrantConsent
    <3> USE DEF AuthorizeTypeOK
    <3> QED BY <1>7, <2>1, <3>2, <3>3 DEF GrantConsent, PersistAndCode, AzLabels
  <2>2. CASE ~PersistAndCode(p)
    BY <1>7, <2>2 DEF GrantConsent, AzLabels
  <2> QED BY <2>1, <2>2
<1>8. ASSUME NEW p \in AzRequests, DenyConsentRead(p) PROVE AuthorizeTypeOK'
  BY <1>8 DEF DenyConsentRead, AzLabels
<1>9. ASSUME NEW p \in AzRequests, DenyConsent(p) PROVE AuthorizeTypeOK'
  <2>1. azIn[p].sess \in azDisclosed
    BY <1>9 DEF DenyConsent, AzPhase
  <2>2. azSess' \in [AzRequests -> AzRow \cup {AzNone}] /\ azDenied' \in SUBSET AzRequests
    <3>1. azIn[p].sess \in AzRequests
      BY <2>1
    <3>2. CASE UNCHANGED <<azSess, azDenied>>
      BY <3>2
    <3>3. CASE DeleteSession(azIn[p].sess) /\ azDenied' = azDenied \cup {azIn[p].sess}
      BY <3>1, <3>3 DEF DeleteSession
    <3> QED BY <1>9, <3>2, <3>3 DEF DenyConsent
  <2> QED BY <1>9, <2>2 DEF DenyConsent, AzLabels
<1>10. ASSUME NEW p \in AzRequests, HandleAuthCodeExchange(p) PROVE AuthorizeTypeOK'
  <2>1. PICK s \in AzRequests :
           /\ HasSession(s)
           /\ azSess' = [azSess EXCEPT ![s].consumed = TRUE]
           /\ azTokens' = IF s \in azExpired \/ azSess[s].user = AzNone THEN azTokens
                          ELSE [azTokens EXCEPT ![p] = azSess[s]]
    BY <1>10 DEF HandleAuthCodeExchange
  <2>2. azSess[s] \in AzRow
    BY <2>1 DEF HasSession
  <2>3. azSess' \in [AzRequests -> AzRow \cup {AzNone}]
    BY <2>1, <2>2 DEF AzRow
  <2> QED BY <1>10, <2>1, <2>2, <2>3 DEF HandleAuthCodeExchange
<1>11. ASSUME NEW p \in AzRequests, ExpireAuthSession(p) PROVE AuthorizeTypeOK'
  BY <1>11 DEF ExpireAuthSession
<1>12. ASSUME NEW p \in AzRequests, PurgeSession(p) PROVE AuthorizeTypeOK'
  BY <1>12 DEF PurgeSession, DeleteSession
<1>13. ASSUME NEW u \in AzUsers, NEW s \in AzRequests, ViewConsent(u, s) PROVE AuthorizeTypeOK'
  <2>1. azSess[s] \in AzRow
    BY <1>13 DEF ViewConsent, HasSession
  <2>2. FilterScopes(azSess[s]) \in SUBSET AzScopes
    BY <2>1 DEF FilterScopes, AzRow, MaybeResource
  <2> QED BY <1>13, <2>2 DEF ViewConsent
<1>14. ASSUME NEW k \in GrantKeys, RevokeConsentGrant(k) PROVE AuthorizeTypeOK'
  <2>1. [azGrant[k] EXCEPT !.revoked = TRUE] \in [scopes : SUBSET AzScopes, revoked : BOOLEAN]
    <3>1. PICK g \in [scopes : SUBSET AzScopes, revoked : BOOLEAN] : g = azGrant[k]
      OBVIOUS
    <3>2. [g EXCEPT !.revoked = TRUE] \in [scopes : SUBSET AzScopes, revoked : BOOLEAN]
      OBVIOUS
    <3> QED BY <3>1, <3>2
  <2>2. azGrant' \in [GrantKeys -> [scopes : SUBSET AzScopes, revoked : BOOLEAN]]
    BY <1>14, <2>1 DEF RevokeConsentGrant, ConsentRevokeRow
  <2>3. azEpoch' \in [GrantKeys -> Nat]
    BY <1>14 DEF RevokeConsentGrant
  <2> QED BY <1>14, <2>2, <2>3 DEF RevokeConsentGrant
<1>15. ASSUME NEW r \in AzResources, ChangeCatalog(r) PROVE AuthorizeTypeOK'
  BY <1>15 DEF ChangeCatalog
<1>16. CASE UNCHANGED azVars
  BY <1>16 DEF azVars
<1> QED BY <1>1, <1>2, <1>3, <1>4, <1>5, <1>6, <1>7, <1>8, <1>9, <1>10, <1>11, <1>12, <1>13,
       <1>14, <1>15, <1>16
        DEF AuthorizeNext, AuthorizeStep

\* A request goes through the calls of its kind.
LEMMA AzPhaseStep ==
    ASSUME AuthorizeTypeOK, AzPhase, AzSessions, [AuthorizeNext]_azVars
    PROVE  AzPhase'
<1> USE AzNoneAssumption
    DEF AuthorizeTypeOK, AzInput, AzLabels, AzPhase, AzGoto, azReqVars, azSessVars, azHistVars
<1>1. ASSUME NEW p \in AzRequests, HandleAuthorize(p) PROVE AzPhase'
  BY <1>1 DEF HandleAuthorize, AuthorizeRequest, AzSessions
<1>2. ASSUME NEW p \in AzRequests, AuthorizeCreate(p) PROVE AzPhase'
  BY <1>2 DEF AuthorizeCreate, CreateSession, AzSessions
<1>3. ASSUME NEW p \in AzRequests, CompleteRead(p) PROVE AzPhase'
  BY <1>3 DEF CompleteRead
<1>4. ASSUME NEW p \in AzRequests, CompleteAuthorization(p) PROVE AzPhase'
  BY <1>4 DEF CompleteAuthorization
<1>5. ASSUME NEW p \in AzRequests, HandlePostConsent(p) PROVE AzPhase'
  BY <1>5 DEF HandlePostConsent, Fresh
<1>6. ASSUME NEW p \in AzRequests, GrantConsentRead(p) PROVE AzPhase'
  BY <1>6 DEF GrantConsentRead, HasSession, AzRow
<1>7. ASSUME NEW p \in AzRequests, GrantConsent(p) PROVE AzPhase'
  BY <1>7 DEF GrantConsent
<1>8. ASSUME NEW p \in AzRequests, DenyConsentRead(p) PROVE AzPhase'
  BY <1>8 DEF DenyConsentRead
<1>9. ASSUME NEW p \in AzRequests, DenyConsent(p) PROVE AzPhase'
  BY <1>9 DEF DenyConsent
<1>10. ASSUME NEW p \in AzRequests, HandleAuthCodeExchange(p) PROVE AzPhase'
  BY <1>10 DEF HandleAuthCodeExchange
<1>11. ASSUME NEW p \in AzRequests, ExpireAuthSession(p) PROVE AzPhase'
  BY <1>11 DEF ExpireAuthSession
<1>12. ASSUME NEW p \in AzRequests, PurgeSession(p) PROVE AzPhase'
  BY <1>12 DEF PurgeSession
<1>13. ASSUME NEW u \in AzUsers, NEW s \in AzRequests, ViewConsent(u, s) PROVE AzPhase'
  BY <1>13 DEF ViewConsent
<1>14. ASSUME NEW k \in GrantKeys, RevokeConsentGrant(k) PROVE AzPhase'
  BY <1>14 DEF RevokeConsentGrant
<1>15. ASSUME NEW r \in AzResources, ChangeCatalog(r) PROVE AzPhase'
  BY <1>15 DEF ChangeCatalog
<1>16. CASE UNCHANGED azVars
  BY <1>16 DEF azVars
<1> QED BY <1>1, <1>2, <1>3, <1>4, <1>5, <1>6, <1>7, <1>8, <1>9, <1>10, <1>11, <1>12, <1>13,
       <1>14, <1>15, <1>16
        DEF AuthorizeNext, AuthorizeStep


\* Nothing is approved any less for what happens later: GrantConsent overwrites an
\* approval with one of at least the same epoch, and no other step touches any.
LEMMA ApprovalsStand ==
    ASSUME AuthorizeTypeOK, AzPhase, AzSessions, AzRecords, AzApprovals, [AuthorizeNext]_azVars
    PROVE  \A k \in AzUsers \X AzClients \X MaybeResource, s \in AzScopes :
               /\ azApproved[k][s] > 0 => azApproved'[k][s] > 0
               /\ k \in GrantKeys => azApproved'[k][s] >= azApproved[k][s]
<1> SUFFICES ASSUME NEW k \in AzUsers \X AzClients \X MaybeResource, NEW s \in AzScopes
             PROVE  /\ azApproved[k][s] > 0 => azApproved'[k][s] > 0
                    /\ k \in GrantKeys => azApproved'[k][s] >= azApproved[k][s]
  OBVIOUS
<1>1. azApproved[k][s] \in Nat
  BY DEF AuthorizeTypeOK
<1>2. ASSUME NEW p \in AzRequests, GrantConsent(p), PersistAndCode(p)
      PROVE  /\ azApproved[k][s] > 0 => azApproved'[k][s] > 0
             /\ k \in GrantKeys => azApproved'[k][s] >= azApproved[k][s]
  <2> DEFINE i == azIn[p]
             g == <<i.user, i.client, i.res>>
  <2>1. azAt[p] = "record" /\ i.client \in AzClients
    BY <1>2, RecordedClient DEF GrantConsent, AuthorizeTypeOK
  <2>2. /\ g \in AzUsers \X AzClients \X MaybeResource
        /\ i.res # AzNone => g \in GrantKeys
        /\ azApproved' = [azApproved EXCEPT ![g] = azApproved'[g]]
        /\ azApproved'[g] = [t \in AzScopes |-> IF t \in i.scope
                               THEN 1 + (IF i.res = AzNone THEN 0 ELSE azEpoch[g])
                               ELSE azApproved[g][t]]
    BY <1>2, <2>1, ConsentRecorded
  <2>3. CASE k # g
    BY <1>1, <2>2, <2>3 DEF AuthorizeTypeOK
  <2>4. CASE k = g
    <3>1. azApproved'[k][s] = IF s \in i.scope
                               THEN 1 + (IF i.res = AzNone THEN 0 ELSE azEpoch[g])
                               ELSE azApproved[k][s]
      BY <2>2, <2>4
    <3>2. i.res # AzNone => azEpoch[g] \in Nat /\ azApproved[k][s] <= azEpoch[g] + 1
      BY <2>2, <2>4 DEF AuthorizeTypeOK, AzApprovals
    <3>3. k \in GrantKeys => i.res # AzNone
      BY <2>4, AzNoneAssumption DEF GrantKeys
    <3> QED BY <1>1, <3>1, <3>2, <3>3
  <2> QED BY <2>3, <2>4
<1>3. CASE azApproved' = azApproved
  BY <1>1, <1>3
<1>4. azApproved' = azApproved \/ \E p \in AzRequests : GrantConsent(p) /\ PersistAndCode(p)
  <2> USE DEF azHistVars
  <2>1. ASSUME NEW p \in AzRequests, AuthorizeStep(p)
        PROVE  azApproved' = azApproved \/ (GrantConsent(p) /\ PersistAndCode(p))
    <3>1. ASSUME GrantConsent(p) PROVE PersistAndCode(p) \/ azApproved' = azApproved
      BY <3>1 DEF GrantConsent
    <3>2. ASSUME HandleAuthorize(p) PROVE azApproved' = azApproved
      BY <3>2 DEF HandleAuthorize, AuthorizeRequest
    <3>3. ASSUME AuthorizeCreate(p) PROVE azApproved' = azApproved
      BY <3>3 DEF AuthorizeCreate
    <3>4. ASSUME CompleteRead(p) \/ CompleteAuthorization(p) PROVE azApproved' = azApproved
      BY <3>4 DEF CompleteRead, CompleteAuthorization
    <3>5. ASSUME HandlePostConsent(p) \/ GrantConsentRead(p) PROVE azApproved' = azApproved
      BY <3>5 DEF HandlePostConsent, GrantConsentRead
    <3>6. ASSUME DenyConsentRead(p) \/ DenyConsent(p) PROVE azApproved' = azApproved
      BY <3>6 DEF DenyConsentRead, DenyConsent
    <3> QED BY <2>1, <3>1, <3>2, <3>3, <3>4, <3>5, <3>6, Zenon DEF AuthorizeStep
  <2>2. ASSUME NEW p \in AzRequests,
               HandleAuthCodeExchange(p) \/ ExpireAuthSession(p) \/ PurgeSession(p)
        PROVE  azApproved' = azApproved
    BY <2>2 DEF HandleAuthCodeExchange, ExpireAuthSession, PurgeSession
  <2>3. ASSUME NEW u \in AzUsers, NEW t \in AzRequests, ViewConsent(u, t)
        PROVE  azApproved' = azApproved
    BY <2>3 DEF ViewConsent
  <2>4. ASSUME NEW g \in GrantKeys, RevokeConsentGrant(g) PROVE azApproved' = azApproved
    BY <2>4 DEF RevokeConsentGrant
  <2>5. ASSUME NEW r \in AzResources, ChangeCatalog(r) PROVE azApproved' = azApproved
    BY <2>5 DEF ChangeCatalog
  <2>6. CASE UNCHANGED azVars
    BY <2>6 DEF azVars
  <2> QED BY <2>1, <2>2, <2>3, <2>4, <2>5, <2>6 DEF AuthorizeNext
<1> QED BY <1>2, <1>3, <1>4

\* A session stays the row of the request that created it.
LEMMA AzSessionsStep ==
    ASSUME AuthorizeTypeOK, AzPhase, AzSessions, [AuthorizeNext]_azVars
    PROVE  AzSessions'
<1> USE AzNoneAssumption
    DEF AuthorizeTypeOK, AzGoto, azReqVars, azSessVars, azHistVars, AzSessions
<1>1. ASSUME NEW p \in AzRequests, HandleAuthorize(p) PROVE AzSessions'
  BY <1>1 DEF HandleAuthorize, AuthorizeRequest, AzPhase
<1>2. ASSUME NEW p \in AzRequests, AuthorizeCreate(p) PROVE AzSessions'
  BY <1>2 DEF AuthorizeCreate, CreateSession, AzPhase, AzInput
<1>3. ASSUME NEW p \in AzRequests, CompleteRead(p) PROVE AzSessions'
  BY <1>3 DEF CompleteRead, AzPhase
<1>4. ASSUME NEW p \in AzRequests, CompleteAuthorization(p) PROVE AzSessions'
  <2>1. azAt[p] = "complete" /\ azIn[p].scope \in SUBSET AzScopes
    BY <1>4 DEF CompleteAuthorization, AzInput
  <2>2. CASE UNCHANGED azSess
    BY <1>4, <2>2 DEF CompleteAuthorization
  <2>3. CASE UpdateCodeHashAndScope(p, p, azIn[p].scope)
    <3>1. /\ azSess[p] # AzNone
          /\ azSess'[p].client = azSess[p].client /\ azSess'[p].user = azSess[p].user
          /\ azSess'[p].res = azSess[p].res
          /\ \A t \in AzRequests \ {p} : azSess'[t] = azSess[t]
      BY <2>1, <2>3, CodeWritten DEF UpdateCodeHashAndScope, HasSession
    <3> QED BY <1>4, <2>1, <3>1 DEF CompleteAuthorization
  <2> QED BY <1>4, <2>2, <2>3 DEF CompleteAuthorization
<1>5. ASSUME NEW p \in AzRequests, HandlePostConsent(p) PROVE AzSessions'
  BY <1>5 DEF HandlePostConsent, AzPhase
<1>6. ASSUME NEW p \in AzRequests, GrantConsentRead(p) PROVE AzSessions'
  BY <1>6 DEF GrantConsentRead, AzPhase
<1>7. ASSUME NEW p \in AzRequests, GrantConsent(p) PROVE AzSessions'
  <2> DEFINE s == azIn[p].sess
  <2>1. azAt[p] = "record" /\ azIn[p].scope \in SUBSET AzScopes /\ s \in AzRequests
    BY <1>7 DEF GrantConsent, AzInput, AzPhase
  <2>2. CASE UNCHANGED azSess
    BY <1>7, <2>2 DEF GrantConsent
  <2>3. CASE UpdateCodeHashAndScope(s, p, azIn[p].scope)
    <3>1. /\ azSess[s] # AzNone
          /\ azSess'[s].client = azSess[s].client /\ azSess'[s].user = azSess[s].user
          /\ azSess'[s].res = azSess[s].res
          /\ \A t \in AzRequests \ {s} : azSess'[t] = azSess[t]
      <4>1. azSess[s] # AzNone
        BY <2>3 DEF UpdateCodeHashAndScope, HasSession
      <4> HIDE DEF AuthorizeTypeOK, AzSessions, s
      <4> QED BY <2>1, <2>3, <4>1, CodeWritten
    <3> QED BY <1>7, <2>1, <3>1 DEF GrantConsent
  <2> QED BY <1>7, <2>2, <2>3 DEF GrantConsent, PersistAndCode
<1>8. ASSUME NEW p \in AzRequests, DenyConsentRead(p) PROVE AzSessions'
  BY <1>8 DEF DenyConsentRead
<1>9. ASSUME NEW p \in AzRequests, DenyConsent(p) PROVE AzSessions'
  BY <1>9 DEF DenyConsent, DeleteSession, AzPhase
<1>10. ASSUME NEW p \in AzRequests, HandleAuthCodeExchange(p) PROVE AzSessions'
  <2>1. PICK s \in AzRequests : CodeRedeemed(p, s)
    BY <1>10 DEF HandleAuthCodeExchange, CodeRedeemed
  <2>2. /\ azSess[s] # AzNone
        /\ azSess'[s].client = azSess[s].client /\ azSess'[s].user = azSess[s].user
        /\ azSess'[s].res = azSess[s].res
        /\ \A t \in AzRequests \ {s} : azSess'[t] = azSess[t]
    BY <2>1, CodeConsumed DEF CodeRedeemed, HasSession
  <2> QED BY <1>10, <2>2 DEF HandleAuthCodeExchange
<1>11. ASSUME NEW p \in AzRequests, ExpireAuthSession(p) PROVE AzSessions'
  BY <1>11 DEF ExpireAuthSession
<1>12. ASSUME NEW p \in AzRequests, PurgeSession(p) PROVE AzSessions'
  BY <1>12 DEF PurgeSession, DeleteSession
<1>13. ASSUME NEW u \in AzUsers, NEW s \in AzRequests, ViewConsent(u, s) PROVE AzSessions'
  BY <1>13 DEF ViewConsent
<1>14. ASSUME NEW k \in GrantKeys, RevokeConsentGrant(k) PROVE AzSessions'
  BY <1>14 DEF RevokeConsentGrant
<1>15. ASSUME NEW r \in AzResources, ChangeCatalog(r) PROVE AzSessions'
  BY <1>15 DEF ChangeCatalog
<1>16. CASE UNCHANGED azVars
  BY <1>16 DEF azVars
<1> QED BY <1>1, <1>2, <1>3, <1>4, <1>5, <1>6, <1>7, <1>8, <1>9, <1>10, <1>11, <1>12, <1>13,
       <1>14, <1>15, <1>16
        DEF AuthorizeNext, AuthorizeStep

\* A consent is recorded for the session's user, client and resource.
LEMMA AzRecordsStep ==
    ASSUME AuthorizeTypeOK, AzPhase, AzSessions, AzRecords, [AuthorizeNext]_azVars
    PROVE  AzRecords'
<1> USE AzNoneAssumption DEF AuthorizeTypeOK, AzGoto, azReqVars, azSessVars, azHistVars, AzRecords
<1>1. ASSUME NEW p \in AzRequests, HandleAuthorize(p) PROVE AzRecords'
  BY <1>1 DEF HandleAuthorize, AuthorizeRequest, AzPhase, AzSessions
<1>2. ASSUME NEW p \in AzRequests, AuthorizeCreate(p) PROVE AzRecords'
  BY <1>2 DEF AuthorizeCreate, AzPhase
<1>3. ASSUME NEW p \in AzRequests, CompleteRead(p) PROVE AzRecords'
  BY <1>3 DEF CompleteRead
<1>4. ASSUME NEW p \in AzRequests, CompleteAuthorization(p) PROVE AzRecords'
  BY <1>4 DEF CompleteAuthorization
<1>5. ASSUME NEW p \in AzRequests, HandlePostConsent(p) PROVE AzRecords'
  BY <1>5 DEF HandlePostConsent, AzPhase, AzSessions
<1>6. ASSUME NEW p \in AzRequests, GrantConsentRead(p) PROVE AzRecords'
  <2> DEFINE s == azIn[p].sess
  <2>1. azAt[p] = "submit" /\ s \in azDisclosed /\ s \in AzRequests
    BY <1>6 DEF GrantConsentRead, AzPhase
  <2>2. CASE UNCHANGED azIn /\ azAt' = [azAt EXCEPT ![p] = "done"]
    BY <1>6, <2>2 DEF GrantConsentRead
  <2>3. CASE /\ HasSession(s) /\ OwnsSession(p)
             /\ azIn' = [azIn EXCEPT ![p].client = azSess[s].client, ![p].res = azSess[s].res]
             /\ azAt' = [azAt EXCEPT ![p] = "record"]
    <3>1. /\ azSess[s].client = azIn[s].client /\ azSess[s].res = azIn[s].res
          /\ azIn[p].user = azIn[s].user /\ azAt[s] = "done"
      BY <2>1, <2>3 DEF HasSession, OwnsSession, AzSessions
    <3>2. /\ azIn'[p].client = azIn[s].client /\ azIn'[p].res = azIn[s].res
          /\ azIn'[p].user = azIn[p].user /\ azIn'[p].sess = s
      BY <2>3, <3>1 DEF AzInput
    <3>3. \A t \in AzRequests : azAt[t] = "record" => azIn[t].sess \in azDisclosed
      BY DEF AzPhase
    <3>4. \A t \in azDisclosed : t # p
      BY <2>1 DEF AzSessions
    <3>5. \A t \in AzRequests \ {p} : azIn'[t] = azIn[t] /\ azAt'[t] = azAt[t]
      BY <2>3
    <3> QED BY <2>1, <3>1, <3>2, <3>3, <3>4, <3>5
  <2> QED BY <1>6, <2>2, <2>3 DEF GrantConsentRead
<1>7. ASSUME NEW p \in AzRequests, GrantConsent(p) PROVE AzRecords'
  BY <1>7 DEF GrantConsent
<1>8. ASSUME NEW p \in AzRequests, DenyConsentRead(p) PROVE AzRecords'
  BY <1>8 DEF DenyConsentRead
<1>9. ASSUME NEW p \in AzRequests, DenyConsent(p) PROVE AzRecords'
  BY <1>9 DEF DenyConsent
<1>10. ASSUME NEW p \in AzRequests, HandleAuthCodeExchange(p) PROVE AzRecords'
  BY <1>10 DEF HandleAuthCodeExchange
<1>11. ASSUME NEW p \in AzRequests, ExpireAuthSession(p) PROVE AzRecords'
  BY <1>11 DEF ExpireAuthSession
<1>12. ASSUME NEW p \in AzRequests, PurgeSession(p) PROVE AzRecords'
  BY <1>12 DEF PurgeSession
<1>13. ASSUME NEW u \in AzUsers, NEW s \in AzRequests, ViewConsent(u, s) PROVE AzRecords'
  BY <1>13 DEF ViewConsent
<1>14. ASSUME NEW k \in GrantKeys, RevokeConsentGrant(k) PROVE AzRecords'
  BY <1>14 DEF RevokeConsentGrant
<1>15. ASSUME NEW r \in AzResources, ChangeCatalog(r) PROVE AzRecords'
  BY <1>15 DEF ChangeCatalog
<1>16. CASE UNCHANGED azVars
  BY <1>16 DEF azVars
<1> QED BY <1>1, <1>2, <1>3, <1>4, <1>5, <1>6, <1>7, <1>8, <1>9, <1>10, <1>11, <1>12, <1>13,
       <1>14, <1>15, <1>16
        DEF AuthorizeNext, AuthorizeStep

\* Approvals keep to the epochs of their grant.
LEMMA AzApprovalsStep ==
    ASSUME AuthorizeTypeOK, AzPhase, AzSessions, AzRecords, AzApprovals, [AuthorizeNext]_azVars
    PROVE  AzApprovals'
<1> USE AzNoneAssumption
    DEF AuthorizeTypeOK, AzGoto, azReqVars, azSessVars, azHistVars, AzApprovals
<1>1. ASSUME NEW p \in AzRequests, HandleAuthorize(p) PROVE AzApprovals'
  BY <1>1 DEF HandleAuthorize, AuthorizeRequest
<1>2. ASSUME NEW p \in AzRequests, AuthorizeCreate(p) PROVE AzApprovals'
  BY <1>2 DEF AuthorizeCreate
<1>3. ASSUME NEW p \in AzRequests, CompleteRead(p) PROVE AzApprovals'
  BY <1>3 DEF CompleteRead
<1>4. ASSUME NEW p \in AzRequests, CompleteAuthorization(p) PROVE AzApprovals'
  BY <1>4 DEF CompleteAuthorization
<1>5. ASSUME NEW p \in AzRequests, HandlePostConsent(p) PROVE AzApprovals'
  BY <1>5 DEF HandlePostConsent
<1>6. ASSUME NEW p \in AzRequests, GrantConsentRead(p) PROVE AzApprovals'
  BY <1>6 DEF GrantConsentRead
<1>7. ASSUME NEW p \in AzRequests, GrantConsent(p) PROVE AzApprovals'
  <2> DEFINE i == azIn[p]
             g == <<i.user, i.client, i.res>>
  <2>1. azAt[p] = "record" /\ i.client \in AzClients
    BY <1>7, RecordedClient DEF GrantConsent
  <2>2. azEpoch' = azEpoch
    BY <1>7 DEF GrantConsent
  <2>3. CASE PersistAndCode(p)
    <3>1. /\ g \in AzUsers \X AzClients \X MaybeResource
          /\ i.res # AzNone => g \in GrantKeys
          /\ azGrant' = IF i.res = AzNone THEN azGrant
                         ELSE [azGrant EXCEPT ![g] = [scopes |-> i.scope, revoked |-> FALSE]]
          /\ azApproved' = [azApproved EXCEPT ![g] = azApproved'[g]]
          /\ azApproved'[g] = [t \in AzScopes |-> IF t \in i.scope
                                 THEN 1 + (IF i.res = AzNone THEN 0 ELSE azEpoch[g])
                                 ELSE azApproved[g][t]]
      <4> HIDE DEF AuthorizeTypeOK
      <4> QED BY <2>1, <2>3, ConsentRecorded
    <3> SUFFICES ASSUME NEW k \in GrantKeys, NEW s \in AzScopes
                 PROVE  /\ azApproved'[k][s] <= azEpoch[k] + 1
                        /\ ~azGrant'[k].revoked /\ s \in azGrant'[k].scopes =>
                              azApproved'[k][s] = azEpoch[k] + 1
      BY <2>2
    <3>2. CASE k # g
      <4>1. azGrant'[k] = azGrant[k] /\ azApproved'[k] = azApproved[k]
        BY <3>1, <3>2 DEF GrantKeys, MaybeResource
      <4> QED BY <4>1
    <3>3. CASE k = g
      <4>1. i.res # AzNone
        BY <3>3 DEF GrantKeys
      <4>2. azApproved'[k][s] = IF s \in i.scope THEN 1 + azEpoch[k] ELSE azApproved[k][s]
        BY <3>1, <3>3, <4>1
      <4>3. azGrant'[k].scopes = i.scope
        BY <3>1, <3>3, <4>1
      <4>4. azEpoch[k] \in Nat /\ azApproved[k][s] <= azEpoch[k] + 1
        OBVIOUS
      <4> QED BY <4>2, <4>3, <4>4
    <3> QED BY <3>2, <3>3
  <2>4. CASE ~PersistAndCode(p)
    BY <1>7, <2>4 DEF GrantConsent
  <2> QED BY <2>3, <2>4
<1>8. ASSUME NEW p \in AzRequests, DenyConsentRead(p) PROVE AzApprovals'
  BY <1>8 DEF DenyConsentRead
<1>9. ASSUME NEW p \in AzRequests, DenyConsent(p) PROVE AzApprovals'
  BY <1>9 DEF DenyConsent
<1>10. ASSUME NEW p \in AzRequests, HandleAuthCodeExchange(p) PROVE AzApprovals'
  BY <1>10 DEF HandleAuthCodeExchange
<1>11. ASSUME NEW p \in AzRequests, ExpireAuthSession(p) PROVE AzApprovals'
  BY <1>11 DEF ExpireAuthSession
<1>12. ASSUME NEW p \in AzRequests, PurgeSession(p) PROVE AzApprovals'
  BY <1>12 DEF PurgeSession
<1>13. ASSUME NEW u \in AzUsers, NEW s \in AzRequests, ViewConsent(u, s) PROVE AzApprovals'
  BY <1>13 DEF ViewConsent
<1>14. ASSUME NEW k \in GrantKeys, RevokeConsentGrant(k) PROVE AzApprovals'
  <2>1. azEpoch' = [azEpoch EXCEPT ![k] = azEpoch[k] + 1] /\ azApproved' = azApproved
    BY <1>14 DEF RevokeConsentGrant
  <2>2. azGrant'[k].revoked
    <3>1. PICK g \in [scopes : SUBSET AzScopes, revoked : BOOLEAN] : g = azGrant[k]
      OBVIOUS
    <3>2. azGrant' = [azGrant EXCEPT ![k] = [g EXCEPT !.revoked = TRUE]]
      BY <1>14, <3>1 DEF RevokeConsentGrant, ConsentRevokeRow
    <3> QED BY <3>2
  <2>3. \A g \in GrantKeys \ {k} : azGrant'[g] = azGrant[g] /\ azEpoch'[g] = azEpoch[g]
    BY <1>14 DEF RevokeConsentGrant, ConsentRevokeRow
  <2>4. azEpoch'[k] = azEpoch[k] + 1 /\ azEpoch[k] \in Nat
    BY <2>1
  <2>5. \A g \in GrantKeys, s \in AzScopes : azApproved[g][s] \in Nat
    BY DEF GrantKeys, MaybeResource
  <2> SUFFICES ASSUME NEW g \in GrantKeys, NEW s \in AzScopes
               PROVE  /\ azApproved[g][s] <= azEpoch'[g] + 1
                      /\ ~azGrant'[g].revoked /\ s \in azGrant'[g].scopes =>
                            azApproved[g][s] = azEpoch'[g] + 1
    BY <2>1
  <2> QED BY <2>2, <2>3, <2>4, <2>5
<1>15. ASSUME NEW r \in AzResources, ChangeCatalog(r) PROVE AzApprovals'
  BY <1>15 DEF ChangeCatalog
<1>16. CASE UNCHANGED azVars
  BY <1>16 DEF azVars
<1> QED BY <1>1, <1>2, <1>3, <1>4, <1>5, <1>6, <1>7, <1>8, <1>9, <1>10, <1>11, <1>12, <1>13,
       <1>14, <1>15, <1>16
        DEF AuthorizeNext, AuthorizeStep

\* A silent flow keeps the approvals it started from.
LEMMA AzSilentStep ==
    ASSUME AuthorizeTypeOK, AzPhase, AzSessions, AzRecords, AzApprovals, AzSilent,
           [AuthorizeNext]_azVars
    PROVE  AzSilent'
<1> USE AzNoneAssumption DEF AuthorizeTypeOK, AzGoto, azReqVars, azSessVars, azHistVars
<1> DEFINE Rests(q) == azIn[q].op = "authorize" /\ azIn[q].silent =>
        \A s \in azIn[q].scope :
            azApproved[<<azIn[q].user, azIn[q].client, azIn[q].res>>][s] > azIn[q].epoch
<1>0. ASSUME NEW q \in AzRequests, azIn'[q] = azIn[q] PROVE Rests(q)'
  <2> HAVE azIn'[q].op = "authorize" /\ azIn'[q].silent
  <2> TAKE s \in azIn'[q].scope
  <2> DEFINE k == <<azIn[q].user, azIn[q].client, azIn[q].res>>
  <2>1. k \in GrantKeys /\ s \in AzScopes /\ azIn[q].epoch \in Nat
    BY <1>0 DEF AzPhase, AzInput, GrantKeys, MaybeUser, MaybeResource
  <2>2. azApproved[k][s] > azIn[q].epoch
    BY <1>0, <2>1 DEF AzSilent
  <2>3. /\ azApproved'[k][s] >= azApproved[k][s]
        /\ azApproved'[k][s] \in Nat
        /\ azApproved[k][s] \in Nat
    BY <2>1, ApprovalsStand, AzTypeStep DEF GrantKeys, MaybeResource
  <2> QED BY <1>0, <2>1, <2>2, <2>3
<1>00. ASSUME azIn' = azIn PROVE AzSilent'
  BY <1>0, <1>00 DEF AzSilent
<1> HIDE DEF Rests
<1>1. ASSUME NEW p \in AzRequests, HandleAuthorize(p) PROVE AzSilent'
  <2>1. PICK u \in MaybeUser, c \in AzClients, res \in MaybeResource, scope \in SUBSET AzScopes :
           AuthorizeRequest(p, u, c, res, scope)
    BY <1>1 DEF HandleAuthorize
  <2> DEFINE req == RequestedScope(c, res, scope)
             k == <<u, c, res>>
             silent == u # AzNone /\ res # AzNone /\ req \subseteq ConsentGet(k)
             new == [op |-> "authorize", user |-> u, client |-> c, res |-> res,
                     scope |-> req, sess |-> p, silent |-> silent,
                     epoch |-> IF u # AzNone /\ res # AzNone THEN azEpoch[k] ELSE 0]
  <2>2. azIn' = [azIn EXCEPT ![p] = new] /\ azApproved' = azApproved
    BY <2>1 DEF AuthorizeRequest
  <2>3. \A q \in AzRequests \ {p} : azIn'[q] = azIn[q]
    BY <2>2
  <2>4. Rests(p)'
    <3>1. azIn'[p] = new
      BY <2>2
    <3>2. ASSUME silent, NEW s \in req PROVE azApproved[k][s] > azEpoch[k]
      <4>1. k \in GrantKeys /\ s \in ConsentGet(k)
        BY <3>2 DEF GrantKeys, MaybeUser, MaybeResource
      <4>2. ~azGrant[k].revoked /\ s \in azGrant[k].scopes
        BY <4>1 DEF ConsentGet
      <4>3. s \in AzScopes
        BY <4>1, <4>2
      <4>4. azApproved[k][s] = azEpoch[k] + 1 /\ azEpoch[k] \in Nat
        BY <4>1, <4>2, <4>3 DEF AzApprovals
      <4> QED BY <4>4
    <3> HIDE DEF silent, req
    <3> QED BY <2>2, <3>1, <3>2 DEF Rests, silent
  <2> QED BY <1>0, <2>3, <2>4 DEF Rests, AzSilent
<1>2. ASSUME NEW p \in AzRequests, AuthorizeCreate(p) PROVE AzSilent'
  BY <1>2, <1>00 DEF AuthorizeCreate
<1>3. ASSUME NEW p \in AzRequests, CompleteRead(p) PROVE AzSilent'
  BY <1>3, <1>00 DEF CompleteRead
<1>4. ASSUME NEW p \in AzRequests, CompleteAuthorization(p) PROVE AzSilent'
  BY <1>4, <1>00 DEF CompleteAuthorization
<1>5. ASSUME NEW p \in AzRequests, HandlePostConsent(p) PROVE AzSilent'
  <2>1. PICK u \in AzUsers, s \in azDisclosed, action \in {"consent", "deny"} :
          \E scopes \in SUBSET azShown[<<u, s>>] : Submitted(p, u, s, action, scopes)
    BY <1>5, Zenon DEF HandlePostConsent, Submitted
  <2>2. azIn'[p].op # "authorize" /\ \A q \in AzRequests \ {p} : azIn'[q] = azIn[q]
    BY <2>1 DEF Submitted, Fresh
  <2> QED BY <1>0, <2>2 DEF Rests, AzSilent
<1>6. ASSUME NEW p \in AzRequests, GrantConsentRead(p) PROVE AzSilent'
  <2>1. azIn'[p].op # "authorize" /\ \A q \in AzRequests \ {p} : azIn'[q] = azIn[q]
    BY <1>6 DEF GrantConsentRead, AzPhase, AzInput
  <2> QED BY <1>0, <2>1 DEF Rests, AzSilent
<1>7. ASSUME NEW p \in AzRequests, GrantConsent(p) PROVE AzSilent'
  BY <1>7, <1>00 DEF GrantConsent
<1>8. ASSUME NEW p \in AzRequests, DenyConsentRead(p) PROVE AzSilent'
  BY <1>8, <1>00 DEF DenyConsentRead
<1>9. ASSUME NEW p \in AzRequests, DenyConsent(p) PROVE AzSilent'
  BY <1>9, <1>00 DEF DenyConsent
<1>10. ASSUME NEW p \in AzRequests, HandleAuthCodeExchange(p) PROVE AzSilent'
  BY <1>10, <1>00 DEF HandleAuthCodeExchange
<1>11. ASSUME NEW p \in AzRequests, ExpireAuthSession(p) PROVE AzSilent'
  BY <1>11, <1>00 DEF ExpireAuthSession
<1>12. ASSUME NEW p \in AzRequests, PurgeSession(p) PROVE AzSilent'
  BY <1>12, <1>00 DEF PurgeSession
<1>13. ASSUME NEW u \in AzUsers, NEW s \in AzRequests, ViewConsent(u, s) PROVE AzSilent'
  BY <1>13, <1>00 DEF ViewConsent
<1>14. ASSUME NEW k \in GrantKeys, RevokeConsentGrant(k) PROVE AzSilent'
  BY <1>14, <1>00 DEF RevokeConsentGrant
<1>15. ASSUME NEW r \in AzResources, ChangeCatalog(r) PROVE AzSilent'
  BY <1>15, <1>00 DEF ChangeCatalog
<1>16. CASE UNCHANGED azVars
  BY <1>16, <1>00 DEF azVars
<1> QED BY <1>1, <1>2, <1>3, <1>4, <1>5, <1>6, <1>7, <1>8, <1>9, <1>10, <1>11, <1>12, <1>13,
       <1>14, <1>15, <1>16
        DEF AuthorizeNext, AuthorizeStep

\* A request that has ended does nothing more.
LEMMA DoneStays ==
    ASSUME AuthorizeTypeOK, [AuthorizeNext]_azVars, NEW k \in AzRequests, azAt[k] = "done"
    PROVE  azAt'[k] = "done" /\ azIn'[k] = azIn[k]
<1> USE DEF AuthorizeTypeOK, AzGoto, azReqVars
<1>1. ASSUME NEW p \in AzRequests, HandleAuthorize(p)
      PROVE  azAt'[k] = "done" /\ azIn'[k] = azIn[k]
  BY <1>1 DEF HandleAuthorize, AuthorizeRequest
<1>2. ASSUME NEW p \in AzRequests, AuthorizeCreate(p)
      PROVE  azAt'[k] = "done" /\ azIn'[k] = azIn[k]
  BY <1>2 DEF AuthorizeCreate
<1>3. ASSUME NEW p \in AzRequests, CompleteRead(p) PROVE azAt'[k] = "done" /\ azIn'[k] = azIn[k]
  BY <1>3 DEF CompleteRead
<1>4. ASSUME NEW p \in AzRequests, CompleteAuthorization(p)
      PROVE  azAt'[k] = "done" /\ azIn'[k] = azIn[k]
  BY <1>4 DEF CompleteAuthorization
<1>5. ASSUME NEW p \in AzRequests, HandlePostConsent(p)
      PROVE  azAt'[k] = "done" /\ azIn'[k] = azIn[k]
  BY <1>5 DEF HandlePostConsent
<1>6. ASSUME NEW p \in AzRequests, GrantConsentRead(p)
      PROVE  azAt'[k] = "done" /\ azIn'[k] = azIn[k]
  BY <1>6 DEF GrantConsentRead
<1>7. ASSUME NEW p \in AzRequests, GrantConsent(p) PROVE azAt'[k] = "done" /\ azIn'[k] = azIn[k]
  BY <1>7 DEF GrantConsent
<1>8. ASSUME NEW p \in AzRequests, DenyConsentRead(p)
      PROVE  azAt'[k] = "done" /\ azIn'[k] = azIn[k]
  BY <1>8 DEF DenyConsentRead
<1>9. ASSUME NEW p \in AzRequests, DenyConsent(p) PROVE azAt'[k] = "done" /\ azIn'[k] = azIn[k]
  BY <1>9 DEF DenyConsent
<1>10. ASSUME NEW p \in AzRequests, HandleAuthCodeExchange(p)
       PROVE  azAt'[k] = "done" /\ azIn'[k] = azIn[k]
  BY <1>10 DEF HandleAuthCodeExchange
<1>11. ASSUME NEW p \in AzRequests, ExpireAuthSession(p)
       PROVE  azAt'[k] = "done" /\ azIn'[k] = azIn[k]
  BY <1>11 DEF ExpireAuthSession
<1>12. ASSUME NEW p \in AzRequests, PurgeSession(p) PROVE azAt'[k] = "done" /\ azIn'[k] = azIn[k]
  BY <1>12 DEF PurgeSession
<1>13. ASSUME NEW u \in AzUsers, NEW s \in AzRequests, ViewConsent(u, s)
       PROVE  azAt'[k] = "done" /\ azIn'[k] = azIn[k]
  BY <1>13 DEF ViewConsent
<1>14. ASSUME NEW g \in GrantKeys, RevokeConsentGrant(g)
       PROVE  azAt'[k] = "done" /\ azIn'[k] = azIn[k]
  BY <1>14 DEF RevokeConsentGrant
<1>15. ASSUME NEW r \in AzResources, ChangeCatalog(r)
       PROVE  azAt'[k] = "done" /\ azIn'[k] = azIn[k]
  BY <1>15 DEF ChangeCatalog
<1>16. CASE UNCHANGED azVars
  BY <1>16 DEF azVars
<1> QED BY <1>1, <1>2, <1>3, <1>4, <1>5, <1>6, <1>7, <1>8, <1>9, <1>10, <1>11, <1>12, <1>13,
       <1>14, <1>15, <1>16
        DEF AuthorizeNext, AuthorizeStep

\* A code stays the code of the request that wrote it.
LEMMA AzCodeStep ==
    ASSUME AuthorizeTypeOK, AzPhase, AzSessions, AzRecords, AzApprovals, AzSilent, AzCode,
           [AuthorizeNext]_azVars
    PROVE  AzCode'
<1> USE AzNoneAssumption DEF AuthorizeTypeOK, AzGoto, azReqVars, azSessVars, azHistVars
<1>0. ASSUME NEW s \in AzRequests, azSess'[s] = azSess[s],
             azSess[s] # AzNone, azSess[s].code # AzNone
      PROVE  CodeIsOwn(s)'
  <2> DEFINE k == azSess[s].code
             g == <<azSess[s].user, azSess[s].client, azSess[s].res>>
  <2>1. CodeIsOwn(s) /\ azSess[s] \in AzRow
    BY <1>0 DEF AzCode
  <2>2. azAt'[k] = "done" /\ azIn'[k] = azIn[k]
    BY <2>1, DoneStays DEF CodeIsOwn
  <2>3. g \in AzUsers \X AzClients \X MaybeResource /\ azSess[s].scope \in SUBSET AzScopes
    BY <2>1 DEF CodeIsOwn, AzRow
  <2>4. \A t \in azSess[s].scope : azApproved'[g][t] > 0
    BY <2>1, <2>3, ApprovalsStand DEF CodeIsOwn
  <2> QED BY <1>0, <2>1, <2>2, <2>4 DEF CodeIsOwn
<1>00. ASSUME azSess' = azSess PROVE AzCode'
  BY <1>0, <1>00 DEF AzCode
<1>1. ASSUME NEW p \in AzRequests, HandleAuthorize(p) PROVE AzCode'
  BY <1>1, <1>00 DEF HandleAuthorize, AuthorizeRequest
<1>2. ASSUME NEW p \in AzRequests, AuthorizeCreate(p) PROVE AzCode'
  <2>1. azSess'[p].code = AzNone /\ \A t \in AzRequests \ {p} : azSess'[t] = azSess[t]
    BY <1>2 DEF AuthorizeCreate, CreateSession
  <2> QED BY <1>0, <2>1 DEF AzCode
<1>3. ASSUME NEW p \in AzRequests, CompleteRead(p) PROVE AzCode'
  BY <1>3, <1>00 DEF CompleteRead
<1>4. ASSUME NEW p \in AzRequests, CompleteAuthorization(p) PROVE AzCode'
  <2>1. azAt[p] = "complete" /\ azIn[p].scope \in SUBSET AzScopes /\ azAt'[p] = "done"
    BY <1>4 DEF CompleteAuthorization, AzInput
  <2>2. CASE UNCHANGED azSess
    BY <2>2, <1>00
  <2>3. CASE UpdateCodeHashAndScope(p, p, azIn[p].scope)
    <3>1. /\ azSess[p] # AzNone
          /\ azSess'[p].client = azSess[p].client /\ azSess'[p].user = azSess[p].user
          /\ azSess'[p].res = azSess[p].res
          /\ azSess'[p].code = p /\ azSess'[p].scope = azIn[p].scope
          /\ \A t \in AzRequests \ {p} : azSess'[t] = azSess[t]
      <4>1. azSess[p] # AzNone
        BY <2>3 DEF UpdateCodeHashAndScope, HasSession
      <4> HIDE DEF AuthorizeTypeOK
      <4> QED BY <2>1, <2>3, <4>1, CodeWritten
    <3>2. /\ azIn[p].silent
          /\ azIn[p].op = "authorize"
          /\ azIn[p].sess = p
          /\ azIn[p].user \in AzUsers
      BY <2>1 DEF AzPhase, AzInput, MaybeUser
    <3>3. /\ azSess[p].client = azIn[p].client /\ azSess[p].user = azIn[p].user
          /\ azSess[p].res = azIn[p].res
      BY <3>1 DEF AzSessions
    <3>4. \A t \in azIn[p].scope :
             azApproved[<<azIn[p].user, azIn[p].client, azIn[p].res>>][t] > 0
      <4> TAKE t \in azIn[p].scope
      <4> DEFINE k == <<azIn[p].user, azIn[p].client, azIn[p].res>>
      <4>1. azApproved[k][t] > azIn[p].epoch
        BY <3>2 DEF AzSilent
      <4>2. k \in AzUsers \X AzClients \X MaybeResource /\ azIn[p].epoch \in Nat /\ t \in AzScopes
        BY <2>1, <3>2 DEF AzPhase, AzInput
      <4>3. azApproved[k][t] \in Nat
        BY <4>2
      <4> QED BY <4>1, <4>2, <4>3
    <3>5. CodeIsOwn(p)'
      BY <1>4, <2>1, <3>1, <3>2, <3>3, <3>4 DEF CompleteAuthorization, CodeIsOwn
    <3> QED BY <1>0, <3>1, <3>5 DEF AzCode
  <2> QED BY <1>4, <2>2, <2>3 DEF CompleteAuthorization
<1>5. ASSUME NEW p \in AzRequests, HandlePostConsent(p) PROVE AzCode'
  BY <1>5, <1>00 DEF HandlePostConsent
<1>6. ASSUME NEW p \in AzRequests, GrantConsentRead(p) PROVE AzCode'
  BY <1>6, <1>00 DEF GrantConsentRead
<1>7. ASSUME NEW p \in AzRequests, GrantConsent(p) PROVE AzCode'
  <2> DEFINE i == azIn[p]
             g == <<i.user, i.client, i.res>>
  <2>1. azAt[p] = "record" /\ azAt'[p] = "done" /\ azIn' = azIn /\ i.client \in AzClients
    BY <1>7, RecordedClient DEF GrantConsent
  <2>2. CASE UNCHANGED azSess
    BY <2>2, <1>00
  <2>4. PICK s \in AzRequests : s = i.sess
    BY <2>1 DEF AzPhase
  <2>3. CASE PersistAndCode(p)
    <3>1. /\ s \in AzRequests /\ i.user \in AzUsers /\ i.scope \in SUBSET AzScopes
          /\ UpdateCodeHashAndScope(s, p, i.scope)
          /\ azApproved'[g] = [t \in AzScopes |-> IF t \in i.scope
                                 THEN 1 + (IF i.res = AzNone THEN 0 ELSE azEpoch[g])
                                 ELSE azApproved[g][t]]
          /\ i.res # AzNone => g \in GrantKeys
      <4> HIDE DEF AuthorizeTypeOK
      <4> QED BY <2>1, <2>3, <2>4, ConsentRecorded
    <3>2. /\ azSess[s] # AzNone
          /\ azSess'[s].client = azSess[s].client /\ azSess'[s].user = azSess[s].user
          /\ azSess'[s].res = azSess[s].res
          /\ azSess'[s].code = p /\ azSess'[s].scope = i.scope
          /\ \A t \in AzRequests \ {s} : azSess'[t] = azSess[t]
      <4>1. azSess[s] # AzNone
        BY <3>1 DEF UpdateCodeHashAndScope, HasSession
      <4> HIDE DEF AuthorizeTypeOK
      <4> QED BY <3>1, <4>1, CodeWritten
    <3>3. azSess[s].client = i.client /\ azSess[s].user = i.user /\ azSess[s].res = i.res
      BY <2>1, <2>4, <3>1, <3>2 DEF AzSessions, AzRecords
    <3>4. \A t \in i.scope : azApproved'[g][t] > 0
      <4> TAKE t \in i.scope
      <4>1. azApproved'[g][t] = 1 + (IF i.res = AzNone THEN 0 ELSE azEpoch[g])
        BY <3>1
      <4>2. i.res # AzNone => azEpoch[g] \in Nat
        BY <3>1
      <4> QED BY <4>1, <4>2
    <3>5. CodeIsOwn(s)'
      BY <2>1, <2>4, <3>1, <3>2, <3>3, <3>4 DEF CodeIsOwn
    <3> QED BY <1>0, <3>1, <3>2, <3>5 DEF AzCode
  <2> QED BY <1>7, <2>2, <2>3 DEF GrantConsent
<1>8. ASSUME NEW p \in AzRequests, DenyConsentRead(p) PROVE AzCode'
  BY <1>8, <1>00 DEF DenyConsentRead
<1>9. ASSUME NEW p \in AzRequests, DenyConsent(p) PROVE AzCode'
  <2>1. \A t \in AzRequests : azSess'[t] = AzNone \/ azSess'[t] = azSess[t]
    BY <1>9 DEF DenyConsent, DeleteSession
  <2> QED BY <1>0, <2>1 DEF AzCode
<1>10. ASSUME NEW p \in AzRequests, HandleAuthCodeExchange(p) PROVE AzCode'
  <2>1. PICK s \in AzRequests : CodeRedeemed(p, s)
    BY <1>10 DEF HandleAuthCodeExchange, CodeRedeemed
  <2>2. /\ azSess[s] # AzNone
        /\ azSess'[s].client = azSess[s].client /\ azSess'[s].user = azSess[s].user
        /\ azSess'[s].res = azSess[s].res /\ azSess'[s].scope = azSess[s].scope
        /\ azSess'[s].code = azSess[s].code
        /\ \A t \in AzRequests \ {s} : azSess'[t] = azSess[t]
    BY <2>1, CodeConsumed DEF CodeRedeemed, HasSession
  <2>3. azIn' = azIn /\ azAt' = azAt /\ azApproved' = azApproved
    BY <2>1 DEF CodeRedeemed
  <2>4. azSess[s].code # AzNone => CodeIsOwn(s)'
    BY <2>2, <2>3 DEF CodeIsOwn, AzCode
  <2> QED BY <1>0, <2>2, <2>4 DEF AzCode
<1>11. ASSUME NEW p \in AzRequests, ExpireAuthSession(p) PROVE AzCode'
  BY <1>11, <1>00 DEF ExpireAuthSession
<1>12. ASSUME NEW p \in AzRequests, PurgeSession(p) PROVE AzCode'
  <2>1. \A t \in AzRequests : azSess'[t] = AzNone \/ azSess'[t] = azSess[t]
    BY <1>12 DEF PurgeSession, DeleteSession
  <2> QED BY <1>0, <2>1 DEF AzCode
<1>13. ASSUME NEW u \in AzUsers, NEW s \in AzRequests, ViewConsent(u, s) PROVE AzCode'
  BY <1>13, <1>00 DEF ViewConsent
<1>14. ASSUME NEW k \in GrantKeys, RevokeConsentGrant(k) PROVE AzCode'
  BY <1>14, <1>00 DEF RevokeConsentGrant
<1>15. ASSUME NEW r \in AzResources, ChangeCatalog(r) PROVE AzCode'
  BY <1>15, <1>00 DEF ChangeCatalog
<1>16. CASE UNCHANGED azVars
  BY <1>16, <1>00 DEF azVars
<1> QED BY <1>1, <1>2, <1>3, <1>4, <1>5, <1>6, <1>7, <1>8, <1>9, <1>10, <1>11, <1>12, <1>13,
       <1>14, <1>15, <1>16
        DEF AuthorizeNext, AuthorizeStep

\* What a code bought stays what its user approved.
LEMMA AzTokensStep ==
    ASSUME AuthorizeTypeOK, AzPhase, AzSessions, AzRecords, AzApprovals, AzSilent, AzCode,
           AzTokens, [AuthorizeNext]_azVars
    PROVE  AzTokens'
<1> USE AzNoneAssumption DEF AuthorizeTypeOK, AzGoto, azReqVars, azSessVars, azHistVars
<1>0. ASSUME NEW k \in AzRequests, azTokens'[k] = azTokens[k], azTokens[k] # AzNone
      PROVE  Bought(azTokens[k])'
  <2> DEFINE row == azTokens[k]
             g == <<row.user, row.client, row.res>>
  <2>1. Bought(row) /\ row \in AzRow
    BY <1>0 DEF AzTokens
  <2>2. g \in AzUsers \X AzClients \X MaybeResource /\ row.scope \in SUBSET AzScopes
    BY <2>1 DEF Bought, AzRow
  <2>3. \A t \in row.scope : azApproved'[g][t] > 0
    BY <2>1, <2>2, ApprovalsStand DEF Bought
  <2> QED BY <1>0, <2>1, <2>3 DEF Bought
<1>00. ASSUME azTokens' = azTokens PROVE AzTokens'
  BY <1>0, <1>00 DEF AzTokens
<1>1. ASSUME NEW p \in AzRequests, HandleAuthorize(p) PROVE AzTokens'
  BY <1>1, <1>00 DEF HandleAuthorize, AuthorizeRequest
<1>2. ASSUME NEW p \in AzRequests, AuthorizeCreate(p) PROVE AzTokens'
  BY <1>2, <1>00 DEF AuthorizeCreate
<1>3. ASSUME NEW p \in AzRequests, CompleteRead(p) PROVE AzTokens'
  BY <1>3, <1>00 DEF CompleteRead
<1>4. ASSUME NEW p \in AzRequests, CompleteAuthorization(p) PROVE AzTokens'
  BY <1>4, <1>00 DEF CompleteAuthorization
<1>5. ASSUME NEW p \in AzRequests, HandlePostConsent(p) PROVE AzTokens'
  BY <1>5, <1>00 DEF HandlePostConsent
<1>6. ASSUME NEW p \in AzRequests, GrantConsentRead(p) PROVE AzTokens'
  BY <1>6, <1>00 DEF GrantConsentRead
<1>7. ASSUME NEW p \in AzRequests, GrantConsent(p) PROVE AzTokens'
  BY <1>7, <1>00 DEF GrantConsent
<1>8. ASSUME NEW p \in AzRequests, DenyConsentRead(p) PROVE AzTokens'
  BY <1>8, <1>00 DEF DenyConsentRead
<1>9. ASSUME NEW p \in AzRequests, DenyConsent(p) PROVE AzTokens'
  BY <1>9, <1>00 DEF DenyConsent
<1>10. ASSUME NEW p \in AzRequests, HandleAuthCodeExchange(p) PROVE AzTokens'
  <2>1. PICK s \in AzRequests : CodeRedeemed(p, s)
    BY <1>10 DEF HandleAuthCodeExchange, CodeRedeemed
  <2>2. azSess[s] # AzNone /\ azSess[s].code = p /\ azApproved' = azApproved
    BY <2>1 DEF CodeRedeemed, HasSession
  <2>3. CodeIsOwn(s)
    BY <2>2 DEF AzCode
  <2>4. \A k \in AzRequests \ {p} : azTokens'[k] = azTokens[k]
    BY <2>1 DEF CodeRedeemed
  <2>5. azTokens'[p] = azTokens[p] \/ azTokens'[p] = azSess[s]
    BY <2>1 DEF CodeRedeemed
  <2> QED BY <1>0, <2>2, <2>3, <2>4, <2>5 DEF CodeIsOwn, AzTokens, Bought
<1>11. ASSUME NEW p \in AzRequests, ExpireAuthSession(p) PROVE AzTokens'
  BY <1>11, <1>00 DEF ExpireAuthSession
<1>12. ASSUME NEW p \in AzRequests, PurgeSession(p) PROVE AzTokens'
  BY <1>12, <1>00 DEF PurgeSession
<1>13. ASSUME NEW u \in AzUsers, NEW s \in AzRequests, ViewConsent(u, s) PROVE AzTokens'
  BY <1>13, <1>00 DEF ViewConsent
<1>14. ASSUME NEW k \in GrantKeys, RevokeConsentGrant(k) PROVE AzTokens'
  BY <1>14, <1>00 DEF RevokeConsentGrant
<1>15. ASSUME NEW r \in AzResources, ChangeCatalog(r) PROVE AzTokens'
  BY <1>15, <1>00 DEF ChangeCatalog
<1>16. CASE UNCHANGED azVars
  BY <1>16, <1>00 DEF azVars
<1> QED BY <1>1, <1>2, <1>3, <1>4, <1>5, <1>6, <1>7, <1>8, <1>9, <1>10, <1>11, <1>12, <1>13,
       <1>14, <1>15, <1>16
        DEF AuthorizeNext, AuthorizeStep

\* A step of one request leaves the others, and what codes have bought, alone.
LEMMA StepIsOwn ==
    ASSUME AuthorizeTypeOK, NEW p \in AzRequests, AuthorizeStep(p)
    PROVE  azTokens' = azTokens /\ \A q \in AzRequests \ {p} : azAt'[q] = azAt[q]
<1> USE DEF AuthorizeTypeOK, AzGoto, azHistVars
<1>1. CASE HandleAuthorize(p)
  BY <1>1 DEF HandleAuthorize, AuthorizeRequest
<1>2. CASE AuthorizeCreate(p)
  BY <1>2 DEF AuthorizeCreate
<1>3. CASE CompleteRead(p)
  BY <1>3 DEF CompleteRead
<1>4. CASE CompleteAuthorization(p)
  BY <1>4 DEF CompleteAuthorization
<1>5. CASE HandlePostConsent(p)
  BY <1>5 DEF HandlePostConsent
<1>6. CASE GrantConsentRead(p)
  BY <1>6 DEF GrantConsentRead
<1>7. CASE GrantConsent(p)
  BY <1>7 DEF GrantConsent
<1>8. CASE DenyConsentRead(p)
  BY <1>8 DEF DenyConsentRead
<1>9. CASE DenyConsent(p)
  BY <1>9 DEF DenyConsent
<1> QED BY <1>1, <1>2, <1>3, <1>4, <1>5, <1>6, <1>7, <1>8, <1>9 DEF AuthorizeStep

\* The state an authorization server starts in.
LEMMA AzInitInv == AuthorizeInit => AuthorizeInv
<1> SUFFICES ASSUME AuthorizeInit PROVE AuthorizeInv
  OBVIOUS
<1> USE AzNoneAssumption DEF AuthorizeInit
<1>1. AuthorizeTypeOK
  <2>1. Fresh \in AzInput
    BY DEF Fresh, AzInput, MaybeUser, MaybeResource
  <2>2. [scopes |-> {}, revoked |-> TRUE] \in [scopes : SUBSET AzScopes, revoked : BOOLEAN]
    OBVIOUS
  <2>3. azIn \in [AzRequests -> AzInput]
    BY <2>1
  <2>4. azGrant \in [GrantKeys -> [scopes : SUBSET AzScopes, revoked : BOOLEAN]]
    BY <2>2
  <2> QED BY <2>3, <2>4 DEF AuthorizeTypeOK, AzLabels
<1>2. AzPhase
  BY DEF AzPhase, Fresh
<1>3. AzSessions /\ AzRecords /\ AzCode
  BY DEF AzSessions, AzRecords, AzCode
<1>4. AzApprovals
  BY DEF AzApprovals, GrantKeys, MaybeResource
<1>5. AzSilent /\ AzTokens
  BY DEF AzSilent, AzTokens, Fresh
<1> QED BY <1>1, <1>2, <1>3, <1>4, <1>5 DEF AuthorizeInv

\* Every step of the flow preserves the invariant.
LEMMA AzInvStep == AuthorizeInv /\ [AuthorizeNext]_azVars => AuthorizeInv'
  BY AzTypeStep, AzPhaseStep, AzSessionsStep, AzRecordsStep, AzApprovalsStep, AzSilentStep,
     AzCodeStep, AzTokensStep DEF AuthorizeInv

\* The invariant holds throughout.
LEMMA AzAlwaysInv == AuthorizeSpec => []AuthorizeInv
  BY AzInitInv, AzInvStep, PTL DEF AuthorizeSpec

\* Codes and what they buy (authorize.go, consent.go), for any number of users, clients,
\* resources, requests and revocations: a token carries scopes that its session's user
\* approved, a code the scopes of the submission that wrote it, and a silent flow rests on
\* an approval younger than the last revocation.
THEOREM CodesStaySound == AuthorizeSpec => []CodesSound
<1>1. AuthorizeInv => CodesSound
  <2> SUFFICES ASSUME AuthorizeInv PROVE CodesSound
    OBVIOUS
  <2>1. TokensSpeakForTheirUser
    BY DEF AuthorizeInv, AzTokens, Bought, TokensSpeakForTheirUser
  <2>2. CodeCarriesItsOwnScopes
    BY DEF AuthorizeInv, AzCode, CodeIsOwn, CodeCarriesItsOwnScopes, HasSession
  <2>3. SilentCodeNeedsStandingConsent
    BY DEF AuthorizeInv, AzSilent, SilentCodeNeedsStandingConsent
  <2> QED BY <2>1, <2>2, <2>3 DEF AuthorizeInv, CodesSound
<1> QED BY <1>1, AzAlwaysInv, PTL

\* consent.go:327, for any number of submissions under way: once the owner has denied a
\* session and the row is deleted, nothing is recorded for it and no code of it buys anything.
THEOREM DenialStaysFinal == AuthorizeSpec => DenialIsFinal
<1> DEFINE Stays(s) ==
        /\ \A p \in AzRequests :
              azIn[p].op = "consent" /\ azIn[p].sess = s /\ azAt[p] = "record" =>
                  azAt'[p] = "record" \/ (azGrant' = azGrant /\ azCodes' = azCodes)
        /\ \A k \in AzRequests : azIn[k].sess = s => azTokens'[k] = azTokens[k]
<1>1. ASSUME AuthorizeInv, [AuthorizeNext]_azVars, NEW s \in azDenied PROVE Stays(s)
  <2> USE DEF AzGoto, azReqVars, azSessVars, azHistVars, AuthorizeTypeOK
  <2>1. AuthorizeTypeOK /\ s \in AzRequests /\ azSess[s] = AzNone
    BY <1>1 DEF AuthorizeInv, AzSessions
  <2>2. ASSUME NEW p \in AzRequests, azIn[p].sess = s, azAt[p] = "record"
        PROVE  azAt'[p] = "record" \/ (azGrant' = azGrant /\ azCodes' = azCodes)
    <3>1. ASSUME GrantConsent(p) PROVE azGrant' = azGrant /\ azCodes' = azCodes
      BY <2>1, <2>2, <3>1 DEF GrantConsent, PersistAndCode, UpdateCodeHashAndScope, HasSession
    <3>2. ASSUME AuthorizeStep(p), ~GrantConsent(p) PROVE FALSE
      BY <2>2, <3>2 DEF AuthorizeStep, HandleAuthorize, AuthorizeRequest, AuthorizeCreate,
           CompleteRead, CompleteAuthorization, HandlePostConsent, GrantConsentRead,
           DenyConsentRead, DenyConsent
    <3>3. ASSUME NEW q \in AzRequests \ {p}, AuthorizeStep(q) PROVE azAt'[p] = azAt[p]
      BY <2>1, <3>3, StepIsOwn
    <3>4. ASSUME NEW q \in AzRequests,
                 HandleAuthCodeExchange(q) \/ ExpireAuthSession(q) \/ PurgeSession(q)
          PROVE  azAt' = azAt
      BY <3>4 DEF HandleAuthCodeExchange, ExpireAuthSession, PurgeSession
    <3>5. ASSUME NEW u \in AzUsers, NEW t \in AzRequests, ViewConsent(u, t) PROVE azAt' = azAt
      BY <3>5 DEF ViewConsent
    <3>6. ASSUME NEW g \in GrantKeys, RevokeConsentGrant(g) PROVE azAt' = azAt
      BY <3>6 DEF RevokeConsentGrant
    <3>7. ASSUME NEW r \in AzResources, ChangeCatalog(r) PROVE azAt' = azAt
      BY <3>7 DEF ChangeCatalog
    <3>8. CASE UNCHANGED azVars
      BY <2>2, <3>8 DEF azVars
    <3>9. CASE azAt' = azAt
      BY <2>2, <3>9
    <3> QED BY <1>1, <2>2, <3>1, <3>2, <3>3, <3>4, <3>5, <3>6, <3>7, <3>8, <3>9 DEF AuthorizeNext
  <2>3. ASSUME NEW k \in AzRequests, azIn[k].sess = s PROVE azTokens'[k] = azTokens[k]
    <3>1. ASSUME NEW q \in AzRequests, HandleAuthCodeExchange(q) PROVE azTokens'[k] = azTokens[k]
      <4>1. PICK t \in AzRequests : CodeRedeemed(q, t)
        BY <3>1 DEF HandleAuthCodeExchange, CodeRedeemed
      <4>2. azSess[t] # AzNone /\ azSess[t].code = q
        BY <4>1 DEF CodeRedeemed, HasSession
      <4>3. azIn[q].sess = t
        BY <1>1, <4>2, AzNoneAssumption DEF AuthorizeInv, AzCode, CodeIsOwn
      <4>4. q # k
        BY <2>1, <2>3, <4>2, <4>3
      <4> QED BY <4>1, <4>4 DEF CodeRedeemed
    <3>2. azTokens' = azTokens \/ \E q \in AzRequests : HandleAuthCodeExchange(q)
      <4>1. ASSUME NEW q \in AzRequests, AuthorizeStep(q) PROVE azTokens' = azTokens
        BY <2>1, <4>1, StepIsOwn
      <4>2. ASSUME NEW q \in AzRequests, ExpireAuthSession(q) \/ PurgeSession(q)
            PROVE  azTokens' = azTokens
        BY <4>2 DEF ExpireAuthSession, PurgeSession
      <4>3. ASSUME NEW u \in AzUsers, NEW t \in AzRequests, ViewConsent(u, t)
            PROVE  azTokens' = azTokens
        BY <4>3 DEF ViewConsent
      <4>4. ASSUME NEW g \in GrantKeys, RevokeConsentGrant(g) PROVE azTokens' = azTokens
        BY <4>4 DEF RevokeConsentGrant
      <4>5. ASSUME NEW r \in AzResources, ChangeCatalog(r) PROVE azTokens' = azTokens
        BY <4>5 DEF ChangeCatalog
      <4>6. CASE UNCHANGED azVars
        BY <4>6 DEF azVars
      <4> QED BY <1>1, <4>1, <4>2, <4>3, <4>4, <4>5, <4>6 DEF AuthorizeNext
    <3> QED BY <3>1, <3>2
  <2> QED BY <2>2, <2>3
<1>2. ASSUME AuthorizeInv, [AuthorizeNext]_azVars PROVE [\A s \in azDenied : Stays(s)]_azVars
  BY <1>1, <1>2
<1> QED BY <1>2, AzAlwaysInv, PTL DEF AuthorizeSpec, DenialIsFinal
=============================================================================
