----------------------------- MODULE KeyRotation -----------------------------
(***************************************************************************)
(* Signing keys shared through PostgreSQL (key_store: postgres_key): the    *)
(* signing_keys table and its rotation transaction (HAKeyStore), the        *)
(* current key each instance caches (CachedKeyStore), the JWKS document it  *)
(* caches (JWKSService), and the LISTEN/NOTIFY loop that refreshes both     *)
(* (KeyStoreListener).  Rotations come from the admin API of an instance    *)
(* or from the CLI, a process without a listener.                           *)
(*                                                                         *)
(* A key is the number of its created_at: Save takes the time before its    *)
(* transaction and keeps it over the retries.                               *)
(***************************************************************************)
EXTENDS Naturals, FiniteSets, FiniteSetsExt

CONSTANTS Instances,       \* server processes
          Signers,         \* token requests, which sign once
          Rotators,        \* RotateKey calls
          AdminAt,         \* where RotateKey runs: instances whose admin API is
                           \* called, and None for the CLI
          MaxKeys,         \* bound: keys ever generated
          MaxDisconnects,  \* bound: lost LISTEN connections of an instance
          PollAfter,       \* reconnects until the backoff reaches
                           \* listenFallbackPollTime
          MaxRetries,      \* maxRetries of Save
          None

ASSUME KeysAssumption ==
    /\ {MaxKeys, MaxRetries} \subseteq Nat \ {0}
    /\ {MaxDisconnects, PollAfter} \subseteq Nat
    /\ AdminAt \subseteq Instances \cup {None}
    /\ None \notin Instances \cup Signers \cup Rotators
    /\ Signers \cap Rotators = {} /\ (Signers \cup Rotators) \cap Instances = {}

Keys == 1 .. MaxKeys
NoKey == 0

Threads == Signers \cup Rotators \cup Instances  \* an instance is its listener

VARIABLES
    rows,         \* the keys in the table
    current,      \* the one with is_current
    generated,    \* keys generated so far
    holder,       \* the rotator whose transaction holds the current row
    cached,       \* per instance: the cached current key
    jwks,         \* per instance: the keys of the cached JWKS document
    connected,    \* the instances whose LISTEN connection is up
    pending,      \* per instance: notifications not handled yet
    disconnects,  \* per instance: connections lost so far
    pc, at,       \* what a thread does next, and on which instance
    key, list,    \* the key and the key list it holds
    attempt,      \* of Save
    missed, failed, \* history: instances that missed a notification, and whose reload failed
    overtaken,    \* history: instances where a key already read was cached late
    crossed       \* history: instances where a list already read was published late

tableVars == <<rows, current, generated, holder>>
cacheVars == <<cached, jwks>>
listenVars == <<connected, pending, disconnects>>
threadVars == <<pc, at, key, list, attempt>>
history == <<missed, failed, overtaken, crossed>>
vars == <<tableVars, cacheVars, listenVars, threadVars, history>>

TypeOK ==
    /\ rows \subseteq Keys
    /\ current \in Keys \cup {NoKey}
    /\ generated \in 0 .. MaxKeys
    /\ holder \in Rotators \cup {None}
    /\ cached \in [Instances -> Keys \cup {NoKey}]
    /\ jwks \in [Instances -> SUBSET Keys]
    /\ connected \subseteq Instances
    /\ pending \in [Instances -> Nat]
    /\ disconnects \in [Instances -> 0 .. MaxDisconnects]
    /\ pc \in [Threads -> {"idle", "read", "fill", "save", "commit", "blocked", "refresh",
                           "invalidate", "list", "publish", "wait", "done"}]
    /\ at \in [Threads -> Instances \cup {None}]
    /\ key \in [Threads -> Keys \cup {NoKey}]
    /\ list \in [Threads -> SUBSET Keys]
    /\ attempt \in [Rotators -> 0 .. MaxRetries]
    /\ {missed, failed, overtaken, crossed} \subseteq SUBSET Instances

\* Every instance is up, has loaded the one key of the table into its JWKS
\* document and has signed nothing yet.
Init ==
    /\ rows = {1} /\ current = 1 /\ generated = 1 /\ holder = None
    /\ cached = [i \in Instances |-> NoKey]
    /\ jwks = [i \in Instances |-> {1}]
    /\ connected = Instances
    /\ pending = [i \in Instances |-> 0]
    /\ disconnects = [i \in Instances |-> 0]
    /\ pc = [t \in Threads |-> "idle"]
    /\ at = [t \in Threads |-> IF t \in Instances THEN t ELSE None]
    /\ key = [t \in Threads |-> NoKey]
    /\ list = [t \in Threads |-> {}]
    /\ attempt = [t \in Rotators |-> 0]
    /\ missed = {} /\ failed = {} /\ overtaken = {} /\ crossed = {}

Goto(t, label) == pc' = [pc EXCEPT ![t] = label]

\* A call that has returned holds nothing any more.
Return ==
    LET gone == {t \in Signers \cup Rotators : pc'[t] \in {"idle", "done"}}
    IN  /\ at' = [t \in Threads |-> IF t \in gone THEN None ELSE at[t]]
        /\ key' = [t \in Threads |-> IF t \in gone THEN NoKey ELSE key[t]]

-----------------------------------------------------------------------------
(* CachedKeyStore.LoadCurrent, for a token request *)

\* A miss reads the table; a hit signs at once and changes nothing.
LoadCurrent(t) ==
    \E i \in Instances :
        /\ pc[t] = "idle"
        /\ cached[i] = NoKey
        /\ at' = [at EXCEPT ![t] = i]
        /\ Goto(t, "read")
        /\ UNCHANGED <<tableVars, cacheVars, listenVars, key, list, attempt, history>>

LoadRow(t) ==
    /\ pc[t] = "read"
    /\ key' = [key EXCEPT ![t] = current]
    /\ Goto(t, "fill")
    /\ UNCHANGED <<tableVars, cacheVars, listenVars, at, list, attempt, history>>

\* The key read is stored, whatever was invalidated in between.
FillCache(t) ==
    /\ pc[t] = "fill"
    /\ cached' = [cached EXCEPT ![at[t]] = key[t]]
    /\ Goto(t, "done")
    /\ Return
    /\ UNCHANGED <<tableVars, jwks, listenVars, list, attempt, history>>

-----------------------------------------------------------------------------
(* JWKSService.RotateKey and HAKeyStore.Save *)

RotateKey(t) ==
    \E i \in AdminAt :
        /\ pc[t] = "idle"
        /\ generated < MaxKeys
        /\ generated' = generated + 1
        /\ at' = [at EXCEPT ![t] = i]
        /\ key' = [key EXCEPT ![t] = generated + 1]
        /\ attempt' = [attempt EXCEPT ![t] = 0]
        /\ Goto(t, "save")
        /\ UNCHANGED <<rows, current, holder, cacheVars, listenVars, list, history>>

\* doSaveTx demotes the current row and so locks it; an UPDATE that finds it
\* locked waits.
SaveBegin(t) ==
    /\ pc[t] = "save"
    /\ IF holder = None
       THEN holder' = t /\ Goto(t, "commit")
       ELSE Goto(t, "blocked") /\ UNCHANGED holder
    /\ UNCHANGED <<rows, current, generated, cacheVars, listenVars, at, key, list, attempt, history>>

\* The prune keeps the newest of the keys no longer current, by created_at.
Kept(demoted) == {Max(demoted)}

\* The commit tells every connected listener of both rows it changed, and an
\* UPDATE that waited for it matches no row: its INSERT meets the unique
\* index and Save retries, or gives up with ErrRotationConflict.
SaveCommit(t) ==
    LET lost == {r \in Rotators : pc[r] = "blocked"}
    IN  /\ pc[t] = "commit"
        /\ rows' = {key[t]} \cup Kept(rows)
        /\ current' = key[t]
        /\ holder' = None
        /\ pending' = [i \in Instances |-> IF i \in connected THEN pending[i] + 2 ELSE 0]
        /\ missed' = missed \cup (Instances \ connected)
        /\ attempt' = [r \in Rotators |->
              CASE r = t      -> 0
                [] r \in lost -> IF attempt[r] + 1 < MaxRetries THEN attempt[r] + 1 ELSE 0
                [] OTHER      -> attempt[r]]
        /\ pc' = [r \in Threads |->
              CASE r = t      -> IF at[t] = None THEN "idle" ELSE "refresh"
                [] r \in lost -> IF attempt'[r] > 0 THEN "save" ELSE "idle"
                [] OTHER      -> pc[r]]
        /\ Return
        /\ UNCHANGED <<generated, cacheVars, connected, disconnects, list, failed, overtaken, crossed>>

\* The transaction fails, and the UPDATE that waited for it goes on.
SaveFail(t) ==
    /\ pc[t] = "commit"
    /\ \/ /\ \A r \in Rotators : pc[r] # "blocked"
          /\ holder' = None
          /\ Goto(t, "idle")
       \/ \E r \in Rotators :
             /\ pc[r] = "blocked"
             /\ holder' = r
             /\ pc' = [pc EXCEPT ![t] = "idle", ![r] = "commit"]
    /\ attempt' = [attempt EXCEPT ![t] = 0]
    /\ Return
    /\ UNCHANGED <<rows, current, generated, cacheVars, listenVars, list, history>>

\* CachedKeyStore.Save refreshes the cached key of this instance, with a key that
\* another rotation may have replaced by then.
RefreshCache(t) ==
    /\ pc[t] = "refresh"
    /\ cached' = [cached EXCEPT ![at[t]] = key[t]]
    /\ overtaken' = IF key[t] = current THEN overtaken ELSE overtaken \cup {at[t]}
    /\ Goto(t, "list")
    /\ UNCHANGED <<tableVars, jwks, listenVars, at, key, list, attempt, missed, failed, crossed>>

-----------------------------------------------------------------------------
(* JWKSService.Reload, of a rotator and of a listener *)

\* A reload is over: the listener goes back to its notifications or to its wait.
Reloaded(t) == Goto(t, IF t \in Instances /\ t \notin connected THEN "wait" ELSE "idle") /\ Return

\* The list may fail: that is logged, and the notification is spent.
ListActive(t) ==
    /\ pc[t] = "list"
    /\ \/ /\ list' = [list EXCEPT ![t] = rows]
          /\ failed' = failed \ {t}
          /\ Goto(t, "publish")
          /\ UNCHANGED <<at, key>>
       \/ /\ failed' = failed \cup ({t} \cap Instances)
          /\ Reloaded(t)
          /\ UNCHANGED list
    /\ UNCHANGED <<tableVars, cacheVars, listenVars, attempt, missed, overtaken, crossed>>

\* Mutant: the listener invalidates and leaves the document to the next reader.
Publish_RotatorOnly(t) ==
    /\ pc[t] = "publish"
    /\ jwks' = IF t \in Rotators THEN [jwks EXCEPT ![at[t]] = list[t]] ELSE jwks
    /\ crossed' = IF t \in Rotators /\ list[t] # rows THEN crossed \cup {at[t]} ELSE crossed \ {t}
    /\ list' = [list EXCEPT ![t] = {}]
    /\ Reloaded(t)
    /\ UNCHANGED <<tableVars, cached, listenVars, attempt, missed, failed, overtaken>>

\* A rotator's list may have become old, and the listener of its instance may have
\* published a newer one.
Publish(t) ==
    /\ pc[t] = "publish"
    /\ jwks' = [jwks EXCEPT ![at[t]] = list[t]]
    /\ crossed' = IF t \in Rotators /\ list[t] # rows THEN crossed \cup {at[t]} ELSE crossed \ {t}
    /\ list' = [list EXCEPT ![t] = {}]
    /\ Reloaded(t)
    /\ UNCHANGED <<tableVars, cached, listenVars, attempt, missed, failed, overtaken>>

-----------------------------------------------------------------------------
(* KeyStoreListener *)

\* handleNotification takes one notification ...
Notified(i) ==
    /\ pc[i] = "idle"
    /\ i \in connected
    /\ pending[i] > 0
    /\ pending' = [pending EXCEPT ![i] = @ - 1]
    /\ Goto(i, "invalidate")
    /\ UNCHANGED <<tableVars, cacheVars, connected, disconnects, at, key, list, attempt, history>>

\* ... invalidates the cached key and reloads.  A request that has read the key of
\* the rotated row and not stored it yet is overtaken.
Invalidate(i) ==
    /\ pc[i] = "invalidate"
    /\ cached' = [cached EXCEPT ![i] = NoKey]
    /\ overtaken' = IF \E t \in Signers : pc[t] = "fill" /\ at[t] = i /\ key[t] # current
                    THEN overtaken \cup {i} ELSE overtaken \ {i}
    /\ missed' = missed \ {i}
    /\ Goto(i, "list")
    /\ UNCHANGED <<tableVars, jwks, listenVars, at, key, list, attempt, failed, crossed>>

\* The connection drops with the notifications in it.  fallbackPoll reloads
\* once, before the wait, and only under a long backoff, which never shrinks.
Disconnect(i) ==
    /\ pc[i] = "idle"
    /\ i \in connected
    /\ disconnects[i] < MaxDisconnects
    /\ connected' = connected \ {i}
    /\ pending' = [pending EXCEPT ![i] = 0]
    /\ disconnects' = [disconnects EXCEPT ![i] = @ + 1]
    /\ missed' = IF pending[i] > 0 THEN missed \cup {i} ELSE missed
    /\ Goto(i, IF disconnects[i] >= PollAfter THEN "invalidate" ELSE "wait")
    /\ UNCHANGED <<tableVars, cacheVars, at, key, list, attempt, failed, overtaken, crossed>>

\* listenLoop connects and listens again; it reloads nothing.
Reconnect(i) ==
    /\ pc[i] = "wait"
    /\ connected' = connected \cup {i}
    /\ Goto(i, "idle")
    /\ UNCHANGED <<tableVars, cacheVars, pending, disconnects, at, key, list, attempt, history>>

-----------------------------------------------------------------------------

Rotate(t) == SaveBegin(t) \/ SaveCommit(t) \/ SaveFail(t) \/ RefreshCache(t) \/ ListActive(t) \/ Publish(t)
Listen(i) == Notified(i) \/ Invalidate(i) \/ ListActive(i) \/ Publish(i) \/ Reconnect(i)

Next ==
    \/ \E t \in Signers : LoadCurrent(t) \/ LoadRow(t) \/ FillCache(t)
    \/ \E t \in Rotators : RotateKey(t) \/ Rotate(t)
    \/ \E i \in Instances : Listen(i) \/ Disconnect(i)

Spec == Init /\ [][Next]_vars

-----------------------------------------------------------------------------
(* Properties *)

\* However rotations race, fail and retry, in whatever order they commit, the table
\* holds the current key and one other at most, so that the LIMIT 2 of ListActive
\* hides none (HAKeyStore.doSaveTx).  The other need not be the key just replaced:
\* the prune goes by created_at, which Save takes before its transaction.
TableIsWhole == \E k \in rows : rows = {current, k}

\* The listener has nothing to do, and no notification went down with a connection
\* since it last invalidated.
Settled(i) == pc[i] = "idle" /\ pending[i] = 0 /\ i \notin missed

\* An instance that has settled publishes exactly the keys of the table: a reload
\* that failed, or a rotator that published an old list over a newer one, is
\* mended by the next notification or poll (KeyStoreListener, JWKSService.Reload).
SettledPublishesTable ==
    \A i \in Instances : Settled(i) /\ i \notin failed \cup crossed => jwks[i] = rows

\* It signs with the current key, even where the reload failed: what it has cached is
\* the key of the table, unless a key read or saved before a rotation was cached
\* after it, and then until the next invalidation (CachedKeyStore.LoadCurrent and
\* Save, KeyStoreListener.handleNotification).
SettledSignsWithCurrent ==
    \A i \in Instances : Settled(i) /\ i \notin overtaken => cached[i] \in {NoKey, current}

\* Every instance follows the table through lost connections, failing reloads and
\* rotations of its own (KeyStoreListener, CachedKeyStore, JWKSService).
ListenersKeepUp == TypeOK /\ TableIsWhole /\ SettledPublishesTable /\ SettledSignsWithCurrent
=============================================================================
