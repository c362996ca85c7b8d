--------------------------- MODULE KeyStoreProofs ---------------------------
(***************************************************************************)
(* The stores that keep the server's secrets: signing keys in PostgreSQL    *)
(* (KeyRotation), in files (KeyFile) and in Vault Transit (VaultKeys), the   *)
(* login to Vault (VaultKeys) and encrypted columns (FieldEncryption).       *)
(* For each, the safety properties that a run checks on a small instance     *)
(* are proved for every number of instances, threads, keys and failures,     *)
(* from an inductive invariant that says what a call holds at every step.    *)
(***************************************************************************)
EXTENDS KeyRotation, KeyFile, VaultKeys, FieldEncryption, FiniteSetTheorems, TLAPS

-----------------------------------------------------------------------------
(* FieldEncryption *)

\* What a release has written: by Encrypt, or in the first format.
FeWritten(c) ==
    \E m \in FeKeys, q \in FeOwners :
        \/ c = FeSeal(1, FeDeriveKeyV1(m, q), FeNone, m, q)
        \/ c = FeSeal(2, FeDeriveKeyV2(m, q), q, m, q)

\* Every instance has a master key and at most one key before it, and every row
\* is one that some release wrote, for whomever.
FieldsInv ==
    /\ feConf \in [FeInstances -> [master : FeKeys, old : FeKeys \cup {FeNone}]]
    /\ DOMAIN feRow = FeOwners
    /\ \A o \in FeOwners : FeWritten(feRow[o])

\* What Encrypt makes is one of the things a release has written.
LEMMA EncryptWrites ==
    ASSUME FieldsInv, NEW i \in FeInstances, NEW o \in FeOwners
    PROVE  FeWritten(FeEncrypt(feConf[i], o))
BY DEF FieldsInv, FeWritten, FeEncrypt

\* A key derivation is injective, so a row opens under one master key and for one
\* owner, in the format its first byte names.
LEMMA OpensForOne ==
    ASSUME NEW c, FeWritten(c), NEW o \in FeOwners,
           NEW conf \in [master : FeKeys, old : FeKeys \cup {FeNone}]
    PROVE  FeDecrypt(conf, c, o) <=> c.owner = o /\ c.master \in {conf.master, conf.old}
<1> USE EncryptionAssumption DEF FeDecrypt, FeDecryptV1, FeDecryptV2, FeDecryptWithKey, FeDecryptWithKeyV2,
        FeOpens, FeSeal, FeDeriveKeyV1, FeDeriveKeyV2, FeKeys
<1>1. PICK m \in FeKeys, q \in FeOwners :
          \/ c = FeSeal(1, FeDeriveKeyV1(m, q), FeNone, m, q)
          \/ c = FeSeal(2, FeDeriveKeyV2(m, q), q, m, q)
  BY DEF FeWritten
<1>2. CASE c = FeSeal(1, FeDeriveKeyV1(m, q), FeNone, m, q)
  BY <1>2
<1>3. CASE c = FeSeal(2, FeDeriveKeyV2(m, q), q, m, q)
  BY <1>3
<1> QED BY <1>1, <1>2, <1>3

LEMMA FieldsStep ==
    ASSUME FieldsInv, [FeNext]_feVars
    PROVE  FieldsInv'
<1> USE DEF FieldsInv
<1>1. ASSUME NEW i \in FeInstances, NEW o \in FeOwners, FeStore(i, o) \/ FeVend(i, o)
      PROVE  FieldsInv'
  BY <1>1, EncryptWrites DEF FeStore, FeVend
<1>2. ASSUME NEW i \in FeInstances, NEW keep \in BOOLEAN, FeRestart(i, keep) PROVE FieldsInv'
  BY <1>2, EncryptionAssumption DEF FeRestart, FeKeys
<1>3. ASSUME NEW o \in FeOwners, NEW q \in FeOwners, FeMisplace(o, q) PROVE FieldsInv'
  BY <1>3 DEF FeMisplace
<1>4. CASE UNCHANGED feVars
  BY <1>4 DEF feVars
<1> QED BY <1>1, <1>2, <1>3, <1>4 DEF FeNext

\* In any order of restarts, writes and misplaced rows an instance decrypts what
\* its two keys sealed for the owner, in either format, and nothing else
\* (Encryptor.Decrypt).
THEOREM FieldsStaySound == FeSpec => []FieldsSound
<1>1. FeInit => FieldsInv
  <2> SUFFICES ASSUME FeInit PROVE FieldsInv
    OBVIOUS
  <2>1. ASSUME NEW o \in FeOwners
        PROVE  FeWritten(FeLegacy(o)) /\ FeWritten(FeEncrypt([master |-> 1, old |-> FeNone], o))
    BY EncryptionAssumption DEF FeWritten, FeLegacy, FeEncrypt, FeKeys
  <2> QED BY <2>1, EncryptionAssumption DEF FeInit, FieldsInv, FeKeys
<1>2. FieldsInv /\ [FeNext]_feVars => FieldsInv'
  BY FieldsStep
<1>3. FieldsInv => FieldsSound
  BY OpensForOne DEF FieldsInv, FieldsSound, FeOwnCredentialOnly, FeReadsItsTwoKeys
<1> QED BY <1>1, <1>2, <1>3, PTL DEF FeSpec

-----------------------------------------------------------------------------
(* VaultKeys: the AppRole token *)

\* The ticker never lies further ahead than one interval after the login that
\* precedes it, and a login ends in time; so a token that no failure followed is
\* replaced one interval and two timeouts after its grant at the latest.
LoginInv ==
    /\ vlNow \in Nat /\ vlTick \in Nat /\ vlFailed \in BOOLEAN
    /\ vlToken \in [at : Nat, lease : VlLeases]
    /\ vlNow <= VlLast
    /\ vlInterval = VlRenewInterval(vlToken.lease)
    /\ vlSince # VlIdle =>
          /\ vlSince \in Nat
          /\ vlSince <= vlNow
          /\ vlNow <= vlSince + VlHttpTimeout
          /\ vlTick <= vlSince + vlInterval
          /\ ~vlFailed => vlSince <= vlToken.at + vlInterval + VlHttpTimeout
    /\ vlSince = VlIdle /\ ~vlFailed =>
          /\ vlTick <= vlToken.at + vlInterval + VlHttpTimeout
          /\ vlNow <= vlToken.at + vlInterval + VlHttpTimeout

\* A renewal interval is a number of time units.
LEMMA IntervalIsNat ==
    ASSUME NEW lease \in VlLeases
    PROVE  lease \in Nat /\ VlRenewInterval(lease) \in Nat
BY LoginAssumption DEF VlRenewInterval

LEMMA LoginStep ==
    ASSUME LoginInv, [VlNext]_vlVars
    PROVE  LoginInv'
<1> USE LoginAssumption DEF LoginInv, VlIdle
<1>0. vlToken.lease \in VlLeases /\ vlInterval \in Nat /\ vlToken.at \in Nat
  BY IntervalIsNat
<1>1. CASE VlTickFires
  BY <1>0, <1>1 DEF VlTickFires
<1>2. CASE VlLoggedIn
  <2>1. PICK lease \in VlLeases, granted \in vlSince .. vlNow :
            vlToken' = [at |-> granted, lease |-> lease] /\ VlReschedule(lease)
    BY <1>2 DEF VlLoggedIn
  <2>2. VlRenewInterval(lease) \in Nat
    BY IntervalIsNat
  <2>3. /\ vlSince # VlIdle /\ vlSince' = VlIdle /\ vlFailed' = FALSE /\ vlNow' = vlNow
        /\ vlSince \in Nat /\ granted \in Nat /\ vlSince <= granted
    BY <1>2 DEF VlLoggedIn
  <2>4. vlInterval' = VlRenewInterval(lease) /\ vlToken'.lease = lease /\ vlToken'.at = granted
    BY <2>1 DEF VlReschedule
  <2>5. /\ vlTick' \in Nat
        /\ vlTick' <= granted + vlInterval' + VlHttpTimeout
    BY <1>0, <2>1, <2>2, <2>3, <2>4 DEF VlReschedule
  <2>6. vlNow' <= granted + vlInterval' + VlHttpTimeout
    BY <2>2, <2>3, <2>4
  <2> QED BY <2>1, <2>3, <2>4, <2>5, <2>6
<1>3. CASE VlLoginFails
  BY <1>3 DEF VlLoginFails
<1>4. CASE VlPass
  BY <1>0, <1>4 DEF VlPass
<1>5. CASE UNCHANGED vlVars
  BY <1>5 DEF vlVars
<1> QED BY <1>1, <1>2, <1>3, <1>4, <1>5 DEF VlNext

\* The Vault token never lapses before it is replaced, for every set of leases,
\* floor and timeout, while logins succeed and the lease is long enough for one
\* interval and two timeouts (renewLoop, appRoleLogin).
THEOREM VaultTokenLives == VlSpec => []VlTokenLives
<1>1. VlInit => LoginInv
  <2> SUFFICES ASSUME VlInit PROVE LoginInv
    OBVIOUS
  <2>1. PICK lease \in VlLeases : vlToken = [at |-> 0, lease |-> lease] /\ vlInterval = VlRenewInterval(lease)
    BY DEF VlInit
  <2>2. VlRenewInterval(lease) \in Nat
    BY IntervalIsNat
  <2>3. /\ vlToken.lease = lease /\ vlToken.at = 0 /\ vlToken \in [at : Nat, lease : VlLeases]
        /\ vlNow = 0 /\ vlTick = vlInterval /\ vlSince = VlIdle /\ vlFailed = FALSE
    BY <2>1 DEF VlInit
  <2>4. vlNow <= VlLast /\ vlInterval = VlRenewInterval(vlToken.lease) /\ vlInterval \in Nat
    BY <2>1, <2>2, <2>3, LoginAssumption
  <2>5. vlTick <= vlToken.at + vlInterval + VlHttpTimeout /\ vlNow <= vlToken.at + vlInterval + VlHttpTimeout
    BY <2>3, <2>4, LoginAssumption
  <2> QED BY <2>3, <2>4, <2>5 DEF LoginInv
<1>2. LoginInv /\ [VlNext]_vlVars => LoginInv'
  BY LoginStep
<1>3. LoginInv => VlTokenLives
  <2> SUFFICES ASSUME LoginInv, ~vlFailed, VlLongEnough(vlToken.lease)
               PROVE  vlNow < vlToken.at + vlToken.lease
    BY DEF VlTokenLives
  <2>1. vlToken.lease \in Nat /\ vlInterval \in Nat /\ vlToken.at \in Nat
        /\ vlInterval = VlRenewInterval(vlToken.lease)
    BY IntervalIsNat DEF LoginInv
  <2>2. vlNow <= vlToken.at + vlInterval + 2 * VlHttpTimeout
    BY <2>1, LoginAssumption DEF LoginInv
  <2> QED BY <2>1, <2>2, LoginAssumption DEF VlLongEnough, LoginInv
<1> QED BY <1>1, <1>2, <1>3, PTL DEF VlSpec

-----------------------------------------------------------------------------
(* KeyFile *)

KfMoving == {"moveKid", "writePem", "writeKid", "reload"}

\* The cached document has the current key, unless a CLI came after it.
KfCachedFresh ==
    ~kfForeign /\ kfJwks # KfNone /\ KfAllLoad /\ kfCurrent.pem # KfNone
        => <<kfCurrent.pem, kfCurrent.kid>> \in kfJwks

\* Unless the server itself is saving, its document is as good as it says.
KfFresh == (\A t \in KfThreads \ KfClis : kfPc[t] \notin KfMoving) => KfCachedFresh

\* A thread that is busy has a key in hand.
KfHolds == \A t \in KfThreads : kfPc[t] # "idle" => kfKey[t] \in KfKeys

KfInv == KfTypeOK /\ KfHolds /\ KfFresh

\* What ListActive loads are pairs of keys.
LEMMA ActiveIsTyped ==
    ASSUME KfTypeOK, KfAllLoad
    PROVE  KfActive \subseteq KfKeys \X KfKeys
BY DEF KfTypeOK, KfAllLoad, KfActive, KfListed, KfFiles

\* A reload leaves the current key in the document, or files that do not load.
LEMMA ReloadIsFresh ==
    ASSUME KfReload, UNCHANGED kfFileVars
    PROVE  KfCachedFresh'
<1>1. UNCHANGED KfAllLoad
  BY DEF kfFileVars, KfAllLoad, KfListed
<1>2. CASE KfAllLoad
  BY <1>1, <1>2 DEF KfReload, KfCachedFresh, KfActive, KfListed, kfFileVars
<1>3. CASE ~KfAllLoad
  BY <1>1, <1>3 DEF KfCachedFresh
<1> QED BY <1>2, <1>3

\* The document stays as good as it was while nothing it depends on changes and no
\* save of the server ends.
LEMMA FreshStays ==
    ASSUME KfFresh, UNCHANGED <<kfCurrent, kfPrevious, kfJwks, kfForeign>>,
           \A t \in KfThreads \ KfClis : kfPc'[t] \notin KfMoving => kfPc[t] \notin KfMoving
    PROVE  KfFresh'
BY DEF KfFresh, KfCachedFresh, KfAllLoad, KfListed

\* A request or a rotation that arrives has read or generated a key.
LEMMA FileArrival ==
    ASSUME KfInv, NEW t \in KfThreads, KfGetSigningKey(t) \/ KfRotateKey(t)
    PROVE  KfInv'
<1> USE FileAssumption DEF KfInv
<1>1. /\ UNCHANGED <<kfCurrent, kfPrevious, kfJwks, kfCrashes, kfTokens, kfForeign>>
      /\ \/ /\ kfCurrent.pem # KfNone /\ kfKey' = [kfKey EXCEPT ![t] = kfCurrent.pem]
            /\ kfPc' = [kfPc EXCEPT ![t] = "readKid"] /\ UNCHANGED kfGenerated
         \/ KfGenerate(t)
  BY DEF KfGetSigningKey, KfRotateKey, kfFileVars, KfGoto
<1>2. KfTypeOK'
  BY <1>1 DEF KfTypeOK, KfGenerate, KfKeys, KfFiles, KfGoto
<1>3. KfHolds'
  BY <1>1 DEF KfTypeOK, KfHolds, KfGenerate, KfKeys, KfFiles, KfGoto
<1>4. kfPc[t] = "idle" /\ \A u \in KfThreads : u # t => kfPc'[u] = kfPc[u]
  BY <1>1 DEF KfTypeOK, KfGenerate, KfGoto, KfGetSigningKey, KfRotateKey
<1>5. KfFresh'
  BY <1>1, <1>4, FreshStays DEF KfMoving
<1> QED BY <1>2, <1>3, <1>5

\* current.kid is read, whatever moves meanwhile.
LEMMA FileRead ==
    ASSUME KfInv, NEW t \in KfThreads, KfReadKid(t)
    PROVE  KfInv'
<1> USE DEF KfInv
<1>1. /\ UNCHANGED <<kfCurrent, kfPrevious, kfJwks, kfCrashes, kfForeign, kfKey, kfGenerated>>
      /\ kfPc[t] = "readKid" /\ kfPc' = [kfPc EXCEPT ![t] = "idle"]
  BY DEF KfReadKid, kfFileVars, KfGoto
<1>2. kfTokens' \subseteq KfKeys \X KfKeys
  BY <1>1 DEF KfReadKid, KfTypeOK, KfHolds, KfFiles
<1>3. KfTypeOK' /\ KfHolds'
  BY <1>1, <1>2 DEF KfTypeOK, KfHolds
<1>4. KfFresh'
  BY <1>1, FreshStays DEF KfMoving, KfTypeOK
<1> QED BY <1>3, <1>4

\* A step of a save is the server's own, or marks the files as touched by a CLI.
LEMMA FileMove ==
    ASSUME KfInv, NEW t \in KfThreads,
           KfMovePem(t) \/ KfMoveKid(t) \/ KfWritePem(t) \/ KfWriteKid(t)
    PROVE  KfInv'
<1> USE DEF KfInv
<1>1. /\ UNCHANGED <<kfJwks, kfGenerated, kfCrashes, kfTokens, kfKey>>
      /\ kfForeign' = (kfForeign \/ t \in KfClis)
      /\ kfPc[t] # "idle"
  BY DEF KfMovePem, KfMoveKid, KfWritePem, KfWriteKid, KfTouch
<1>2. PICK label \in {"moveKid", "writePem", "writeKid", "reload", "idle"} :
        /\ kfPc' = [kfPc EXCEPT ![t] = label]
        /\ label = "idle" => t \in KfClis
  BY DEF KfMovePem, KfMoveKid, KfWritePem, KfWriteKid, KfGoto
<1>3. kfCurrent' \in KfFiles /\ kfPrevious' \in KfFiles
  BY DEF KfMovePem, KfMoveKid, KfWritePem, KfWriteKid, kfFileVars, KfTypeOK, KfFiles
<1>4. kfForeign' \in BOOLEAN
  BY <1>1, Zenon DEF KfTypeOK
<1>5. KfTypeOK' /\ KfHolds'
  BY <1>1, <1>2, <1>3, <1>4 DEF KfTypeOK, KfHolds
<1>6. t \in KfClis => KfFresh'
  BY <1>1 DEF KfFresh, KfCachedFresh
<1>7. t \notin KfClis => KfFresh'
  BY <1>2 DEF KfFresh, KfMoving, KfTypeOK
<1> QED BY <1>5, <1>6, <1>7

\* The reload that ends a save, and the one of a signal.
LEMMA FileReload ==
    ASSUME KfInv, KfReloadOnSignal \/ \E t \in KfThreads : KfReloadAfterSave(t)
    PROVE  KfInv'
<1> USE DEF KfInv
<1>1. KfReload /\ UNCHANGED <<kfCurrent, kfPrevious, kfGenerated, kfCrashes, kfKey>>
  BY DEF KfReloadOnSignal, KfReloadAfterSave, kfFileVars
<1>2. KfCachedFresh'
  BY <1>1, ReloadIsFresh DEF kfFileVars
<1>3. kfJwks' \in (SUBSET (KfKeys \X KfKeys)) \cup {KfNone}
  BY <1>1, ActiveIsTyped DEF KfReload, KfTypeOK
<1>4. kfForeign' \in BOOLEAN
  BY <1>1, Zenon DEF KfReload, KfTypeOK
<1>5. kfTokens' \subseteq KfKeys \X KfKeys
  BY DEF KfReloadOnSignal, KfReloadAfterSave, KfTypeOK, KfHolds
<1>6. /\ kfPc' \in [KfThreads -> {"idle", "readKid", "save", "moveKid", "writePem", "writeKid", "reload"}]
      /\ \A t \in KfThreads : kfPc'[t] # "idle" => kfPc[t] # "idle"
  BY DEF KfReloadOnSignal, KfReloadAfterSave, KfGoto, KfTypeOK
<1>7. KfTypeOK' /\ KfHolds'
  BY <1>1, <1>3, <1>4, <1>5, <1>6 DEF KfTypeOK, KfHolds
<1> QED BY <1>2, <1>7 DEF KfFresh

\* A crash of the server empties its cache, one of a CLI leaves the files touched.
LEMMA FileCrash ==
    ASSUME KfInv, KfCrashServer \/ \E t \in KfClis : KfCrashCli(t)
    PROVE  KfInv'
<1> USE FileAssumption DEF KfInv
<1>1. CASE KfCrashServer
  <2>1. KfTypeOK'
    <3>1. kfCrashes' \in 0 .. KfMaxCrashes
      BY <1>1 DEF KfCrashServer, KfTypeOK
    <3>2. kfForeign' \in BOOLEAN
      BY <1>1, Zenon DEF KfCrashServer
    <3>3. kfPc' \in [KfThreads -> {"idle", "readKid", "save", "moveKid", "writePem", "writeKid", "reload"}]
      BY <1>1 DEF KfCrashServer, KfTypeOK
    <3>4. kfJwks' \in (SUBSET (KfKeys \X KfKeys)) \cup {KfNone}
      BY <1>1 DEF KfCrashServer
    <3>5. UNCHANGED <<kfCurrent, kfPrevious, kfGenerated, kfTokens, kfKey>>
      BY <1>1 DEF KfCrashServer, kfFileVars
    <3> QED BY <3>1, <3>2, <3>3, <3>4, <3>5 DEF KfTypeOK
  <2>2. KfHolds'
    BY <1>1 DEF KfCrashServer, KfTypeOK, KfHolds, kfFileVars
  <2> QED BY <1>1, <2>1, <2>2 DEF KfCrashServer, KfFresh, KfCachedFresh
<1>2. ASSUME NEW t \in KfClis, KfCrashCli(t) PROVE KfInv'
  <2>1. t \in KfThreads
    BY DEF KfThreads
  <2>2. KfTypeOK'
    BY <1>2, <2>1 DEF KfCrashCli, KfTypeOK, kfFileVars, KfGoto
  <2>3. KfHolds'
    BY <1>2, <2>1 DEF KfCrashCli, KfTypeOK, KfHolds, kfFileVars, KfGoto
  <2>4. KfFresh'
    BY <1>2, FreshStays DEF KfCrashCli, KfGoto, KfTypeOK, kfFileVars
  <2> QED BY <2>2, <2>3, <2>4
<1> QED BY <1>1, <1>2

\* Unless a CLI has changed the files behind the server, the served document holds the
\* key of the files, for any number of keys, crashes and saves that overlap one
\* another and the requests (Store.Save, JWKSService.Reload, JWKSService.BuildJWKS).
THEOREM SigningKeyStaysPublished == KfSpec => []SigningKeyIsPublished
<1>1. KfInit => KfInv
  <2> SUFFICES ASSUME KfInit PROVE KfInv
    OBVIOUS
  <2>1. KfTypeOK
    <3>1. KfMissing \in KfFiles
      BY DEF KfMissing, KfFiles
    <3>2. 0 \in 0 .. KfMaxKeys /\ 0 \in 0 .. KfMaxCrashes
      BY FileAssumption
    <3>3. kfForeign \in BOOLEAN
      BY Zenon DEF KfInit
    <3>4. kfTokens \subseteq KfKeys \X KfKeys
      BY DEF KfInit
    <3>5. kfJwks \in (SUBSET (KfKeys \X KfKeys)) \cup {KfNone}
      BY Zenon DEF KfInit
    <3>6. /\ kfPc \in [KfThreads -> {"idle", "readKid", "save", "moveKid", "writePem", "writeKid", "reload"}]
          /\ kfKey \in [KfThreads -> KfKeys \cup {KfNone}]
      BY DEF KfInit
    <3>7. /\ kfCurrent \in KfFiles /\ kfPrevious \in KfFiles
          /\ kfGenerated \in 0 .. KfMaxKeys /\ kfCrashes \in 0 .. KfMaxCrashes
      BY <3>1, <3>2 DEF KfInit
    <3> QED BY <3>3, <3>4, <3>5, <3>6, <3>7, Zenon DEF KfTypeOK
  <2>2. KfHolds /\ KfFresh
    BY DEF KfInit, KfHolds, KfFresh, KfCachedFresh
  <2> QED BY <2>1, <2>2 DEF KfInv
<1>2. KfInv /\ [KfNext]_kfVars => KfInv'
  <2> SUFFICES ASSUME KfInv, [KfNext]_kfVars PROVE KfInv'
    OBVIOUS
  <2>1. CASE UNCHANGED kfVars
    BY <2>1 DEF kfVars, KfInv, KfHolds, KfFresh, KfTypeOK, KfCachedFresh, KfAllLoad, KfListed
  <2>2. CASE KfNext
    BY <2>2, FileArrival, FileRead, FileMove, FileReload, FileCrash DEF KfNext, KfSave, KfThreads
  <2> QED BY <2>1, <2>2
<1>3. KfInv => SigningKeyIsPublished
  <2> SUFFICES ASSUME KfInv, KfIdle, ~kfForeign, KfAllLoad, kfCurrent.pem # KfNone
               PROVE  <<kfCurrent.pem, kfCurrent.kid>> \in KfServed
    BY DEF SigningKeyIsPublished, KfPublished
  <2>1. CASE kfJwks # KfNone
    BY <2>1 DEF KfInv, KfFresh, KfIdle, KfMoving, KfCachedFresh, KfServed
  <2>2. CASE kfJwks = KfNone
    BY <2>2 DEF KfServed, KfActive, KfListed
  <2> QED BY <2>1, <2>2
<1> QED BY <1>1, <1>2, <1>3, PTL DEF KfSpec

-----------------------------------------------------------------------------
(* KeyRotation *)

\* What each kind of thread does and where.
ThreadInv ==
    /\ \A i \in Instances :
          at[i] = i /\ pc[i] \in {"idle", "invalidate", "list", "publish", "wait"}
    /\ \A t \in Signers :
          /\ pc[t] \in {"idle", "read", "fill", "done"}
          /\ pc[t] \in {"read", "fill"} => at[t] \in Instances
    /\ \A t \in Rotators :
          /\ pc[t] \in {"idle", "save", "commit", "blocked", "refresh", "list", "publish"}
          /\ at[t] \in AdminAt \cup {None}
          /\ pc[t] \in {"save", "commit", "blocked", "refresh"} => key[t] \in Keys
          /\ pc[t] \in {"refresh", "list", "publish"} => at[t] # None

\* A prune leaves the current key and at most one other.
TableInv == current \in rows /\ \E a, b \in Keys : rows = {a, b}

\* An instance that missed no notification has the table in its document, or one still
\* to handle, or a reload under way that has read the table; and the same of the
\* cached key and of the requests about to cache one.
Follows(i) ==
    /\ pending[i] = 0 /\ pc[i] \in {"idle", "wait"} /\ i \notin failed \cup crossed => jwks[i] = rows
    /\ pending[i] = 0 /\ pc[i] = "publish" => list[i] = rows

CachesCurrent(i) ==
    /\ cached[i] \in {NoKey, current}
    /\ \A t \in Signers : pc[t] = "fill" /\ at[t] = i => key[t] = current

FollowInv ==
    \A i \in Instances : i \notin missed =>
        /\ Follows(i)
        /\ i \notin overtaken /\ pending[i] = 0 /\ pc[i] # "invalidate" => CachesCurrent(i)

RotationInv == TypeOK /\ ThreadInv /\ TableInv /\ FollowInv

\* Threads of different kinds are different.
LEMMA ThreadKinds ==
    /\ \A t \in Threads : t \in Signers \/ t \in Rotators \/ t \in Instances
    /\ \A t \in Signers : t \in Threads /\ t \notin Rotators /\ t \notin Instances
    /\ \A t \in Rotators : t \in Threads /\ t \notin Signers /\ t \notin Instances
    /\ \A t \in Instances : t \in Threads /\ t \notin Signers /\ t \notin Rotators
BY KeysAssumption DEF Threads

\* The newest of the at most two keys of the table is a key of the table.
LEMMA NewestIsARow ==
    ASSUME TableInv
    PROVE  Max(rows) \in rows /\ \A k \in rows : Max(rows) >= k
<1>1. PICK a \in Keys, b \in Keys : rows = {a, b}
  BY DEF TableInv
<1>2. a \in Nat /\ b \in Nat
  BY KeysAssumption DEF Keys
<1>3. \E x \in rows : \A y \in rows : x >= y
  BY <1>1, <1>2
<1> QED BY <1>3 DEF Max

\* The threads that Return clears have nothing left that the invariants read.
LEMMA ReturnKeeps ==
    ASSUME TypeOK, Return
    PROVE  /\ \A t \in Threads : at'[t] \in {at[t], None} /\ key'[t] \in {key[t], NoKey}
           /\ \A t \in Threads : pc'[t] \notin {"idle", "done"} => at'[t] = at[t] /\ key'[t] = key[t]
           /\ \A i \in Instances : at'[i] = at[i] /\ key'[i] = key[i]
           /\ at' \in [Threads -> Instances \cup {None}]
           /\ key' \in [Threads -> Keys \cup {NoKey}]
BY ThreadKinds DEF TypeOK, Return

\* Every variable keeps its type.
LEMMA RotationTypeStep ==
    ASSUME RotationInv, [Next]_vars
    PROVE  TypeOK'
<1> USE ThreadKinds, KeysAssumption
        DEF RotationInv, TypeOK, ThreadInv, Goto, tableVars, cacheVars, listenVars, threadVars, history, Reloaded
<1>1. ASSUME NEW t \in Signers, LoadCurrent(t) PROVE TypeOK'
  BY <1>1 DEF LoadCurrent
<1>2. ASSUME NEW t \in Signers, LoadRow(t) PROVE TypeOK'
  BY <1>2 DEF LoadRow
<1>3. ASSUME NEW t \in Signers, FillCache(t) PROVE TypeOK'
  BY <1>3, ReturnKeeps DEF FillCache
<1>4. ASSUME NEW t \in Rotators, RotateKey(t) PROVE TypeOK'
  BY <1>4 DEF RotateKey, Keys
<1>5. ASSUME NEW t \in Rotators, SaveBegin(t) PROVE TypeOK'
  BY <1>5 DEF SaveBegin
<1>6. ASSUME NEW t \in Rotators, SaveCommit(t) PROVE TypeOK'
  <2>1. rows' \subseteq Keys /\ current' \in Keys
    BY <1>6, NewestIsARow DEF SaveCommit, Kept
  <2>2. pending' \in [Instances -> Nat]
    BY <1>6 DEF SaveCommit
  <2>3. attempt' \in [Rotators -> 0 .. MaxRetries]
    BY <1>6 DEF SaveCommit
  <2>4. pc' \in [Threads -> {"idle", "read", "fill", "save", "commit", "blocked", "refresh",
                            "invalidate", "list", "publish", "wait", "done"}]
    BY <1>6 DEF SaveCommit
  <2> QED BY <1>6, <2>1, <2>2, <2>3, <2>4, ReturnKeeps DEF SaveCommit
<1>7. ASSUME NEW t \in Rotators, SaveFail(t) PROVE TypeOK'
  <2>1. pc' \in [Threads -> {"idle", "read", "fill", "save", "commit", "blocked", "refresh",
                            "invalidate", "list", "publish", "wait", "done"}]
        /\ holder' \in Rotators \cup {None}
    BY <1>7 DEF SaveFail
  <2>2. attempt' \in [Rotators -> 0 .. MaxRetries]
    BY <1>7 DEF SaveFail
  <2>3. /\ Return
        /\ UNCHANGED <<rows, current, generated, cached, jwks, connected, pending, disconnects,
                       list, history>>
    BY <1>7 DEF SaveFail
  <2> QED BY <2>1, <2>2, <2>3, ReturnKeeps
<1>8. ASSUME NEW t \in Rotators, RefreshCache(t) PROVE TypeOK'
  BY <1>8 DEF RefreshCache
<1>9. ASSUME NEW t \in Rotators \cup Instances, ListActive(t) PROVE TypeOK'
  BY <1>9, ReturnKeeps DEF ListActive
<1>10. ASSUME NEW t \in Rotators \cup Instances, Publish(t) PROVE TypeOK'
  BY <1>10, ReturnKeeps DEF Publish
<1>11. ASSUME NEW i \in Instances, Notified(i) PROVE TypeOK'
  BY <1>11 DEF Notified
<1>12. ASSUME NEW i \in Instances, Invalidate(i) PROVE TypeOK'
  BY <1>12 DEF Invalidate
<1>13. ASSUME NEW i \in Instances, Disconnect(i) PROVE TypeOK'
  BY <1>13 DEF Disconnect
<1>14. ASSUME NEW i \in Instances, Reconnect(i) PROVE TypeOK'
  BY <1>14 DEF Reconnect
<1>15. CASE UNCHANGED vars
  BY <1>15 DEF vars
<1> QED BY <1>1, <1>2, <1>3, <1>4, <1>5, <1>6, <1>7, <1>8, <1>9, <1>10, <1>11, <1>12, <1>13, <1>14, <1>15
        DEF Next, Rotate, Listen

\* A transaction that fails ends its call, and lets at most one other go on.
LEMMA FailMoves ==
    ASSUME RotationInv, NEW t \in Rotators, SaveFail(t)
    PROVE  \A u \in Threads :
               \/ pc'[u] = pc[u]
               \/ u \in Rotators /\ pc'[u] = "idle"
               \/ u \in Rotators /\ pc[u] = "blocked" /\ pc'[u] = "commit"
BY ThreadKinds DEF RotationInv, TypeOK, SaveFail, Goto

\* Each kind of thread keeps to its own labels and place.
LEMMA ThreadStep ==
    ASSUME RotationInv, [Next]_vars
    PROVE  ThreadInv'
<1> USE ThreadKinds, KeysAssumption
        DEF RotationInv, TypeOK, ThreadInv, Goto, tableVars, cacheVars, listenVars, threadVars, history, Reloaded
<1>1. ASSUME NEW t \in Signers, LoadCurrent(t) PROVE ThreadInv'
  BY <1>1 DEF LoadCurrent
<1>2. ASSUME NEW t \in Signers, LoadRow(t) PROVE ThreadInv'
  BY <1>2 DEF LoadRow
<1>3. ASSUME NEW t \in Signers, FillCache(t) PROVE ThreadInv'
  BY <1>3, ReturnKeeps DEF FillCache
<1>4. ASSUME NEW t \in Rotators, RotateKey(t) PROVE ThreadInv'
  BY <1>4 DEF RotateKey, Keys
<1>5. ASSUME NEW t \in Rotators, SaveBegin(t) PROVE ThreadInv'
  BY <1>5 DEF SaveBegin
<1>6. ASSUME NEW t \in Rotators, SaveCommit(t) PROVE ThreadInv'
  BY <1>6, ReturnKeeps DEF SaveCommit
<1>7. ASSUME NEW t \in Rotators, SaveFail(t) PROVE ThreadInv'
  <2>1. /\ Return
        /\ UNCHANGED <<rows, current, generated, cached, jwks, connected, pending, disconnects,
                       list, history>>
    BY <1>7 DEF SaveFail
  <2> QED BY <1>7, <2>1, ReturnKeeps, FailMoves
<1>8. ASSUME NEW t \in Rotators, RefreshCache(t) PROVE ThreadInv'
  BY <1>8 DEF RefreshCache
<1>9. ASSUME NEW t \in Rotators \cup Instances, ListActive(t) PROVE ThreadInv'
  BY <1>9, ReturnKeeps DEF ListActive
<1>10. ASSUME NEW t \in Rotators \cup Instances, Publish(t) PROVE ThreadInv'
  BY <1>10, ReturnKeeps DEF Publish
<1>11. ASSUME NEW i \in Instances, Notified(i) PROVE ThreadInv'
  BY <1>11 DEF Notified
<1>12. ASSUME NEW i \in Instances, Invalidate(i) PROVE ThreadInv'
  BY <1>12 DEF Invalidate
<1>13. ASSUME NEW i \in Instances, Disconnect(i) PROVE ThreadInv'
  BY <1>13 DEF Disconnect
<1>14. ASSUME NEW i \in Instances, Reconnect(i) PROVE ThreadInv'
  BY <1>14 DEF Reconnect
<1>15. CASE UNCHANGED vars
  BY <1>15 DEF vars
<1> QED BY <1>1, <1>2, <1>3, <1>4, <1>5, <1>6, <1>7, <1>8, <1>9, <1>10, <1>11, <1>12, <1>13, <1>14, <1>15
        DEF Next, Rotate, Listen

\* The prune leaves two keys, of which the new one is current.
LEMMA TableStep ==
    ASSUME RotationInv, [Next]_vars
    PROVE  TableInv'
<1>1. ASSUME NEW t \in Rotators, SaveCommit(t) PROVE TableInv'
  <2>1. key[t] \in Keys
    BY <1>1 DEF SaveCommit, RotationInv, ThreadInv
  <2>2. Max(rows) \in Keys
    BY NewestIsARow DEF RotationInv, TypeOK
  <2>3. rows' = {key[t], Max(rows)} /\ current' = key[t]
    BY <1>1 DEF SaveCommit, Kept
  <2> QED BY <2>1, <2>2, <2>3 DEF TableInv
<1>2. CASE UNCHANGED <<rows, current>>
  BY <1>2 DEF RotationInv, TableInv
<1>3. CASE \A t \in Rotators : ~SaveCommit(t)
  BY <1>2, <1>3 DEF Next, Rotate, Listen, LoadCurrent, LoadRow, FillCache, RotateKey, SaveBegin,
     SaveFail, RefreshCache, ListActive, Publish, Notified, Invalidate, Disconnect, Reconnect,
     tableVars, vars
<1> QED BY <1>1, <1>3

\* A commit leaves a notification with every connected listener, and a listener
\* that takes the last one reads the table afterwards.
LEMMA FollowStep ==
    ASSUME RotationInv, [Next]_vars
    PROVE  FollowInv'
<1> USE ThreadKinds, KeysAssumption
        DEF RotationInv, TypeOK, ThreadInv, FollowInv, Follows, CachesCurrent, Goto, tableVars, cacheVars, listenVars, threadVars, history, Reloaded
<1>1. ASSUME NEW t \in Signers, LoadCurrent(t) PROVE FollowInv'
  BY <1>1 DEF LoadCurrent
<1>2. ASSUME NEW t \in Signers, LoadRow(t) PROVE FollowInv'
  BY <1>2 DEF LoadRow
<1>3. ASSUME NEW t \in Signers, FillCache(t) PROVE FollowInv'
  BY <1>3, ReturnKeeps DEF FillCache
<1>4. ASSUME NEW t \in Rotators, RotateKey(t) PROVE FollowInv'
  BY <1>4 DEF RotateKey
<1>5. ASSUME NEW t \in Rotators, SaveBegin(t) PROVE FollowInv'
  BY <1>5 DEF SaveBegin
<1>6. ASSUME NEW t \in Rotators, SaveCommit(t) PROVE FollowInv'
  BY <1>6, ReturnKeeps DEF SaveCommit
<1>7. ASSUME NEW t \in Rotators, SaveFail(t) PROVE FollowInv'
  <2>1. /\ Return
        /\ UNCHANGED <<rows, current, generated, cached, jwks, connected, pending, disconnects,
                       list, history>>
    BY <1>7 DEF SaveFail
  <2> QED BY <1>7, <2>1, ReturnKeeps, FailMoves
<1>8. ASSUME NEW t \in Rotators, RefreshCache(t) PROVE FollowInv'
  BY <1>8 DEF RefreshCache
<1>9. ASSUME NEW t \in Rotators \cup Instances, ListActive(t) PROVE FollowInv'
  BY <1>9, ReturnKeeps DEF ListActive
<1>10. ASSUME NEW t \in Rotators \cup Instances, Publish(t) PROVE FollowInv'
  BY <1>10, ReturnKeeps DEF Publish
<1>11. ASSUME NEW i \in Instances, Notified(i) PROVE FollowInv'
  BY <1>11 DEF Notified
<1>12. ASSUME NEW i \in Instances, Invalidate(i) PROVE FollowInv'
  BY <1>12 DEF Invalidate
<1>13. ASSUME NEW i \in Instances, Disconnect(i) PROVE FollowInv'
  BY <1>13 DEF Disconnect
<1>14. ASSUME NEW i \in Instances, Reconnect(i) PROVE FollowInv'
  BY <1>14 DEF Reconnect
<1>15. CASE UNCHANGED vars
  BY <1>15 DEF vars
<1> QED BY <1>1, <1>2, <1>3, <1>4, <1>5, <1>6, <1>7, <1>8, <1>9, <1>10, <1>11, <1>12, <1>13, <1>14, <1>15
        DEF Next, Rotate, Listen

\* RotationInv holds in every behaviour.
LEMMA RotationInvariant == Spec => []RotationInv
<1>1. Init => RotationInv
  <2> SUFFICES ASSUME Init PROVE RotationInv
    OBVIOUS
  <2>1. TypeOK
    BY KeysAssumption, ThreadKinds DEF Init, TypeOK, Keys, NoKey
  <2>2. ThreadInv
    BY ThreadKinds DEF Init, ThreadInv
  <2>3. TableInv
    BY KeysAssumption DEF Init, TableInv, Keys
  <2>4. FollowInv
    BY ThreadKinds DEF Init, FollowInv, Follows, CachesCurrent
  <2> QED BY <2>1, <2>2, <2>3, <2>4 DEF RotationInv
<1>2. RotationInv /\ [Next]_vars => RotationInv'
  BY RotationTypeStep, ThreadStep, TableStep, FollowStep DEF RotationInv
<1> QED BY <1>1, <1>2, PTL DEF Spec

\* Whatever rotations race, fail and retry anywhere, whatever connections break and
\* reloads fail, the table keeps the current key and at most one other, and an
\* instance that has settled serves the keys of the table and signs with the current
\* one, but for a race or a failed reload that the next notification mends
\* (KeyStoreListener, CachedKeyStore, JWKSService.Reload).
THEOREM ListenersFollowTable == Spec => []ListenersKeepUp
<1>1. RotationInv => ListenersKeepUp
  <2> SUFFICES ASSUME RotationInv PROVE ListenersKeepUp
    OBVIOUS
  <2>1. TableIsWhole
    BY DEF RotationInv, TableInv, TableIsWhole
  <2>2. SettledPublishesTable /\ SettledSignsWithCurrent
    BY DEF RotationInv, FollowInv, Follows, CachesCurrent, Settled, SettledPublishesTable,
       SettledSignsWithCurrent
  <2> QED BY <2>1, <2>2 DEF RotationInv, ListenersKeepUp
<1> QED BY <1>1, RotationInvariant, PTL

-----------------------------------------------------------------------------
(* VaultKeys *)

VkReloads == {"check", "create", "rotate", "current", "previous", "publish"}

\* The types that VkTypeOK leaves out.
VkMoreTypes ==
    /\ vkWork \in [VkCalls -> [kind : {"sign", "serve", "rotate", "reload"},
                               at : VkInstances \cup {VkNone}]]
    /\ vkAt \in [VkCalls -> VkReloads \cup {"idle", "load", "sign", "done"}]
    /\ vkMaker \in [VkVersions -> VkInstances \cup {VkNone}]
    /\ vkAtBoot \in {0, 1} /\ vkAtBoot <= vkLatest

\* A call that will sign holds a key.
VkHolds ==
    \A p \in VkCalls :
        /\ vkAt[p] = "sign" => VkKind(p) = "sign"
        /\ VkKind(p) = "sign" /\ vkAt[p] \in VkReloads \cup {"sign"} => vkKey[p] \in VkKids

\* The rotations that may have made a version.
VkRotated == {p \in VkCalls : VkKind(p) = "rotate" /\ vkAt[p] \in {"current", "previous", "publish", "done"}}

\* With a key in Vault at the start, only rotations save, each at most once.
VkOutageInv ==
    vkAtBoot > 0 =>
        /\ \A t \in vkTokens : t.kid \in VkVersions
        /\ \A p \in VkCalls :
              /\ vkAt[p] # "create"
              /\ vkAt[p] \in {"check", "rotate"} => VkKind(p) = "rotate"
              /\ vkAt[p] \in VkReloads => VkKind(p) \in {"rotate", "reload"}
              /\ vkAt[p] = "sign" => vkKey[p] \in VkVersions
        /\ vkLatest - vkAtBoot <= Cardinality(VkRotated)

\* What an instance must publish once it made the latest version.
VkOwed == {vkLatest} \cup ({vkLatest - 1} \cap VkVersions)

\* Where reloads neither meet nor fail there is one at a time, and the one that
\* follows the making of the latest version has read it.
VkOwnAt(i) ==
    /\ \A p, q \in VkReloading(i) : p = q
    /\ vkLatest > 0 /\ vkMaker[vkLatest] = i =>
          /\ VkReloading(i) = {} => vkDoc[i] # VkNone /\ VkOwed \subseteq vkDoc[i]
          /\ \A p \in VkReloading(i) :
                /\ vkAt[p] = "previous" => vkLatest \in vkList[p]
                /\ vkAt[p] = "publish" => VkOwed \subseteq vkList[p]

VkOwnInv == \A i \in VkInstances \ vkOverlap : VkOwnAt(i)

VaultInv == VkTypeOK /\ VkMoreTypes /\ VkHolds /\ VkTokensNameTheirKey /\ VkOutageInv /\ VkOwnInv

\* A save adds the next version, or finds that the key exists.
LEMMA SavedVersion ==
    ASSUME VkTypeOK, VkMoreTypes, NEW p \in VkCalls, VkSaved(p)
    PROVE  /\ vkLatest' \in VkVersions /\ vkLatest <= vkLatest' /\ vkLatest' <= vkLatest + 1
           /\ vkMaker' \in [VkVersions -> VkInstances \cup {VkNone}]
           /\ vkLatest' # vkLatest => vkMaker'[vkLatest'] = VkPlace(p)
           /\ vkLatest' = vkLatest => vkMaker' = vkMaker
           /\ vkAt[p] # "create" => vkLatest' = vkLatest + 1
<1> USE VaultAssumption DEF VkTypeOK, VkMoreTypes, VkVersions
<1>1. VkMade(p) \in VkVersions /\ vkLatest' = VkMade(p) /\ vkLatest \in Nat
  BY DEF VkSaved
<1>2. VkMade(p) = vkLatest + 1 \/ (vkAt[p] = "create" /\ VkMade(p) = vkLatest)
  BY <1>1 DEF VkMade
<1>3. VkPlace(p) \in VkInstances \cup {VkNone}
  BY DEF VkPlace
<1>4. vkMaker' = IF VkMade(p) > vkLatest THEN [vkMaker EXCEPT ![VkMade(p)] = VkPlace(p)] ELSE vkMaker
  BY DEF VkSaved
<1>5. vkMaker' \in [VkVersions -> VkInstances \cup {VkNone}]
  BY <1>1, <1>3, <1>4
<1>6. vkLatest' # vkLatest => vkMaker'[vkLatest'] = VkPlace(p)
  BY <1>1, <1>2, <1>4
<1>7. vkLatest' = vkLatest => vkMaker' = vkMaker
  BY <1>1, <1>2, <1>4
<1> QED BY <1>1, <1>2, <1>5, <1>6, <1>7

\* Every variable keeps its type.
LEMMA VaultTypeStep ==
    ASSUME VkTypeOK, VkMoreTypes, VkHolds, [VkNext]_vkVars
    PROVE  (VkTypeOK /\ VkMoreTypes)'
<1> USE VaultAssumption DEF VkTypeOK, VkMoreTypes, VkGoto, VkReloads, VkKids
<1>1. ASSUME NEW p \in VkCalls, VkStart(p) PROVE (VkTypeOK /\ VkMoreTypes)'
  BY <1>1 DEF VkStart, VkKind
<1>2. ASSUME NEW p \in VkCalls, VkLoadCurrent(p) PROVE (VkTypeOK /\ VkMoreTypes)'
  <2>1. vkLatest > 0 => vkLatest \in VkVersions
    BY DEF VkVersions
  <2>2. vkKey' \in [VkCalls -> VkKids \cup {VkNone}]
    BY <1>2, <2>1 DEF VkLoadCurrent
  <2> QED BY <1>2, <2>2 DEF VkLoadCurrent
<1>3. ASSUME NEW p \in VkCalls, VkSaveCheck(p) PROVE (VkTypeOK /\ VkMoreTypes)'
  BY <1>3 DEF VkSaveCheck
<1>4. ASSUME NEW p \in VkCalls, VkSave(p) PROVE (VkTypeOK /\ VkMoreTypes)'
  BY <1>4, SavedVersion DEF VkSave, VkVersions
<1>5. ASSUME NEW p \in VkCalls, VkListCurrent(p) PROVE (VkTypeOK /\ VkMoreTypes)'
  BY <1>5 DEF VkListCurrent, VkVersions
<1>6. ASSUME NEW p \in VkCalls, VkListPrevious(p) PROVE (VkTypeOK /\ VkMoreTypes)'
  BY <1>6 DEF VkListPrevious, VkPreviousVersion
<1>7. ASSUME NEW p \in VkCalls, VkPublish(p) PROVE (VkTypeOK /\ VkMoreTypes)'
  BY <1>7 DEF VkPublish, VkReloaded
<1>8. ASSUME NEW p \in VkCalls, VkSign(p) PROVE (VkTypeOK /\ VkMoreTypes)'
  <2>1. vkKey[p] \in VkKids
    BY <1>8 DEF VkSign, VkHolds
  <2> QED BY <1>8, <2>1 DEF VkSign, VkSigningKey
<1>9. ASSUME NEW p \in VkCalls, VkFail(p) PROVE (VkTypeOK /\ VkMoreTypes)'
  <2>1. vkLatest' \in 0 .. VkMaxVersions /\ vkAtBoot <= vkLatest'
        /\ vkMaker' \in [VkVersions -> VkInstances \cup {VkNone}]
    BY <1>9, SavedVersion DEF VkFail, VkVersions
  <2> QED BY <1>9, <2>1 DEF VkFail, VkReloaded, VkMissing
<1>10. CASE UNCHANGED vkVars
  BY <1>10 DEF vkVars
<1> QED BY <1>1, <1>2, <1>3, <1>4, <1>5, <1>6, <1>7, <1>8, <1>9, <1>10 DEF VkNext

\* A call that will sign keeps the key it holds.
LEMMA HoldsStep ==
    ASSUME VkTypeOK, VkMoreTypes, VkHolds, [VkNext]_vkVars
    PROVE  VkHolds'
<1> USE VaultAssumption DEF VkTypeOK, VkMoreTypes, VkHolds, VkGoto, VkReloads, VkKids, VkKind
<1>1. ASSUME NEW p \in VkCalls, VkStart(p) PROVE VkHolds'
  BY <1>1 DEF VkStart
<1>2. ASSUME NEW p \in VkCalls, VkLoadCurrent(p) PROVE VkHolds'
  BY <1>2 DEF VkLoadCurrent, VkVersions
<1>3. ASSUME NEW p \in VkCalls, VkSaveCheck(p) PROVE VkHolds'
  BY <1>3 DEF VkSaveCheck
<1>4. ASSUME NEW p \in VkCalls, VkSave(p) PROVE VkHolds'
  BY <1>4 DEF VkSave
<1>5. ASSUME NEW p \in VkCalls, VkListCurrent(p) PROVE VkHolds'
  BY <1>5 DEF VkListCurrent
<1>6. ASSUME NEW p \in VkCalls, VkListPrevious(p) PROVE VkHolds'
  BY <1>6 DEF VkListPrevious
<1>7. ASSUME NEW p \in VkCalls, VkPublish(p) PROVE VkHolds'
  BY <1>7 DEF VkPublish, VkReloaded, VkKind
<1>8. ASSUME NEW p \in VkCalls, VkSign(p) PROVE VkHolds'
  BY <1>8 DEF VkSign
<1>9. ASSUME NEW p \in VkCalls, VkFail(p) PROVE VkHolds'
  BY <1>9 DEF VkFail, VkReloaded, VkMissing, VkKind
<1>10. CASE UNCHANGED vkVars
  BY <1>10 DEF vkVars
<1> QED BY <1>1, <1>2, <1>3, <1>4, <1>5, <1>6, <1>7, <1>8, <1>9, <1>10 DEF VkNext

\* A token names the key that signs it: the version is the one that was read.
LEMMA NamedKeyStep ==
    ASSUME VkTokensNameTheirKey, [VkNext]_vkVars
    PROVE  VkTokensNameTheirKey'
<1>1. CASE UNCHANGED vkTokens
  BY <1>1 DEF VkTokensNameTheirKey
<1>2. ASSUME NEW p \in VkCalls, VkSign(p) PROVE VkTokensNameTheirKey'
  BY <1>2 DEF VkSign, VkSigningKey, VkTokensNameTheirKey
<1> QED BY <1>1, <1>2 DEF VkNext, VkStart, VkLoadCurrent, VkSaveCheck, VkSave, VkListCurrent,
        VkListPrevious, VkPublish, VkFail, vkVars

\* A call that saves joins the rotations that have, of which there are then more.
LEMMA RotatedGrows ==
    ASSUME VkMoreTypes, NEW p \in VkCalls, VkKind(p) = "rotate", vkAt[p] = "rotate",
           NEW l \in {"current", "done"}, vkAt' = [vkAt EXCEPT ![p] = l], vkWork' = vkWork
    PROVE  Cardinality(VkRotated') = Cardinality(VkRotated) + 1
<1>1. p \notin VkRotated /\ VkRotated' = VkRotated \cup {p}
  BY DEF VkMoreTypes, VkRotated, VkKind, VkReloads
<1>2. IsFiniteSet(VkRotated)
  BY VaultAssumption, FS_Subset DEF VkRotated
<1> QED BY <1>1, <1>2, FS_AddElement

\* No other step takes a rotation away from them.
LEMMA RotatedStays ==
    ASSUME VkRotated \subseteq VkRotated'
    PROVE  /\ Cardinality(VkRotated) \in Nat /\ Cardinality(VkRotated') \in Nat
           /\ Cardinality(VkRotated) <= Cardinality(VkRotated')
<1>1. IsFiniteSet(VkRotated) /\ IsFiniteSet(VkRotated')
  BY VaultAssumption, FS_Subset DEF VkRotated
<1> QED BY <1>1, FS_Subset, FS_CardinalityType

\* With a key in Vault at the start, no call generates one.
LEMMA OutageStep ==
    ASSUME VkTypeOK, VkMoreTypes, VkOutageInv, [VkNext]_vkVars
    PROVE  VkOutageInv'
<1> USE VaultAssumption DEF VkTypeOK, VkMoreTypes, VkGoto, VkReloads, VkKids, VkKind
<1> SUFFICES ASSUME vkAtBoot > 0 PROVE VkOutageInv'
  <2>1. vkAtBoot' = vkAtBoot
    BY DEF VkNext, VkStart, VkLoadCurrent, VkSaveCheck, VkSave, VkListCurrent, VkListPrevious,
           VkPublish, VkSign, VkFail, vkVars
  <2> QED BY <2>1 DEF VkOutageInv
<1>0. vkLatest \in VkVersions
  BY DEF VkVersions
<1> DEFINE Calls ==
      /\ \A t \in vkTokens : t.kid \in VkVersions
      /\ \A p \in VkCalls :
            /\ vkAt[p] # "create"
            /\ vkAt[p] \in {"check", "rotate"} => VkKind(p) = "rotate"
            /\ vkAt[p] \in VkReloads => VkKind(p) \in {"rotate", "reload"}
            /\ vkAt[p] = "sign" => vkKey[p] \in VkVersions
      Count == vkLatest - vkAtBoot <= Cardinality(VkRotated)
<1>q. Calls /\ Count
  BY DEF VkOutageInv
<1>s. Calls' /\ Count' => VkOutageInv'
  BY DEF VkOutageInv
<1>k. ASSUME vkLatest' = vkLatest, vkAtBoot' = vkAtBoot, VkRotated \subseteq VkRotated' PROVE Count'
  BY <1>q, <1>k, RotatedStays
<1> HIDE DEF Count
<1>1. ASSUME NEW p \in VkCalls, VkStart(p) PROVE Calls' /\ Count'
  BY <1>1, <1>q, <1>k DEF VkStart, VkRotated
<1>2. ASSUME NEW p \in VkCalls, VkLoadCurrent(p) PROVE Calls' /\ Count'
  BY <1>0, <1>2, <1>q, <1>k DEF VkLoadCurrent, VkRotated, VkVersions
<1>3. ASSUME NEW p \in VkCalls, VkSaveCheck(p) PROVE Calls' /\ Count'
  BY <1>3, <1>q, <1>k DEF VkSaveCheck, VkRotated
<1>4. ASSUME NEW p \in VkCalls, VkSave(p) PROVE Calls' /\ Count'
  <2>1. vkAt[p] = "rotate" /\ VkKind(p) = "rotate"
    BY <1>4, <1>q DEF VkSave
  <2>2. Calls'
    BY <1>4, <1>q, <2>1 DEF VkSave
  <2>3. vkLatest' = vkLatest + 1 /\ vkAtBoot' = vkAtBoot /\ vkAt' = [vkAt EXCEPT ![p] = "current"]
        /\ vkWork' = vkWork
    BY <1>4, <2>1, SavedVersion DEF VkSave
  <2>4. Cardinality(VkRotated') = Cardinality(VkRotated) + 1
    BY <2>1, <2>3, RotatedGrows
  <2>5. Cardinality(VkRotated) \in Nat
    BY FS_Subset, FS_CardinalityType DEF VkRotated
  <2> QED BY <1>q, <2>2, <2>3, <2>4, <2>5 DEF Count
<1>5. ASSUME NEW p \in VkCalls, VkListCurrent(p) PROVE Calls' /\ Count'
  BY <1>5, <1>q, <1>k DEF VkListCurrent, VkRotated
<1>6. ASSUME NEW p \in VkCalls, VkListPrevious(p) PROVE Calls' /\ Count'
  BY <1>6, <1>q, <1>k DEF VkListPrevious, VkRotated
<1>7. ASSUME NEW p \in VkCalls, VkPublish(p) PROVE Calls' /\ Count'
  BY <1>7, <1>q, <1>k DEF VkPublish, VkReloaded, VkRotated
<1>8. ASSUME NEW p \in VkCalls, VkSign(p) PROVE Calls' /\ Count'
  BY <1>8, <1>q, <1>k DEF VkSign, VkRotated
<1>9. ASSUME NEW p \in VkCalls, VkFail(p) PROVE Calls' /\ Count'
  <2>1. vkAt' = [vkAt EXCEPT ![p] = "done"] /\ vkKey' = vkKey
    BY <1>9, <1>q DEF VkFail, VkMissing, VkReloaded
  <2>2. Calls'
    BY <1>9, <1>q, <2>1 DEF VkFail
  <2>3. CASE vkAt[p] = "rotate"
    <3>1. VkKind(p) = "rotate" /\ vkWork' = vkWork /\ vkAtBoot' = vkAtBoot
      BY <1>9, <1>q, <2>3 DEF VkFail
    <3>2. vkLatest' <= vkLatest + 1 /\ vkLatest' \in Nat
      BY <1>9, SavedVersion DEF VkFail, VkVersions
    <3>3. Cardinality(VkRotated') = Cardinality(VkRotated) + 1
      BY <2>1, <2>3, <3>1, RotatedGrows
    <3>4. Cardinality(VkRotated) \in Nat
      BY FS_Subset, FS_CardinalityType DEF VkRotated
    <3> QED BY <1>q, <2>2, <3>1, <3>2, <3>3, <3>4 DEF Count
  <2>4. CASE vkAt[p] # "rotate"
    <3>1. vkLatest' = vkLatest /\ vkAtBoot' = vkAtBoot /\ vkWork' = vkWork
      BY <1>9, <1>q, <2>4 DEF VkFail
    <3>2. VkRotated \subseteq VkRotated'
      BY <2>1, <3>1 DEF VkRotated
    <3> QED BY <2>2, <3>1, <3>2, <1>k
  <2> QED BY <2>3, <2>4
<1>10. CASE UNCHANGED vkVars
  <2>1. VkRotated' = VkRotated /\ Calls'
    BY <1>10, <1>q DEF vkVars, VkRotated
  <2>2. vkLatest' = vkLatest /\ vkAtBoot' = vkAtBoot /\ VkRotated \subseteq VkRotated'
    BY <1>10, <2>1 DEF vkVars
  <2>3. Count'
    BY <2>2, <1>k
  <2> QED BY <2>1, <2>3, <1>s
<1> QED BY <1>s, <1>1, <1>2, <1>3, <1>4, <1>5, <1>6, <1>7, <1>8, <1>9, <1>10 DEF VkNext

\* A step of call p changes what is reloading on an instance only by p.
LEMMA ReloadingStep ==
    ASSUME VkMoreTypes, NEW p \in VkCalls, NEW l \in VkReloads \cup {"sign", "done", "load"},
           vkAt' = [vkAt EXCEPT ![p] = l], vkWork' = vkWork, NEW i
    PROVE  /\ VkReloading(i)' \ {p} = VkReloading(i) \ {p}
           /\ p \in VkReloading(i)' <=> VkPlace(p) = i /\ l \in VkReloads
           /\ p \in VkReloading(i) <=> VkPlace(p) = i /\ vkAt[p] \in VkReloads
           /\ \A q \in VkCalls \ {p} : vkAt'[q] = vkAt[q]
           /\ vkAt'[p] = l
BY DEF VkMoreTypes, VkReloading, VkReloads, VkPlace

\* A step keeps it on an instance where the call neither reloads nor begins to.
LEMMA OwnElsewhere ==
    ASSUME VkMoreTypes, NEW p \in VkCalls, NEW l \in VkReloads \cup {"sign", "done", "load"},
           vkAt' = [vkAt EXCEPT ![p] = l], vkWork' = vkWork,
           NEW i \in VkInstances, VkOwnAt(i), vkDoc'[i] = vkDoc[i],
           \A q \in VkCalls \ {p} : vkList'[q] = vkList[q],
           VkPlace(p) # i \/ (vkAt[p] \notin VkReloads /\ l \notin VkReloads),
           \/ UNCHANGED <<vkLatest, vkMaker>>
           \/ vkMaker'[vkLatest'] = VkPlace(p) /\ VkPlace(p) # i
    PROVE  VkOwnAt(i)'
<1>1. /\ VkReloading(i)' \ {p} = VkReloading(i) \ {p}
      /\ p \notin VkReloading(i) /\ p \notin VkReloading(i)'
  BY ReloadingStep
<1>2. VkReloading(i)' = VkReloading(i)
  BY <1>1
<1>3. \A q \in VkCalls \ {p} : vkAt'[q] = vkAt[q]
  BY DEF VkMoreTypes
<1>4. VkReloading(i) \subseteq VkCalls
  BY DEF VkReloading
<1>5. UNCHANGED <<vkLatest, vkMaker>> => VkOwed' = VkOwed
  BY DEF VkOwed
<1> QED BY <1>1, <1>2, <1>3, <1>4, <1>5 DEF VkOwnAt

\* A call that begins to reload meets the others, so it is alone if none is noted.
LEMMA BeginReload ==
    ASSUME VkMoreTypes, VkOwnInv, NEW p \in VkCalls, NEW l \in VkReloads \ {"previous", "publish"},
           vkAt' = [vkAt EXCEPT ![p] = l], vkAt[p] \notin VkReloads, VkMeets(p),
           UNCHANGED <<vkLatest, vkMaker, vkDoc, vkWork, vkList>>
    PROVE  VkOwnInv'
<1> SUFFICES ASSUME NEW i \in VkInstances, i \notin vkOverlap' PROVE VkOwnAt(i)'
  BY DEF VkOwnInv
<1>1. VkOwnAt(i)
  BY DEF VkMeets, VkOwnInv
<1>2. CASE VkPlace(p) = i
  <2>1. VkReloading(i)' \ {p} = VkReloading(i) \ {p} /\ p \notin VkReloading(i)
        /\ p \in VkReloading(i)' /\ vkAt'[p] = l
    BY <1>2, ReloadingStep
  <2>2. VkReloading(i)' = {p}
    BY <1>2, <2>1 DEF VkMeets
  <2> QED BY <2>1, <2>2 DEF VkOwnAt
<1>3. CASE VkPlace(p) # i
  BY <1>1, <1>3, OwnElsewhere
<1> QED BY <1>2, <1>3

\* A call that goes on reloading has read the latest version if its instance made it.
LEMMA GoOnReloading ==
    ASSUME VkMoreTypes, VkOwnInv, NEW p \in VkCalls, NEW l \in VkReloads, vkAt[p] \in VkReloads,
           vkAt' = [vkAt EXCEPT ![p] = l], UNCHANGED <<vkWork, vkOverlap, vkDoc>>,
           \A q \in VkCalls \ {p} : vkList'[q] = vkList[q],
           UNCHANGED <<vkLatest, vkMaker>> \/ vkMaker'[vkLatest'] = VkPlace(p),
           l \in {"previous", "publish"} => UNCHANGED <<vkLatest, vkMaker>>,
           l = "previous" => vkLatest = 0 \/ vkLatest \in vkList'[p],
           l = "publish" => /\ vkAt[p] = "previous"
                            /\ vkList'[p] = vkList[p] \cup ({vkLatest - 1} \cap VkVersions)
    PROVE  VkOwnInv'
<1> SUFFICES ASSUME NEW i \in VkInstances, i \notin vkOverlap PROVE VkOwnAt(i)'
  BY DEF VkOwnInv
<1>1. VkOwnAt(i)
  BY DEF VkOwnInv
<1>2. CASE VkPlace(p) = i
  <2>1. VkReloading(i)' \ {p} = VkReloading(i) \ {p} /\ p \in VkReloading(i)
        /\ p \in VkReloading(i)' /\ vkAt'[p] = l
    BY <1>2, ReloadingStep
  <2>2. VkReloading(i) = {p} /\ VkReloading(i)' = {p}
    BY <1>1, <2>1 DEF VkOwnAt
  <2>3. l \in {"previous", "publish"} => VkOwed' = VkOwed
    BY DEF VkOwed
  <2>4. vkLatest > 0 /\ vkMaker[vkLatest] = i /\ l = "publish" => VkOwed \subseteq vkList'[p]
    BY <1>1, <2>2 DEF VkOwnAt, VkOwed
  <2>5. vkLatest > 0 /\ l = "previous" => vkLatest \in vkList'[p]
    OBVIOUS
  <2> QED BY <2>1, <2>2, <2>3, <2>4, <2>5 DEF VkOwnAt
<1>3. CASE VkPlace(p) # i
  BY <1>1, <1>3, OwnElsewhere
<1> QED BY <1>2, <1>3

\* An instance keeps publishing what it made.
LEMMA OwnStep ==
    ASSUME VkTypeOK, VkMoreTypes, VkOwnInv, [VkNext]_vkVars
    PROVE  VkOwnInv'
<1>k. ASSUME NEW p \in VkCalls, NEW l \in {"load", "sign", "done"}, vkAt[p] \notin VkReloads,
             vkAt' = [vkAt EXCEPT ![p] = l],
             UNCHANGED <<vkLatest, vkMaker, vkDoc, vkWork, vkList, vkOverlap>>
      PROVE  VkOwnInv'
  BY <1>k, OwnElsewhere DEF VkOwnInv, VkReloads
<1>1. ASSUME NEW p \in VkCalls, VkStart(p) PROVE VkOwnInv'
  <2>1. CASE VkKind(p) = "rotate"
    BY <1>1, <2>1, BeginReload DEF VkStart, VkGoto, VkReloads
  <2>2. CASE VkKind(p) = "reload"
    BY <1>1, <2>2, BeginReload DEF VkStart, VkGoto, VkReloads
  <2>3. CASE VkKind(p) \in {"sign", "serve"}
    BY <1>1, <2>3, <1>k DEF VkStart, VkGoto, VkReloads
  <2> QED BY <2>1, <2>2, <2>3 DEF VkMoreTypes, VkKind
<1>2. ASSUME NEW p \in VkCalls, VkLoadCurrent(p) PROVE VkOwnInv'
  <2>1. CASE vkLatest = 0
    BY <1>2, <2>1, BeginReload DEF VkLoadCurrent, VkGoto, VkReloads
  <2>2. CASE vkLatest # 0
    BY <1>2, <2>2, <1>k DEF VkLoadCurrent, VkGoto, VkReloads
  <2> QED BY <2>1, <2>2
<1>3. ASSUME NEW p \in VkCalls, VkSaveCheck(p) PROVE VkOwnInv'
  BY <1>3, GoOnReloading DEF VkSaveCheck, VkGoto, VkReloads
<1>4. ASSUME NEW p \in VkCalls, VkSave(p) PROVE VkOwnInv'
  <2>1. UNCHANGED <<vkLatest, vkMaker>> \/ vkMaker'[vkLatest'] = VkPlace(p)
    BY <1>4, SavedVersion DEF VkSave
  <2> QED BY <1>4, <2>1, GoOnReloading DEF VkSave, VkGoto, VkReloads
<1>5. ASSUME NEW p \in VkCalls, VkListCurrent(p) PROVE VkOwnInv'
  <2>1. vkList'[p] = {vkLatest} \ {0} /\ \A q \in VkCalls \ {p} : vkList'[q] = vkList[q]
    BY <1>5 DEF VkListCurrent, VkTypeOK
  <2> QED BY <1>5, <2>1, GoOnReloading DEF VkListCurrent, VkGoto, VkReloads
<1>6. ASSUME NEW p \in VkCalls, VkListPrevious(p) PROVE VkOwnInv'
  <2>1. vkList'[p] = vkList[p] \cup ({vkLatest - 1} \cap VkVersions)
        /\ \A q \in VkCalls \ {p} : vkList'[q] = vkList[q]
    BY <1>6 DEF VkListPrevious, VkPreviousVersion, VkTypeOK
  <2> QED BY <1>6, <2>1, GoOnReloading DEF VkListPrevious, VkGoto, VkReloads
<1>7. ASSUME NEW p \in VkCalls, VkPublish(p) PROVE VkOwnInv'
  <2> SUFFICES ASSUME NEW i \in VkInstances, i \notin vkOverlap PROVE VkOwnAt(i)'
    BY <1>7 DEF VkPublish, VkOwnInv
  <2>1. VkOwnAt(i)
    BY DEF VkOwnInv
  <2>2. PICK l \in {"sign", "done"} : vkAt' = [vkAt EXCEPT ![p] = l]
    BY <1>7 DEF VkPublish, VkReloaded, VkGoto
  <2>3. /\ UNCHANGED <<vkLatest, vkMaker, vkWork>> /\ vkAt[p] = "publish"
        /\ vkDoc'[i] = IF i = VkPlace(p) THEN vkList[p] ELSE vkDoc[i]
        /\ \A q \in VkCalls \ {p} : vkList'[q] = vkList[q]
    BY <1>7 DEF VkPublish, VkReloaded, VkTypeOK
  <2>4. CASE VkPlace(p) = i
    <3>1. VkReloading(i)' \ {p} = VkReloading(i) \ {p} /\ p \in VkReloading(i)
          /\ p \notin VkReloading(i)'
      BY <2>2, <2>3, <2>4, ReloadingStep DEF VkReloads
    <3>2. VkReloading(i)' = {}
      BY <2>1, <3>1 DEF VkOwnAt
    <3>3. vkLatest > 0 /\ vkMaker[vkLatest] = i => VkOwed \subseteq vkList[p]
      BY <2>1, <2>3, <3>1 DEF VkOwnAt
    <3>4. VkOwed' = VkOwed /\ vkList[p] # VkNone
      BY <2>3, VaultAssumption DEF VkOwed, VkTypeOK, VkVersions
    <3> QED BY <2>3, <2>4, <3>2, <3>3, <3>4 DEF VkOwnAt
  <2>5. CASE VkPlace(p) # i
    BY <2>1, <2>2, <2>3, <2>5, OwnElsewhere
  <2> QED BY <2>4, <2>5
<1>8. ASSUME NEW p \in VkCalls, VkSign(p) PROVE VkOwnInv'
  BY <1>8, <1>k DEF VkSign, VkGoto, VkReloads
<1>9. ASSUME NEW p \in VkCalls, VkFail(p) PROVE VkOwnInv'
  <2> SUFFICES ASSUME NEW i \in VkInstances, i \notin vkOverlap' PROVE VkOwnAt(i)'
    BY DEF VkOwnInv
  <2>1. VkOwnAt(i) /\ VkPlace(p) # i
    BY <1>9 DEF VkOwnInv, VkFail
  <2>2. vkAt' = [vkAt EXCEPT ![p] = "done"] \/ vkAt' = [vkAt EXCEPT ![p] = "sign"]
    BY <1>9 DEF VkFail, VkReloaded, VkGoto, VkMissing
  <2>3. /\ UNCHANGED <<vkWork, vkDoc>>
        /\ \A q \in VkCalls \ {p} : vkList'[q] = vkList[q]
    BY <1>9 DEF VkFail, VkReloaded, VkTypeOK
  <2>4. UNCHANGED <<vkLatest, vkMaker>> \/ vkMaker'[vkLatest'] = VkPlace(p)
    BY <1>9, SavedVersion DEF VkFail
  <2> QED BY <2>1, <2>2, <2>3, <2>4, OwnElsewhere
<1>10. CASE UNCHANGED vkVars
  BY <1>10 DEF vkVars, VkOwnInv, VkOwnAt, VkOwed, VkReloading, VkPlace
<1> QED BY <1>1, <1>2, <1>3, <1>4, <1>5, <1>6, <1>7, <1>8, <1>9, <1>10 DEF VkNext

\* The servers start with a key in Vault or without one, and with nothing cached.
LEMMA VaultInit == VkInit => VaultInv
<1> SUFFICES ASSUME VkInit PROVE VaultInv
  OBVIOUS
<1> USE VaultAssumption DEF VkInit
<1>1. VkTypeOK
  BY DEF VkTypeOK, VkVersions
<1>2. VkMoreTypes
  BY DEF VkMoreTypes
<1>3. VkHolds /\ VkTokensNameTheirKey
  BY DEF VkHolds, VkTokensNameTheirKey, VkReloads
<1>4. VkOutageInv
  <2>1. Cardinality(VkRotated) \in Nat
    BY FS_Subset, FS_CardinalityType DEF VkRotated
  <2> QED BY <2>1 DEF VkOutageInv, VkReloads
<1>5. VkOwnInv
  <2>1. vkLatest > 0 => vkMaker[vkLatest] = VkNone
    BY DEF VkVersions
  <2>2. \A i : VkReloading(i) = {}
    BY DEF VkReloading
  <2> QED BY <2>1, <2>2 DEF VkOwnInv, VkOwnAt
<1> QED BY <1>1, <1>2, <1>3, <1>4, <1>5 DEF VaultInv

\* The invariant says all that VaultKeysSound does.
LEMMA VaultImplied == VaultInv => VaultKeysSound
<1> SUFFICES ASSUME VaultInv PROVE VaultKeysSound
  OBVIOUS
<1>1. VkOwnRotationIsPublished
  BY DEF VaultInv, VkOwnInv, VkOwnAt, VkOwed, VkOwnRotationIsPublished
<1>2. VkOutageMakesNoKey
  <2> DEFINE Started == {p \in VkCalls : VkKind(p) = "rotate" /\ vkAt[p] # "idle"}
  <2>1. IsFiniteSet(Started) /\ VkRotated \subseteq Started
    BY VaultAssumption, FS_Subset DEF VkRotated
  <2>2. Cardinality(VkRotated) <= Cardinality(Started) /\ Cardinality(VkRotated) \in Nat
        /\ Cardinality(Started) \in Nat
    BY <2>1, FS_Subset, FS_CardinalityType
  <2>3. vkLatest \in Nat /\ vkAtBoot \in Nat
    BY VaultAssumption DEF VaultInv, VkTypeOK, VkMoreTypes
  <2> HIDE DEF Started
  <2>4. vkAtBoot > 0 => vkLatest - vkAtBoot <= Cardinality(Started)
    BY <2>2, <2>3 DEF VaultInv, VkOutageInv
  <2> QED BY <2>4 DEF VaultInv, VkOutageInv, VkOutageMakesNoKey, Started
<1> QED BY <1>1, <1>2 DEF VaultInv, VaultKeysSound

\* Signing keys in Vault, for any number of instances, requests, rotations and
\* failures: a token is signed by the version its kid names though a rotation falls
\* between the read and the signature, an instance publishes the version it made and
\* the one before unless its reloads overlapped or failed, and while Vault holds a
\* key no failure of Vault makes the server generate one (JWKSService.GetSigningKey
\* and Reload, hcvault.Store, VaultSigner.SignContext).
THEOREM VaultKeysStaySound == VkSpec => []VaultKeysSound
<1>1. VkInit => VaultInv
  BY VaultInit
<1>2. VaultInv /\ [VkNext]_vkVars => VaultInv'
  BY VaultTypeStep, HoldsStep, NamedKeyStep, OutageStep, OwnStep DEF VaultInv
<1>3. VaultInv => VaultKeysSound
  BY VaultImplied
<1> QED BY <1>1, <1>2, <1>3, PTL DEF VkSpec
=============================================================================
