------------------------------ MODULE VaultKeys ------------------------------
(***************************************************************************)
(* Signing keys in Vault Transit (key_store: vault_transit).  One Transit   *)
(* key has numbered versions; hcvault.Store reads its latest version on     *)
(* every token request, JWKSService caches the JWKS document of an instance *)
(* once a Reload has run there, and VaultSigner asks Vault to sign with the *)
(* version the request has read.  Nothing tells an instance of a rotation   *)
(* elsewhere.  Any request to Vault may fail, with or without its effect.   *)
(*                                                                         *)
(* The kid "<keyName>-vN" is the number N; the key pair that                *)
(* generateAndSave makes in this process is named by the call that made it. *)
(***************************************************************************)
EXTENDS Naturals, FiniteSets

CONSTANTS VkInstances,    \* server processes
          VkCalls,        \* requests, admin and CLI calls, signals
          VkWorkloads,    \* what each call is, and where: on an instance, or a CLI
          VkMaxVersions,  \* bound: versions of the Transit key
          VkMaxFaults,    \* bound: failing requests to Vault
          VkNone

ASSUME VaultAssumption ==
    /\ VkMaxVersions \in Nat \ {0} /\ VkMaxFaults \in Nat
    /\ IsFiniteSet(VkCalls)
    /\ VkNone \notin VkInstances \cup VkCalls \cup (1 .. VkMaxVersions)
    /\ \A kids \in SUBSET (VkCalls \cup (1 .. VkMaxVersions)) : VkNone # kids
    /\ VkWorkloads \subseteq [VkCalls -> [kind : {"sign", "serve", "rotate", "reload"},
                                          at : VkInstances \cup {VkNone}]]
    /\ \A w \in VkWorkloads, p \in VkCalls : w[p].at = VkNone => w[p].kind = "rotate"

VARIABLES
    vkLatest,   \* latest_version of the Transit key, 0 while there is none
    vkMaker,    \* history: per version, the instance whose call made it
    vkDoc,      \* per instance: the kids of the cached JWKS document, or VkNone
    vkWork,     \* what the calls are
    vkAt,       \* per call: what it does next
    vkKey,      \* per call: the kid of the key it holds
    vkList,     \* per call: the kids Reload has read
    vkTokens,   \* tokens: the kid they name and the key that signed them
    vkFaults,   \* requests to Vault that failed
    vkOverlap,  \* history: instances on which a reload met another or a failure
    vkAtBoot    \* history: the version Vault held when the servers started

vkVars == <<vkLatest, vkMaker, vkDoc, vkWork, vkAt, vkKey, vkList, vkTokens, vkFaults, vkOverlap, vkAtBoot>>

VkVersions == 1 .. VkMaxVersions
VkKids == VkVersions \cup VkCalls

VkTypeOK ==
    /\ vkLatest \in 0 .. VkMaxVersions
    /\ vkDoc \in [VkInstances -> (SUBSET VkKids) \cup {VkNone}]
    /\ vkKey \in [VkCalls -> VkKids \cup {VkNone}]
    /\ vkList \in [VkCalls -> SUBSET VkVersions]
    /\ vkTokens \subseteq [kid : VkKids, by : VkKids]
    /\ vkFaults \in 0 .. VkMaxFaults

VkInit ==
    /\ vkWork \in VkWorkloads
    /\ vkAtBoot \in {0, 1}
    /\ vkLatest = vkAtBoot
    /\ vkMaker = [v \in VkVersions |-> VkNone]
    /\ vkDoc = [i \in VkInstances |-> VkNone]
    /\ vkAt = [p \in VkCalls |-> "idle"]
    /\ vkKey = [p \in VkCalls |-> VkNone]
    /\ vkList = [p \in VkCalls |-> {}]
    /\ vkTokens = {} /\ vkFaults = 0 /\ vkOverlap = {}

VkKind(p) == vkWork[p].kind
VkPlace(p) == vkWork[p].at
VkGoto(p, label) == vkAt' = [vkAt EXCEPT ![p] = label]

VkReloading(i) ==
    {p \in VkCalls : VkPlace(p) = i /\ vkAt[p] \in {"check", "create", "rotate", "current", "previous", "publish"}}

\* History: a call that saves or reloads beside another on its instance.
VkMeets(p) ==
    vkOverlap' = IF VkReloading(VkPlace(p)) \ {p} # {} THEN vkOverlap \cup {VkPlace(p)} ELSE vkOverlap

-----------------------------------------------------------------------------
(* JWKSService.GetSigningKey, BuildJWKS, RotateKey and Reload *)

\* A rotation and the SIGHUP handler start at once; a reader of the JWKS document
\* that finds it cached is answered from it and reads nothing.
VkStart(p) ==
    /\ vkAt[p] = "idle"
    /\ VkGoto(p, CASE VkKind(p) = "sign"   -> "load"
                   [] VkKind(p) = "serve"  -> IF vkDoc[VkPlace(p)] = VkNone THEN "load" ELSE "done"
                   [] VkKind(p) = "rotate" -> "check"
                   [] VkKind(p) = "reload" -> "current")
    /\ vkKey' = [vkKey EXCEPT ![p] = IF VkKind(p) = "rotate" THEN p ELSE VkNone]
    /\ IF VkKind(p) \in {"rotate", "reload"} THEN VkMeets(p) ELSE UNCHANGED vkOverlap
    /\ UNCHANGED <<vkLatest, vkMaker, vkDoc, vkWork, vkList, vkTokens, vkFaults, vkAtBoot>>

\* Store.LoadCurrent: the latest version, or with a 404 no key, which makes
\* GetSigningKey generate one.
VkLoadCurrent(p) ==
    /\ vkAt[p] = "load"
    /\ \/ /\ vkLatest > 0
          /\ vkKey' = [vkKey EXCEPT ![p] = vkLatest]
          /\ VkGoto(p, IF VkKind(p) = "sign" THEN "sign" ELSE "done")
          /\ UNCHANGED vkOverlap
       \/ /\ vkLatest = 0
          /\ vkKey' = [vkKey EXCEPT ![p] = p]
          /\ VkGoto(p, "check")
          /\ VkMeets(p)
    /\ UNCHANGED <<vkLatest, vkMaker, vkDoc, vkWork, vkList, vkTokens, vkFaults, vkAtBoot>>

-----------------------------------------------------------------------------
(* Store.Save: the key given to it is not used *)

VkSaveCheck(p) ==
    /\ vkAt[p] = "check"
    /\ VkGoto(p, IF vkLatest = 0 THEN "create" ELSE "rotate")
    /\ UNCHANGED <<vkLatest, vkMaker, vkDoc, vkWork, vkKey, vkList, vkTokens, vkFaults, vkOverlap, vkAtBoot>>

\* External: creating a key that exists leaves it, rotating adds a version.
VkMade(p) == IF vkAt[p] = "create" THEN (IF vkLatest = 0 THEN 1 ELSE vkLatest) ELSE vkLatest + 1

VkSaved(p) ==
    /\ VkMade(p) \in VkVersions
    /\ vkLatest' = VkMade(p)
    /\ vkMaker' = IF VkMade(p) > vkLatest THEN [vkMaker EXCEPT ![VkMade(p)] = VkPlace(p)] ELSE vkMaker

VkSave(p) ==
    /\ vkAt[p] \in {"create", "rotate"}
    /\ VkSaved(p)
    /\ VkGoto(p, "current")
    /\ UNCHANGED <<vkDoc, vkWork, vkKey, vkList, vkTokens, vkFaults, vkOverlap, vkAtBoot>>

-----------------------------------------------------------------------------
(* JWKSService.Reload over Store.ListActive, which reads the key twice *)

VkListCurrent(p) ==
    /\ vkAt[p] = "current"
    /\ vkList' = [vkList EXCEPT ![p] = {vkLatest} \ {0}]
    /\ VkGoto(p, "previous")
    /\ UNCHANGED <<vkLatest, vkMaker, vkDoc, vkWork, vkKey, vkTokens, vkFaults, vkOverlap, vkAtBoot>>

\* Store.LoadPrevious: the version before the latest.
VkPreviousVersion(latest) == {latest - 1} \cap VkVersions

VkListPrevious(p) ==
    /\ vkAt[p] = "previous"
    /\ vkList' = [vkList EXCEPT ![p] = @ \cup VkPreviousVersion(vkLatest)]
    /\ VkGoto(p, "publish")
    /\ UNCHANGED <<vkLatest, vkMaker, vkDoc, vkWork, vkKey, vkTokens, vkFaults, vkOverlap, vkAtBoot>>

\* After a Reload the caller goes on with the key it generated itself.
VkReloaded(p) ==
    /\ VkGoto(p, IF VkKind(p) = "sign" THEN "sign" ELSE "done")
    /\ vkList' = [vkList EXCEPT ![p] = {}]

VkPublish(p) ==
    /\ vkAt[p] = "publish"
    /\ vkDoc' = [i \in VkInstances |-> IF i = VkPlace(p) THEN vkList[p] ELSE vkDoc[i]]
    /\ VkReloaded(p)
    /\ UNCHANGED <<vkLatest, vkMaker, vkWork, vkKey, vkTokens, vkFaults, vkOverlap, vkAtBoot>>

-----------------------------------------------------------------------------
(* VaultSigner.SignContext *)

\* Mutant: the version is left to Vault, which takes the latest.
VkSigningKey_Latest(p) == IF vkKey[p] \in VkVersions THEN vkLatest ELSE vkKey[p]

\* The version is the one of the key that was read; a key pair of this process
\* signs by itself.
VkSigningKey(p) == vkKey[p]

VkSign(p) ==
    /\ vkAt[p] = "sign"
    /\ vkTokens' = vkTokens \cup {[kid |-> vkKey[p], by |-> VkSigningKey(p)]}
    /\ VkGoto(p, "done")
    /\ UNCHANGED <<vkLatest, vkMaker, vkDoc, vkWork, vkKey, vkList, vkFaults, vkOverlap, vkAtBoot>>

-----------------------------------------------------------------------------
(* Requests to Vault that fail *)

\* isNotFound: only a 404 means that there is no key, and a failure is none.
VkMissing(p) == FALSE

\* A failed Reload is logged and the call goes on; any other failure ends it.  The
\* answer to a write may be lost after its effect.
VkFail(p) ==
    /\ vkAt[p] \in {"load", "check", "create", "rotate", "current", "previous", "sign"}
    /\ vkAt[p] = "sign" => vkKey[p] \in VkVersions
    /\ vkFaults < VkMaxFaults
    /\ vkFaults' = vkFaults + 1
    /\ \/ UNCHANGED <<vkLatest, vkMaker>>
       \/ vkAt[p] \in {"create", "rotate"} /\ VkSaved(p)
    /\ IF vkAt[p] \in {"current", "previous"}
       THEN VkReloaded(p) /\ UNCHANGED vkKey
       ELSE /\ VkGoto(p, IF VkMissing(p) THEN "check" ELSE "done")
            /\ vkKey' = [vkKey EXCEPT ![p] = IF VkMissing(p) THEN p ELSE @]
            /\ UNCHANGED vkList
    /\ vkOverlap' = vkOverlap \cup ({VkPlace(p)} \cap VkInstances)
    /\ UNCHANGED <<vkDoc, vkWork, vkTokens, vkAtBoot>>

VkNext ==
    \E p \in VkCalls :
        \/ VkStart(p) \/ VkLoadCurrent(p)
        \/ VkSaveCheck(p) \/ VkSave(p)
        \/ VkListCurrent(p) \/ VkListPrevious(p) \/ VkPublish(p)
        \/ VkSign(p) \/ VkFail(p)

VkSpec == VkInit /\ [][VkNext]_vkVars

-----------------------------------------------------------------------------
(* Properties *)

\* A rotation between the read of the key and the signature does not part the two:
\* a token is signed by the key that its kid names (VaultSigner.SignContext).
VkTokensNameTheirKey == \A t \in vkTokens : t.kid = t.by

\* An instance that made the latest version itself publishes it and the version
\* before it, once its call is over, unless two of its reloads overlapped or a
\* request of it failed (JWKSService.generateAndSave, Store.ListActive).
VkOwnRotationIsPublished ==
    \A i \in VkInstances \ vkOverlap :
        (vkLatest > 0 /\ vkMaker[vkLatest] = i /\ VkReloading(i) = {})
            => vkDoc[i] # VkNone /\ {vkLatest} \cup ({vkLatest - 1} \cap VkVersions) \subseteq vkDoc[i]

\* While Vault holds a key, no failure of Vault makes the server sign with a key
\* of its own or rotate: every token names a version of Vault and every version
\* was asked for (Store.LoadCurrent, isNotFound, JWKSService.GetSigningKey).
VkOutageMakesNoKey ==
    vkAtBoot > 0 =>
        /\ \A t \in vkTokens : t.kid \in VkVersions
        /\ vkLatest - vkAtBoot <= Cardinality({p \in VkCalls : VkKind(p) = "rotate" /\ vkAt[p] # "idle"})

\* Keys in Vault as a whole: tokens name the version that signed them, a rotation is
\* published where it ran, and an outage makes no key (TransitStore, TransitSigner).
VaultKeysSound ==
    /\ VkTypeOK
    /\ VkTokensNameTheirKey
    /\ VkOwnRotationIsPublished
    /\ VkOutageMakesNoKey

-----------------------------------------------------------------------------
(***************************************************************************)
(* The AppRole token of the Vault client: NewClient logs in once and        *)
(* renewLoop logs in again on a ticker of half the lease, at least the      *)
(* floor of 10 s.  A login takes up to the HTTP timeout, may fail, and may  *)
(* come back with another lease; the lease runs from the grant in Vault.    *)
(*                                                                         *)
(* Leases are even, so that half of one is a whole number of time units.    *)
(***************************************************************************)

CONSTANTS VlLeases,       \* the leases Vault may grant
          VlFloor,        \* the shortest renewal interval
          VlHttpTimeout,  \* of the client, for one login
          VlLast          \* bound: the end of the observed time

ASSUME LoginAssumption ==
    /\ VlLeases \subseteq {2 * n : n \in 1 .. VlLast}
    /\ {VlFloor, VlHttpTimeout, VlLast} \subseteq Nat \ {0}
    /\ VlHttpTimeout <= VlFloor

VARIABLES
    vlNow,
    vlToken,     \* the token in use: when it was granted and for how long
    vlInterval,  \* renewInterval
    vlTick,      \* when the ticker fires next
    vlSince,     \* when the login in flight was sent, or VlIdle
    vlFailed     \* history: a login has failed since the token was granted

vlVars == <<vlNow, vlToken, vlInterval, vlTick, vlSince, vlFailed>>

\* Half the lease, at least the floor.
VlRenewInterval(lease) == IF lease \div 2 < VlFloor THEN VlFloor ELSE lease \div 2

VlIdle == VlLast + 1

\* NewClient logs in before it starts the loop.
VlInit ==
    /\ vlNow = 0
    /\ \E lease \in VlLeases :
          /\ vlToken = [at |-> 0, lease |-> lease]
          /\ vlInterval = VlRenewInterval(lease)
    /\ vlTick = vlInterval
    /\ vlSince = VlIdle
    /\ vlFailed = FALSE

\* A tick starts a login; the ticker goes on meanwhile, and a tick that finds the
\* loop busy waits in its channel.
VlTickFires ==
    /\ vlSince = VlIdle
    /\ vlTick <= vlNow
    /\ vlSince' = vlNow
    /\ vlTick' = vlTick + vlInterval
    /\ UNCHANGED <<vlNow, vlToken, vlInterval, vlFailed>>

\* Mutant: the ticker keeps the interval of the first lease.
VlReschedule_Never(lease) == UNCHANGED <<vlInterval, vlTick>>

\* The ticker is reset, from now, when the lease has changed the interval.
VlReschedule(lease) ==
    /\ vlInterval' = VlRenewInterval(lease)
    /\ vlTick' = IF vlInterval' # vlInterval THEN vlNow + vlInterval' ELSE vlTick

\* appRoleLogin stores the token, which was granted when the request arrived.
VlLoggedIn ==
    /\ vlSince # VlIdle
    /\ \E lease \in VlLeases :
          /\ \E granted \in vlSince .. vlNow : vlToken' = [at |-> granted, lease |-> lease]
          /\ VlReschedule(lease)
    /\ vlSince' = VlIdle
    /\ vlFailed' = FALSE
    /\ UNCHANGED vlNow

\* A failed login is logged; the next one is due at the next tick.
VlLoginFails ==
    /\ vlSince # VlIdle
    /\ vlSince' = VlIdle
    /\ vlFailed' = TRUE
    /\ UNCHANGED <<vlNow, vlToken, vlInterval, vlTick>>

\* Time passes, but not past a tick the loop waits for, nor past the timeout.
VlPass ==
    /\ vlNow < VlLast
    /\ IF vlSince = VlIdle THEN vlNow < vlTick ELSE vlNow < vlSince + VlHttpTimeout
    /\ vlNow' = vlNow + 1
    /\ UNCHANGED <<vlToken, vlInterval, vlTick, vlSince, vlFailed>>

VlNext == VlTickFires \/ VlLoggedIn \/ VlLoginFails \/ VlPass

VlSpec == VlInit /\ [][VlNext]_vlVars

-----------------------------------------------------------------------------
(* Properties *)

\* The client always holds a token in force, however the leases change and however
\* slow the logins are, unless one of them has failed or the lease is too
\* short to cover the interval and two timeouts (renewLoop, appRoleLogin).
VlLongEnough(lease) == lease > VlRenewInterval(lease) + 2 * VlHttpTimeout

VlTokenLives ==
    \/ vlNow < vlToken.at + vlToken.lease
    \/ vlFailed
    \/ ~VlLongEnough(vlToken.lease)
=============================================================================
