------------------------------- MODULE KeyFile -------------------------------
(***************************************************************************)
(* Signing keys in a directory (key_store: keyfile): Store.Save moves       *)
(* current.* to previous.* and writes the new files one by one, while the   *)
(* server reads them one by one on every token request and serves a JWKS    *)
(* document that only Reload replaces.  Rotations come from the admin API   *)
(* or from the CLI, another process on the same directory.                  *)
(*                                                                         *)
(* A key is the number of its generation.  The .alg file is left out: its   *)
(* value is the configured algorithm.                                       *)
(***************************************************************************)
EXTENDS Naturals

CONSTANTS KfSigners,     \* token requests
          KfRotators,    \* RotateKey calls of the admin API
          KfClis,        \* `authserver admin key rotate`, processes of their own
          KfSighup,      \* TRUE: the operator may send SIGHUP
          KfQuiet,       \* TRUE: the operator rotates while no request runs
          KfMaxKeys,     \* bound: keys ever generated
          KfMaxCrashes,  \* bound: processes that die while saving
          KfNone

ASSUME FileAssumption ==
    /\ KfMaxKeys \in Nat \ {0} /\ KfMaxCrashes \in Nat
    /\ {KfSighup, KfQuiet} \subseteq BOOLEAN
    /\ KfNone \notin 1 .. KfMaxKeys

KfKeys == 1 .. KfMaxKeys
KfThreads == KfSigners \cup KfRotators \cup KfClis

VARIABLES
    kfCurrent,    \* current.pem and current.kid: the key each belongs to, or None
    kfPrevious,   \* previous.pem and previous.kid
    kfJwks,       \* the cached JWKS document: its (key, kid) pairs, or None
    kfGenerated,  \* keys generated so far
    kfCrashes,    \* processes that died while saving
    kfTokens,     \* the (key, kid) pairs tokens were signed under
    kfForeign,    \* history: a CLI has touched the files since the last reload
    kfPc, kfKey     \* what a thread does next, and the key it saves or has read

kfFileVars == <<kfCurrent, kfPrevious>>
kfVars == <<kfCurrent, kfPrevious, kfJwks, kfGenerated, kfCrashes, kfTokens, kfForeign, kfPc, kfKey>>

KfFiles == [pem : KfKeys \cup {KfNone}, kid : KfKeys \cup {KfNone}]
KfMissing == [pem |-> KfNone, kid |-> KfNone]

KfTypeOK ==
    /\ kfCurrent \in KfFiles /\ kfPrevious \in KfFiles
    /\ kfJwks \in (SUBSET (KfKeys \X KfKeys)) \cup {KfNone}
    /\ kfGenerated \in 0 .. KfMaxKeys
    /\ kfCrashes \in 0 .. KfMaxCrashes
    /\ kfTokens \subseteq KfKeys \X KfKeys
    /\ kfForeign \in BOOLEAN
    /\ kfPc \in [KfThreads -> {"idle", "readKid", "save", "moveKid", "writePem", "writeKid", "reload"}]
    /\ kfKey \in [KfThreads -> KfKeys \cup {KfNone}]

KfInit ==
    /\ kfCurrent = KfMissing /\ kfPrevious = KfMissing
    /\ kfJwks = KfNone
    /\ kfGenerated = 0 /\ kfCrashes = 0
    /\ kfTokens = {}
    /\ kfForeign = FALSE
    /\ kfPc = [t \in KfThreads |-> "idle"]
    /\ kfKey = [t \in KfThreads |-> KfNone]

KfIdle == \A t \in KfThreads : kfPc[t] = "idle"
KfGoto(t, label) == kfPc' = [kfPc EXCEPT ![t] = label]

-----------------------------------------------------------------------------
(* JWKSService.GetSigningKey over Store.LoadCurrent *)

\* A new key, to be saved by t.
KfGenerate(t) ==
    /\ kfGenerated < KfMaxKeys
    /\ kfGenerated' = kfGenerated + 1
    /\ kfKey' = [kfKey EXCEPT ![t] = kfGenerated + 1]
    /\ KfGoto(t, "save")

\* current.pem is read, or found missing: then a first key is generated.
KfGetSigningKey(t) ==
    /\ kfPc[t] = "idle"
    /\ KfQuiet => KfIdle
    /\ \/ /\ kfCurrent.pem # KfNone
          /\ kfKey' = [kfKey EXCEPT ![t] = kfCurrent.pem]
          /\ KfGoto(t, "readKid")
          /\ UNCHANGED kfGenerated
       \/ kfCurrent.pem = KfNone /\ KfGenerate(t)
    /\ UNCHANGED <<kfFileVars, kfJwks, kfCrashes, kfTokens, kfForeign>>

\* current.kid is read after it; without one the request fails.
KfReadKid(t) ==
    /\ kfPc[t] = "readKid"
    /\ kfTokens' = IF kfCurrent.kid = KfNone THEN kfTokens ELSE kfTokens \cup {<<kfKey[t], kfCurrent.kid>>}
    /\ KfGoto(t, "idle")
    /\ UNCHANGED <<kfFileVars, kfJwks, kfGenerated, kfCrashes, kfForeign, kfKey>>

-----------------------------------------------------------------------------
(* Store.Save *)

KfTouch(t) == kfForeign' = (kfForeign \/ t \in KfClis)

KfRotateKey(t) ==
    /\ kfPc[t] = "idle"
    /\ KfQuiet => KfIdle
    /\ KfGenerate(t)
    /\ UNCHANGED <<kfFileVars, kfJwks, kfCrashes, kfTokens, kfForeign>>

\* Mutant: the kid moves first.
KfMovePem_KidFirst(t) ==
    /\ kfPc[t] = "save"
    /\ IF kfCurrent.pem = KfNone
       THEN KfGoto(t, "writePem") /\ UNCHANGED kfFileVars
       ELSE /\ kfPrevious' = [kfPrevious EXCEPT !.kid = kfCurrent.kid]
            /\ kfCurrent' = [kfCurrent EXCEPT !.kid = kfKey[t]]
            /\ KfGoto(t, "writePem")
    /\ KfTouch(t)
    /\ UNCHANGED <<kfJwks, kfGenerated, kfCrashes, kfTokens, kfKey>>

\* With a current.pem the files move to previous.*, the pem first.
KfMovePem(t) ==
    /\ kfPc[t] = "save"
    /\ IF kfCurrent.pem = KfNone
       THEN KfGoto(t, "writePem") /\ UNCHANGED kfFileVars
       ELSE /\ kfPrevious' = [kfPrevious EXCEPT !.pem = kfCurrent.pem]
            /\ kfCurrent' = [kfCurrent EXCEPT !.pem = KfNone]
            /\ KfGoto(t, "moveKid")
    /\ KfTouch(t)
    /\ UNCHANGED <<kfJwks, kfGenerated, kfCrashes, kfTokens, kfKey>>

\* A missing kid is no error.
KfMoveKid(t) ==
    /\ kfPc[t] = "moveKid"
    /\ kfPrevious' = IF kfCurrent.kid = KfNone THEN kfPrevious ELSE [kfPrevious EXCEPT !.kid = kfCurrent.kid]
    /\ kfCurrent' = [kfCurrent EXCEPT !.kid = KfNone]
    /\ KfGoto(t, "writePem")
    /\ KfTouch(t)
    /\ UNCHANGED <<kfJwks, kfGenerated, kfCrashes, kfTokens, kfKey>>

KfWritePem(t) ==
    /\ kfPc[t] = "writePem"
    /\ kfCurrent' = [kfCurrent EXCEPT !.pem = kfKey[t]]
    /\ KfGoto(t, "writeKid")
    /\ KfTouch(t)
    /\ UNCHANGED <<kfPrevious, kfJwks, kfGenerated, kfCrashes, kfTokens, kfKey>>

\* The CLI reloads its own JWKSService and exits.
KfWriteKid(t) ==
    /\ kfPc[t] = "writeKid"
    /\ kfCurrent' = [kfCurrent EXCEPT !.kid = kfKey[t]]
    /\ KfGoto(t, IF t \in KfClis THEN "idle" ELSE "reload")
    /\ KfTouch(t)
    /\ UNCHANGED <<kfPrevious, kfJwks, kfGenerated, kfCrashes, kfTokens, kfKey>>

-----------------------------------------------------------------------------
(* JWKSService *)

\* ListActive loads each key whose pem exists, and fails on one without a kid.
KfListed == {f \in {kfCurrent, kfPrevious} : f.pem # KfNone}
KfAllLoad == \A f \in KfListed : f.kid # KfNone
KfActive == {<<f.pem, f.kid>> : f \in KfListed}

\* Reload: ListActive, in one step here, or an error that leaves the document.
KfReload ==
    /\ kfJwks' = IF KfAllLoad THEN KfActive ELSE kfJwks
    /\ kfForeign' = (kfForeign /\ ~KfAllLoad)

\* The end of generateAndSave; a request that generated signs with its key.
KfReloadAfterSave(t) ==
    /\ kfPc[t] = "reload"
    /\ KfReload
    /\ kfTokens' = IF t \in KfSigners THEN kfTokens \cup {<<kfKey[t], kfKey[t]>>} ELSE kfTokens
    /\ KfGoto(t, "idle")
    /\ UNCHANGED <<kfFileVars, kfGenerated, kfCrashes, kfKey>>

\* SIGHUP.
KfReloadOnSignal ==
    /\ KfSighup
    /\ KfReload
    /\ UNCHANGED <<kfFileVars, kfGenerated, kfCrashes, kfTokens, kfPc, kfKey>>

\* What BuildJWKS serves: the cached document, else the files, else an error.
KfServed ==
    CASE kfJwks # KfNone                                -> kfJwks
      [] kfJwks = KfNone /\ KfAllLoad                     -> KfActive
      [] OTHER                                      -> {}

-----------------------------------------------------------------------------

\* A CLI dies where it stands.
KfCrashCli(t) ==
    /\ kfPc[t] # "idle"
    /\ kfCrashes < KfMaxCrashes
    /\ kfCrashes' = kfCrashes + 1
    /\ KfGoto(t, "idle")
    /\ UNCHANGED <<kfFileVars, kfJwks, kfGenerated, kfTokens, kfForeign, kfKey>>

\* The server dies while it saves, and starts again with an empty cache.
KfCrashServer ==
    /\ \E t \in KfThreads \ KfClis : kfPc[t] \notin {"idle", "readKid"}
    /\ kfCrashes < KfMaxCrashes
    /\ kfCrashes' = kfCrashes + 1
    /\ kfJwks' = KfNone
    /\ kfForeign' = FALSE
    /\ kfPc' = [u \in KfThreads |-> IF u \in KfClis THEN kfPc[u] ELSE "idle"]
    /\ UNCHANGED <<kfFileVars, kfGenerated, kfTokens, kfKey>>

KfSave(t) == KfMovePem(t) \/ KfMoveKid(t) \/ KfWritePem(t) \/ KfWriteKid(t) \/ KfReloadAfterSave(t)

KfNext ==
    \/ \E t \in KfSigners : KfGetSigningKey(t) \/ KfReadKid(t) \/ KfSave(t)
    \/ \E t \in KfRotators \cup KfClis : KfRotateKey(t) \/ KfSave(t)
    \/ \E t \in KfClis : KfCrashCli(t)
    \/ KfCrashServer
    \/ KfReloadOnSignal

KfSpec == KfInit /\ [][KfNext]_kfVars

-----------------------------------------------------------------------------
(* Properties *)

\* Whatever step of a save the process dies in, once, and whatever is saved after
\* it, no current key is loaded under the identifier of another (Store.Save,
\* Store.LoadCurrent).
CurrentKeyKeepsItsKid ==
    KfIdle /\ kfCurrent.pem # KfNone /\ kfCurrent.kid # KfNone => kfCurrent.pem = kfCurrent.kid

\* Unless a CLI has changed the files behind the server, the served JWKS document
\* holds the key the server signs with, also after a crash in any step of a save, as
\* long as the files load at all (JWKSService.Reload, JWKSService.BuildJWKS).
KfPublished == KfAllLoad /\ kfCurrent.pem # KfNone => <<kfCurrent.pem, kfCurrent.kid>> \in KfServed

SigningKeyIsPublished == KfIdle /\ ~kfForeign => KfPublished

\* A token names the key it was signed with (Store.LoadCurrent).
TokensNameTheirKey == \A tok \in kfTokens : tok[1] = tok[2]

\* The key files as a whole, over a crash in any step of a save: keys keep their
\* identifiers, in the files and in tokens, and the signing key is published
\* (Store.Save, Store.LoadCurrent, JWKSService).
KeyFilesSound == KfTypeOK /\ CurrentKeyKeepsItsKid /\ TokensNameTheirKey /\ SigningKeyIsPublished
=============================================================================
