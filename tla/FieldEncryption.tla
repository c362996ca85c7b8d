--------------------------- MODULE FieldEncryption ---------------------------
(***************************************************************************)
(* Credentials encrypted at rest (data_encryption: aes_master): each        *)
(* instance encrypts with its master key, in the current wire format, and   *)
(* decrypts both formats with its master key or, failing that, with the     *)
(* previous one.  Instances restart one by one into the configuration of    *)
(* the next master key while the others go on, and a row may be restored    *)
(* under another owner.  Nothing re-encrypts a row but the next write.      *)
(*                                                                         *)
(* A master key is its number; AES-GCM opens what the same key and the same *)
(* additional data have sealed, and nothing else.                           *)
(***************************************************************************)
EXTENDS Naturals

CONSTANTS FeInstances,  \* server processes
          FeOwners,     \* owner contexts "broker:<user>:<provider>", one row each
          FeMaxKeys,    \* bound: master keys ever configured
          FeNone

ASSUME EncryptionAssumption == FeMaxKeys \in Nat \ {0} /\ FeNone \notin FeOwners \cup (1 .. FeMaxKeys)

VARIABLES
    feConf,  \* per instance: its master key, and the previous one or FeNone
    feRow    \* per owner: the ciphertext, with whom and which master it was made for

feVars == <<feConf, feRow>>

FeKeys == 1 .. FeMaxKeys

\* HKDF without a salt, the owner context as its info.
FeDeriveKeyV1(master, owner) == <<1, master, owner>>

\* HKDF with the salt of the application.
FeDeriveKeyV2(master, owner) == <<2, master, owner>>

FeSeal(format, key, aad, master, owner) ==
    [format |-> format, key |-> key, aad |-> aad, master |-> master, owner |-> owner]

FeOpens(c, key, aad) == c.key = key /\ c.aad = aad

\* Encryptor.Encrypt: always the second format.
FeEncrypt(conf, owner) == FeSeal(2, FeDeriveKeyV2(conf.master, owner), owner, conf.master, owner)

\* A row of a release that still wrote the first format.
FeLegacy(owner) == FeSeal(1, FeDeriveKeyV1(1, owner), FeNone, 1, owner)

FeDecryptWithKey(c, owner, master) == FeOpens(c, FeDeriveKeyV1(master, owner), FeNone)

FeDecryptWithKeyV2(c, owner, master) == FeOpens(c, FeDeriveKeyV2(master, owner), owner)

FeDecryptV1(conf, c, owner) ==
    \/ FeOpens(c, FeDeriveKeyV1(conf.master, owner), FeNone)
    \/ conf.old # FeNone /\ FeDecryptWithKey(c, owner, conf.old)

\* Mutant: the fallback has the format of the first version.
FeDecryptV2_OldFormat(conf, c, owner) ==
    \/ FeOpens(c, FeDeriveKeyV2(conf.master, owner), owner)
    \/ conf.old # FeNone /\ FeDecryptWithKey(c, owner, conf.old)

FeDecryptV2(conf, c, owner) ==
    \/ FeOpens(c, FeDeriveKeyV2(conf.master, owner), owner)
    \/ conf.old # FeNone /\ FeDecryptWithKeyV2(c, owner, conf.old)

\* Encryptor.Decrypt: the first byte says which format it is.
FeDecrypt(conf, c, owner) ==
    \/ c.format = 1 /\ FeDecryptV1(conf, c, owner)
    \/ c.format = 2 /\ FeDecryptV2(conf, c, owner)

FeInit ==
    /\ feConf = [i \in FeInstances |-> [master |-> 1, old |-> FeNone]]
    /\ feRow \in [FeOwners -> {FeLegacy(o) : o \in FeOwners}
                                  \cup {FeEncrypt([master |-> 1, old |-> FeNone], o) : o \in FeOwners}]
    /\ \A o \in FeOwners : feRow[o].owner = o

-----------------------------------------------------------------------------

\* A new credential is stored: ConnectService.HandleCallback.
FeStore(i, o) ==
    /\ feRow' = [feRow EXCEPT ![o] = FeEncrypt(feConf[i], o)]
    /\ UNCHANGED feConf

\* A credential is vended and comes back rotated: BrokerIssuer.Vend refuses a row
\* it cannot decrypt.
FeVend(i, o) ==
    /\ FeDecrypt(feConf[i], feRow[o], o)
    /\ feRow' = [feRow EXCEPT ![o] = FeEncrypt(feConf[i], o)]
    /\ UNCHANGED feConf

\* An instance restarts with the next key, and the one before it as the decrypt-only
\* fallback, which an operator who has re-encrypted the rows leaves out.
FeRestart(i, keep) ==
    /\ feConf[i].master < FeMaxKeys
    /\ feConf' = [feConf EXCEPT ![i] = [master |-> @.master + 1, old |-> IF keep THEN @.master ELSE FeNone]]
    /\ UNCHANGED feRow

\* A row is restored under another owner.
FeMisplace(o, q) ==
    /\ feRow' = [feRow EXCEPT ![o] = feRow[q]]
    /\ UNCHANGED feConf

FeNext ==
    \/ \E i \in FeInstances, o \in FeOwners : FeStore(i, o) \/ FeVend(i, o)
    \/ \E i \in FeInstances, keep \in BOOLEAN : FeRestart(i, keep)
    \/ \E o, q \in FeOwners : FeMisplace(o, q)

FeSpec == FeInit /\ [][FeNext]_feVars

-----------------------------------------------------------------------------
(* Properties *)

\* What an instance decrypts for an owner was encrypted for that owner, in either
\* format and whichever of its keys opened it (Encryptor.Decrypt).
FeOwnCredentialOnly ==
    \A i \in FeInstances, o \in FeOwners : FeDecrypt(feConf[i], feRow[o], o) => feRow[o].owner = o

\* During a rolling rotation an instance reads exactly the rows written under one of
\* the two keys it is configured with, whoever wrote them and in whichever format: a
\* row of an instance ahead of it is refused, and so is one two rotations old
\* (Encryptor.Encrypt, decryptV1, decryptV2).
FeReadsItsTwoKeys ==
    \A i \in FeInstances, o \in FeOwners :
        feRow[o].owner = o =>
            (FeDecrypt(feConf[i], feRow[o], o) <=> feRow[o].master \in {feConf[i].master, feConf[i].old})

\* Rolling key rotations as a whole: an instance reads what its two keys sealed for
\* the owner, and nothing else (Encryptor.Decrypt).
FieldsSound == FeOwnCredentialOnly /\ FeReadsItsTwoKeys
=============================================================================
