------------------------- MODULE ClientRegistration -------------------------
(***************************************************************************)
(* Clients that register themselves: dynamic registration (services/dcr),  *)
(* metadata documents found while an authorization request looks its client*)
(* up (services/cimd, through the fetcher of CimdFetcher), and what an     *)
(* administrator may do at the same time: patch a client, and change the   *)
(* DCR mode, which lives in this process and in runtime_settings.          *)
(*                                                                         *)
(* The calls of the fetcher are the authorization requests.  A restart ends*)
(* every request of the process and empties its memory.                    *)
(***************************************************************************)
EXTENDS CimdFetcher

CONSTANTS
  CrDcr,          \* the registrations at /oauth/register
  CrAdmins,       \* the administrator's requests
  CrShapes,       \* the registration requests: [grants, uris, method]
  Approved,       \* dcr.approved_redirects
  BadURIs,        \* redirect URIs that ValidateRedirectURI refuses
  EnabledGrants,  \* the grants this server serves
  ConfigMode,     \* dcr.mode of the configuration
  MaxRestarts     \* restarts of the process in a run

DcrModes == {"open", "approved_redirects", "admin_only"}

ValidGrantTypes == {"authorization_code", "refresh_token", "client_credentials",
                    "token-exchange", "jwt-bearer"}

ASSUME CrAssumption ==
  /\ EnabledGrants \subseteq ValidGrantTypes /\ ConfigMode \in DcrModes
  /\ MaxRestarts \in Nat

\* The id of a registered client is random, that of a document's client is its URL.
ASSUME CrNamesAssumption ==
  /\ FtCalls \cap CrDcr = {} /\ FtCalls \cap CrAdmins = {} /\ CrDcr \cap CrAdmins = {}
  /\ CrDcr \cap FtURLs = {}

\* validateDocument accepts no document with a redirect URI that is refused.
ASSUME CrBodiesAssumption == \A b \in FtBodies : b.uris \cap BadURIs = {}

VARIABLES
  crAt,        \* [request -> where it is]
  crIn,        \* [request -> what it carries]
  crSaw,       \* [request -> modes in force since it began] (history)
  crClients,   \* [client id -> row] of the clients table
  dcrMode,     \* the mode in the memory of DCRModeProvider
  dcrSaved,    \* the value of runtime_settings["dcr_mode"], "" without a row
  dcrRaced,    \* since the last change that ran alone, two overlapped, one came from
               \* outside the process, or it started without reading the row (history)
  crRestarts   \* restarts so far

regVars == <<crAt, crIn, crSaw, crClients, dcrMode, dcrSaved, dcrRaced, crRestarts>>

CrRequests == FtCalls \cup CrDcr \cup CrAdmins

crVars == <<ftVars, regVars>>

CrNothing == [kind |-> "none"]

MachineGrants == {"client_credentials", "jwt-bearer", "token-exchange"}

\* isDelegatedOnly.
IsDelegatedOnly(grants) == grants \cap MachineGrants = {}

\* CreateParams.Defaults, of the fields the rest reads.
Defaults(shape) ==
  [grants |-> IF shape.grants = {} THEN {"authorization_code", "refresh_token"}
              ELSE shape.grants,
   uris   |-> shape.uris,
   method |-> IF shape.method = "" THEN "none" ELSE shape.method]

\* checkGrantTypesEnabled: an unknown grant is left to ValidateGrantType.
GrantTypesEnabled(grants) == grants \cap ValidGrantTypes \subseteq EnabledGrants

RequiresRedirectURI(grants) == grants \cap {"authorization_code", "refresh_token"} # {}

\* ValidateCreateParams: what of it depends on more than one field's format.
ValidateCreateParams(p) ==
  /\ RequiresRedirectURI(p.grants) => p.uris # {}
  /\ p.uris \cap BadURIs = {}
  /\ p.grants \subseteq ValidGrantTypes
  /\ GrantTypesEnabled(p.grants)

\* DCRService.enforceMode.
EnforceMode(mode, uris) ==
  \/ mode = "open"
  \/ mode = "approved_redirects" /\ uris \subseteq Approved

\* The ceiling a client that registers itself is given.
DefaultScope(grants) == IF IsDelegatedOnly(grants) THEN "default" ELSE ""

\* A row of the clients table.  by is the request that wrote it last, op whether
\* that was an administrator.
CrRow(r, src, p, scope, version) ==
  [src |-> src, grants |-> p.grants, uris |-> p.uris, secret |-> p.method # "none",
   scope |-> scope, version |-> version, by |-> r, op |-> FALSE]

\* Only the requests in who are made.
CrInit(who) ==
  /\ crAt = [r \in CrRequests |-> IF r \in who THEN "idle" ELSE "done"]
  /\ crIn = [r \in CrRequests |-> CrNothing]
  /\ crSaw = [r \in CrRequests |-> {}]
  /\ crClients = <<>>
  /\ dcrMode = ConfigMode /\ dcrSaved = "" /\ dcrRaced = FALSE /\ crRestarts = 0

CrMove(r, at) == crAt' = [crAt EXCEPT ![r] = at]

CrTake(r, v) == crIn' = [crIn EXCEPT ![r] = v]

CrBegin(r) == crSaw' = [crSaw EXCEPT ![r] = {dcrMode}]

\* ClientStore.Create: the id is the primary key.
ClientCreate(id, row) ==
  /\ id \notin DOMAIN crClients
  /\ crClients' = FtPut(crClients, id, row)

\* ClientStore.Update matches the version that was read.
ClientUpdate(id, read) ==
  id \in DOMAIN crClients /\ crClients[id].version = read

dcrVars == <<dcrMode, dcrSaved, dcrRaced, crRestarts>>

\* handleRegister and DCRService.RegisterClient, up to the insert: the mode is
\* read once, at the start.
RegisterClient(r) ==
  /\ crAt[r] = "idle"
  /\ CrBegin(r)
  /\ \E shape \in CrShapes :
       LET p == Defaults(shape) IN
       IF EnforceMode(dcrMode, p.uris) /\ ValidateCreateParams(p)
       THEN CrMove(r, "create") /\ CrTake(r, p)
       ELSE CrMove(r, "refused") /\ UNCHANGED crIn
  /\ UNCHANGED <<ftVars, crClients, dcrVars>>

\* The insert, under a random id.
RegisterCreate(r) ==
  /\ crAt[r] = "create"
  /\ ClientCreate(r, CrRow(r, "dcr", crIn[r], DefaultScope(crIn[r].grants), 1))
  /\ CrMove(r, "done")
  /\ UNCHANGED <<ftVars, crIn, crSaw, dcrVars>>

\* AuthorizeService.lookupClient: a stored client is served as it is; a URL that
\* is not stored goes to VerifyCIMD.  Its two look-ups find the same row, for the
\* id of such a client is its URL.
LookupClient(c) ==
  /\ crAt[c] = "idle"
  /\ CrBegin(c)
  /\ CrMove(c, IF ftIn[c].url \in DOMAIN crClients THEN "done" ELSE "verify")
  /\ UNCHANGED <<ftVars, crIn, crClients, dcrVars>>

\* CIMDService.VerifyCIMD, before the fetch: the mode is read here and kept.
VerifyCIMD(c) ==
  /\ crAt[c] = "verify"
  /\ IF dcrMode = "admin_only" THEN CrMove(c, "refused") /\ UNCHANGED crIn
     ELSE CrMove(c, "fetch") /\ CrTake(c, [mode |-> dcrMode])
  /\ UNCHANGED <<ftVars, crSaw, crClients, dcrVars>>

\* Steps of the fetcher: a call is made once its request reached the fetch.
FetchForCIMD(c) ==
  /\ crAt[c] = "fetch"
  /\ Fetch(c) \/ DoChan(c) \/ LeaveFlight(c)
  /\ UNCHANGED regVars

FetcherSteps ==
  /\ FtTick \/ \E k \in DOMAIN ftFlights : FlightStep(k)
  /\ UNCHANGED regVars

\* The checks of VerifyCIMD on the document.
DocumentAllowed(mode, body) ==
  /\ GrantTypesEnabled(body.grants)
  /\ mode = "approved_redirects" => body.uris \subseteq Approved

\* VerifyCIMD after the fetch, up to and with GetByCIMDURL.
CheckDocument(c) ==
  LET u == ftIn[c].url IN
  /\ crAt[c] = "fetch" /\ ftAt[c] = "answered"
  /\ IF ftGot[c].kind # "doc" \/ ~DocumentAllowed(crIn[c].mode, ftGot[c].doc.body)
     THEN CrMove(c, "refused") /\ UNCHANGED crIn
     ELSE IF u \in DOMAIN crClients
     THEN /\ CrMove(c, "update")
          /\ CrTake(c, [body |-> ftGot[c].doc.body, row |-> crClients[u]])
     ELSE CrMove(c, "create") /\ CrTake(c, [body |-> ftGot[c].doc.body])
  /\ UNCHANGED <<ftVars, crSaw, crClients, dcrVars>>

\* The insert of VerifyCIMD: such a client has no secret.  The loser of two inserts for one URL fails on the
\* primary key, and its request is refused.
CreateFromDocument(c) ==
  LET body == crIn[c].body IN
  /\ crAt[c] = "create"
  /\ \/ /\ ClientCreate(ftIn[c].url,
             [CrRow(c, "cimd", body, DefaultScope(body.grants), 1) EXCEPT !.secret = FALSE])
        /\ CrMove(c, "done")
     \/ /\ ftIn[c].url \in DOMAIN crClients
        /\ CrMove(c, "refused") /\ UNCHANGED crClients
  /\ UNCHANGED <<ftVars, crIn, crSaw, dcrVars>>

\* A ceiling does not survive a document that asks for a machine grant.
RefreshedScope(row, grants) == IF IsDelegatedOnly(grants) THEN row.scope ELSE ""

\* The update of VerifyCIMD, on a client that another request stored meanwhile.
UpdateFromDocument(c) ==
  LET u == ftIn[c].url
      row == crIn[c].row
      body == crIn[c].body
  IN
  /\ crAt[c] = "update"
  /\ IF ClientUpdate(u, row.version)
     THEN /\ crClients' = [crClients EXCEPT ![u] =
               [CrRow(c, row.src, body, RefreshedScope(row, body.grants), row.version + 1)
                EXCEPT !.secret = row.secret]]
          /\ CrMove(c, "done")
     ELSE CrMove(c, "refused") /\ UNCHANGED crClients
  /\ UNCHANGED <<ftVars, crIn, crSaw, dcrVars>>

\* AdminService.UpdateClient on a client that registered itself: the row is
\* read, a scope is granted or the client is given a machine grant, and the
\* whole is validated again ...
PatchClient(a) ==
  /\ crAt[a] = "idle"
  /\ \E id \in DOMAIN crClients :
       LET row == crClients[id] IN
       \E new \in {[row EXCEPT !.scope = "operator"],
                   [row EXCEPT !.grants = @ \cup {"client_credentials"}]} :
         /\ ValidateCreateParams(new)
         /\ CrTake(a, [id |-> id, row |-> new])
  /\ CrMove(a, "patch")
  /\ UNCHANGED <<ftVars, crSaw, crClients, dcrVars>>

\* ... and written back.
PatchClientWrite(a) ==
  /\ crAt[a] = "patch"
  /\ IF ClientUpdate(crIn[a].id, crIn[a].row.version)
     THEN /\ crClients' = [crClients EXCEPT ![crIn[a].id] =
               [crIn[a].row EXCEPT !.version = @ + 1, !.by = a, !.op = TRUE]]
          /\ CrMove(a, "done")
     ELSE CrMove(a, "refused") /\ UNCHANGED crClients
  /\ UNCHANGED <<ftVars, crIn, crSaw, dcrVars>>

ModeWriters == {a \in CrAdmins : crAt[a] = "apply"}

SaveMode_AppliesFirst(a, m) ==
  /\ dcrMode' = m
  /\ \/ dcrSaved' = m /\ CrMove(a, "apply") /\ CrTake(a, [mode |-> m])
     \/ CrMove(a, "refused") /\ UNCHANGED <<dcrSaved, crIn>>

\* handleUpdateDCRSettings persists the mode first; without that the request
\* fails and nothing has changed ...
SaveMode(a, m) ==
  /\ UNCHANGED dcrMode
  /\ \/ dcrSaved' = m /\ CrMove(a, "apply") /\ CrTake(a, [mode |-> m])
     \/ CrMove(a, "refused") /\ UNCHANGED <<dcrSaved, crIn>>

UpdateDCRSettings(a) ==
  /\ crAt[a] = "idle"
  /\ \E m \in DcrModes : SaveMode(a, m)
  /\ dcrRaced' = IF crAt'[a] = "apply" THEN ModeWriters # {} ELSE dcrRaced
  /\ UNCHANGED <<ftVars, crSaw, crClients, crRestarts>>

\* ... and then sets it in this process (DCRModeProvider.Set): the approved
\* redirects stay those of the configuration.
SetMode(a) ==
  /\ crAt[a] = "apply"
  /\ dcrMode' = crIn[a].mode
  /\ crSaw' = [r \in CrRequests |-> IF crAt[r] \in {"idle", "done", "refused"} THEN crSaw[r]
                                    ELSE crSaw[r] \cup {crIn[a].mode}]
  /\ CrMove(a, "done")
  /\ UNCHANGED <<ftVars, crIn, crClients, dcrSaved, dcrRaced, crRestarts>>

\* `authserver admin dcr set`, and the same endpoint on another instance: the
\* row changes, this process does not hear of it.
SetModeElsewhere(a) ==
  /\ crAt[a] = "idle"
  /\ \E m \in DcrModes : dcrSaved' = m
  /\ dcrRaced' = TRUE
  /\ CrMove(a, "done")
  /\ UNCHANGED <<ftVars, crIn, crSaw, crClients, dcrMode, crRestarts>>

\* runServe: the persisted mode wins over the configured one.
RestoredMode(saved) == IF saved \in DcrModes THEN saved ELSE ConfigMode

\* ... when the row can be read: a failed read is logged, and the process serves
\* under the configured mode.
RestoreMode ==
  \/ dcrMode' = RestoredMode(dcrSaved) /\ dcrRaced' = FALSE
  \/ dcrMode' = ConfigMode /\ dcrRaced' = TRUE

\* The process dies and starts again: its requests end where they are, the
\* fetcher's memory is empty, the mode is restored.
CrRestart ==
  /\ crRestarts < MaxRestarts
  /\ crRestarts' = crRestarts + 1
  /\ crAt' = [r \in CrRequests |-> IF crAt[r] \in {"idle", "done"} THEN crAt[r] ELSE "refused"]
  /\ ftAt' = [c \in FtCalls |-> IF ftAt[c] = "answered" \/ crAt[c] = "fetch" THEN "answered"
                                ELSE ftAt[c]]
  /\ ftGot' = [c \in FtCalls |-> IF ftAt[c] # "answered" /\ crAt[c] = "fetch"
                                 THEN FtError("cancelled") ELSE ftGot[c]]
  /\ ftFlights' = <<>> /\ ftDocs' = <<>> /\ ftFails' = <<>>
  /\ RestoreMode
  /\ UNCHANGED <<ftNow, ftIn, ftContact, crIn, crSaw, crClients, dcrSaved>>

CrNext ==
  \/ \E r \in CrDcr : RegisterClient(r) \/ RegisterCreate(r)
  \/ \E c \in FtCalls :
       \/ LookupClient(c) \/ VerifyCIMD(c) \/ FetchForCIMD(c)
       \/ CheckDocument(c) \/ CreateFromDocument(c) \/ UpdateFromDocument(c)
  \/ \E a \in CrAdmins :
       \/ PatchClient(a) \/ PatchClientWrite(a)
       \/ UpdateDCRSettings(a) \/ SetMode(a) \/ SetModeElsewhere(a)
  \/ FetcherSteps
  \/ CrRestart

CrSpec ==
  /\ FtInit /\ ftIn \in FtAsks
  /\ \E who \in SUBSET CrRequests : CrInit(who)
  /\ [][CrNext]_crVars

(***************************************************************************)
(* Properties                                                              *)
(***************************************************************************)

\* Shapes of the rows.  A grant this server knows is one it serves; VerifyCIMD stores
\* a document that names an unknown one, for only ValidateCreateParams refuses those.
CrTypeOK ==
  /\ dcrMode \in DcrModes /\ dcrSaved \in DcrModes \cup {""}
  /\ \A id \in DOMAIN crClients :
       /\ crClients[id].grants \cap ValidGrantTypes \subseteq EnabledGrants
       /\ crClients[id].uris \cap BadURIs = {}
       /\ (crClients[id].src = "cimd") <=> (id \in FtURLs)
       /\ crClients[id].scope \in {"", "default", "operator"}

\* Unless an administrator wrote last, a client with a machine grant has no
\* scope ceiling to use without a user: neither RegisterClient nor the insert
\* and the update of VerifyCIMD leave it one, however they race with each other
\* and with a patch.
SelfMadeMachinesHoldNoScope ==
  \A id \in DOMAIN crClients :
    ~crClients[id].op /\ ~IsDelegatedOnly(crClients[id].grants) => crClients[id].scope = ""

\* Every client that is as its own registration left it was acceptable to a mode
\* that was in force while that registration ran (enforceMode, VerifyCIMD).
AdmittedByAModeInForce ==
  \A id \in DOMAIN crClients :
    ~crClients[id].op =>
      \E m \in crSaw[crClients[id].by] : EnforceMode(m, crClients[id].uris)

\* The mode this process enforces is the mode a restart would restore, except
\* while a change is between its two writes.  Two changes that overlap, one made
\* outside the process and a start that could not read the row part the two, and the
\* next change that runs alone brings them together again: a change that could not
\* be persisted is not in force (handleUpdateDCRSettings, runServe).
ModeSurvivesRestart ==
  dcrRaced \/ ModeWriters # {} \/ dcrMode = RestoredMode(dcrSaved)

\* Registration as a whole: who gets in, with what, and under a mode that a restart
\* finds again (RegisterClient, resolveCIMD, handleDCRSettings).
RegistrationSound ==
  /\ CrTypeOK
  /\ AdmittedByAModeInForce
  /\ SelfMadeMachinesHoldNoScope
  /\ ModeSurvivesRestart
=============================================================================
