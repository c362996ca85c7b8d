------------------------ MODULE AdministrationProofs ------------------------
(***************************************************************************)
(* What administrators edit: clients (ClientAdmin), resources, fronting    *)
(* links and providers (ResourceAdmin); and clients that register          *)
(* themselves (CimdFetcher, ClientRegistration).                           *)
(*                                                                         *)
(* ClientAdmin implements AccountRegister for every set of requests, on    *)
(* both databases, and on SQLite its unforced delete takes no live token.  *)
(*                                                                         *)
(* ResourceAdmin keeps the registry sound for every set of administrators, *)
(* resources, providers and links. The invariant (RgInv) says of each      *)
(* request what it carries to its next call, and that what it has checked  *)
(* still holds unless rgStale has noted the write that overtook it. That   *)
(* links close no cycle is shown with the sets that links do not leave: a  *)
(* new link joins or cuts two of them (NewLinkClosesNoCycle).              *)
(*                                                                         *)
(* The fetcher's invariant (FtInv) ties a flight to the key its waiters    *)
(* share: what it stores or answers fits every call under that key. The    *)
(* invariant of registration (CrInv) says of each request what it carries  *)
(* and that a mode in force since it began admits it (CrCarries), of each  *)
(* row that it is what such a request wrote (CrTable), and of the mode     *)
(* that the one change under way, if any, has the saved value (CrModes).   *)
(***************************************************************************)
EXTENDS ClientAdmin, ClientRegistration, ResourceAdmin, FiniteSetTheorems, TLAPS

-----------------------------------------------------------------------------
(* ClientAdmin: the client row is a register *)

\* A request about to write holds the current row or an older one, and passed
\* the checks on the row it holds.
CopyInv ==
    \A p \in Requests : pc[p] = "write" =>
        /\ op[p] \in Edits
        /\ Allowed(op[p], copy[p])
        /\ copy[p].version <= row.version
        /\ Current(p) => copy[p] = row

\* Every variable keeps its type.
LEMMA ClientTypeStep ==
    ASSUME TypeOK, [Next]_vars
    PROVE  TypeOK'
<1> USE NoneAssumption DEF TypeOK, Rows, Statuses, Contents, Goto
<1>1. ASSUME NEW p \in Requests, ReadRow(p) PROVE TypeOK'
  BY <1>1 DEF ReadRow, Edits
<1>2. ASSUME NEW p \in Requests, WriteRow(p) PROVE TypeOK'
  <2>1. Edit(p) \in Rows
    BY DEF Edit
  <2>2. row' \in Rows
    BY <1>2, <2>1 DEF WriteRow
  <2> QED BY <1>2, <2>2 DEF WriteRow
<1>3. ASSUME NEW p \in Requests, DeleteBegin(p) PROVE TypeOK'
  BY <1>3 DEF DeleteBegin, Deletes
<1>4. ASSUME NEW p \in Requests, DeleteMissing(p) PROVE TypeOK'
  BY <1>4 DEF DeleteMissing, Deletes
<1>5. ASSUME NEW p \in Requests, DeleteCount(p) PROVE TypeOK'
  BY <1>5 DEF DeleteCount
<1>6. ASSUME NEW p \in Requests, DeleteCommit(p) PROVE TypeOK'
  BY <1>6 DEF DeleteCommit
<1>7. ASSUME NEW p \in Requests, IssueRead(p) PROVE TypeOK'
  BY <1>7 DEF IssueRead
<1>8. ASSUME NEW p \in Requests, IssueCommit(p) PROVE TypeOK'
  BY <1>8 DEF IssueCommit
<1>9. CASE UNCHANGED vars
  BY <1>9 DEF vars
<1> QED BY <1>1, <1>2, <1>3, <1>4, <1>5, <1>6, <1>7, <1>8, <1>9 DEF Next, Quiescent

\* A write raises the version, so every other copy becomes an old one.
LEMMA CopyStep ==
    ASSUME TypeOK, CopyInv, [Next]_vars
    PROVE  CopyInv'
<1> USE DEF TypeOK, Rows, CopyInv, Current, Allowed, Goto
<1>1. ASSUME NEW p \in Requests, ReadRow(p) PROVE CopyInv'
  BY <1>1 DEF ReadRow
<1>2. ASSUME NEW p \in Requests, WriteRow(p) PROVE CopyInv'
  <2>1. /\ pc' = [pc EXCEPT ![p] = "done"]
        /\ UNCHANGED <<op, copy>>
    BY <1>2 DEF WriteRow
  <2>2. CASE ~Current(p)
    BY <1>2, <2>1, <2>2 DEF WriteRow
  <2>3. CASE Current(p)
    <3>1. Edit(p) \in Rows
      BY DEF Edit, Statuses, Contents
    <3>2. row'.version = row.version + 1
      BY <1>2, <2>3, <3>1 DEF WriteRow
    <3> QED BY <2>1, <3>2
  <2> QED BY <2>2, <2>3
<1>3. ASSUME NEW p \in Requests, DeleteBegin(p) PROVE CopyInv'
  BY <1>3 DEF DeleteBegin
<1>4. ASSUME NEW p \in Requests, DeleteMissing(p) PROVE CopyInv'
  BY <1>4 DEF DeleteMissing
<1>5. ASSUME NEW p \in Requests, DeleteCount(p) PROVE CopyInv'
  BY <1>5 DEF DeleteCount
<1>6. ASSUME NEW p \in Requests, DeleteCommit(p) PROVE CopyInv'
  BY <1>6 DEF DeleteCommit
<1>7. ASSUME NEW p \in Requests, IssueRead(p) PROVE CopyInv'
  BY <1>7 DEF IssueRead
<1>8. ASSUME NEW p \in Requests, IssueCommit(p) PROVE CopyInv'
  BY <1>8 DEF IssueCommit
<1>9. CASE UNCHANGED vars
  BY <1>9 DEF vars
<1> QED BY <1>1, <1>2, <1>3, <1>4, <1>5, <1>6, <1>7, <1>8, <1>9 DEF Next, Quiescent

\* The whole row a request writes back is the current row with one operation
\* applied, so a write is one operation on the register, or none.
LEMMA WriteIsOneOperation ==
    ASSUME TypeOK, CopyInv, NEW p \in Requests, WriteRow(p)
    PROVE  [Register!Next]_(Register!regVars)
<1> USE DEF TypeOK, Rows, Register!regVars
<1>1. CASE ~Current(p)
  BY <1>1 DEF WriteRow
<1>2. CASE Current(p)
  <2>1. /\ op[p] \in Edits /\ Allowed(op[p], row) /\ copy[p] = row
        /\ row' = [Edit(p) EXCEPT !.version = row.version + 1]
    BY <1>2 DEF WriteRow, CopyInv
  <2>2. CASE op[p] \in {"suspend", "reactivate", "revoke"}
    <3>1. /\ row'.secret = row.secret /\ row'.metadata = row.metadata
          /\ row'.status = CASE op[p] = "suspend"    -> "suspended"
                             [] op[p] = "reactivate" -> "active"
                             [] OTHER                -> "revoked"
      BY <2>1, <2>2 DEF Edit
    <3>2. UNCHANGED row.status \/ \E m \in {<<"active", "suspended">>, <<"suspended", "active">>,
                     <<"active", "revoked">>, <<"suspended", "revoked">>} :
             row.status = m[1] /\ row'.status = m[2]
      BY <2>1, <2>2, <3>1 DEF Allowed, Statuses
    <3> QED BY <3>1, <3>2 DEF Register!Next, Register!Move
  <2>3. CASE op[p] = "rotateSecret"
    <3>1. /\ row'.secret = p /\ row'.metadata = row.metadata
          /\ row'.status = row.status /\ row.status # "absent"
      BY <2>1, <2>3 DEF Edit, Allowed
    <3>2. Register!Write("secret", p)
      BY <3>1 DEF Register!Write
    <3> QED BY <3>2 DEF Register!Next, Contents
  <2>4. CASE op[p] = "update"
    <3>1. /\ row'.metadata = p /\ row'.secret = row.secret
          /\ row'.status = row.status /\ row.status # "absent"
      BY <2>1, <2>4 DEF Edit, Allowed
    <3>2. Register!Write("metadata", p)
      BY <3>1 DEF Register!Write
    <3> QED BY <3>2 DEF Register!Next, Contents
  <2> QED BY <2>1, <2>2, <2>3, <2>4 DEF Edits
<1> QED BY <1>1, <1>2

\* Every step of the admin API is one operation on the register, or none.
LEMMA StepSimulates ==
    ASSUME TypeOK, CopyInv, [Next]_vars
    PROVE  [Register!Next]_(Register!regVars)
<1>1. ASSUME NEW p \in Requests, WriteRow(p) PROVE [Register!Next]_(Register!regVars)
  BY <1>1, WriteIsOneOperation
<1>2. ASSUME NEW p \in Requests, DeleteCommit(p) PROVE [Register!Next]_(Register!regVars)
  <2>1. Register!Remove
    BY <1>2 DEF DeleteCommit, Register!Remove, TypeOK, Rows
  <2> QED BY <2>1 DEF Register!Next
<1>3. CASE UNCHANGED row
  BY <1>3 DEF Register!regVars
<1>4. ASSUME NEW p \in Requests,
             ReadRow(p) \/ DeleteBegin(p) \/ DeleteMissing(p) \/ DeleteCount(p)
               \/ IssueRead(p) \/ IssueCommit(p)
      PROVE  UNCHANGED row
  BY <1>4 DEF ReadRow, DeleteBegin, DeleteMissing, DeleteCount, IssueRead, IssueCommit
<1>5. UNCHANGED vars => UNCHANGED row
  BY DEF vars
<1> QED BY <1>1, <1>2, <1>3, <1>4, <1>5 DEF Next, Quiescent

\* The clients row is a register: whatever administrators, deletes and token
\* requests interleave, no stale copy of the row overwrites a newer one
\* (ClientStore.Update and its version check).
THEOREM ClientRowRefinesRegister == Spec => ClientRowIsARegister
<1>1. Init => TypeOK /\ CopyInv
  BY NoneAssumption DEF Init, NewRow, TypeOK, Rows, Statuses, Contents, CopyInv
<1>2. TypeOK /\ CopyInv /\ [Next]_vars => (TypeOK /\ CopyInv)'
  BY ClientTypeStep, CopyStep
<1>3. Init => Register!Init
  BY DEF Init, NewRow, Register!Init, Contents
<1>4. TypeOK /\ CopyInv /\ [Next]_vars => [Register!Next]_(Register!regVars)
  BY StepSimulates
<1> QED BY <1>1, <1>2, <1>3, <1>4, PTL DEF Spec, ClientRowIsARegister, Register!Spec

-----------------------------------------------------------------------------
(* DeleteClient on SQLite *)

\* One transaction is open at a time, and while it is no request commits a token, so
\* what an unforced delete counted is still so when it commits.
TxInv ==
    /\ \A p \in Requests : pc[p] \in {"count", "commit"} => p \in txs
    /\ \A p, q \in txs : p = q
    /\ \A p \in Requests : pc[p] = "commit" /\ op[p] = "delete" => live = {}

\* The connection that a transaction holds keeps the others out.
LEMMA TxStep ==
    ASSUME Serial, TypeOK, TxInv, [Next]_vars
    PROVE  TxInv'
<1> USE DEF TypeOK, TxInv, Goto, Connected
<1>1. ASSUME NEW p \in Requests, ReadRow(p) PROVE TxInv'
  BY <1>1 DEF ReadRow
<1>2. ASSUME NEW p \in Requests, WriteRow(p) PROVE TxInv'
  BY <1>2 DEF WriteRow
<1>3. ASSUME NEW p \in Requests, DeleteBegin(p) PROVE TxInv'
  BY <1>3 DEF DeleteBegin
<1>4. ASSUME NEW p \in Requests, DeleteMissing(p) PROVE TxInv'
  BY <1>4 DEF DeleteMissing
<1>5. ASSUME NEW p \in Requests, DeleteCount(p) PROVE TxInv'
  BY <1>5 DEF DeleteCount
<1>6. ASSUME NEW p \in Requests, DeleteCommit(p) PROVE TxInv'
  BY <1>6 DEF DeleteCommit
<1>7. ASSUME NEW p \in Requests, IssueRead(p) PROVE TxInv'
  BY <1>7 DEF IssueRead
<1>8. ASSUME NEW p \in Requests, IssueCommit(p) PROVE TxInv'
  BY <1>8 DEF IssueCommit
<1>9. CASE UNCHANGED vars
  BY <1>9 DEF vars
<1> QED BY <1>1, <1>2, <1>3, <1>4, <1>5, <1>6, <1>7, <1>8, <1>9 DEF Next, Quiescent

\* On SQLite an unforced delete never takes a live token with it, whatever token
\* requests, edits and deletes run beside it: none of them gets the connection
\* between its count and its commit (DeleteClient).
THEOREM UnforcedDeleteSafe ==
    ASSUME Serial
    PROVE  Spec => UnforcedDeleteSparesTokens
<1> DEFINE Inv == TypeOK /\ CopyInv /\ TxInv
           Spares == \A p \in Requests :
                        op[p] = "delete" /\ row.status # "absent" /\ row'.status = "absent"
                          /\ pc[p] # pc'[p] => live = {}
<1>1. Init => Inv
  BY NoneAssumption DEF Init, NewRow, TypeOK, Rows, Statuses, Contents, CopyInv, TxInv
<1>2. Inv /\ [Next]_vars => Inv'
  BY ClientTypeStep, CopyStep, TxStep
<1>3. Inv /\ [Next]_vars => [Spares]_vars
  <2> SUFFICES ASSUME Inv, Next, NEW p \in Requests, op[p] = "delete",
                      row.status # "absent", row'.status = "absent", pc[p] # pc'[p]
               PROVE  live = {}
    OBVIOUS
  <2>1. ASSUME NEW q \in Requests, WriteRow(q) PROVE FALSE
    <3>1. CASE ~Current(q)
      BY <2>1, <3>1 DEF WriteRow
    <3>2. CASE Current(q)
      <4>1. copy[q].status # "absent" /\ copy[q] \in Rows
        BY <2>1 DEF CopyInv, Allowed, WriteRow, TypeOK
      <4>2. row'.status = Edit(q).status
        BY <2>1, <3>2, <4>1 DEF WriteRow, Edit, Rows
      <4> QED BY <4>1, <4>2 DEF Edit, Rows
    <3> QED BY <3>1, <3>2
  <2>2. ASSUME NEW q \in Requests, DeleteCommit(q) PROVE live = {}
    BY <2>2 DEF DeleteCommit, Goto, TypeOK, TxInv
  <2>3. ASSUME NEW q \in Requests,
               ReadRow(q) \/ DeleteBegin(q) \/ DeleteMissing(q) \/ DeleteCount(q)
                 \/ IssueRead(q) \/ IssueCommit(q)
        PROVE  FALSE
    BY <2>3 DEF ReadRow, DeleteBegin, DeleteMissing, DeleteCount, IssueRead, IssueCommit
  <2> QED BY <2>1, <2>2, <2>3 DEF Next, Quiescent, vars
<1> QED BY <1>1, <1>2, <1>3, PTL DEF Spec, UnforcedDeleteSparesTokens

-----------------------------------------------------------------------------
(* ResourceAdmin: resources, links and providers *)

\* The types of the variables, with whole functions.
RgTyped ==
    /\ rgAt \in [RgRequests -> RgLabels] /\ rgIn \in [RgRequests -> RgInput]
    /\ rgRes \in [ResIds -> ResRow \cup {RgNone}]
    /\ rgLinks \in [Slugs \X Slugs -> ScopeMaps \cup {RgNone}]
    /\ rgProv \in [ProvIds -> ProvRow \cup {RgNone}]
    /\ rgStale \in [RgRequests -> SUBSET (ResIds \cup ProvIds \cup {"links"})]
    /\ rgRaced \in BOOLEAN
    /\ rgSecret \in [ProvIds -> RgSecrets \cup {RgNone, "unknown"}]

\* The rows that a request will insert are not there before it is done.
RgNew == \A p \in RgRequests : rgAt[p] # "done" => rgRes[p] = RgNone /\ rgProv[p] = RgNone

\* A slug names one resource, and a row has the shape of its kind.
RgShaped(r) == r.kind = "mint" => r.provider = RgNone /\ r.returns = {}

RgRows ==
    /\ \A i, j \in ResIds :
          rgRes[i] # RgNone /\ rgRes[j] # RgNone /\ rgRes[i].slug = rgRes[j].slug => i = j
    /\ \A i \in ResIds : rgRes[i] # RgNone =>
          /\ RgShaped(rgRes[i])
          /\ rgRes[i].kind = "broker" =>
                rgRes[i].provider \in ProvIds /\ rgProv[rgRes[i].provider] # RgNone

\* Both ends of a link are there.
RgNamed(s) == \E i \in ResIds : rgRes[i] # RgNone /\ rgRes[i].slug = s

RgEnds == \A s, t \in Slugs : rgLinks[<<s, t>>] # RgNone => RgNamed(s) /\ RgNamed(t)

\* No link leads back to its source, and its map is of the scopes of its ends.
RgAcyclic == \A s, t \in Slugs : rgLinks[<<s, t>>] # RgNone => ~Reaches(t, s)

RgDeclared ==
    \A s, t \in Slugs, i, j \in ResIds :
        /\ rgLinks[<<s, t>>] # RgNone
        /\ rgRes[i] # RgNone /\ rgRes[j] # RgNone /\ rgRes[i].slug = s /\ rgRes[j].slug = t
        => rgRes[i].kind = "mint" /\ MapDeclared(rgLinks[<<s, t>>], rgRes[i], rgRes[j])

\* What a request carries fits its next call.
RgFits(p) ==
    /\ rgAt[p] \in {"insert", "check", "update", "delete"} =>
          rgIn[p].row \in ResRow /\ rgIn[p].id \in ResIds
    /\ rgAt[p] \in {"insert", "update"} => RgShaped(rgIn[p].row)
    /\ rgAt[p] = "check" => Validate(rgIn[p].row)
    /\ rgAt[p] \in {"link", "relink"} =>
          rgIn[p].map \in ScopeMaps /\ \E s, t \in Slugs : rgIn[p].link = <<s, t>>
    /\ rgAt[p] \in {"provInsert", "provUpdate"} => rgIn[p].prov \in ProvRow
    /\ rgAt[p] = "provUpdate" => rgIn[p].id \in ProvIds

\* Nobody has written a resource or a link since p read them.
RgFresh(p) == (ResIds \cup {"links"}) \cap rgStale[p] = {}

\* The checks that a request has passed still hold when nothing they read was written.
RgUpdateGood(i, r) == rgRes[i] # RgNone /\ ValidateResourceUpdate(rgRes[i], r)

RgReads(p) ==
    /\ \A i \in ResIds, r \in ResRow :
          /\ rgAt[p] = "update" /\ rgIn[p].id = i /\ rgIn[p].row = r
          /\ i \notin rgStale[p] /\ "links" \notin rgStale[p]
          => RgUpdateGood(i, r)
    /\ \A s, t \in Slugs, m \in ScopeMaps :
          /\ rgAt[p] \in {"link", "relink"} /\ rgIn[p].link = <<s, t>> /\ rgIn[p].map = m
          /\ RgFresh(p)
          => ValidateForPatch(s, t, m) /\ (rgAt[p] = "link" => ~Reaches(t, s))

\* The copy that a request will write differs from the row in what it names.
RgEditOf(p, i) ==
    /\ rgRes[i] # RgNone
    /\ \A f \in Fields : \/ rgIn[p].row[f] = rgRes[i][f] \/ f \in rgIn[p].touched
                         \/ f = "returns" /\ rgIn[p].row.kind = "mint"

RgEdits(p) ==
    \A i \in ResIds :
        rgAt[p] \in {"check", "update"} /\ rgIn[p].id = i /\ i \notin rgStale[p] => RgEditOf(p, i)

\* The secret of a provider's new row is the one supplied, or that of the old row.
RgSecretOf(prov, secret, old) ==
    HasSecretField(prov.protocol) /\ prov.protocol = old.protocol =>
        ResolveSecret(prov) \in {RgNone, IF secret # RgNone THEN secret ELSE ResolveSecret(old)}

RgSecrecy(p) ==
    /\ rgAt[p] = "provInsert" => ResolveSecret(rgIn[p].prov) \in {RgNone, rgIn[p].secret}
    /\ \A i \in ProvIds :
          rgAt[p] = "provUpdate" /\ rgIn[p].id = i /\ i \notin rgStale[p] =>
              rgProv[i] # RgNone /\ RgSecretOf(rgIn[p].prov, rgIn[p].secret, rgProv[i])

RgLocal(p) == RgFits(p) /\ RgReads(p) /\ RgEdits(p) /\ RgSecrecy(p)

\* The inductive invariant of the registry.
RgInv ==
    /\ RgTyped /\ RgNew /\ RgRows /\ RgEnds /\ LastSecretWins
    /\ ~rgRaced => RgAcyclic /\ RgDeclared
    /\ \A p \in RgRequests : RgLocal(p)

-----------------------------------------------------------------------------
\* Request p, and only p, goes on to label.
RgMoves(p, label) ==
    /\ rgAt[p] # "done" /\ rgAt' \in [RgRequests -> RgLabels] /\ rgAt'[p] = label
    /\ rgIn' \in [RgRequests -> RgInput]
    /\ \A q \in RgRequests \ {p} : rgAt'[q] = rgAt[q] /\ rgIn'[q] = rgIn[q]

\* RgArrive: a request comes with i.
LEMMA RgArrives ==
    ASSUME RgTyped, NEW p \in RgRequests, NEW i \in RgInput, NEW label \in RgLabels,
           RgArrive(p, i, label)
    PROVE  RgMoves(p, label) /\ rgAt[p] = "idle" /\ rgIn'[p] = i
<1>1. rgAt[p] = "idle" /\ rgIn' = [rgIn EXCEPT ![p] = i] /\ rgAt' = [rgAt EXCEPT ![p] = label]
  BY DEF RgArrive, RgMayAsk, RgGoto
<1> QED BY <1>1 DEF RgTyped, RgMoves

\* RgFinish: a request is over.
LEMMA RgFinishes ==
    ASSUME RgTyped, NEW p \in RgRequests, rgAt[p] # "done", RgFinish(p)
    PROVE  RgMoves(p, "done")
<1>1. NoRequest \in RgInput
  BY DEF NoRequest, RgInput
<1>2. rgIn' = [rgIn EXCEPT ![p] = NoRequest] /\ rgAt' = [rgAt EXCEPT ![p] = "done"]
  BY DEF RgFinish, RgGoto
<1> QED BY <1>1, <1>2 DEF RgTyped, RgMoves, RgLabels

\* A request that is over holds nothing.
LEMMA DoneHoldsNothing ==
    ASSUME NEW p \in RgRequests, rgAt[p] \in {"idle", "done"}
    PROVE  RgLocal(p)
  BY DEF RgLocal, RgFits, RgReads, RgEdits, RgSecrecy

\* The same links: the same paths.
LEMMA SamePaths ==
    ASSUME UNCHANGED rgLinks, NEW s, NEW t
    PROVE  Reaches(t, s)' <=> Reaches(t, s)
  BY DEF Reaches, Outgoing, LinkExists

\* The same resources: what a link was checked for still holds.
LEMMA SameEnds ==
    ASSUME UNCHANGED rgRes, NEW s, NEW t, NEW m
    PROVE  ValidateForPatch(s, t, m)' <=> ValidateForPatch(s, t, m)
  BY DEF ValidateForPatch, ResourcesNamed, ResourceExists

\* The same row and the same links: what an update was checked for still holds.
LEMMA SameRow ==
    ASSUME NEW i \in ResIds, NEW r \in ResRow, rgRes'[i] = rgRes[i], UNCHANGED rgLinks
    PROVE  RgUpdateGood(i, r)' <=> RgUpdateGood(i, r)
  BY DEF RgUpdateGood, ValidateResourceUpdate, ListForResource

\* What was written by another is noted at q.
RgNotes(q) ==
    rgAt[q] \notin {"idle", "done"} =>
        /\ rgStale[q] \subseteq rgStale'[q]
        /\ \A i \in ResIds : i \notin rgStale'[q] => rgRes'[i] = rgRes[i]
        /\ \A i \in ProvIds : i \notin rgStale'[q] => rgProv'[i] = rgProv[i]
        /\ "links" \notin rgStale'[q] => rgLinks' = rgLinks

\* A request keeps what it holds while another writes.
LEMMA OtherKeeps ==
    ASSUME RgTyped, RgTyped', NEW q \in RgRequests, RgLocal(q), RgNotes(q),
           rgAt'[q] = rgAt[q], rgIn'[q] = rgIn[q]
    PROVE  RgLocal(q)'
<1>1. CASE rgAt[q] \in {"idle", "done"}
  BY <1>1 DEF RgLocal, RgFits, RgReads, RgEdits, RgSecrecy
<1>2. CASE rgAt[q] \notin {"idle", "done"}
  <2>1. /\ rgStale[q] \subseteq rgStale'[q]
        /\ \A i \in ResIds : i \notin rgStale'[q] => rgRes'[i] = rgRes[i]
        /\ \A i \in ProvIds : i \notin rgStale'[q] => rgProv'[i] = rgProv[i]
        /\ "links" \notin rgStale'[q] => rgLinks' = rgLinks
    BY <1>2 DEF RgNotes
  <2>2. RgFits(q)'
    BY DEF RgLocal, RgFits, RgShaped, Validate
  <2>3. RgReads(q)'
    <3>1. ASSUME NEW i \in ResIds, NEW r \in ResRow, rgAt'[q] = "update", rgIn'[q].id = i,
                 rgIn'[q].row = r, i \notin rgStale'[q], "links" \notin rgStale'[q]
          PROVE  RgUpdateGood(i, r)'
      <4>1. RgUpdateGood(i, r)
        BY <2>1, <3>1 DEF RgLocal, RgReads
      <4> QED BY <2>1, <3>1, <4>1, SameRow
    <3>2. ASSUME NEW s \in Slugs, NEW t \in Slugs, NEW m \in ScopeMaps,
                 rgAt'[q] \in {"link", "relink"}, rgIn'[q].link = <<s, t>>, rgIn'[q].map = m,
                 RgFresh(q)'
          PROVE  ValidateForPatch(s, t, m)' /\ (rgAt'[q] = "link" => ~Reaches(t, s)')
      <4>1. RgFresh(q)
        BY <2>1, <3>2 DEF RgFresh
      <4>2. ValidateForPatch(s, t, m) /\ (rgAt[q] = "link" => ~Reaches(t, s))
        BY <3>2, <4>1 DEF RgLocal, RgReads
      <4>3. "links" \notin rgStale'[q] /\ \A i \in ResIds : i \notin rgStale'[q]
        BY <3>2 DEF RgFresh
      <4>4. UNCHANGED <<rgRes, rgLinks>>
        BY <2>1, <4>3 DEF RgTyped
      <4> QED BY <4>2, <4>4, SamePaths, SameEnds
    <3> QED BY <3>1, <3>2 DEF RgReads
  <2>4. RgEdits(q)'
    <3> SUFFICES ASSUME NEW i \in ResIds, rgAt'[q] \in {"check", "update"}, rgIn'[q].id = i,
                        i \notin rgStale'[q]
                 PROVE  RgEditOf(q, i)'
      BY DEF RgEdits
    <3>1. RgEditOf(q, i)
      BY <2>1 DEF RgLocal, RgEdits
    <3>2. rgRes'[i] = rgRes[i]
      BY <2>1
    <3> QED BY <3>1, <3>2 DEF RgEditOf
  <2>5. RgSecrecy(q)'
    BY <2>1 DEF RgLocal, RgSecrecy
  <2> QED BY <2>2, <2>3, <2>4, <2>5 DEF RgLocal
<1> QED BY <1>1, <1>2

\* A link that closes no cycle: what its source is not reached from stays acyclic.
LEMMA NewLinkClosesNoCycle ==
    ASSUME NEW s \in Slugs, NEW t \in Slugs, s # t, RgAcyclic, ~Reaches(t, s),
           \A u, v \in Slugs : rgLinks'[<<u, v>>] # RgNone =>
               rgLinks[<<u, v>>] # RgNone \/ (u = s /\ v = t)
    PROVE  RgAcyclic'
<1>1. PICK T \in SUBSET Slugs : t \in T /\ s \notin T /\ \A u \in T : Outgoing(u) \subseteq T
  BY DEF Reaches
<1>2. \A u \in T, v \in Slugs : rgLinks[<<u, v>>] # RgNone => v \in T
  BY <1>1 DEF Outgoing, LinkExists
<1> SUFFICES ASSUME NEW u \in Slugs, NEW v \in Slugs, rgLinks'[<<u, v>>] # RgNone
             PROVE  ~Reaches(v, u)'
  BY DEF RgAcyclic
<1> SUFFICES \E S \in SUBSET Slugs :
                 v \in S /\ u \notin S
                 /\ \A x \in S, y \in Slugs : rgLinks'[<<x, y>>] # RgNone => y \in S
  BY DEF Reaches, Outgoing, LinkExists
<1>3. CASE u = s /\ v = t
  BY <1>1, <1>2, <1>3
<1>4. CASE rgLinks[<<u, v>>] # RgNone
  <2>1. PICK S \in SUBSET Slugs : v \in S /\ u \notin S /\ \A x \in S : Outgoing(x) \subseteq S
    BY <1>4 DEF RgAcyclic, Reaches
  <2>2. \A x \in S, y \in Slugs : rgLinks[<<x, y>>] # RgNone => y \in S
    BY <2>1 DEF Outgoing, LinkExists
  <2>3. CASE s \notin S
    BY <2>1, <2>2, <2>3
  <2>4. CASE s \in S /\ u \notin T
    <3> DEFINE U == S \cup T
    <3>1. v \in U /\ u \notin U /\ U \in SUBSET Slugs
      BY <2>1, <2>4
    <3>2. \A x \in U, y \in Slugs : rgLinks'[<<x, y>>] # RgNone => y \in U
      BY <1>1, <1>2, <2>2
    <3> QED BY <3>1, <3>2
  <2>5. CASE s \in S /\ u \in T
    <3> DEFINE U == S \cap T
    <3>1. v \in U /\ u \notin U /\ U \in SUBSET Slugs
      BY <1>2, <1>4, <2>1, <2>5
    <3>2. \A x \in U, y \in Slugs : rgLinks'[<<x, y>>] # RgNone => y \in U
      BY <1>1, <1>2, <2>2
    <3> QED BY <3>1, <3>2
  <2> QED BY <2>3, <2>4, <2>5
<1> QED BY <1>3, <1>4

\* Without some of the links there are no more cycles.
LEMMA FewerLinks ==
    ASSUME RgAcyclic,
           \A u, v \in Slugs : rgLinks'[<<u, v>>] # RgNone => rgLinks[<<u, v>>] # RgNone
    PROVE  RgAcyclic'
<1> SUFFICES ASSUME NEW u \in Slugs, NEW v \in Slugs, rgLinks'[<<u, v>>] # RgNone
             PROVE  ~Reaches(v, u)'
  BY DEF RgAcyclic
<1>1. PICK S \in SUBSET Slugs : v \in S /\ u \notin S /\ \A x \in S : Outgoing(x) \subseteq S
  BY DEF RgAcyclic, Reaches
<1>2. \A x \in S, y \in Slugs : rgLinks'[<<x, y>>] # RgNone => y \in S
  BY <1>1 DEF Outgoing, LinkExists
<1> QED BY <1>1, <1>2 DEF Reaches, Outgoing, LinkExists

-----------------------------------------------------------------------------
\* A step that writes no table: the requests beside p keep what they hold.
LEMMA QuietKeeps ==
    ASSUME RgInv, NEW p \in RgRequests, NEW label \in RgLabels, RgMoves(p, label),
           UNCHANGED <<rgRes, rgLinks, rgProv, rgStale, rgRaced, rgSecret>>, RgLocal(p)'
    PROVE  RgInv'
<1>1. RgTyped'
  BY DEF RgInv, RgTyped, RgMoves
<1>2. RgNew'
  BY DEF RgInv, RgNew, RgMoves
<1>3. RgRows' /\ RgEnds'
  BY DEF RgInv, RgRows, RgEnds, RgNamed
<1>4. LastSecretWins'
  BY DEF RgInv, LastSecretWins
<1>5. ~rgRaced' => RgAcyclic' /\ RgDeclared'
  <2>1. ~rgRaced => RgAcyclic /\ RgDeclared
    BY DEF RgInv
  <2>2. RgDeclared => RgDeclared'
    BY DEF RgDeclared
  <2>3. RgAcyclic => RgAcyclic'
    BY SamePaths DEF RgAcyclic
  <2> QED BY <2>1, <2>2, <2>3
<1>6. ASSUME NEW q \in RgRequests PROVE RgLocal(q)'
  <2>1. CASE q # p
    <3>1. RgNotes(q)
      BY DEF RgNotes
    <3> QED BY <1>1, <2>1, <3>1, OtherKeeps DEF RgInv, RgMoves
  <2> QED BY <2>1
<1> QED BY <1>1, <1>2, <1>3, <1>4, <1>5, <1>6 DEF RgInv

\* CreateResource: a edited of the right shape goes to the insert.
LEMMA CreateResourceKeeps ==
    ASSUME RgInv, NEW p \in RgRequests, CreateResource(p)
    PROVE  RgInv'
<1>1. PICK c \in NewResources :
         LET edited == [c EXCEPT !.slug = NormalizeSlug(c.slug)] IN
         /\ NormalizeSlug(c.slug) # RgNone /\ Validate(edited)
         /\ RgArrive(p, [NoRequest EXCEPT !.op = "createResource", !.id = p,
                                          !.row = StripMintConnectPolicy(edited)], "insert")
         /\ UNCHANGED <<rgRes, rgLinks, rgProv, rgStale, rgRaced, rgSecret>>
  BY Zenon DEF CreateResource
<1> DEFINE edited == [c EXCEPT !.slug = NormalizeSlug(c.slug)]
           kept == StripMintConnectPolicy(edited)
           r == [NoRequest EXCEPT !.op = "createResource", !.id = p, !.row = kept]
<1>2. edited \in ResRow
  BY <1>1, ResInputsAssumption DEF ResRow, NormalizeSlug
<1>3. kept \in ResRow /\ RgShaped(kept)
  BY <1>1, <1>2 DEF StripMintConnectPolicy, ResRow, RgShaped, Validate
<1> HIDE DEF edited, kept
<1>4. r \in RgInput /\ r.row = kept /\ r.id = p
  BY <1>3 DEF NoRequest, RgInput, RgOpNames, ResIds
<1> HIDE DEF r
<1>5. RgArrive(p, r, "insert")
  BY <1>1, Zenon DEF r, kept, edited
<1>6. RgMoves(p, "insert") /\ rgIn'[p] = r
  BY <1>4, <1>5, RgArrives DEF RgInv, RgLabels
<1>7. RgLocal(p)'
  BY <1>3, <1>4, <1>6
     DEF RgMoves, RgLocal, RgFits, RgReads, RgEdits, RgSecrecy, RgShaped, ResIds
<1> QED BY <1>1, <1>6, <1>7, QuietKeeps DEF RgLabels

\* PatchResource: a copy that differs in what the patch names goes to the check.
LEMMA PatchResourceKeeps ==
    ASSUME RgInv, NEW p \in RgRequests, PatchResource(p)
    PROVE  RgInv'
<1>1. PICK i \in ResIds, c \in ResPatches :
         LET edited == ApplyPatch(rgRes[i], c) IN
         /\ ResourceExists(i) /\ Validate(edited)
         /\ "slug" \in DOMAIN c => NormalizeSlug(c["slug"]) # RgNone
         /\ RgArrive(p, [NoRequest EXCEPT !.op = "patchResource", !.id = i, !.row = edited,
                                          !.touched = DOMAIN c], "check")
         /\ UNCHANGED <<rgRes, rgLinks, rgProv, rgStale, rgRaced, rgSecret>>
  BY Zenon DEF PatchResource
<1> DEFINE edited == ApplyPatch(rgRes[i], c)
           r == [NoRequest EXCEPT !.op = "patchResource", !.id = i, !.row = edited,
                                  !.touched = DOMAIN c]
<1>2. rgRes[i] \in ResRow
  BY <1>1 DEF RgInv, RgTyped, ResourceExists
<1>3. edited \in ResRow
  BY <1>1, <1>2, ResInputsAssumption
     DEF ApplyPatch, FieldOr, NormalizeSlug, ResRow
<1>4. \A f \in Fields : edited[f] = rgRes[i][f] \/ f \in DOMAIN c
  BY DEF ApplyPatch, FieldOr, Fields
<1>5. Validate(edited)
  BY <1>1
<1> HIDE DEF edited
<1>6. DOMAIN c \subseteq Fields
  BY ResInputsAssumption
<1>7. r \in RgInput /\ r.row = edited /\ r.id = i /\ r.touched = DOMAIN c
  BY <1>3, <1>6 DEF NoRequest, RgInput, RgOpNames, ResIds
<1> HIDE DEF r
<1>8. RgArrive(p, r, "check")
  BY <1>1, Zenon DEF r, edited
<1>9. RgMoves(p, "check") /\ rgIn'[p] = r
  BY <1>7, <1>8, RgArrives DEF RgInv, RgLabels
<1>10. RgLocal(p)'
  <2>1. rgAt'[p] = "check"
    BY <1>9 DEF RgMoves
  <2>2. RgFits(p)'
    BY <1>3, <1>5, <1>7, <1>9, <2>1 DEF RgFits, Validate
  <2>3. RgEdits(p)'
    BY <1>1, <1>4, <1>7, <1>9, <2>1 DEF RgEdits, RgEditOf, ResourceExists
  <2> QED BY <2>1, <2>2, <2>3 DEF RgLocal, RgReads, RgSecrecy
<1> QED BY <1>1, <1>9, <1>10, QuietKeeps DEF RgLabels

\* EditList: a copy with another list goes to the update.
LEMMA EditListKeeps ==
    ASSUME RgInv, NEW p \in RgRequests, NEW o \in RgOpNames, NEW i \in ResIds, ResourceExists(i),
           NEW list \in {"allowed", "runtime", "returns"}, NEW next,
           next \subseteq (IF list = "returns" THEN ReturnURLs ELSE RgClients),
           list = "returns" => rgRes[i].kind = "broker", EditList(p, o, i, list, next)
    PROVE  RgInv'
<1> DEFINE edited == [rgRes[i] EXCEPT ![list] = next]
           r == [NoRequest EXCEPT !.op = o, !.id = i, !.touched = {list}, !.row = edited]
<1>1. RgArrive(p, r, "update") /\ UNCHANGED <<rgRes, rgLinks, rgProv, rgStale, rgRaced, rgSecret>>
  BY DEF EditList
<1>2. rgRes[i] \in ResRow /\ rgRes[i] # RgNone /\ RgShaped(rgRes[i])
  BY DEF RgInv, RgTyped, RgRows, ResourceExists
<1>3. edited \in ResRow
  BY <1>2 DEF ResRow
<1>4. /\ edited.slug = rgRes[i].slug /\ edited.kind = rgRes[i].kind /\ edited.scopes = rgRes[i].scopes
      /\ edited.provider = rgRes[i].provider
      /\ list # "returns" => edited.returns = rgRes[i].returns
  BY <1>2 DEF ResRow
<1>5. \A f \in Fields : edited[f] = rgRes[i][f] \/ f \in {list}
  BY <1>2 DEF Fields, ResRow
<1>6. RgShaped(edited)
  BY <1>2, <1>4 DEF RgShaped
<1> HIDE DEF edited
<1>7. r \in RgInput /\ r.row = edited /\ r.id = i /\ r.touched = {list}
  BY <1>3 DEF NoRequest, RgInput, ResIds, Fields
<1> HIDE DEF r
<1>8. RgMoves(p, "update") /\ rgIn'[p] = r
  BY <1>1, <1>7, RgArrives DEF RgInv, RgLabels
<1>9. RgLocal(p)'
  <2>1. rgAt'[p] = "update"
    BY <1>8 DEF RgMoves
  <2>2. RgFits(p)'
    BY <1>3, <1>6, <1>7, <1>8, <2>1 DEF RgFits, RgShaped
  <2>3. RgEdits(p)'
    BY <1>1, <1>2, <1>5, <1>7, <1>8, <2>1 DEF RgEdits, RgEditOf
  <2>4. RgUpdateGood(i, edited)
    BY <1>2, <1>4 DEF RgUpdateGood, ValidateResourceUpdate
  <2>5. PICK same \in ResRow : same = edited
    BY <1>3
  <2>6. RgUpdateGood(i, same)'
    BY <1>1, <2>4, <2>5, SameRow
  <2>7. RgReads(p)'
    BY <1>7, <1>8, <2>1, <2>5, <2>6 DEF RgReads
  <2> QED BY <2>1, <2>2, <2>3, <2>7 DEF RgLocal, RgSecrecy
<1> QED BY <1>1, <1>8, <1>9, QuietKeeps DEF RgLabels

\* The six edits of a list.
LEMMA ListsKeep ==
    ASSUME RgInv, NEW p \in RgRequests,
           \/ AddAllowedClient(p) \/ RemoveAllowedClient(p)
           \/ AddRuntimeClientID(p) \/ RemoveRuntimeClientID(p)
           \/ AddAllowedReturnURL(p) \/ RemoveAllowedReturnURL(p)
    PROVE  RgInv'
<1>1. ASSUME NEW i \in ResIds, ResourceExists(i)
      PROVE  /\ rgRes[i].allowed \subseteq RgClients /\ rgRes[i].runtime \subseteq RgClients
             /\ rgRes[i].returns \subseteq ReturnURLs
  <2>1. rgRes[i] \in ResRow
    BY <1>1 DEF RgInv, RgTyped, ResourceExists
  <2> QED BY <2>1 DEF ResRow
<1>2. CASE AddAllowedClient(p)
  <2>1. PICK i \in ResIds, c \in KnownClients :
           ResourceExists(i) /\ EditList(p, "addClient", i, "allowed", rgRes[i].allowed \cup {c})
    BY <1>2, Zenon DEF AddAllowedClient
  <2>2. rgRes[i].allowed \cup {c} \subseteq RgClients
    BY <1>1, <2>1, RgSeedAssumption
  <2> QED BY <2>1, <2>2, EditListKeeps DEF RgOpNames
<1>3. CASE RemoveAllowedClient(p)
  <2>1. PICK i \in ResIds, c \in RgClients :
           ResourceExists(i) /\ EditList(p, "removeClient", i, "allowed", rgRes[i].allowed \ {c})
    BY <1>3, Zenon DEF RemoveAllowedClient
  <2>2. rgRes[i].allowed \ {c} \subseteq RgClients
    BY <1>1, <2>1
  <2> QED BY <2>1, <2>2, EditListKeeps DEF RgOpNames
<1>4. CASE AddRuntimeClientID(p)
  <2>1. PICK i \in ResIds, c \in KnownClients :
           ResourceExists(i) /\ EditList(p, "addRuntime", i, "runtime", rgRes[i].runtime \cup {c})
    BY <1>4, Zenon DEF AddRuntimeClientID
  <2>2. rgRes[i].runtime \cup {c} \subseteq RgClients
    BY <1>1, <2>1, RgSeedAssumption
  <2> QED BY <2>1, <2>2, EditListKeeps DEF RgOpNames
<1>5. CASE RemoveRuntimeClientID(p)
  <2>1. PICK i \in ResIds, c \in RgClients :
           ResourceExists(i) /\ EditList(p, "removeRuntime", i, "runtime", rgRes[i].runtime \ {c})
    BY <1>5, Zenon DEF RemoveRuntimeClientID
  <2>2. rgRes[i].runtime \ {c} \subseteq RgClients
    BY <1>1, <2>1
  <2> QED BY <2>1, <2>2, EditListKeeps DEF RgOpNames
<1>6. CASE AddAllowedReturnURL(p)
  <2>1. PICK i \in ResIds, u \in ValidURLs :
           /\ ResourceExists(i) /\ rgRes[i].kind = "broker"
           /\ EditList(p, "addURL", i, "returns", rgRes[i].returns \cup {u})
    BY <1>6, Zenon DEF AddAllowedReturnURL
  <2>2. rgRes[i].returns \cup {u} \subseteq ReturnURLs
    BY <1>1, <2>1, RgSeedAssumption
  <2> QED BY <2>1, <2>2, EditListKeeps DEF RgOpNames
<1>7. CASE RemoveAllowedReturnURL(p)
  <2>1. PICK i \in ResIds, u \in ReturnURLs :
           /\ ResourceExists(i) /\ rgRes[i].kind = "broker"
           /\ EditList(p, "removeURL", i, "returns", rgRes[i].returns \ {u})
    BY <1>7, Zenon DEF RemoveAllowedReturnURL
  <2>2. rgRes[i].returns \ {u} \subseteq ReturnURLs
    BY <1>1, <2>1
  <2> QED BY <2>1, <2>2, EditListKeeps DEF RgOpNames
<1> QED BY <1>2, <1>3, <1>4, <1>5, <1>6, <1>7

\* DeleteResource: the edited that was read goes to the transaction.
LEMMA DeleteResourceKeeps ==
    ASSUME RgInv, NEW p \in RgRequests, DeleteResource(p)
    PROVE  RgInv'
<1>1. PICK i \in ResIds, cascade \in BOOLEAN :
         LET links == ListForResource(rgRes[i].slug) IN
         /\ ResourceExists(i)
         /\ RgArrive(p, [NoRequest EXCEPT !.op = IF links # {} THEN "cascade" ELSE "deleteResource",
                                          !.id = i, !.row = rgRes[i]], "delete")
         /\ UNCHANGED <<rgRes, rgLinks, rgProv, rgStale, rgRaced, rgSecret>>
  BY Zenon DEF DeleteResource
<1> DEFINE o == IF ListForResource(rgRes[i].slug) # {} THEN "cascade" ELSE "deleteResource"
           r == [NoRequest EXCEPT !.op = o, !.id = i, !.row = rgRes[i]]
<1>2. rgRes[i] \in ResRow
  BY <1>1 DEF RgInv, RgTyped, ResourceExists
<1>3. o \in RgOpNames
  BY DEF RgOpNames
<1> HIDE DEF o
<1>4. r \in RgInput /\ r.row = rgRes[i] /\ r.id = i
  BY <1>2, <1>3 DEF NoRequest, RgInput, ResIds
<1> HIDE DEF r
<1>5. RgArrive(p, r, "delete")
  BY <1>1, Zenon DEF r, o
<1>6. RgMoves(p, "delete") /\ rgIn'[p] = r
  BY <1>4, <1>5, RgArrives DEF RgInv, RgLabels
<1>7. RgLocal(p)'
  BY <1>1, <1>2, <1>4, <1>6 DEF RgMoves, RgLocal, RgFits, RgReads, RgEdits, RgSecrecy
<1> QED BY <1>1, <1>6, <1>7, QuietKeeps DEF RgLabels

\* CreateLink, PatchLink: a link that has passed the checks goes to the write.
LEMMA LinkArrivesKeeps ==
    ASSUME RgInv, NEW p \in RgRequests, CreateLink(p) \/ PatchLink(p)
    PROVE  RgInv'
<1>1. PICK l \in LinkInputs, o \in RgOpNames, label \in {"link", "relink"} :
         /\ ValidateForPatch(l[1], l[2], l[3]) /\ (label = "link" => ~Reaches(l[2], l[1]))
         /\ RgArrive(p, [NoRequest EXCEPT !.op = o, !.link = <<l[1], l[2]>>, !.map = l[3]], label)
         /\ UNCHANGED <<rgRes, rgLinks, rgProv, rgStale, rgRaced, rgSecret>>
  <2>1. CASE CreateLink(p)
    <3>1. "createLink" \in RgOpNames /\ "link" \in {"link", "relink"}
      BY DEF RgOpNames
    <3> QED BY <2>1, <3>1, Zenon DEF CreateLink, ValidateLink, AssertNoCycle
  <2>2. CASE PatchLink(p)
    <3>1. "patchLink" \in RgOpNames /\ "relink" \in {"link", "relink"} /\ "relink" # "link"
      BY DEF RgOpNames
    <3> QED BY <2>2, <3>1, Zenon DEF PatchLink
  <2> QED BY <2>1, <2>2
<1>2. PICK s \in Slugs, t \in Slugs, m \in ScopeMaps : l[1] = s /\ l[2] = t /\ l[3] = m
  BY LinkInputsAssumption
<1> DEFINE r == [NoRequest EXCEPT !.op = o, !.link = <<s, t>>, !.map = m]
<1>3. r \in RgInput /\ r.link = <<s, t>> /\ r.map = m
  BY DEF NoRequest, RgInput, ResIds
<1>4. RgArrive(p, r, label)
  BY <1>1, <1>2, Zenon
<1> HIDE DEF r
<1>5. RgMoves(p, label) /\ rgIn'[p] = r
  BY <1>3, <1>4, RgArrives DEF RgInv, RgLabels
<1>6. RgLocal(p)'
  <2>1. rgAt'[p] = label
    BY <1>5 DEF RgMoves
  <2>2. RgFits(p)'
    BY <1>3, <1>5, <2>1 DEF RgFits
  <2>3. ValidateForPatch(s, t, m)' /\ (label = "link" => ~Reaches(t, s)')
    <3>1. ValidateForPatch(s, t, m) /\ (label = "link" => ~Reaches(t, s))
      BY <1>1, <1>2, Zenon
    <3> QED BY <1>1, <3>1, SamePaths, SameEnds
  <2>4. RgReads(p)'
    <3> SUFFICES ASSUME NEW s1 \in Slugs, NEW t1 \in Slugs, NEW m1 \in ScopeMaps,
                        rgIn'[p].link = <<s1, t1>>, rgIn'[p].map = m1
                 PROVE  ValidateForPatch(s1, t1, m1)' /\ (label = "link" => ~Reaches(t1, s1)')
      BY <2>1 DEF RgReads
    <3>1. s1 = s /\ t1 = t /\ m1 = m
      BY <1>3, <1>5
    <3> QED BY <2>3, <3>1, Zenon
  <2> QED BY <2>1, <2>2, <2>4 DEF RgLocal, RgEdits, RgSecrecy
<1> QED BY <1>1, <1>5, <1>6, QuietKeeps DEF RgLabels

\* RouteSecretFields: what is resolved afterwards is what was given, if it can be resolved.
LEMMA RoutedSecret ==
    ASSUME NEW d \in ProvRow, NEW ref \in RgSecrets \cup {RgNone},
           NEW value \in RgSecrets \cup {RgNone}, 
           ref = RgNone \/ value = RgNone
    PROVE  /\ RouteSecretFields(d, ref, value) \in ProvRow
           /\ RouteSecretFields(d, ref, value).protocol = d.protocol
           /\ ResolveSecret(RouteSecretFields(d, ref, value)) \in
                 {RgNone, IF value # RgNone THEN value ELSE IF ref # RgNone THEN ref
                          ELSE IF d.enc # RgNone THEN ResolveSecret(d) ELSE RgNone}
<1> DEFINE e == RouteSecretFields(d, ref, value)
<1>1. /\ e \in ProvRow /\ e.protocol = d.protocol
      /\ e.ref = IF value # RgNone THEN RgNone ELSE ref
      /\ e.enc = IF value # RgNone THEN value ELSE IF ref # RgNone THEN RgNone ELSE d.enc
  BY DEF RouteSecretFields, ProvRow
<1> HIDE DEF e
<1>2. ResolveSecret(e) \in {RgNone, IF value # RgNone THEN value ELSE IF ref # RgNone THEN ref
                                    ELSE IF d.enc # RgNone THEN ResolveSecret(d) ELSE RgNone}
  BY <1>1 DEF ResolveSecret
<1> QED BY <1>1, <1>2 DEF e

\* CreateProvider: the row has the secret that was given.
LEMMA CreateProviderKeeps ==
    ASSUME RgInv, NEW p \in RgRequests, CreateProvider(p)
    PROVE  RgInv'
<1>1. PICK c \in ProviderInputs :
         LET d == [slug |-> c.slug, protocol |-> c.protocol, ref |-> c.ref, enc |-> RgNone] IN
         /\ SecretInputAccepted(c.protocol, c.ref, c.value)
         /\ RgArrive(p, [NoRequest EXCEPT !.op = "createProvider",
              !.prov = IF HasSecretField(c.protocol) THEN RouteSecretFields(d, c.ref, c.value) ELSE d,
              !.secret = IF c.value # RgNone THEN c.value ELSE c.ref], "provInsert")
         /\ UNCHANGED <<rgRes, rgLinks, rgProv, rgStale, rgRaced, rgSecret>>
  BY Zenon DEF CreateProvider
<1>2. /\ c.slug \in Slugs /\ c.protocol \in Protocols
      /\ c.ref \in RgSecrets \cup {RgNone} /\ c.value \in RgSecrets \cup {RgNone}
  BY ProviderInputsAssumption
<1> DEFINE d == [slug |-> c.slug, protocol |-> c.protocol, ref |-> c.ref, enc |-> RgNone]
           prov == IF HasSecretField(c.protocol) THEN RouteSecretFields(d, c.ref, c.value) ELSE d
           secret == IF c.value # RgNone THEN c.value ELSE c.ref
           r == [NoRequest EXCEPT !.op = "createProvider", !.prov = prov, !.secret = secret]
<1>3. d \in ProvRow /\ d.enc = RgNone /\ d.ref = c.ref
  BY <1>2 DEF ProvRow
<1> HIDE DEF d
<1>4. prov \in ProvRow /\ ResolveSecret(prov) \in {RgNone, secret}
  <2>1. CASE HasSecretField(c.protocol)
    <3>1. prov = RouteSecretFields(d, c.ref, c.value) /\ (c.ref = RgNone \/ c.value = RgNone)
      BY <1>1, <2>1 DEF SecretInputAccepted
    <3> HIDE DEF prov
    <3> QED BY <1>2, <1>3, <3>1, RoutedSecret
  <2>2. CASE ~HasSecretField(c.protocol)
    <3>1. prov = d /\ c.value = RgNone
      BY <1>1, <2>2 DEF SecretInputAccepted
    <3> HIDE DEF prov
    <3> QED BY <1>3, <3>1 DEF ResolveSecret
  <2> QED BY <2>1, <2>2
<1>5. secret \in RgSecrets \cup {RgNone}
  BY <1>2
<1> HIDE DEF prov, secret
<1>6. r \in RgInput /\ r.prov = prov /\ r.secret = secret
  BY <1>4, <1>5 DEF NoRequest, RgInput, RgOpNames
<1> HIDE DEF r
<1>7. RgArrive(p, r, "provInsert")
  BY <1>1, Zenon DEF r, prov, secret, d
<1>8. RgMoves(p, "provInsert") /\ rgIn'[p] = r
  BY <1>6, <1>7, RgArrives DEF RgInv, RgLabels
<1>9. RgLocal(p)'
  <2>1. rgAt'[p] = "provInsert"
    BY <1>8 DEF RgMoves
  <2>2. RgFits(p)'
    BY <1>4, <1>6, <1>8, <2>1 DEF RgFits
  <2>3. RgSecrecy(p)'
    BY <1>4, <1>6, <1>8, <2>1 DEF RgSecrecy
  <2> QED BY <2>1, <2>2, <2>3 DEF RgLocal, RgReads, RgEdits
<1> QED BY <1>1, <1>8, <1>9, QuietKeeps DEF RgLabels

\* PatchedProvider: the secret is the one of the patch, or that of the row.
LEMMA PatchedSecret ==
    ASSUME NEW old \in ProvRow, NEW c \in ProviderPatches,
           PatchesConfig(c) => SecretInputAccepted(PatchedProvider(old, c).protocol,
                                   FieldOr(c, "ref", RgNone), FieldOr(c, "value", RgNone))
    PROVE  /\ PatchedProvider(old, c) \in ProvRow
           /\ RgSecretOf(PatchedProvider(old, c),
                 IF FieldOr(c, "value", RgNone) # RgNone THEN FieldOr(c, "value", RgNone)
                 ELSE FieldOr(c, "ref", RgNone), old)
<1> DEFINE ref == FieldOr(c, "ref", RgNone)
           value == FieldOr(c, "value", RgNone)
           next == [old EXCEPT !.slug = FieldOr(c, "slug", @), !.protocol = FieldOr(c, "protocol", @)]
           new == PatchedProvider(old, c)
           secret == IF value # RgNone THEN value ELSE ref
<1>1. ref \in RgSecrets \cup {RgNone} /\ value \in RgSecrets \cup {RgNone}
  BY ProviderInputsAssumption DEF FieldOr
<1>2. next \in ProvRow /\ next.enc = old.enc /\ next.ref = old.ref
  BY ProviderInputsAssumption DEF FieldOr, ProvRow
<1>3. new = IF ~PatchesConfig(c) THEN next
            ELSE IF HasSecretField(next.protocol) THEN RouteSecretFields(next, ref, value)
            ELSE [next EXCEPT !.ref = ref]
  BY Zenon DEF PatchedProvider
<1>4. ~PatchesConfig(c) => ref = RgNone /\ value = RgNone
  BY DEF PatchesConfig, FieldOr
<1>5. PatchesConfig(c) => SecretInputAccepted(new.protocol, ref, value)
  OBVIOUS
<1> SUFFICES new \in ProvRow /\ RgSecretOf(new, secret, old)
  OBVIOUS
<1> HIDE DEF next, ref, value, new
<1>6. CASE ~PatchesConfig(c)
  BY <1>2, <1>3, <1>4, <1>6 DEF RgSecretOf, ResolveSecret
<1>7. CASE PatchesConfig(c) /\ HasSecretField(next.protocol)
  <2>1. new = RouteSecretFields(next, ref, value)
    BY <1>3, <1>7
  <2>2. new.protocol = next.protocol
    BY <1>1, <1>2, <2>1 DEF RouteSecretFields, ProvRow
  <2>3. ref = RgNone \/ value = RgNone
    BY <1>5, <1>7, <2>2 DEF SecretInputAccepted
  <2>4. /\ new \in ProvRow
        /\ ResolveSecret(new) \in
              {RgNone, IF value # RgNone THEN value ELSE IF ref # RgNone THEN ref
                       ELSE IF next.enc # RgNone THEN ResolveSecret(next) ELSE RgNone}
    BY <1>1, <1>2, <2>1, <2>3, RoutedSecret
  <2>5. ResolveSecret(next) = ResolveSecret(old)
    BY <1>2 DEF ResolveSecret
  <2> QED BY <2>3, <2>4, <2>5 DEF RgSecretOf
<1>8. CASE PatchesConfig(c) /\ ~HasSecretField(next.protocol)
  <2>1. new = [next EXCEPT !.ref = ref]
    BY <1>3, <1>8
  <2>2. new \in ProvRow /\ new.protocol = next.protocol
    BY <1>1, <1>2, <2>1 DEF ProvRow
  <2> QED BY <1>8, <2>2 DEF RgSecretOf
<1> QED BY <1>6, <1>7, <1>8

\* PatchProvider: the row with the patch goes to the update.
LEMMA PatchProviderKeeps ==
    ASSUME RgInv, NEW p \in RgRequests, PatchProvider(p)
    PROVE  RgInv'
<1>1. PICK i \in ProvIds, c \in ProviderPatches :
         LET next == PatchedProvider(rgProv[i], c)
             ref == FieldOr(c, "ref", RgNone)
             value == FieldOr(c, "value", RgNone)
         IN /\ rgProv[i] # RgNone
            /\ PatchesConfig(c) => SecretInputAccepted(next.protocol, ref, value)
            /\ RgArrive(p, [NoRequest EXCEPT !.op = "patchProvider", !.id = i, !.prov = next,
                   !.secret = IF value # RgNone THEN value ELSE ref], "provUpdate")
            /\ UNCHANGED <<rgRes, rgLinks, rgProv, rgStale, rgRaced, rgSecret>>
  BY Zenon DEF PatchProvider
<1> DEFINE next == PatchedProvider(rgProv[i], c)
           ref == FieldOr(c, "ref", RgNone)
           value == FieldOr(c, "value", RgNone)
           secret == IF value # RgNone THEN value ELSE ref
           r == [NoRequest EXCEPT !.op = "patchProvider", !.id = i, !.prov = next, !.secret = secret]
<1>2. rgProv[i] \in ProvRow
  BY <1>1 DEF RgInv, RgTyped
<1>3. PatchesConfig(c) => SecretInputAccepted(next.protocol, ref, value)
  BY <1>1, Zenon
<1>4. next \in ProvRow /\ RgSecretOf(next, secret, rgProv[i])
  BY <1>2, <1>3, PatchedSecret, Zenon
<1>5. secret \in RgSecrets \cup {RgNone}
  BY ProviderInputsAssumption DEF FieldOr
<1> HIDE DEF next, secret
<1>6. r \in RgInput /\ r.prov = next /\ r.secret = secret /\ r.id = i
  BY <1>4, <1>5 DEF NoRequest, RgInput, RgOpNames
<1> HIDE DEF r
<1>7. RgArrive(p, r, "provUpdate")
  BY <1>1, Zenon DEF r, next, secret
<1>8. RgMoves(p, "provUpdate") /\ rgIn'[p] = r
  BY <1>6, <1>7, RgArrives DEF RgInv, RgLabels
<1>9. RgLocal(p)'
  <2>1. rgAt'[p] = "provUpdate"
    BY <1>8 DEF RgMoves
  <2>2. RgFits(p)'
    BY <1>4, <1>6, <1>8, <2>1 DEF RgFits
  <2>3. RgSecrecy(p)'
    BY <1>1, <1>4, <1>6, <1>8, <2>1 DEF RgSecrecy
  <2> QED BY <2>1, <2>2, <2>3 DEF RgLocal, RgReads, RgEdits
<1> QED BY <1>1, <1>8, <1>9, QuietKeeps DEF RgLabels

\* CheckPatch: the copy is compared with the row as it is.
LEMMA CheckPatchKeeps ==
    ASSUME RgInv, NEW p \in RgRequests, CheckPatch(p)
    PROVE  RgInv'
<1>1. rgAt[p] = "check" /\ UNCHANGED <<rgRes, rgLinks, rgProv, rgStale, rgRaced, rgSecret>>
  BY DEF CheckPatch
<1>2. CASE RgFinish(p)
  <2>1. RgMoves(p, "done")
    BY <1>1, <1>2, RgFinishes DEF RgInv
  <2>2. RgLocal(p)'
    BY <2>1 DEF RgMoves, RgLocal, RgFits, RgReads, RgEdits, RgSecrecy
  <2> QED BY <1>1, <2>1, <2>2, QuietKeeps DEF RgLabels
<1>3. CASE /\ ResourceExists(rgIn[p].id) /\ ValidateResourceUpdate(rgRes[rgIn[p].id], rgIn[p].row)
           /\ RgGoto(p, "update")
           /\ rgIn' = [rgIn EXCEPT ![p].row = StripMintConnectPolicy(rgIn[p].row)]
  <2>1. RgFits(p) /\ RgEdits(p)
    BY DEF RgInv, RgLocal
  <2>2. PICK i \in ResIds, next \in ResRow : rgIn[p].id = i /\ rgIn[p].row = next
    BY <1>1, <2>1 DEF RgFits
  <2>3. PICK kept \in ResRow : kept = StripMintConnectPolicy(next)
    BY DEF StripMintConnectPolicy, ResRow
  <2>4. /\ RgShaped(kept) /\ kept.kind = next.kind /\ kept.scopes = next.scopes
        /\ \A f \in Fields : kept[f] = next[f] \/ (f = "returns" /\ kept.kind = "mint")
    <3>1. Validate(next)
      BY <1>1, <2>1, <2>2 DEF RgFits, Validate
    <3>2. CASE next.kind = "mint"
      <4>1. kept = [next EXCEPT !.returns = {}]
        BY <2>3, <3>2 DEF StripMintConnectPolicy
      <4>2. /\ kept.slug = next.slug /\ kept.kind = next.kind /\ kept.provider = next.provider
            /\ kept.scopes = next.scopes /\ kept.allowed = next.allowed
            /\ kept.runtime = next.runtime /\ kept.returns = {}
        BY <4>1 DEF ResRow
      <4> QED BY <3>1, <3>2, <4>2 DEF RgShaped, Validate, Fields
    <3>3. CASE next.kind # "mint"
      <4>1. kept = next
        BY <2>3, <3>3 DEF StripMintConnectPolicy
      <4> QED BY <3>3, <4>1 DEF RgShaped
    <3> QED BY <3>2, <3>3
  <2>5. rgIn[p] \in RgInput
    BY DEF RgInv, RgTyped
  <2>6. /\ rgIn'[p] \in RgInput /\ rgIn'[p].row = kept /\ rgIn'[p].id = i
        /\ rgIn'[p].touched = rgIn[p].touched
        /\ \A q \in RgRequests \ {p} : rgIn'[q] = rgIn[q]
        /\ rgIn' \in [RgRequests -> RgInput]
    <3>1. rgIn' = [rgIn EXCEPT ![p].row = kept] /\ rgIn \in [RgRequests -> RgInput]
      BY <1>3, <2>2, <2>3 DEF RgInv, RgTyped
    <3>2. rgIn'[p] = [rgIn[p] EXCEPT !.row = kept]
      BY <3>1
    <3>3. rgIn'[p] \in RgInput /\ rgIn'[p].row = kept /\ rgIn'[p].id = i
          /\ rgIn'[p].touched = rgIn[p].touched
      BY <2>2, <2>5, <3>2 DEF RgInput
    <3> QED BY <3>1, <3>3
  <2>7. RgMoves(p, "update")
    BY <1>1, <1>3, <2>6 DEF RgInv, RgTyped, RgMoves, RgGoto, RgLabels
  <2>8. RgLocal(p)'
    <3>1. rgAt'[p] = "update"
      BY <2>7 DEF RgMoves
    <3>2. RgFits(p)'
      BY <2>4, <2>6, <3>1 DEF RgFits, RgShaped
    <3>3. RgUpdateGood(i, kept)
      BY <1>3, <2>2, <2>4 DEF RgUpdateGood, ValidateResourceUpdate, ResourceExists
    <3>4. RgUpdateGood(i, kept)'
      BY <1>1, <3>3, SameRow
    <3>5. RgReads(p)'
      BY <2>6, <3>1, <3>4 DEF RgReads
    <3>6. RgEdits(p)'
      BY <1>1, <2>1, <2>2, <2>4, <2>6, <3>1 DEF RgEdits, RgEditOf
    <3> QED BY <3>1, <3>2, <3>5, <3>6 DEF RgLocal, RgSecrecy
  <2> QED BY <1>1, <2>7, <2>8, QuietKeeps DEF RgLabels
<1>4. \/ RgFinish(p)
      \/ /\ ResourceExists(rgIn[p].id) /\ ValidateResourceUpdate(rgRes[rgIn[p].id], rgIn[p].row)
         /\ RgGoto(p, "update")
         /\ rgIn' = [rgIn EXCEPT ![p].row = StripMintConnectPolicy(rgIn[p].row)]
  BY Zenon DEF CheckPatch
<1> QED BY <1>2, <1>3, <1>4

-----------------------------------------------------------------------------
\* RgWrote: the requests that are on their way know that they were overtaken.
LEMMA WriteIsNoted ==
    ASSUME RgTyped, NEW p \in RgRequests, NEW what \in SUBSET (ResIds \cup ProvIds \cup {"links"}),
           RgWrote(p, what)
    PROVE  /\ rgStale' \in [RgRequests -> SUBSET (ResIds \cup ProvIds \cup {"links"})]
           /\ \A q \in RgRequests \ {p} :
                 rgAt[q] \notin {"idle", "done"} => rgStale'[q] = rgStale[q] \cup what
<1> DEFINE st(q) == IF q = p THEN {} ELSE IF RgActive(q) THEN rgStale[q] \cup what ELSE {}
<1>1. rgStale' = [q \in RgRequests |-> st(q)]
  BY DEF RgWrote
<1>2. \A q \in RgRequests : st(q) \in SUBSET (ResIds \cup ProvIds \cup {"links"})
  BY DEF RgTyped
<1>3. \A q \in RgRequests \ {p} :
          rgAt[q] \notin {"idle", "done"} => st(q) = rgStale[q] \cup what
  BY DEF RgActive
<1> HIDE DEF st
<1> QED BY <1>1, <1>2, <1>3

\* A request that has written is over: the tables are what is left to look at.
LEMMA WriteKeeps ==
    ASSUME RgInv, NEW p \in RgRequests, RgMoves(p, "done"),
           RgTyped', RgRows', RgEnds', LastSecretWins', ~rgRaced' => RgAcyclic' /\ RgDeclared',
           \A q \in RgRequests \ {p} :
               RgNotes(q) /\ (rgAt[q] = "done" \/ (rgRes'[q] = rgRes[q] /\ rgProv'[q] = rgProv[q]))
    PROVE  RgInv'
<1>1. RgNew'
  BY DEF RgInv, RgNew, RgMoves
<1>2. ASSUME NEW q \in RgRequests PROVE RgLocal(q)'
  <2>1. CASE q = p
    BY <2>1 DEF RgMoves, RgLocal, RgFits, RgReads, RgEdits, RgSecrecy
  <2>2. CASE q # p
    <3>1. RgNotes(q)
      BY <2>2 DEF RgNotes
    <3>2. RgTyped /\ RgLocal(q)
      BY DEF RgInv
    <3>3. rgAt'[q] = rgAt[q] /\ rgIn'[q] = rgIn[q]
      BY <2>2 DEF RgMoves
    <3> QED BY <3>1, <3>2, <3>3, OtherKeeps
  <2> QED BY <2>1, <2>2
<1> QED BY <1>1, <1>2 DEF RgInv

\* A request that was refused is over.
LEMMA RefusedKeeps ==
    ASSUME RgInv, NEW p \in RgRequests, rgAt[p] # "done", RgFinish(p),
           UNCHANGED <<rgRes, rgLinks, rgProv, rgStale, rgRaced, rgSecret>>
    PROVE  RgInv'
<1>1. RgMoves(p, "done")
  BY RgFinishes DEF RgInv
<1>2. RgLocal(p)'
  BY <1>1 DEF RgMoves, RgLocal, RgFits, RgReads, RgEdits, RgSecrecy
<1> QED BY <1>1, <1>2, QuietKeeps DEF RgLabels

\* A slug that no resource has names no link.
LEMMA FreeSlugHasNoLink ==
    ASSUME RgEnds, NEW s \in Slugs, \A i \in ResIds : rgRes[i] # RgNone => rgRes[i].slug # s
    PROVE  \A u, v \in Slugs : rgLinks[<<u, v>>] # RgNone => u # s /\ v # s
  BY DEF RgEnds, RgNamed

\* InsertResource.
LEMMA InsertResourceKeeps ==
    ASSUME RgInv, NEW p \in RgRequests, InsertResource(p)
    PROVE  RgInv'
<1>1. rgAt[p] = "insert" /\ RgFinish(p) /\ UNCHANGED <<rgLinks, rgProv, rgRaced, rgSecret>>
  BY DEF InsertResource
<1>2. CASE UNCHANGED <<rgRes, rgStale>>
  BY <1>1, <1>2, RefusedKeeps
<1>3. CASE InsertAccepted(rgIn[p].row) /\ rgRes' = [rgRes EXCEPT ![p] = rgIn[p].row] /\ RgWrote(p, {p})
  <2>1. RgTyped /\ RgNew /\ RgRows /\ RgEnds /\ RgFits(p)
    BY DEF RgInv, RgLocal
  <2>2. PICK r \in ResRow : rgIn[p].row = r /\ RgShaped(r)
    BY <1>1, <2>1 DEF RgFits, RgShaped
  <2>3. /\ \A i \in ResIds : rgRes[i] # RgNone => rgRes[i].slug # r.slug
        /\ ProviderKeyHolds(r)
    BY <1>3, <2>2 DEF InsertAccepted, ResourcesNamed, ResourceExists
  <2>4. RgMoves(p, "done")
    BY <1>1, <2>1, RgFinishes
  <2>5. p \in ResIds /\ rgRes[p] = RgNone
    BY <1>1, <2>1 DEF ResIds, RgNew
  <2>6. /\ rgRes'[p] = r /\ \A i \in ResIds \ {p} : rgRes'[i] = rgRes[i]
        /\ rgRes' \in [ResIds -> ResRow \cup {RgNone}]
    BY <1>3, <2>1, <2>2, <2>5 DEF RgTyped
  <2>7. /\ rgStale' \in [RgRequests -> SUBSET (ResIds \cup ProvIds \cup {"links"})]
        /\ \A q \in RgRequests \ {p} :
              rgAt[q] \notin {"idle", "done"} => rgStale'[q] = rgStale[q] \cup {p}
    BY <1>3, <2>1, <2>5, WriteIsNoted
  <2>8. RgTyped'
    BY <1>1, <2>1, <2>4, <2>6, <2>7 DEF RgTyped, RgMoves
  <2>9. r # RgNone /\ r.slug \in Slugs
    BY RgNoneAssumption DEF ResRow
  <2>10. RgRows'
    <3>1. ASSUME NEW i \in ResIds, NEW j \in ResIds, rgRes'[i] # RgNone, rgRes'[j] # RgNone,
                 rgRes'[i].slug = rgRes'[j].slug
          PROVE  i = j
      BY <2>1, <2>3, <2>6, <3>1 DEF RgRows
    <3>2. ASSUME NEW i \in ResIds, rgRes'[i] # RgNone
          PROVE  /\ RgShaped(rgRes'[i])
                 /\ rgRes'[i].kind = "broker" =>
                       rgRes'[i].provider \in ProvIds /\ rgProv[rgRes'[i].provider] # RgNone
      <4>1. CASE i = p
        <5>1. r.provider \in ProvIds \cup {RgNone}
          BY DEF ResRow
        <5> QED BY <2>2, <2>3, <2>6, <4>1, <5>1 DEF ProviderKeyHolds
      <4>2. CASE i # p
        BY <2>1, <2>6, <3>2, <4>2 DEF RgRows
      <4> QED BY <4>1, <4>2
    <3> QED BY <1>1, <3>1, <3>2 DEF RgRows, RgShaped
  <2>11. RgEnds'
    BY <1>1, <2>1, <2>5, <2>6 DEF RgEnds, RgNamed
  <2>12. LastSecretWins'
    BY <1>1 DEF RgInv, LastSecretWins
  <2>13. ~rgRaced' => RgAcyclic' /\ RgDeclared'
    <3>1. RgAcyclic => RgAcyclic'
      BY <1>1, SamePaths DEF RgAcyclic
    <3>2. RgDeclared => RgDeclared'
      <4>1. \A u, v \in Slugs : rgLinks[<<u, v>>] # RgNone => u # r.slug /\ v # r.slug
        BY <2>1, <2>3, <2>9, FreeSlugHasNoLink
      <4> QED BY <1>1, <2>6, <4>1 DEF RgDeclared
    <3> QED BY <1>1, <3>1, <3>2 DEF RgInv
  <2>14. ASSUME NEW q \in RgRequests \ {p}
         PROVE  RgNotes(q) /\ rgRes'[q] = rgRes[q] /\ rgProv'[q] = rgProv[q]
    BY <1>1, <2>6, <2>7 DEF RgNotes, ResIds
  <2> QED BY <2>4, <2>8, <2>10, <2>11, <2>12, <2>13, <2>14, WriteKeeps
<1> QED BY <1>2, <1>3 DEF InsertResource

\* UpdateResource.
LEMMA UpdateResourceKeeps ==
    ASSUME RgInv, NEW p \in RgRequests, UpdateResource(p)
    PROVE  RgInv'
<1>1. rgAt[p] = "update" /\ RgFinish(p) /\ UNCHANGED <<rgLinks, rgProv, rgSecret>>
  BY DEF UpdateResource
<1>2. CASE UNCHANGED <<rgRes, rgStale, rgRaced>>
  BY <1>1, <1>2, RefusedKeeps
<1>3. CASE /\ UpdateAccepted(rgIn[p].id, rgIn[p].row)
           /\ rgRes' = [rgRes EXCEPT ![rgIn[p].id] = rgIn[p].row]
           /\ RgWrote(p, {rgIn[p].id}) /\ RgRacing(p, {rgIn[p].id, "links"})
  <2>1. RgTyped /\ RgNew /\ RgRows /\ RgEnds /\ RgFits(p) /\ RgReads(p)
    BY DEF RgInv, RgLocal
  <2>2. PICK k \in ResIds, r \in ResRow : rgIn[p].id = k /\ rgIn[p].row = r /\ RgShaped(r)
    BY <1>1, <2>1 DEF RgFits, RgShaped
  <2>3. /\ rgRes[k] # RgNone /\ ProviderKeyHolds(r)
        /\ \A i \in ResIds : rgRes[i] # RgNone /\ rgRes[i].slug = r.slug => i = k
        /\ rgRes[k].slug # r.slug => ListForResource(rgRes[k].slug) = {}
    BY <1>3, <2>2 DEF UpdateAccepted, ResourcesNamed, ResourceExists
  <2>4. RgMoves(p, "done")
    BY <1>1, <2>1, RgFinishes
  <2>5. /\ rgRes'[k] = r /\ \A i \in ResIds \ {k} : rgRes'[i] = rgRes[i]
        /\ rgRes' \in [ResIds -> ResRow \cup {RgNone}]
    BY <1>3, <2>1, <2>2 DEF RgTyped
  <2>6. /\ rgStale' \in [RgRequests -> SUBSET (ResIds \cup ProvIds \cup {"links"})]
        /\ \A q \in RgRequests \ {p} :
              rgAt[q] \notin {"idle", "done"} => rgStale'[q] = rgStale[q] \cup {k}
    BY <1>3, <2>1, <2>2, WriteIsNoted
  <2>7. rgRaced' = (rgRaced \/ rgStale[p] \cap {k, "links"} # {})
    BY <1>3, <2>2 DEF RgRacing
  <2>8. RgTyped'
    BY <1>1, <2>1, <2>4, <2>5, <2>6, <2>7 DEF RgTyped, RgMoves
  <2>9. r # RgNone /\ r.slug \in Slugs /\ rgRes[k].slug \in Slugs
    BY <2>1, <2>3, RgNoneAssumption DEF ResRow, RgTyped
  <2>10. RgRows'
    <3>1. ASSUME NEW i \in ResIds, NEW j \in ResIds, rgRes'[i] # RgNone, rgRes'[j] # RgNone,
                 rgRes'[i].slug = rgRes'[j].slug
          PROVE  i = j
      BY <2>1, <2>3, <2>5, <3>1 DEF RgRows
    <3>2. ASSUME NEW i \in ResIds, rgRes'[i] # RgNone
          PROVE  /\ RgShaped(rgRes'[i])
                 /\ rgRes'[i].kind = "broker" =>
                       rgRes'[i].provider \in ProvIds /\ rgProv[rgRes'[i].provider] # RgNone
      <4>1. CASE i = k
        <5>1. r.provider \in ProvIds \cup {RgNone}
          BY DEF ResRow
        <5> QED BY <2>2, <2>3, <2>5, <4>1, <5>1 DEF ProviderKeyHolds
      <4>2. CASE i # k
        BY <2>1, <2>5, <3>2, <4>2 DEF RgRows
      <4> QED BY <4>1, <4>2
    <3> QED BY <1>1, <3>1, <3>2 DEF RgRows, RgShaped
  <2>11. \A u, v \in Slugs : rgLinks[<<u, v>>] # RgNone /\ (u = rgRes[k].slug \/ v = rgRes[k].slug)
                                => rgRes[k].slug = r.slug
    BY <2>3, <2>9 DEF ListForResource
  <2>12. RgEnds'
    <3> SUFFICES ASSUME NEW u \in Slugs, NEW v \in Slugs, rgLinks[<<u, v>>] # RgNone
                 PROVE  RgNamed(u)' /\ RgNamed(v)'
      BY <1>1 DEF RgEnds
    <3>1. RgNamed(u) /\ RgNamed(v)
      BY <2>1 DEF RgEnds
    <3>2. RgNamed(u)'
      <4>1. PICK i \in ResIds : rgRes[i] # RgNone /\ rgRes[i].slug = u
        BY <3>1 DEF RgNamed
      <4>2. rgRes'[i] # RgNone /\ rgRes'[i].slug = u
        BY <2>5, <2>9, <2>11, <4>1
      <4> QED BY <4>2 DEF RgNamed
    <3>3. RgNamed(v)'
      <4>1. PICK i \in ResIds : rgRes[i] # RgNone /\ rgRes[i].slug = v
        BY <3>1 DEF RgNamed
      <4>2. rgRes'[i] # RgNone /\ rgRes'[i].slug = v
        BY <2>5, <2>9, <2>11, <4>1
      <4> QED BY <4>2 DEF RgNamed
    <3> QED BY <3>2, <3>3
  <2>13. LastSecretWins'
    BY <1>1 DEF RgInv, LastSecretWins
  <2>14. ASSUME ~rgRaced' PROVE RgAcyclic' /\ RgDeclared'
    <3>1. ~rgRaced /\ k \notin rgStale[p] /\ "links" \notin rgStale[p]
      BY <2>7, <2>14
    <3>2. RgAcyclic /\ RgDeclared
      BY <3>1 DEF RgInv
    <3>3. RgAcyclic'
      BY <1>1, <3>2, SamePaths DEF RgAcyclic
    <3>4. ValidateResourceUpdate(rgRes[k], r)
      BY <1>1, <2>1, <2>2, <3>1 DEF RgReads, RgUpdateGood
    <3>5. ASSUME NEW s \in Slugs, NEW t \in Slugs, NEW i \in ResIds, NEW j \in ResIds,
                 rgLinks[<<s, t>>] # RgNone, rgRes'[i] # RgNone, rgRes'[j] # RgNone,
                 rgRes'[i].slug = s, rgRes'[j].slug = t
          PROVE  rgRes'[i].kind = "mint" /\ MapDeclared(rgLinks[<<s, t>>], rgRes'[i], rgRes'[j])
      <4>1. RgNamed(s) /\ RgNamed(t)
        BY <2>1, <3>5 DEF RgEnds
      <4>2. rgRes[i] # RgNone /\ rgRes[i].slug = s
        BY <2>3, <2>5, <3>5, <4>1, <2>11 DEF RgNamed
      <4>3. rgRes[j] # RgNone /\ rgRes[j].slug = t
        BY <2>3, <2>5, <3>5, <4>1, <2>11 DEF RgNamed
      <4>4. rgRes[i].kind = "mint" /\ MapDeclared(rgLinks[<<s, t>>], rgRes[i], rgRes[j])
        BY <3>2, <3>5, <4>2, <4>3 DEF RgDeclared
      <4>5. i = k => r.kind = "mint" /\ MapKeys(rgLinks[<<s, t>>]) \cap rgRes[k].scopes \subseteq r.scopes
        <5> SUFFICES ASSUME i = k
                     PROVE  r.kind = "mint" /\ MapKeys(rgLinks[<<s, t>>]) \cap rgRes[k].scopes \subseteq r.scopes
          OBVIOUS
        <5>1. <<s, t>> \in ListForResource(rgRes[k].slug) /\ <<s, t>>[1] = rgRes[k].slug
          BY <3>5, <4>2 DEF ListForResource
        <5> QED BY <3>4, <4>4, <5>1 DEF ValidateResourceUpdate
      <4>6. j = k => MapValues(rgLinks[<<s, t>>]) \cap rgRes[k].scopes \subseteq r.scopes
        <5> SUFFICES ASSUME j = k
                     PROVE  MapValues(rgLinks[<<s, t>>]) \cap rgRes[k].scopes \subseteq r.scopes
          OBVIOUS
        <5>1. <<s, t>> \in ListForResource(rgRes[k].slug) /\ <<s, t>>[2] = rgRes[k].slug
          BY <3>5, <4>3 DEF ListForResource
        <5> QED BY <3>4, <5>1 DEF ValidateResourceUpdate
      <4>7. rgRes'[i].kind = "mint" /\ MapKeys(rgLinks[<<s, t>>]) \subseteq rgRes'[i].scopes
        BY <2>5, <4>4, <4>5 DEF MapDeclared
      <4>8. MapValues(rgLinks[<<s, t>>]) \subseteq rgRes'[j].scopes
        BY <2>5, <4>4, <4>6 DEF MapDeclared
      <4> QED BY <4>7, <4>8 DEF MapDeclared
    <3>6. RgDeclared'
      BY <1>1, <3>5 DEF RgDeclared
    <3> QED BY <3>3, <3>6
  <2>15. ASSUME NEW q \in RgRequests \ {p}
         PROVE  RgNotes(q) /\ (rgAt[q] = "done" \/ (rgRes'[q] = rgRes[q] /\ rgProv'[q] = rgProv[q]))
    <3>1. RgNotes(q)
      BY <1>1, <2>5, <2>6 DEF RgNotes
    <3>2. rgAt[q] = "done" \/ q # k
      BY <2>1, <2>3 DEF RgNew
    <3> QED BY <1>1, <2>5, <3>1, <3>2 DEF ResIds
  <2> QED BY <2>4, <2>8, <2>10, <2>12, <2>13, <2>14, <2>15, WriteKeeps
<1> QED BY <1>2, <1>3 DEF UpdateResource

\* CommitDelete: the row goes, and with it every link that names it.
LEMMA CommitDeleteKeeps ==
    ASSUME RgInv, NEW p \in RgRequests, CommitDelete(p)
    PROVE  RgInv'
<1>1. rgAt[p] = "delete" /\ RgFinish(p) /\ UNCHANGED <<rgProv, rgRaced, rgSecret>> /\ DeleteTransaction(p)
  BY DEF CommitDelete
<1> DEFINE cascade == rgIn[p].op = "cascade"
           left == IF cascade THEN WithoutLinksOf(rgIn[p].row.slug) ELSE rgLinks
<1>2. CASE UNCHANGED <<rgLinks, rgRes, rgStale>>
  BY <1>1, <1>2, RefusedKeeps
<1>3. CASE /\ ResourceExists(rgIn[p].id)
           /\ \A l \in Slugs \X Slugs : left[l] # RgNone => rgRes[rgIn[p].id].slug \notin {l[1], l[2]}
           /\ rgLinks' = left /\ rgRes' = [rgRes EXCEPT ![rgIn[p].id] = RgNone]
           /\ RgWrote(p, IF cascade THEN {rgIn[p].id, "links"} ELSE {rgIn[p].id})
  <2>1. RgTyped /\ RgNew /\ RgRows /\ RgEnds /\ RgFits(p)
    BY DEF RgInv, RgLocal
  <2>2. PICK k \in ResIds : rgIn[p].id = k
    BY <1>1, <2>1 DEF RgFits
  <2>3. PICK what \in SUBSET (ResIds \cup ProvIds \cup {"links"}) :
           what = IF cascade THEN {rgIn[p].id, "links"} ELSE {rgIn[p].id}
    BY <2>2
  <2>4. RgMoves(p, "done")
    BY <1>1, <2>1, RgFinishes
  <2>5. /\ rgRes'[k] = RgNone /\ \A i \in ResIds \ {k} : rgRes'[i] = rgRes[i]
        /\ rgRes' \in [ResIds -> ResRow \cup {RgNone}] /\ rgRes[k] # RgNone
    BY <1>3, <2>1, <2>2 DEF RgTyped, ResourceExists
  <2>6. /\ rgStale' \in [RgRequests -> SUBSET (ResIds \cup ProvIds \cup {"links"})]
        /\ \A q \in RgRequests \ {p} :
              rgAt[q] \notin {"idle", "done"} => rgStale'[q] = rgStale[q] \cup what
    BY <1>3, <2>1, <2>3, WriteIsNoted
  <2>7. /\ rgLinks' \in [Slugs \X Slugs -> ScopeMaps \cup {RgNone}]
        /\ \A l \in Slugs \X Slugs : rgLinks'[l] # RgNone => rgLinks'[l] = rgLinks[l]
        /\ ~cascade => rgLinks' = rgLinks
    <3>1. CASE cascade
      <4>1. rgLinks' = [l \in Slugs \X Slugs |->
                           IF rgIn[p].row.slug \in {l[1], l[2]} THEN RgNone ELSE rgLinks[l]]
        BY <1>3, <3>1 DEF WithoutLinksOf
      <4> QED BY <2>1, <3>1, <4>1 DEF RgTyped
    <3>2. CASE ~cascade
      BY <1>3, <2>1, <3>2 DEF RgTyped
    <3> QED BY <3>1, <3>2
  <2>8. \A s, t \in Slugs : rgLinks'[<<s, t>>] # RgNone =>
           rgLinks'[<<s, t>>] = rgLinks[<<s, t>>] /\ rgRes[k].slug # s /\ rgRes[k].slug # t
    <3> SUFFICES ASSUME NEW s \in Slugs, NEW t \in Slugs, rgLinks'[<<s, t>>] # RgNone
                 PROVE  rgLinks'[<<s, t>>] = rgLinks[<<s, t>>] /\ rgRes[k].slug # s /\ rgRes[k].slug # t
      OBVIOUS
    <3> HIDE DEF left
    <3>1. rgRes[k].slug \notin {<<s, t>>[1], <<s, t>>[2]}
      BY <1>3, <2>2
    <3> QED BY <2>7, <3>1
  <2> HIDE DEF left, cascade
  <2>9. RgTyped'
    BY <1>1, <2>1, <2>4, <2>5, <2>6, <2>7 DEF RgTyped, RgMoves
  <2>10. RgRows'
    BY <1>1, <2>1, <2>5 DEF RgRows, RgShaped
  <2>11. RgEnds'
    <3> SUFFICES ASSUME NEW s \in Slugs, NEW t \in Slugs, rgLinks'[<<s, t>>] # RgNone
                 PROVE  RgNamed(s)' /\ RgNamed(t)'
      BY DEF RgEnds
    <3>1. RgNamed(s) /\ RgNamed(t) /\ rgRes[k].slug # s /\ rgRes[k].slug # t
      BY <2>1, <2>8 DEF RgEnds
    <3> QED BY <2>5, <3>1 DEF RgNamed
  <2>12. LastSecretWins'
    BY <1>1 DEF RgInv, LastSecretWins
  <2>13. ASSUME ~rgRaced' PROVE RgAcyclic' /\ RgDeclared'
    <3>1. RgAcyclic /\ RgDeclared
      BY <1>1, <2>13 DEF RgInv
    <3>2. RgAcyclic'
      BY <2>8, <3>1, FewerLinks
    <3>3. RgDeclared'
      BY <2>5, <2>8, <3>1 DEF RgDeclared
    <3> QED BY <3>2, <3>3
  <2>14. ASSUME NEW q \in RgRequests \ {p}
         PROVE  RgNotes(q) /\ (rgAt[q] = "done" \/ (rgRes'[q] = rgRes[q] /\ rgProv'[q] = rgProv[q]))
    <3>1. k \in what /\ (cascade => "links" \in what)
      BY <2>2, <2>3
    <3>2. RgNotes(q)
      BY <1>1, <2>5, <2>6, <2>7, <3>1 DEF RgNotes
    <3>3. rgAt[q] = "done" \/ q # k
      BY <2>1, <2>5 DEF RgNew
    <3> QED BY <1>1, <2>5, <3>2, <3>3 DEF ResIds
  <2> QED BY <2>4, <2>9, <2>10, <2>11, <2>12, <2>13, <2>14, WriteKeeps
<1>4. \/ UNCHANGED <<rgLinks, rgRes, rgStale>>
      \/ /\ ResourceExists(rgIn[p].id)
         /\ \A l \in Slugs \X Slugs : left[l] # RgNone => rgRes[rgIn[p].id].slug \notin {l[1], l[2]}
         /\ rgLinks' = left /\ rgRes' = [rgRes EXCEPT ![rgIn[p].id] = RgNone]
         /\ RgWrote(p, IF cascade THEN {rgIn[p].id, "links"} ELSE {rgIn[p].id})
  BY <1>1, Zenon DEF DeleteTransaction
<1> QED BY <1>2, <1>3, <1>4

\* A link that was checked against the rows as they are is of the scopes of its ends.
LEMMA CheckedMapIsDeclared ==
    ASSUME RgRows, NEW s \in Slugs, NEW t \in Slugs, NEW m \in ScopeMaps, ValidateForPatch(s, t, m),
           NEW i \in ResIds, NEW j \in ResIds, rgRes[i] # RgNone, rgRes[j] # RgNone,
           rgRes[i].slug = s, rgRes[j].slug = t
    PROVE  rgRes[i].kind = "mint" /\ MapDeclared(m, rgRes[i], rgRes[j])
<1>1. PICK i1 \in ResourcesNamed(s), j1 \in ResourcesNamed(t) :
         rgRes[i1].kind = "mint" /\ MapDeclared(m, rgRes[i1], rgRes[j1])
  BY DEF ValidateForPatch
<1>2. i1 = i /\ j1 = j
  BY <1>1 DEF RgRows, ResourcesNamed, ResourceExists
<1> QED BY <1>1, <1>2

\* InsertLink, UpdateLink: one map is set.
LEMMA SetLinkKeeps ==
    ASSUME RgInv, NEW p \in RgRequests, rgAt[p] \in {"link", "relink"}, RgFinish(p),
           NEW s \in Slugs, NEW t \in Slugs, NEW m \in ScopeMaps,
           rgIn[p].link = <<s, t>>, rgIn[p].map = m,
           RgNamed(s), RgNamed(t), rgAt[p] = "relink" => rgLinks[<<s, t>>] # RgNone,
           rgLinks' = [rgLinks EXCEPT ![<<s, t>>] = m], RgWrote(p, {"links"}),
           RgRacing(p, ResIds \cup {"links"}), UNCHANGED <<rgRes, rgProv, rgSecret>>
    PROVE  RgInv'
<1>1. RgTyped /\ RgRows /\ RgEnds /\ RgReads(p)
  BY DEF RgInv, RgLocal
<1>2. RgMoves(p, "done")
  BY <1>1, RgFinishes
<1>3. /\ rgLinks' \in [Slugs \X Slugs -> ScopeMaps \cup {RgNone}] /\ rgLinks'[<<s, t>>] = m
      /\ \A u, v \in Slugs : u # s \/ v # t => rgLinks'[<<u, v>>] = rgLinks[<<u, v>>]
  <2>1. <<s, t>> \in Slugs \X Slugs /\ rgLinks \in [Slugs \X Slugs -> ScopeMaps \cup {RgNone}]
    BY <1>1 DEF RgTyped
  <2> QED BY <2>1
<1>4. /\ rgStale' \in [RgRequests -> SUBSET (ResIds \cup ProvIds \cup {"links"})]
      /\ \A q \in RgRequests \ {p} :
            rgAt[q] \notin {"idle", "done"} => rgStale'[q] = rgStale[q] \cup {"links"}
  BY <1>1, WriteIsNoted
<1>5. rgRaced' = (rgRaced \/ rgStale[p] \cap (ResIds \cup {"links"}) # {})
  BY DEF RgRacing
<1>6. RgTyped'
  BY <1>1, <1>2, <1>3, <1>4, <1>5 DEF RgTyped, RgMoves
<1>7. RgRows' /\ LastSecretWins'
  BY DEF RgInv, RgRows, LastSecretWins
<1>8. RgEnds'
  <2> SUFFICES ASSUME NEW u \in Slugs, NEW v \in Slugs, rgLinks'[<<u, v>>] # RgNone
               PROVE  RgNamed(u)' /\ RgNamed(v)'
    BY DEF RgEnds
  <2>1. RgNamed(u) /\ RgNamed(v)
    BY <1>1, <1>3 DEF RgEnds
  <2> QED BY <2>1 DEF RgNamed
<1>9. ASSUME ~rgRaced' PROVE RgAcyclic' /\ RgDeclared'
  <2>1. RgAcyclic /\ RgDeclared
    BY <1>5, <1>9 DEF RgInv
  <2>2. RgFresh(p)
    BY <1>5, <1>9 DEF RgFresh
  <2>3. ValidateForPatch(s, t, m) /\ (rgAt[p] = "link" => ~Reaches(t, s))
    BY <1>1, <2>2 DEF RgReads
  <2>4. s # t
    BY <2>3 DEF ValidateForPatch, LinkShaped
  <2>5. RgAcyclic'
    <3>1. CASE rgAt[p] = "link"
      BY <1>3, <2>1, <2>3, <2>4, <3>1, NewLinkClosesNoCycle
    <3>2. CASE rgAt[p] = "relink"
      BY <1>3, <2>1, <3>2, FewerLinks
    <3> QED BY <3>1, <3>2
  <2>6. ASSUME NEW u \in Slugs, NEW v \in Slugs, NEW i \in ResIds, NEW j \in ResIds,
               rgLinks'[<<u, v>>] # RgNone, rgRes[i] # RgNone, rgRes[j] # RgNone,
               rgRes[i].slug = u, rgRes[j].slug = v
        PROVE  rgRes[i].kind = "mint" /\ MapDeclared(rgLinks'[<<u, v>>], rgRes[i], rgRes[j])
    <3>1. CASE u = s /\ v = t
      BY <1>1, <1>3, <2>3, <2>6, <3>1, CheckedMapIsDeclared
    <3>2. CASE u # s \/ v # t
      BY <1>3, <2>1, <2>6, <3>2 DEF RgDeclared
    <3> QED BY <3>1, <3>2
  <2>7. RgDeclared'
    BY <2>6 DEF RgDeclared
  <2> QED BY <2>5, <2>7
<1>10. ASSUME NEW q \in RgRequests \ {p}
       PROVE  RgNotes(q) /\ rgRes'[q] = rgRes[q] /\ rgProv'[q] = rgProv[q]
  BY <1>4 DEF RgNotes
<1> QED BY <1>2, <1>6, <1>7, <1>8, <1>9, <1>10, WriteKeeps

\* InsertLink, UpdateLink: the link is taken or refused.
LEMMA WriteLinkKeeps ==
    ASSUME RgInv, NEW p \in RgRequests, InsertLink(p) \/ UpdateLink(p)
    PROVE  RgInv'
<1>1. rgAt[p] \in {"link", "relink"} /\ RgFinish(p) /\ UNCHANGED <<rgRes, rgProv, rgSecret>>
  BY DEF InsertLink, UpdateLink
<1>2. RgFits(p) /\ RgEnds
  BY DEF RgInv, RgLocal
<1>3. PICK s \in Slugs, t \in Slugs, m \in ScopeMaps : rgIn[p].link = <<s, t>> /\ rgIn[p].map = m
  BY <1>1, <1>2 DEF RgFits
<1>4. CASE UNCHANGED <<rgLinks, rgStale, rgRaced>>
  BY <1>1, <1>4, RefusedKeeps
<1>5. CASE /\ rgLinks' = [rgLinks EXCEPT ![rgIn[p].link] = rgIn[p].map]
           /\ RgWrote(p, {"links"}) /\ RgRacing(p, ResIds \cup {"links"})
           /\ \/ InsertLink(p) /\ LinkAccepted(rgIn[p].link[1], rgIn[p].link[2])
              \/ UpdateLink(p) /\ rgLinks[rgIn[p].link] # RgNone
  <2>1. RgNamed(s) /\ RgNamed(t) /\ (rgAt[p] = "relink" => rgLinks[<<s, t>>] # RgNone)
    <3>1. CASE InsertLink(p) /\ LinkAccepted(rgIn[p].link[1], rgIn[p].link[2])
      <4>1. LinkAccepted(s, t) /\ rgAt[p] = "link"
        BY <1>3, <3>1 DEF InsertLink
      <4> QED BY <4>1 DEF LinkAccepted, ResourcesNamed, ResourceExists, RgNamed
    <3>2. CASE UpdateLink(p) /\ rgLinks[rgIn[p].link] # RgNone
      BY <1>2, <1>3, <3>2 DEF RgEnds
    <3> QED BY <1>5, <3>1, <3>2
  <2>2. rgLinks' = [rgLinks EXCEPT ![<<s, t>>] = m]
    BY <1>3, <1>5
  <2> QED BY <1>1, <1>3, <1>5, <2>1, <2>2, SetLinkKeeps
<1> QED BY <1>4, <1>5 DEF InsertLink, UpdateLink

\* DeleteLink.
LEMMA DeleteLinkKeeps ==
    ASSUME RgInv, NEW p \in RgRequests, DeleteLink(p)
    PROVE  RgInv'
<1>1. PICK l \in Slugs \X Slugs :
         /\ RgAtOnce(p, "deleteLink") /\ rgLinks' = [rgLinks EXCEPT ![l] = RgNone]
         /\ RgWrote(p, {"links"}) /\ UNCHANGED <<rgRes, rgProv, rgRaced, rgSecret>>
  BY Zenon DEF DeleteLink
<1>2. RgTyped /\ RgRows /\ RgEnds
  BY DEF RgInv
<1>3. RgMoves(p, "done")
  BY <1>1, <1>2 DEF RgAtOnce, RgMayAsk, RgGoto, RgMoves, RgTyped, RgLabels
<1>4. /\ rgLinks' \in [Slugs \X Slugs -> ScopeMaps \cup {RgNone}]
      /\ \A u, v \in Slugs : rgLinks'[<<u, v>>] # RgNone => rgLinks'[<<u, v>>] = rgLinks[<<u, v>>]
  BY <1>1, <1>2 DEF RgTyped
<1>5. /\ rgStale' \in [RgRequests -> SUBSET (ResIds \cup ProvIds \cup {"links"})]
      /\ \A q \in RgRequests \ {p} :
            rgAt[q] \notin {"idle", "done"} => rgStale'[q] = rgStale[q] \cup {"links"}
  BY <1>1, <1>2, WriteIsNoted
<1>6. RgTyped'
  BY <1>1, <1>2, <1>3, <1>4, <1>5 DEF RgTyped, RgMoves
<1>7. RgRows' /\ LastSecretWins'
  BY <1>1 DEF RgInv, RgRows, LastSecretWins
<1>8. RgEnds'
  <2> SUFFICES ASSUME NEW u \in Slugs, NEW v \in Slugs, rgLinks'[<<u, v>>] # RgNone
               PROVE  RgNamed(u)' /\ RgNamed(v)'
    BY DEF RgEnds
  <2>1. RgNamed(u) /\ RgNamed(v)
    BY <1>2, <1>4 DEF RgEnds
  <2> QED BY <1>1, <2>1 DEF RgNamed
<1>9. ASSUME ~rgRaced' PROVE RgAcyclic' /\ RgDeclared'
  <2>1. RgAcyclic /\ RgDeclared
    BY <1>1, <1>9 DEF RgInv
  <2>2. RgAcyclic'
    BY <1>4, <2>1, FewerLinks
  <2>3. RgDeclared'
    BY <1>1, <1>4, <2>1 DEF RgDeclared
  <2> QED BY <2>2, <2>3
<1>10. ASSUME NEW q \in RgRequests \ {p}
       PROVE  RgNotes(q) /\ rgRes'[q] = rgRes[q] /\ rgProv'[q] = rgProv[q]
  BY <1>1, <1>5 DEF RgNotes
<1> QED BY <1>3, <1>6, <1>7, <1>8, <1>9, <1>10, WriteKeeps

\* A write of one provider that no resource misses.
LEMMA SetProviderKeeps ==
    ASSUME RgInv, NEW p \in RgRequests, RgMoves(p, "done"), NEW k \in ProvIds,
           NEW new \in ProvRow \cup {RgNone}, NEW last \in RgSecrets \cup {RgNone, "unknown"},
           rgProv' = [rgProv EXCEPT ![k] = new], rgSecret' = [rgSecret EXCEPT ![k] = last],
           RgWrote(p, {k}), UNCHANGED <<rgRes, rgLinks, rgRaced>>,
           k = p \/ rgProv[k] # RgNone,
           new = RgNone => \A i \in ResIds : rgRes[i] # RgNone => rgRes[i].provider # k,
           new # RgNone /\ last # "unknown" => ResolveSecret(new) \in {last, RgNone}
    PROVE  RgInv'
<1>1. RgTyped /\ RgNew /\ RgRows /\ RgEnds /\ LastSecretWins
  BY DEF RgInv
<1>2. /\ rgProv' \in [ProvIds -> ProvRow \cup {RgNone}] /\ rgProv'[k] = new
      /\ \A i \in ProvIds \ {k} : rgProv'[i] = rgProv[i]
      /\ rgSecret' \in [ProvIds -> RgSecrets \cup {RgNone, "unknown"}] /\ rgSecret'[k] = last
      /\ \A i \in ProvIds \ {k} : rgSecret'[i] = rgSecret[i]
  BY <1>1 DEF RgTyped
<1>3. /\ rgStale' \in [RgRequests -> SUBSET (ResIds \cup ProvIds \cup {"links"})]
      /\ \A q \in RgRequests \ {p} :
            rgAt[q] \notin {"idle", "done"} => rgStale'[q] = rgStale[q] \cup {k}
  BY <1>1, WriteIsNoted
<1>4. RgTyped'
  BY <1>1, <1>2, <1>3 DEF RgTyped, RgMoves
<1>5. RgRows'
  <2>1. ASSUME NEW i \in ResIds, rgRes[i] # RgNone, rgRes[i].kind = "broker"
        PROVE  rgRes[i].provider \in ProvIds /\ rgProv'[rgRes[i].provider] # RgNone
    <3>1. rgRes[i].provider \in ProvIds /\ rgProv[rgRes[i].provider] # RgNone
      BY <1>1, <2>1 DEF RgRows
    <3> QED BY <1>2, <2>1, <3>1
  <2> QED BY <1>1, <2>1 DEF RgRows, RgShaped
<1>6. RgEnds'
  BY <1>1 DEF RgEnds, RgNamed
<1>7. LastSecretWins'
  <2> SUFFICES ASSUME NEW i \in ProvIds, rgProv'[i] # RgNone, rgSecret'[i] # "unknown"
               PROVE  ResolveSecret(rgProv'[i]) \in {rgSecret'[i], RgNone}
    BY DEF LastSecretWins, ResolveSecret
  <2>1. CASE i = k
    BY <1>2, <2>1
  <2>2. CASE i # k
    BY <1>1, <1>2, <2>2 DEF LastSecretWins
  <2> QED BY <2>1, <2>2
<1>8. ~rgRaced' => RgAcyclic' /\ RgDeclared'
  <2>1. RgAcyclic => RgAcyclic'
    BY SamePaths DEF RgAcyclic
  <2>2. RgDeclared => RgDeclared'
    BY DEF RgDeclared
  <2> QED BY <2>1, <2>2 DEF RgInv
<1>9. ASSUME NEW q \in RgRequests \ {p}
      PROVE  RgNotes(q) /\ (rgAt[q] = "done" \/ (rgRes'[q] = rgRes[q] /\ rgProv'[q] = rgProv[q]))
  <2>1. RgNotes(q)
    BY <1>2, <1>3 DEF RgNotes
  <2>2. rgAt[q] = "done" \/ q # k
    BY <1>1 DEF RgNew
  <2> QED BY <1>2, <2>1, <2>2 DEF ProvIds
<1> QED BY <1>4, <1>5, <1>6, <1>7, <1>8, <1>9, WriteKeeps

\* InsertProvider.
LEMMA InsertProviderKeeps ==
    ASSUME RgInv, NEW p \in RgRequests, InsertProvider(p)
    PROVE  RgInv'
<1>1. rgAt[p] = "provInsert" /\ RgFinish(p) /\ UNCHANGED <<rgRes, rgLinks, rgRaced>>
  BY DEF InsertProvider
<1>2. CASE UNCHANGED <<rgProv, rgSecret, rgStale>>
  BY <1>1, <1>2, RefusedKeeps
<1>3. CASE /\ rgProv' = [rgProv EXCEPT ![p] = rgIn[p].prov]
           /\ rgSecret' = [rgSecret EXCEPT ![p] = rgIn[p].secret] /\ RgWrote(p, {p})
  <2>1. RgTyped /\ RgFits(p) /\ RgSecrecy(p)
    BY DEF RgInv, RgLocal
  <2>2. RgMoves(p, "done")
    BY <1>1, <2>1, RgFinishes
  <2>3. PICK new \in ProvRow : rgIn[p].prov = new
    BY <1>1, <2>1 DEF RgFits
  <2>4. PICK last \in RgSecrets \cup {RgNone} : rgIn[p].secret = last
    BY <2>1 DEF RgTyped, RgInput
  <2>5. ResolveSecret(new) \in {last, RgNone} /\ new # RgNone
    BY <1>1, <2>1, <2>3, <2>4, RgNoneAssumption DEF RgSecrecy
  <2>6. p \in ProvIds
    BY DEF ProvIds
  <2> QED BY <1>1, <1>3, <2>2, <2>3, <2>4, <2>5, <2>6, SetProviderKeeps
<1> QED BY <1>2, <1>3 DEF InsertProvider

\* UpdateProvider.
LEMMA UpdateProviderKeeps ==
    ASSUME RgInv, NEW p \in RgRequests, UpdateProvider(p)
    PROVE  RgInv'
<1>1. rgAt[p] = "provUpdate" /\ RgFinish(p) /\ UNCHANGED <<rgRes, rgLinks, rgRaced>>
  BY DEF UpdateProvider
<1>2. RgTyped /\ RgFits(p) /\ RgSecrecy(p) /\ LastSecretWins
  BY DEF RgInv, RgLocal
<1>3. PICK k \in ProvIds, new \in ProvRow : rgIn[p].id = k /\ rgIn[p].prov = new
  BY <1>1, <1>2 DEF RgFits
<1> DEFINE last == IF k \in rgStale[p] \/ new.protocol # rgProv[k].protocol \/ ~HasSecretField(new.protocol)
                   THEN "unknown"
                   ELSE IF rgIn[p].secret # RgNone THEN rgIn[p].secret ELSE rgSecret[k]
<1>4. CASE UNCHANGED <<rgProv, rgSecret, rgStale>>
  BY <1>1, <1>4, RefusedKeeps
<1>5. CASE /\ ProviderUpdateAccepted(k, new) /\ rgProv' = [rgProv EXCEPT ![k] = new]
           /\ rgSecret' = [rgSecret EXCEPT ![k] = last] /\ RgWrote(p, {k})
  <2>1. RgMoves(p, "done")
    BY <1>1, <1>2, RgFinishes
  <2>2. rgIn[p].secret \in RgSecrets \cup {RgNone} /\ rgSecret[k] \in RgSecrets \cup {RgNone, "unknown"}
    BY <1>2 DEF RgTyped, RgInput
  <2>3. last \in RgSecrets \cup {RgNone, "unknown"}
    BY <2>2
  <2>4. new # RgNone /\ rgProv[k] # RgNone
    BY <1>5, RgNoneAssumption DEF ProviderUpdateAccepted
  <2>5. ASSUME last # "unknown" PROVE ResolveSecret(new) \in {last, RgNone}
    <3>1. /\ k \notin rgStale[p] /\ new.protocol = rgProv[k].protocol /\ HasSecretField(new.protocol)
          /\ last = IF rgIn[p].secret # RgNone THEN rgIn[p].secret ELSE rgSecret[k]
      BY <2>5
    <3> HIDE DEF last
    <3>2. ResolveSecret(new) \in
             {RgNone, IF rgIn[p].secret # RgNone THEN rgIn[p].secret ELSE ResolveSecret(rgProv[k])}
      <4>1. RgSecretOf(new, rgIn[p].secret, rgProv[k])
        BY <1>1, <1>2, <1>3, <3>1 DEF RgSecrecy
      <4> QED BY <3>1, <4>1 DEF RgSecretOf
    <3>3. CASE rgIn[p].secret # RgNone
      BY <3>1, <3>2, <3>3
    <3>4. CASE rgIn[p].secret = RgNone
      <4>1. ResolveSecret(rgProv[k]) \in {last, RgNone}
        BY <1>2, <2>4, <2>5, <3>1, <3>4 DEF LastSecretWins
      <4> QED BY <3>2, <3>4, <4>1
    <3> QED BY <3>3, <3>4
  <2> HIDE DEF last
  <2> QED BY <1>1, <1>5, <2>1, <2>3, <2>4, <2>5, SetProviderKeeps
<1>6. \/ UNCHANGED <<rgProv, rgSecret, rgStale>>
      \/ /\ ProviderUpdateAccepted(k, new) /\ rgProv' = [rgProv EXCEPT ![k] = new]
         /\ rgSecret' = [rgSecret EXCEPT ![k] = last] /\ RgWrote(p, {k})
  BY <1>3 DEF UpdateProvider
<1> QED BY <1>4, <1>5, <1>6

\* DeleteProvider.
LEMMA DeleteProviderKeeps ==
    ASSUME RgInv, NEW p \in RgRequests, DeleteProvider(p)
    PROVE  RgInv'
<1>1. PICK k \in ProvIds :
         /\ ProviderDeleteAccepted(k) /\ RgAtOnce(p, "deleteProvider")
         /\ rgProv' = [rgProv EXCEPT ![k] = RgNone] /\ rgSecret' = [rgSecret EXCEPT ![k] = "unknown"]
         /\ RgWrote(p, {k}) /\ UNCHANGED <<rgRes, rgLinks, rgRaced>>
  BY Zenon DEF DeleteProvider
<1>2. RgMoves(p, "done")
  BY <1>1 DEF RgInv, RgAtOnce, RgMayAsk, RgGoto, RgMoves, RgTyped, RgLabels
<1>3. rgProv[k] # RgNone /\ \A i \in ResIds : rgRes[i] # RgNone => rgRes[i].provider # k
  BY <1>1 DEF ProviderDeleteAccepted, ResourceExists
<1> QED BY <1>1, <1>2, <1>3, SetProviderKeeps

\* A link that is there at first: so are its ends (RgSeedsSound) ...
LEMMA SeedLinkEnds ==
    ASSUME NEW s \in Slugs, NEW t \in Slugs, SeedLinks[<<s, t>>] # RgNone
    PROVE  \E i \in SeedIds : \E j \in SeedIds :
               /\ SeedTable[i].slug = s /\ SeedTable[j].slug = t /\ SeedTable[i].kind = "mint"
               /\ MapDeclared(SeedLinks[<<s, t>>], SeedTable[i], SeedTable[j])
<1> DEFINE l == <<s, t>>
<1>1. l \in Slugs \X Slugs /\ l[1] = s /\ l[2] = t /\ SeedLinks[l] # RgNone
  OBVIOUS
<1>2. SUFFICES \E i \in SeedIds : \E j \in SeedIds :
                  /\ SeedTable[i].slug = s /\ SeedTable[j].slug = t /\ SeedTable[i].kind = "mint"
                  /\ MapDeclared(SeedLinks[l], SeedTable[i], SeedTable[j])
  BY Zenon
<1> HIDE DEF l
<1>3. \E i, j \in SeedIds :
         /\ SeedTable[i].slug = l[1] /\ SeedTable[j].slug = l[2]
         /\ SeedTable[i].kind = "mint" /\ MapDeclared(SeedLinks[l], SeedTable[i], SeedTable[j])
  BY <1>1, RgSeedsSound, Zenon
<1> QED BY <1>1, <1>3, Zenon

\* ... and a set that the links do not leave has its target and not its source.
LEMMA SeedLinkClosed ==
    ASSUME NEW s \in Slugs, NEW t \in Slugs, SeedLinks[<<s, t>>] # RgNone
    PROVE  \E S \in SUBSET Slugs :
               /\ t \in S /\ s \notin S
               /\ \A u \in S, v \in Slugs : SeedLinks[<<u, v>>] # RgNone => v \in S
<1> DEFINE l == <<s, t>>
<1>1. l \in Slugs \X Slugs /\ l[1] = s /\ l[2] = t /\ SeedLinks[l] # RgNone
  OBVIOUS
<1> HIDE DEF l
<1>2. \E S \in SUBSET Slugs :
         /\ l[2] \in S /\ l[1] \notin S
         /\ \A u \in S, v \in Slugs : SeedLinks[<<u, v>>] # RgNone => v \in S
  BY <1>1, RgSeedsSound, Zenon
<1> QED BY <1>1, <1>2, Zenon

\* RegInit: the rows that are there at first (RgSeedsSound), and no request.
LEMMA RgInvInit == RegInit => RgInv
<1> SUFFICES ASSUME RegInit PROVE RgInv
  OBVIOUS
<1>1. /\ rgAt = [p \in RgRequests |-> "idle"] /\ rgIn = [p \in RgRequests |-> NoRequest]
      /\ \A i \in SeedIds : rgRes[i] = SeedTable[i] /\ rgRes[i] \in ResRow /\ rgRes[i] # RgNone
      /\ \A i \in ResIds \ SeedIds : rgRes[i] = RgNone
      /\ rgRes \in [ResIds -> ResRow \cup {RgNone}]
  BY RgSeedAssumption, RgNoneAssumption DEF RegInit, ResIds
<1>2. /\ \A i \in SeedProviders : rgProv[i] = SeedProviderTable[i] /\ rgProv[i] # RgNone
      /\ \A i \in ProvIds \ SeedProviders : rgProv[i] = RgNone
      /\ rgProv \in [ProvIds -> ProvRow \cup {RgNone}]
  BY RgSeedAssumption, RgNoneAssumption DEF RegInit, ProvIds
<1>3. /\ rgLinks = SeedLinks /\ rgStale = [p \in RgRequests |-> {}] /\ rgRaced = FALSE
      /\ rgSecret = [i \in ProvIds |-> "unknown"]
  BY DEF RegInit
<1>4. NoRequest \in RgInput
  BY DEF NoRequest, RgInput
<1>5. RgTyped
  BY <1>1, <1>2, <1>3, <1>4, RgSeedAssumption DEF RgTyped, RgLabels
<1>6. RgNew
  BY <1>1, <1>2, RgIdsAssumption DEF RgNew, ResIds, ProvIds
<1>7. RgRows
  <2>1. \A i, j \in ResIds :
           rgRes[i] # RgNone /\ rgRes[j] # RgNone /\ rgRes[i].slug = rgRes[j].slug => i = j
    BY <1>1, RgSeedsSound
  <2>2. ASSUME NEW i \in ResIds, rgRes[i] # RgNone
        PROVE  /\ RgShaped(rgRes[i])
               /\ rgRes[i].kind = "broker" =>
                     rgRes[i].provider \in ProvIds /\ rgProv[rgRes[i].provider] # RgNone
    <3>1. i \in SeedIds /\ rgRes[i] = SeedTable[i]
      BY <1>1, <2>2
    <3> QED BY <1>2, <3>1, RgSeedsSound DEF RgShaped, ProvIds
  <2> QED BY <2>1, <2>2 DEF RgRows
<1>8. RgEnds
  <2> SUFFICES ASSUME NEW s \in Slugs, NEW t \in Slugs, rgLinks[<<s, t>>] # RgNone
               PROVE  RgNamed(s) /\ RgNamed(t)
    BY DEF RgEnds
  <2>1. PICK i \in SeedIds : \E j \in SeedIds : SeedTable[i].slug = s /\ SeedTable[j].slug = t
    BY <1>3, SeedLinkEnds
  <2>2. PICK j \in SeedIds : SeedTable[i].slug = s /\ SeedTable[j].slug = t
    BY <2>1
  <2> QED BY <1>1, <2>2 DEF RgNamed, ResIds
<1>9. RgAcyclic
  <2> SUFFICES ASSUME NEW s \in Slugs, NEW t \in Slugs, rgLinks[<<s, t>>] # RgNone
               PROVE  ~Reaches(t, s)
    BY DEF RgAcyclic
  <2>1. PICK S \in SUBSET Slugs :
           /\ t \in S /\ s \notin S
           /\ \A u \in S, v \in Slugs : rgLinks[<<u, v>>] # RgNone => v \in S
    BY <1>3, SeedLinkClosed, Zenon
  <2> QED BY <2>1 DEF Reaches, Outgoing, LinkExists
<1>10. RgDeclared
  <2> SUFFICES ASSUME NEW s \in Slugs, NEW t \in Slugs, NEW i \in ResIds, NEW j \in ResIds,
                      rgLinks[<<s, t>>] # RgNone, rgRes[i] # RgNone, rgRes[j] # RgNone,
                      rgRes[i].slug = s, rgRes[j].slug = t
               PROVE  rgRes[i].kind = "mint" /\ MapDeclared(rgLinks[<<s, t>>], rgRes[i], rgRes[j])
    BY DEF RgDeclared
  <2>1. i \in SeedIds /\ j \in SeedIds /\ rgRes[i] = SeedTable[i] /\ rgRes[j] = SeedTable[j]
    BY <1>1
  <2>2. PICK i1 \in SeedIds : \E j1 \in SeedIds :
           /\ SeedTable[i1].slug = s /\ SeedTable[j1].slug = t /\ SeedTable[i1].kind = "mint"
           /\ MapDeclared(rgLinks[<<s, t>>], SeedTable[i1], SeedTable[j1])
    BY <1>3, SeedLinkEnds
  <2>3. PICK j1 \in SeedIds :
           /\ SeedTable[i1].slug = s /\ SeedTable[j1].slug = t /\ SeedTable[i1].kind = "mint"
           /\ MapDeclared(rgLinks[<<s, t>>], SeedTable[i1], SeedTable[j1])
    BY <2>2
  <2>4. i1 = i /\ j1 = j
    BY <2>1, <2>3, RgSeedsSound
  <2> QED BY <2>1, <2>3, <2>4
<1>11. LastSecretWins
  BY <1>3 DEF LastSecretWins
<1>12. \A p \in RgRequests : RgLocal(p)
  BY <1>1, DoneHoldsNothing
<1> QED BY <1>5, <1>6, <1>7, <1>8, <1>9, <1>10, <1>11, <1>12 DEF RgInv

\* A step that changes nothing.
LEMMA RgStutters == ASSUME RgInv, UNCHANGED rgVars PROVE RgInv'
<1>1. UNCHANGED <<rgAt, rgIn, rgRes, rgLinks, rgProv, rgStale, rgRaced, rgSecret>>
  BY DEF rgVars
<1>2. RgTyped' /\ RgNew' /\ RgRows' /\ RgEnds' /\ LastSecretWins'
  BY <1>1 DEF RgInv, RgTyped, RgNew, RgRows, RgEnds, RgNamed, LastSecretWins
<1>3. ~rgRaced' => RgAcyclic' /\ RgDeclared'
  BY <1>1, SamePaths DEF RgInv, RgAcyclic, RgDeclared
<1>4. ASSUME NEW q \in RgRequests PROVE RgLocal(q)'
  <2>1. RgNotes(q)
    BY <1>1 DEF RgNotes
  <2> QED BY <1>1, <1>2, <2>1, OtherKeeps DEF RgInv
<1> QED BY <1>2, <1>3, <1>4 DEF RgInv

\* Every step of the services keeps the invariant.
LEMMA RgInvStep == RgInv /\ [RegNext]_rgVars => RgInv'
<1> SUFFICES ASSUME RgInv, [RegNext]_rgVars PROVE RgInv'
  OBVIOUS
<1>1. ASSUME NEW p \in RgRequests, ResourceStep(p) PROVE RgInv'
  BY <1>1, CreateResourceKeeps, InsertResourceKeeps, PatchResourceKeeps, CheckPatchKeeps,
     UpdateResourceKeeps, ListsKeep, DeleteResourceKeeps, CommitDeleteKeeps DEF ResourceStep
<1>2. ASSUME NEW p \in RgRequests, LinkStep(p) PROVE RgInv'
  BY <1>2, LinkArrivesKeeps, WriteLinkKeeps, DeleteLinkKeeps DEF LinkStep
<1>3. ASSUME NEW p \in RgRequests, ProviderStep(p) PROVE RgInv'
  BY <1>3, CreateProviderKeeps, InsertProviderKeeps, PatchProviderKeeps, UpdateProviderKeeps,
     DeleteProviderKeeps DEF ProviderStep
<1> QED BY <1>1, <1>2, <1>3, RgStutters DEF RegNext

\* Who takes a step changes its own label, and leaves "update" with UpdateResource alone.
LEMMA RgStepLabels ==
    ASSUME NEW q \in RgRequests, ResourceStep(q) \/ LinkStep(q) \/ ProviderStep(q)
    PROVE  /\ UpdateResource(q) \/ rgAt[q] # "update"
           /\ \E label : rgAt' = [rgAt EXCEPT ![q] = label]
<1> DEFINE Good == /\ UpdateResource(q) \/ rgAt[q] # "update"
                   /\ \E label : rgAt' = [rgAt EXCEPT ![q] = label]
<1> SUFFICES Good
  BY Zenon
<1>1. ASSUME NEW i, NEW label, RgArrive(q, i, label) PROVE Good
  BY <1>1 DEF RgArrive, RgMayAsk, RgGoto
<1>2. ASSUME NEW o, RgAtOnce(q, o) PROVE Good
  BY <1>2 DEF RgAtOnce, RgMayAsk, RgGoto
<1>3. ASSUME rgAt[q] # "update", RgFinish(q) PROVE Good
  BY <1>3 DEF RgFinish, RgGoto
<1>4. ASSUME rgAt[q] # "update", NEW label, RgGoto(q, label) PROVE Good
  BY <1>4 DEF RgGoto
<1>5. ASSUME UpdateResource(q) PROVE Good
  BY <1>5 DEF UpdateResource, RgFinish, RgGoto
<1> HIDE DEF Good
<1>6. ASSUME CreateResource(q) \/ PatchResource(q) \/ DeleteResource(q) PROVE Good
  BY <1>1, <1>6, Zenon DEF CreateResource, PatchResource, DeleteResource
<1>7. ASSUME NEW o, NEW i, NEW list, NEW next, EditList(q, o, i, list, next) PROVE Good
  BY <1>1, <1>7, Zenon DEF EditList
<1>8. ASSUME \/ AddAllowedClient(q) \/ RemoveAllowedClient(q)
             \/ AddRuntimeClientID(q) \/ RemoveRuntimeClientID(q)
             \/ AddAllowedReturnURL(q) \/ RemoveAllowedReturnURL(q)
      PROVE  Good
  BY <1>7, <1>8, Zenon DEF AddAllowedClient, RemoveAllowedClient, AddRuntimeClientID,
     RemoveRuntimeClientID, AddAllowedReturnURL, RemoveAllowedReturnURL
<1>9. ASSUME CreateLink(q) \/ PatchLink(q) \/ CreateProvider(q) \/ PatchProvider(q) PROVE Good
  BY <1>1, <1>9, Zenon DEF CreateLink, PatchLink, CreateProvider, PatchProvider
<1>10. ASSUME DeleteLink(q) \/ DeleteProvider(q) PROVE Good
  BY <1>2, <1>10, Zenon DEF DeleteLink, DeleteProvider
<1>11. ASSUME \/ InsertResource(q) \/ CommitDelete(q) \/ InsertLink(q) \/ UpdateLink(q)
              \/ InsertProvider(q) \/ UpdateProvider(q)
       PROVE  Good
  <2>1. rgAt[q] # "update" /\ RgFinish(q)
    BY <1>11
        DEF InsertResource, CommitDelete, InsertLink, UpdateLink, InsertProvider, UpdateProvider
  <2> QED BY <1>3, <2>1
<1>12. ASSUME CheckPatch(q) PROVE Good
  <2>1. rgAt[q] # "update" /\ (RgGoto(q, "update") \/ RgFinish(q))
    BY <1>12 DEF CheckPatch
  <2> QED BY <1>3, <1>4, <2>1
<1> QED BY <1>5, <1>6, <1>8, <1>9, <1>10, <1>11, <1>12 DEF ResourceStep, LinkStep, ProviderStep

\* The invariant holds throughout.
LEMMA RgInvHolds == RegSpec => []RgInv
  BY RgInvInit, RgInvStep, PTL DEF RegSpec

\* The registry: whatever the interleaving of administrators, slugs are unique, references
\* resolve, a mint resource has neither provider nor connect policy and a secret that was
\* replaced is not used; and unless a request wrote over what it had not read, the fronting
\* links close no cycle and map only scopes their ends declare (ResourceAdminService,
\* FrontingService, BrokerProviderAdminService).
THEOREM RegistryStaysSound == RegSpec => []RegistrySound
<1>1. RgInv => RegistrySound
  <2> SUFFICES ASSUME RgInv PROVE RegistrySound
    OBVIOUS
  <2>1. RgTyped /\ RgRows /\ RgEnds /\ LastSecretWins
    BY DEF RgInv
  <2>2. RegTypeOK
    BY <2>1 DEF RegTypeOK, RgTyped
  <2>3. LinksSoundUnlessRaced
    <3> SUFFICES ASSUME ~rgRaced
                 PROVE  /\ \A s \in Slugs : \A t \in Outgoing(s) : ~Reaches(t, s)
                        /\ \A l \in Slugs \X Slugs : rgLinks[l] # RgNone =>
                              \A i \in ResourcesNamed(l[1]), j \in ResourcesNamed(l[2]) :
                                  rgRes[i].kind = "mint" /\ MapDeclared(rgLinks[l], rgRes[i], rgRes[j])
      BY DEF LinksSoundUnlessRaced
    <3>1. RgAcyclic /\ RgDeclared
      BY DEF RgInv
    <3>2. \A s \in Slugs : \A t \in Outgoing(s) : ~Reaches(t, s)
      BY <3>1 DEF RgAcyclic, Outgoing, LinkExists
    <3>3. ASSUME NEW l \in Slugs \X Slugs, rgLinks[l] # RgNone,
                 NEW i \in ResourcesNamed(l[1]), NEW j \in ResourcesNamed(l[2])
          PROVE  rgRes[i].kind = "mint" /\ MapDeclared(rgLinks[l], rgRes[i], rgRes[j])
      <4>1. l[1] \in Slugs /\ l[2] \in Slugs /\ l = <<l[1], l[2]>>
        OBVIOUS
      <4>2. /\ i \in ResIds /\ rgRes[i] # RgNone /\ rgRes[i].slug = l[1]
            /\ j \in ResIds /\ rgRes[j] # RgNone /\ rgRes[j].slug = l[2]
        BY DEF ResourcesNamed, ResourceExists
      <4>3. PICK s \in Slugs, t \in Slugs : l = <<s, t>> /\ l[1] = s /\ l[2] = t
        BY <4>1
      <4> QED BY <3>1, <3>3, <4>2, <4>3 DEF RgDeclared
    <3> QED BY <3>2, <3>3
  <2>4. ReferencesResolve
    <3>1. ASSUME NEW s \in Slugs PROVE Cardinality(ResourcesNamed(s)) \in {0, 1}
      <4>1. CASE ResourcesNamed(s) = {}
        BY <4>1, FS_EmptySet
      <4>2. CASE ResourcesNamed(s) # {}
        <5>1. PICK i \in ResourcesNamed(s) : TRUE
          BY <4>2
        <5>2. ResourcesNamed(s) = {i}
          BY <2>1 DEF RgRows, ResourcesNamed, ResourceExists
        <5> QED BY <5>2, FS_Singleton
      <4> QED BY <4>1, <4>2
    <3>2. \A s \in Slugs : \A t \in Outgoing(s) : ResourcesNamed(s) # {} /\ ResourcesNamed(t) # {}
      BY <2>1 DEF RgEnds, RgNamed, Outgoing, LinkExists, ResourcesNamed, ResourceExists
    <3>3. \A i \in ResIds : ResourceExists(i) /\ rgRes[i].kind = "broker" =>
             rgRes[i].provider \in ProvIds /\ rgProv[rgRes[i].provider] # RgNone
      BY <2>1 DEF RgRows, ResourceExists
    <3> QED BY <3>1, <3>2, <3>3 DEF ReferencesResolve
  <2>5. KindDecidesShape
    BY <2>1 DEF KindDecidesShape, RgRows, RgShaped, ResourceExists
  <2> QED BY <2>1, <2>2, <2>3, <2>4, <2>5 DEF RegistrySound
<1> QED BY <1>1, RgInvHolds, PTL

\* The write of a resource row changes what its request names and nothing else, unless
\* another wrote the row since it was read (ResourceAdminService.UpdateResource).
THEOREM EditsSurvive == RegSpec => OnlyOverlapLosesEdits
<1> DEFINE Spares == \A p \in RgRequests, i \in ResIds :
          /\ rgAt[p] = "update" /\ rgAt'[p] = "done" /\ i = rgIn[p].id /\ i \notin rgStale[p]
          /\ rgRes[i] # rgRes'[i]
          => \A f \in Fields : rgRes[i][f] # rgRes'[i][f] =>
                f \in rgIn[p].touched \/ (f = "returns" /\ rgRes'[i].kind = "mint")
<1>1. RgInv /\ [RegNext]_rgVars => [Spares]_rgVars
  <2> SUFFICES ASSUME RgInv, RegNext, NEW p \in RgRequests, NEW i \in ResIds,
                      rgAt[p] = "update", rgAt'[p] = "done", i = rgIn[p].id, i \notin rgStale[p],
                      rgRes[i] # rgRes'[i], NEW f \in Fields, rgRes[i][f] # rgRes'[i][f]
               PROVE  f \in rgIn[p].touched \/ (f = "returns" /\ rgRes'[i].kind = "mint")
    BY Zenon DEF Spares
  <2>1. UpdateResource(p)
    <3>1. PICK q \in RgRequests : ResourceStep(q) \/ LinkStep(q) \/ ProviderStep(q)
      BY DEF RegNext
    <3>2. q = p
      BY <3>1, RgStepLabels DEF RgInv, RgTyped
    <3> QED BY <3>1, <3>2, RgStepLabels
  <2>2. RgEditOf(p, i)
    BY DEF RgInv, RgLocal, RgEdits
  <2>3. RgTyped /\ rgRes'[i] = rgIn[p].row
    <3>1. rgRes' = [rgRes EXCEPT ![i] = rgIn[p].row]
      BY <2>1 DEF UpdateResource
    <3> QED BY <3>1 DEF RgInv, RgTyped
  <2> QED BY <2>2, <2>3 DEF RgEditOf
<1> QED BY <1>1, RgInvHolds, PTL DEF RegSpec, OnlyOverlapLosesEdits

-----------------------------------------------------------------------------
(* CimdFetcher: cimd.DocumentFetcher *)

\* A flight of the single-flight group.
FtFlight == [stage : {"recheck", "acquire", "dial"}, waiters : SUBSET FtCalls, allow : BOOLEAN]

\* The key says what the call asked for.
FtKeyed(k, u, allow) == k[2] = u /\ ((k[1] = "unfiltered") <=> allow)

\* The clock, the calls and where they are.
FtCalling ==
  /\ ftNow \in 0..FtLast
  /\ ftIn \in FtAsks
  /\ ftAt \in [FtCalls -> {"idle", "looked", "waiting", "answered"}]

\* A document of the URL that was asked for, under a policy that allows its dial, and
\* within the ceiling; or an error.
FtFits(u, allow, g) ==
  /\ g.kind \in {"doc", "error"}
  /\ g.kind = "doc" =>
       /\ g.doc.url = u /\ (g.doc.dial => allow) /\ g.doc.body \in FtBodies
       /\ g.since <= g.doc.at + CacheTTL

\* A call has an answer that fits it when it is answered, and none before.
FtTold ==
  \A c \in FtCalls :
    IF ftAt[c] = "answered" THEN FtFits(ftIn[c].url, ftIn[c].allow, ftGot[c])
    ELSE ftGot[c] = FtNothing

\* A flight is for the calls that wait under its key, and goes by their policy.
FtFlown ==
  /\ DOMAIN ftFlights \subseteq FtKeys
  /\ ftFlights \in [DOMAIN ftFlights -> FtFlight]
  /\ \A k \in DOMAIN ftFlights :
       /\ ftFlights[k].allow <=> (k[1] = "unfiltered")
       /\ \A c \in ftFlights[k].waiters : ftAt[c] = "waiting" /\ KeyOf(c) = k

\* A stored document is the key's, and expires within the ceiling.
FtStores(k, e) ==
  /\ e.doc.url = k[2] /\ (e.doc.dial <=> (k[1] = "unfiltered")) /\ e.doc.body \in FtBodies
  /\ e.doc.at \in Nat /\ e.exp \in Nat /\ e.exp <= e.doc.at + CacheTTL

\* The documents in the cache.
FtStored ==
  /\ DOMAIN ftDocs \subseteq FtKeys /\ IsFiniteSet(DOMAIN ftDocs)
  /\ Cardinality(DOMAIN ftDocs) <= MaxCacheEntries
  /\ \A k \in DOMAIN ftDocs : FtStores(k, ftDocs[k])

\* The failures that are remembered, each from its own contact.
FtBarred ==
  /\ DOMAIN ftFails \subseteq FtKeys /\ IsFiniteSet(DOMAIN ftFails)
  /\ Cardinality(DOMAIN ftFails) <= MaxCacheEntries
  /\ \A k \in DOMAIN ftFails : /\ k \in DOMAIN ftContact /\ ftContact[k] \in Nat
                               /\ ftFails[k] = ftContact[k] + NegativeCacheTTL

\* The inductive invariant of the fetcher.
FtInv == FtCalling /\ FtTold /\ FtFlown /\ FtStored /\ FtBarred /\ NoRedundantOutbound

\* The key of a call says what it asks for (fetchKey).
LEMMA KeyOfCall ==
  ASSUME FtCalling, NEW c \in FtCalls
  PROVE  KeyOf(c) \in FtKeys /\ FtKeyed(KeyOf(c), ftIn[c].url, ftIn[c].allow)
<1>1. ftIn[c].url \in FtURLs /\ ftIn[c].allow \in BOOLEAN
  BY DEF FtCalling, FtAsks
<1>2. CASE ftIn[c].allow
  BY <1>1, <1>2 DEF KeyOf, FetchKey, FtKeys, FtKeyed
<1>3. CASE ~ftIn[c].allow
  BY <1>1, <1>3 DEF KeyOf, FetchKey, FtKeys, FtKeyed
<1> QED BY <1>2, <1>3

\* What a full map keeps leaves room for one more entry (evictOneLocked).
LEMMA RoomIsMade ==
  ASSUME NEW e, NEW k, IsFiniteSet(DOMAIN e), Cardinality(DOMAIN e) <= MaxCacheEntries,
         NEW keep \in Keeps(e, k)
  PROVE  /\ keep \subseteq DOMAIN e /\ IsFiniteSet(keep \cup {k})
         /\ Cardinality(keep \cup {k}) <= MaxCacheEntries
<1> DEFINE D == DOMAIN e
<1>1. Cardinality(D) \in Nat /\ MaxCacheEntries \in Nat \ {0}
  BY FS_CardinalityType, FtAssumption
<1>2. CASE k \notin D /\ Cardinality(D) >= MaxCacheEntries
  <2>1. PICK j \in EvictOne(e) : keep = D \ {j}
    BY <1>2 DEF Keeps
  <2>2. j \in D
    BY <2>1 DEF EvictOne
  <2>3. IsFiniteSet(keep) /\ Cardinality(keep) = Cardinality(D) - 1
    BY <2>1, <2>2, FS_RemoveElement
  <2>4. IsFiniteSet(keep \cup {k}) /\ Cardinality(keep \cup {k}) = Cardinality(keep) + 1
    BY <1>2, <2>1, <2>3, FS_AddElement
  <2>5. Cardinality(keep \cup {k}) = Cardinality(D)
    BY <1>1, <2>3, <2>4
  <2> QED BY <2>1, <2>4, <2>5
<1>3. CASE k \in D
  <2>1. keep = D
    BY <1>3 DEF Keeps
  <2>2. keep \cup {k} = D
    BY <1>3, <2>1
  <2> QED BY <2>1, <2>2
<1>4. CASE k \notin D /\ Cardinality(D) < MaxCacheEntries
  <2>1. keep = D
    BY <1>1, <1>4 DEF Keeps
  <2>2. IsFiniteSet(keep \cup {k}) /\ Cardinality(keep \cup {k}) = Cardinality(D) + 1
    BY <1>4, <2>1, FS_AddElement
  <2> QED BY <1>1, <1>4, <2>1, <2>2
<1> QED BY <1>1, <1>2, <1>3, <1>4

\* putCache writes its own entry and adds no other.
LEMMA PutCacheKeeps ==
  ASSUME FtStored, NEW k \in FtKeys, NEW d, NEW ttl \in Nat, ttl <= CacheTTL, ftNow \in Nat,
         d.url = k[2], d.dial <=> (k[1] = "unfiltered"), d.body \in FtBodies, d.at = ftNow,
         PutCache(k, d, ttl)
  PROVE  /\ FtStored'
         /\ \A j \in DOMAIN ftDocs' \ {k} : j \in DOMAIN ftDocs /\ ftDocs'[j] = ftDocs[j]
<1>1. PICK keep \in Keeps([j \in DOMAIN ftDocs |-> ftDocs[j].exp], k) :
        ftDocs' = FtPut(Restrict(ftDocs, keep), k, [doc |-> d, exp |-> ftNow + ttl])
  BY DEF PutCache
<1>2. /\ keep \subseteq DOMAIN ftDocs /\ IsFiniteSet(keep \cup {k})
      /\ Cardinality(keep \cup {k}) <= MaxCacheEntries
  <2> DEFINE e == [j \in DOMAIN ftDocs |-> ftDocs[j].exp]
  <2>1. DOMAIN e = DOMAIN ftDocs /\ keep \in Keeps(e, k)
    BY <1>1
  <2>2. IsFiniteSet(DOMAIN e) /\ Cardinality(DOMAIN e) <= MaxCacheEntries
    BY <2>1 DEF FtStored
  <2> HIDE DEF e
  <2> QED BY <2>1, <2>2, RoomIsMade
<1>3. DOMAIN ftDocs' = keep \cup {k}
  BY <1>1 DEF FtPut, Restrict
<1>4. \A j \in DOMAIN ftDocs' \ {k} : j \in DOMAIN ftDocs /\ ftDocs'[j] = ftDocs[j]
  BY <1>1, <1>2, <1>3 DEF FtPut, Restrict
<1>5. ftDocs'[k].doc = d /\ ftDocs'[k].exp = ftNow + ttl
  BY <1>1 DEF FtPut, Restrict
<1>6. FtStores(k, ftDocs'[k])
  BY <1>5, FtAssumption DEF FtStores
<1>7. \A j \in DOMAIN ftDocs' : FtStores(j, ftDocs'[j])
  BY <1>4, <1>6 DEF FtStored
<1> QED BY <1>2, <1>3, <1>4, <1>7 DEF FtStored

\* cacheLifetime stays within the ceiling.
LEMMA LifetimeBounded ==
  ASSUME NEW h \in FtHeaders, NEW ttl \in CacheLifetime(h)
  PROVE  ttl \in Nat /\ ttl <= CacheTTL
<1>1. CacheTTL \in Nat /\ MinCacheTTL \in Nat
  BY FtAssumption
<1>2. h \subseteq Nat
  BY <1>1 DEF FtHeaders
<1> QED BY <1>1, <1>2 DEF CacheLifetime, Smaller

\* putFailure, beside the contact it follows from.
LEMMA PutFailureKeeps ==
  ASSUME FtBarred, NEW k \in FtKeys, ftNow \in Nat, PutFailure(k),
         ftContact' = FtPut(ftContact, k, ftNow)
  PROVE  /\ FtBarred'
         /\ \A j \in DOMAIN ftFails' \ {k} : j \in DOMAIN ftFails /\ ftFails'[j] = ftFails[j]
<1>1. PICK keep \in Keeps(ftFails, k) :
        ftFails' = FtPut(Restrict(ftFails, keep), k, ftNow + NegativeCacheTTL)
  BY DEF PutFailure
<1>2. /\ keep \subseteq DOMAIN ftFails /\ IsFiniteSet(keep \cup {k})
      /\ Cardinality(keep \cup {k}) <= MaxCacheEntries
  BY RoomIsMade DEF FtBarred
<1>3. DOMAIN ftFails' = keep \cup {k}
  BY <1>1 DEF FtPut, Restrict
<1>4. \A j \in DOMAIN ftFails' \ {k} : j \in DOMAIN ftFails /\ ftFails'[j] = ftFails[j]
  BY <1>1, <1>2, <1>3 DEF FtPut, Restrict
<1>5. ftFails'[k] = ftNow + NegativeCacheTTL
  BY <1>1 DEF FtPut, Restrict
<1>6. /\ DOMAIN ftContact' = DOMAIN ftContact \cup {k} /\ ftContact'[k] = ftNow
      /\ \A j \in DOMAIN ftContact \ {k} : ftContact'[j] = ftContact[j]
  BY DEF FtPut
<1>7. ASSUME NEW j \in DOMAIN ftFails'
      PROVE  /\ j \in DOMAIN ftContact' /\ ftContact'[j] \in Nat
             /\ ftFails'[j] = ftContact'[j] + NegativeCacheTTL
  BY <1>4, <1>5, <1>6, <1>7 DEF FtBarred
<1> QED BY <1>2, <1>3, <1>4, <1>7 DEF FtBarred

\* A flight that lands gives those who wait an answer that fits them.
LEMMA LandKeeps ==
  ASSUME FtCalling, FtTold, FtFlown, NEW k \in DOMAIN ftFlights, NEW answer,
         \A c \in ftFlights[k].waiters : FtFits(ftIn[c].url, ftIn[c].allow, answer),
         Land(k, answer), ftNow' = ftNow, ftIn' = ftIn
  PROVE  /\ FtCalling' /\ FtTold' /\ FtFlown'
         /\ DOMAIN ftFlights' = DOMAIN ftFlights \ {k}
         /\ \A j \in DOMAIN ftFlights' : ftFlights'[j] = ftFlights[j]
<1>1. /\ ftAt' = [c \in FtCalls |-> IF c \in ftFlights[k].waiters THEN "answered" ELSE ftAt[c]]
      /\ ftGot' = [c \in FtCalls |-> IF c \in ftFlights[k].waiters THEN answer ELSE ftGot[c]]
  BY DEF Land, FtAnswered
<1>2. /\ DOMAIN ftFlights' = DOMAIN ftFlights \ {k}
      /\ \A j \in DOMAIN ftFlights' : ftFlights'[j] = ftFlights[j]
      /\ ftFlights' = [j \in DOMAIN ftFlights \ {k} |-> ftFlights[j]]
  BY DEF Land, Restrict
<1>3. FtCalling'
  BY <1>1 DEF FtCalling
<1>4. FtTold'
  BY <1>1 DEF FtTold
<1>5. FtFlown'
  <2>1. DOMAIN ftFlights' \subseteq FtKeys /\ ftFlights' \in [DOMAIN ftFlights' -> FtFlight]
    BY <1>2 DEF FtFlown
  <2>2. ASSUME NEW j \in DOMAIN ftFlights', NEW c \in ftFlights'[j].waiters
        PROVE  ftAt'[c] = "waiting" /\ KeyOf(c)' = j
    <3>1. ftAt[c] = "waiting" /\ KeyOf(c) = j /\ j # k /\ c \in FtCalls
      BY <1>2, <2>2 DEF FtFlown, FtFlight
    <3>2. c \notin ftFlights[k].waiters
      BY <3>1 DEF FtFlown
    <3> QED BY <1>1, <3>1, <3>2 DEF KeyOf
  <2> QED BY <1>2, <2>1, <2>2 DEF FtFlown
<1> QED BY <1>2, <1>3, <1>4, <1>5

\* Without a change to the caches, what is outbound stays needed.
LEMMA OutboundStays ==
  ASSUME NoRedundantOutbound, ftNow' = ftNow,
         \A j \in DOMAIN ftFlights' :
           ftFlights'[j].stage \in {"acquire", "dial"} =>
             /\ j \in DOMAIN ftFlights /\ ftFlights[j].stage \in {"acquire", "dial"}
             /\ j \in DOMAIN ftDocs' => j \in DOMAIN ftDocs /\ ftDocs'[j] = ftDocs[j]
             /\ j \in DOMAIN ftFails' => j \in DOMAIN ftFails /\ ftFails'[j] = ftFails[j]
  PROVE  NoRedundantOutbound'
  BY DEF NoRedundantOutbound, GetCached, GetCachedFailure

\* A document in the cache fits every call of its key while it counts (getCached).
LEMMA CachedFits ==
  ASSUME FtCalling, FtStored, NEW c \in FtCalls, NEW k, KeyOf(c) = k, GetCached(k)
  PROVE  FtFits(ftIn[c].url, ftIn[c].allow, FtAnswer(ftDocs[k].doc))
<1>1. FtStores(k, ftDocs[k]) /\ ftNow <= ftDocs[k].exp
  BY DEF GetCached, FtStored
<1>2. k[2] = ftIn[c].url /\ ((k[1] = "unfiltered") <=> ftIn[c].allow)
  BY KeyOfCall DEF FtKeyed
<1>3. ftNow \in Nat /\ CacheTTL \in Nat
  BY FtAssumption DEF FtCalling
<1>4. /\ FtAnswer(ftDocs[k].doc).kind = "doc" /\ FtAnswer(ftDocs[k].doc).doc = ftDocs[k].doc
      /\ FtAnswer(ftDocs[k].doc).since = ftNow
  BY DEF FtAnswer
<1>5. ftNow <= ftDocs[k].doc.at + CacheTTL
  BY <1>1, <1>3 DEF FtStores
<1> QED BY <1>1, <1>2, <1>4, <1>5 DEF FtFits, FtStores

\* An error fits every call.
LEMMA ErrorFits ==
  ASSUME NEW why, NEW u, NEW allow
  PROVE  FtFits(u, allow, FtError(why)) /\ FtError(why) # FtNothing
<1>1. FtError(why).kind = "error" /\ FtNothing.kind = "none"
  BY DEF FtError, FtNothing
<1> QED BY <1>1 DEF FtFits

\* Fetch, up to the single-flight group.
LEMMA FetchKeeps ==
  ASSUME FtInv, NEW c \in FtCalls, Fetch(c)
  PROVE  FtInv'
<1>1. /\ FtCalling /\ FtTold /\ FtFlown /\ FtStored /\ FtBarred /\ NoRedundantOutbound
      /\ ftAt[c] = "idle" /\ UNCHANGED <<ftNow, ftIn, ftFlights, ftDocs, ftFails, ftContact>>
  BY DEF FtInv, Fetch
<1>2. FtStored' /\ FtBarred'
  BY <1>1 DEF FtStored, FtStores, FtBarred
<1>3. NoRedundantOutbound'
  BY <1>1, OutboundStays
<1>4. ASSUME NEW answer, FtAnswered({c}, answer), FtFits(ftIn[c].url, ftIn[c].allow, answer)
      PROVE  FtCalling' /\ FtTold'
  BY <1>1, <1>4 DEF FtAnswered, FtCalling, FtTold
<1>5. ASSUME ftAt' = [ftAt EXCEPT ![c] = "looked"], UNCHANGED ftGot
      PROVE  FtCalling' /\ FtTold'
  BY <1>1, <1>5 DEF FtCalling, FtTold
<1>6. FtCalling' /\ FtTold'
  <2>1. GetCached(KeyOf(c)) => FtFits(ftIn[c].url, ftIn[c].allow, FtAnswer(ftDocs[KeyOf(c)].doc))
    BY <1>1, CachedFits
  <2>2. /\ FtFits(ftIn[c].url, ftIn[c].allow, FtError("unsafe"))
        /\ FtFits(ftIn[c].url, ftIn[c].allow, FtError("suppressed"))
    BY ErrorFits
  <2> QED BY <1>4, <1>5, <2>1, <2>2 DEF Fetch
<1>7. \A q \in FtCalls \ {c} : ftAt'[q] = ftAt[q]
  BY <1>1 DEF Fetch, FtAnswered, FtCalling
<1>8. FtFlown'
  <2>1. ASSUME NEW j \in DOMAIN ftFlights, NEW q \in ftFlights[j].waiters
        PROVE  ftAt'[q] = "waiting" /\ KeyOf(q)' = j
    <3>1. ftAt[q] = "waiting" /\ KeyOf(q) = j /\ q \in FtCalls
      BY <1>1, <2>1 DEF FtFlown, FtFlight
    <3> QED BY <1>1, <1>7, <3>1 DEF KeyOf
  <2> QED BY <1>1, <2>1 DEF FtFlown
<1> QED BY <1>2, <1>3, <1>6, <1>8 DEF FtInv

\* sf.DoChan.
LEMMA DoChanKeeps ==
  ASSUME FtInv, NEW c \in FtCalls, DoChan(c)
  PROVE  FtInv'
<1>1. /\ FtCalling /\ FtTold /\ FtFlown /\ FtStored /\ FtBarred /\ NoRedundantOutbound
      /\ ftAt[c] = "looked" /\ ftAt' = [ftAt EXCEPT ![c] = "waiting"]
      /\ UNCHANGED <<ftNow, ftIn, ftGot, ftDocs, ftFails, ftContact>>
  BY DEF FtInv, DoChan
<1> DEFINE k == KeyOf(c)
<1>2. k \in FtKeys /\ ((k[1] = "unfiltered") <=> ftIn[c].allow) /\ ftIn[c].allow \in BOOLEAN
  BY <1>1, KeyOfCall DEF FtKeyed, FtCalling, FtAsks
<1>3. FtStored' /\ FtBarred'
  BY <1>1 DEF FtStored, FtStores, FtBarred
<1>4. FtCalling' /\ FtTold'
  BY <1>1 DEF FtCalling, FtTold
<1>5. /\ DOMAIN ftFlights' = DOMAIN ftFlights \cup {k}
      /\ \A j \in DOMAIN ftFlights \ {k} : ftFlights'[j] = ftFlights[j]
      /\ ftFlights' = [j \in DOMAIN ftFlights' |-> ftFlights'[j]]
  BY DEF DoChan, FtPut
<1>6. /\ ftFlights'[k] \in FtFlight /\ (ftFlights'[k].allow <=> (k[1] = "unfiltered"))
      /\ \A q \in ftFlights'[k].waiters : q = c \/ (ftAt[q] = "waiting" /\ KeyOf(q) = k /\ q \in FtCalls)
      /\ ftFlights'[k].stage \in {"acquire", "dial"} =>
            k \in DOMAIN ftFlights /\ ftFlights[k].stage \in {"acquire", "dial"}
  <2>1. CASE k \in DOMAIN ftFlights
    <3>1. ftFlights[k] \in FtFlight
      BY <1>1, <2>1 DEF FtFlown
    <3>2. ftFlights'[k] = [ftFlights[k] EXCEPT !.waiters = ftFlights[k].waiters \cup {c}]
      BY <2>1 DEF DoChan
    <3>3. /\ ftFlights'[k].stage = ftFlights[k].stage /\ ftFlights'[k].allow = ftFlights[k].allow
          /\ ftFlights'[k].waiters = ftFlights[k].waiters \cup {c} /\ ftFlights'[k] \in FtFlight
      BY <3>1, <3>2 DEF FtFlight
    <3> QED BY <1>1, <2>1, <3>1, <3>3 DEF FtFlown, FtFlight
  <2>2. CASE k \notin DOMAIN ftFlights
    <3>1. ftFlights'[k] = [stage |-> "recheck", waiters |-> {c}, allow |-> ftIn[c].allow]
      BY <2>2 DEF DoChan, FtPut
    <3> QED BY <1>2, <3>1 DEF FtFlight
  <2> QED BY <2>1, <2>2
<1>7. NoRedundantOutbound'
  BY <1>1, <1>5, <1>6, OutboundStays
<1>8. FtFlown'
  <2>1. ASSUME NEW j \in DOMAIN ftFlights', NEW q \in ftFlights'[j].waiters
        PROVE  ftAt'[q] = "waiting" /\ KeyOf(q)' = j
    <3>1. q \in FtCalls /\ KeyOf(q) = j /\ (q = c \/ ftAt[q] = "waiting")
      BY <1>1, <1>5, <1>6, <2>1 DEF FtFlown, FtFlight
    <3> QED BY <1>1, <3>1 DEF KeyOf, FtCalling
  <2>2. \A j \in DOMAIN ftFlights' :
          j \in FtKeys /\ ftFlights'[j] \in FtFlight /\ (ftFlights'[j].allow <=> (j[1] = "unfiltered"))
    BY <1>1, <1>2, <1>5, <1>6 DEF FtFlown
  <2>3. ftFlights' \in [DOMAIN ftFlights' -> FtFlight]
    BY <1>5, <2>2
  <2> QED BY <2>1, <2>2, <2>3 DEF FtFlown
<1> QED BY <1>3, <1>4, <1>7, <1>8 DEF FtInv

\* ctx.Done.
LEMMA LeaveKeeps ==
  ASSUME FtInv, NEW c \in FtCalls, LeaveFlight(c)
  PROVE  FtInv'
<1>1. /\ FtCalling /\ FtTold /\ FtFlown /\ FtStored /\ FtBarred /\ NoRedundantOutbound
      /\ ftAt[c] = "waiting" /\ FtAnswered({c}, FtError("cancelled"))
      /\ ftFlights' = [ftFlights EXCEPT ![KeyOf(c)].waiters = @ \ {c}]
      /\ UNCHANGED <<ftNow, ftIn, ftDocs, ftFails, ftContact>>
  BY DEF FtInv, LeaveFlight
<1>2. FtStored' /\ FtBarred'
  BY <1>1 DEF FtStored, FtStores, FtBarred
<1>3. FtCalling' /\ FtTold'
  <2>1. FtFits(ftIn[c].url, ftIn[c].allow, FtError("cancelled"))
    BY ErrorFits
  <2> QED BY <1>1, <2>1 DEF FtAnswered, FtCalling, FtTold
<1>4. /\ DOMAIN ftFlights' = DOMAIN ftFlights
      /\ \A j \in DOMAIN ftFlights \ {KeyOf(c)} : ftFlights'[j] = ftFlights[j]
      /\ ftFlights' = [j \in DOMAIN ftFlights' |-> ftFlights'[j]]
  BY <1>1
<1>5. ASSUME NEW j \in DOMAIN ftFlights
      PROVE  /\ ftFlights'[j].stage = ftFlights[j].stage /\ ftFlights'[j].allow = ftFlights[j].allow
             /\ ftFlights'[j].waiters \subseteq ftFlights[j].waiters
             /\ (j = KeyOf(c) => c \notin ftFlights'[j].waiters)
             /\ ftFlights'[j] \in FtFlight
  <2>1. ftFlights[j] \in FtFlight
    BY <1>1, <1>5 DEF FtFlown
  <2>2. CASE j = KeyOf(c)
    <3>1. ftFlights'[j] = [ftFlights[j] EXCEPT !.waiters = ftFlights[j].waiters \ {c}]
      BY <1>1, <1>5, <2>2
    <3> QED BY <2>1, <3>1 DEF FtFlight
  <2>3. CASE j # KeyOf(c)
    BY <1>4, <1>5, <2>1, <2>3
  <2> QED BY <2>2, <2>3
<1>6. NoRedundantOutbound'
  BY <1>1, <1>4, <1>5, OutboundStays
<1>7. FtFlown'
  <2>1. ASSUME NEW j \in DOMAIN ftFlights', NEW q \in ftFlights'[j].waiters
        PROVE  ftAt'[q] = "waiting" /\ KeyOf(q)' = j
    <3>1. q \in FtCalls /\ KeyOf(q) = j /\ ftAt[q] = "waiting" /\ q # c
      BY <1>1, <1>4, <1>5, <2>1 DEF FtFlown, FtFlight
    <3> QED BY <1>1, <3>1 DEF KeyOf, FtCalling, FtAnswered
  <2>2. \A j \in DOMAIN ftFlights' :
          j \in FtKeys /\ ftFlights'[j] \in FtFlight /\ (ftFlights'[j].allow <=> (j[1] = "unfiltered"))
    BY <1>1, <1>4, <1>5 DEF FtFlown
  <2>3. ftFlights' \in [DOMAIN ftFlights' -> FtFlight]
    BY <1>4, <2>2
  <2> QED BY <2>1, <2>2, <2>3 DEF FtFlown
<1> QED BY <1>2, <1>3, <1>6, <1>7 DEF FtInv

\* A flight that moves to its next stage keeps those who wait for it.
LEMMA StageKeeps ==
  ASSUME FtFlown, NEW k \in DOMAIN ftFlights, NEW s \in {"recheck", "acquire", "dial"},
         ftFlights' = [ftFlights EXCEPT ![k].stage = s], ftAt' = ftAt, ftIn' = ftIn
  PROVE  /\ FtFlown' /\ DOMAIN ftFlights' = DOMAIN ftFlights
         /\ \A j \in DOMAIN ftFlights \ {k} : ftFlights'[j] = ftFlights[j]
<1>1. /\ DOMAIN ftFlights' = DOMAIN ftFlights
      /\ \A j \in DOMAIN ftFlights \ {k} : ftFlights'[j] = ftFlights[j]
      /\ ftFlights' = [j \in DOMAIN ftFlights' |-> ftFlights'[j]]
  OBVIOUS
<1>2. \A j \in DOMAIN ftFlights :
        /\ ftFlights'[j] \in FtFlight /\ ftFlights'[j].allow = ftFlights[j].allow
        /\ ftFlights'[j].waiters = ftFlights[j].waiters
  <2>1. ftFlights[k] \in FtFlight
    BY DEF FtFlown
  <2>2. ftFlights'[k] = [ftFlights[k] EXCEPT !.stage = s]
    OBVIOUS
  <2>3. /\ ftFlights'[k] \in FtFlight /\ ftFlights'[k].allow = ftFlights[k].allow
        /\ ftFlights'[k].waiters = ftFlights[k].waiters
    BY <2>1, <2>2 DEF FtFlight
  <2> QED BY <1>1, <2>3 DEF FtFlown
<1>3. ftFlights' \in [DOMAIN ftFlights' -> FtFlight]
  BY <1>1, <1>2
<1>4. \A j \in DOMAIN ftFlights' :
        /\ ftFlights'[j].allow <=> (j[1] = "unfiltered")
        /\ \A c \in ftFlights'[j].waiters : ftAt'[c] = "waiting" /\ KeyOf(c)' = j
  BY <1>1, <1>2 DEF FtFlown, KeyOf
<1> QED BY <1>1, <1>3, <1>4 DEF FtFlown

\* The re-check inside the flight.
LEMMA RecheckKeeps ==
  ASSUME FtInv, NEW k \in DOMAIN ftFlights, FlightRecheck(k)
  PROVE  FtInv'
<1>1. /\ FtCalling /\ FtTold /\ FtFlown /\ FtStored /\ FtBarred /\ NoRedundantOutbound
      /\ UNCHANGED <<ftNow, ftIn, ftDocs, ftFails, ftContact>>
  BY DEF FtInv, FlightRecheck
<1>2. FtStored' /\ FtBarred'
  BY <1>1 DEF FtStored, FtStores, FtBarred
<1>3. \A c \in ftFlights[k].waiters : c \in FtCalls /\ KeyOf(c) = k
  BY <1>1 DEF FtFlown, FtFlight
<1>4. ASSUME NEW answer, Land(k, answer),
             \A c \in ftFlights[k].waiters : FtFits(ftIn[c].url, ftIn[c].allow, answer)
      PROVE  FtInv'
  <2>1. /\ FtCalling' /\ FtTold' /\ FtFlown' /\ DOMAIN ftFlights' = DOMAIN ftFlights \ {k}
        /\ \A j \in DOMAIN ftFlights' : ftFlights'[j] = ftFlights[j]
    BY <1>1, <1>4, LandKeeps
  <2>2. NoRedundantOutbound'
    BY <1>1, <2>1, OutboundStays
  <2> QED BY <1>2, <2>1, <2>2 DEF FtInv
<1>5. CASE GetCached(k) /\ Land(k, FtAnswer(ftDocs[k].doc))
  <2>1. \A c \in ftFlights[k].waiters : FtFits(ftIn[c].url, ftIn[c].allow, FtAnswer(ftDocs[k].doc))
    BY <1>1, <1>3, <1>5, CachedFits
  <2> QED BY <1>4, <1>5, <2>1
<1>6. CASE Land(k, FtError("suppressed"))
  <2>1. \A c \in ftFlights[k].waiters : FtFits(ftIn[c].url, ftIn[c].allow, FtError("suppressed"))
    BY ErrorFits
  <2> QED BY <1>4, <1>6, <2>1
<1>7. CASE /\ ~GetCached(k) /\ ~GetCachedFailure(k)
           /\ ftFlights' = [ftFlights EXCEPT ![k].stage = "acquire"]
           /\ UNCHANGED <<ftAt, ftGot>>
  <2>1. FtCalling' /\ FtTold'
    BY <1>1, <1>7 DEF FtCalling, FtTold
  <2>2. /\ FtFlown' /\ DOMAIN ftFlights' = DOMAIN ftFlights
        /\ \A j \in DOMAIN ftFlights \ {k} : ftFlights'[j] = ftFlights[j]
    BY <1>1, <1>7, StageKeeps
  <2>3. NoRedundantOutbound'
    BY <1>1, <1>7, <2>2 DEF NoRedundantOutbound, GetCached, GetCachedFailure
  <2> QED BY <1>2, <2>1, <2>2, <2>3 DEF FtInv
<1> QED BY <1>5, <1>6, <1>7 DEF FlightRecheck

\* acquire.
LEMMA AcquireKeeps ==
  ASSUME FtInv, NEW k \in DOMAIN ftFlights, Acquire(k)
  PROVE  FtInv'
<1>1. /\ FtCalling /\ FtTold /\ FtFlown /\ FtStored /\ FtBarred /\ NoRedundantOutbound
      /\ UNCHANGED <<ftNow, ftIn, ftAt, ftGot, ftDocs, ftFails, ftContact>>
      /\ ftFlights' = [ftFlights EXCEPT ![k].stage = "dial"] /\ ftFlights[k].stage = "acquire"
  BY DEF FtInv, Acquire
<1>2. FtStored' /\ FtBarred' /\ FtCalling' /\ FtTold'
  BY <1>1 DEF FtStored, FtStores, FtBarred, FtCalling, FtTold
<1>3. /\ FtFlown' /\ DOMAIN ftFlights' = DOMAIN ftFlights
      /\ \A j \in DOMAIN ftFlights \ {k} : ftFlights'[j] = ftFlights[j]
  BY <1>1, StageKeeps
<1>4. NoRedundantOutbound'
  BY <1>1, <1>3, OutboundStays
<1> QED BY <1>2, <1>3, <1>4 DEF FtInv

\* A fetch that is shed.
LEMMA ShedKeeps ==
  ASSUME FtInv, NEW k \in DOMAIN ftFlights, Shed(k)
  PROVE  FtInv'
<1>1. /\ FtCalling /\ FtTold /\ FtFlown /\ FtStored /\ FtBarred /\ NoRedundantOutbound
      /\ UNCHANGED <<ftNow, ftIn, ftDocs, ftContact>>
      /\ Land(k, FtError("capacity")) /\ UNCHANGED ftFails
  BY DEF FtInv, Shed, FlightFails, ShouldNegativeCache
<1>2. FtStored' /\ FtBarred'
  BY <1>1 DEF FtStored, FtStores, FtBarred
<1>3. /\ FtCalling' /\ FtTold' /\ FtFlown' /\ DOMAIN ftFlights' = DOMAIN ftFlights \ {k}
      /\ \A j \in DOMAIN ftFlights' : ftFlights'[j] = ftFlights[j]
  <2>1. \A c \in ftFlights[k].waiters : FtFits(ftIn[c].url, ftIn[c].allow, FtError("capacity"))
    BY ErrorFits
  <2> QED BY <1>1, <2>1, LandKeeps
<1>4. NoRedundantOutbound'
  BY <1>1, <1>3, OutboundStays
<1> QED BY <1>2, <1>3, <1>4 DEF FtInv

\* doFetch without a document.
LEMMA FailureKeeps ==
  ASSUME FtInv, NEW k \in DOMAIN ftFlights, FetchFails(k)
  PROVE  FtInv'
<1>1. /\ FtCalling /\ FtTold /\ FtFlown /\ FtStored /\ FtBarred /\ NoRedundantOutbound
      /\ UNCHANGED <<ftNow, ftIn, ftDocs>> /\ ftContact' = FtPut(ftContact, k, ftNow)
      /\ Land(k, FtError("target")) /\ PutFailure(k)
  BY DEF FtInv, FetchFails, FlightFails, ShouldNegativeCache
<1>2. FtStored'
  BY <1>1 DEF FtStored, FtStores
<1>3. /\ FtCalling' /\ FtTold' /\ FtFlown' /\ DOMAIN ftFlights' = DOMAIN ftFlights \ {k}
      /\ \A j \in DOMAIN ftFlights' : ftFlights'[j] = ftFlights[j]
  <2>1. \A c \in ftFlights[k].waiters : FtFits(ftIn[c].url, ftIn[c].allow, FtError("target"))
    BY ErrorFits
  <2> QED BY <1>1, <2>1, LandKeeps
<1>4. /\ FtBarred'
      /\ \A j \in DOMAIN ftFails' \ {k} : j \in DOMAIN ftFails /\ ftFails'[j] = ftFails[j]
  <2>1. k \in FtKeys /\ ftNow \in Nat
    BY <1>1 DEF FtFlown, FtCalling
  <2> QED BY <1>1, <2>1, PutFailureKeeps
<1>5. NoRedundantOutbound'
  BY <1>1, <1>3, <1>4, OutboundStays
<1> QED BY <1>2, <1>3, <1>4, <1>5 DEF FtInv

\* doFetch with a document.
LEMMA SuccessKeeps ==
  ASSUME FtInv, NEW k \in DOMAIN ftFlights, FetchSucceeds(k)
  PROVE  FtInv'
<1>1. /\ FtCalling /\ FtTold /\ FtFlown /\ FtStored /\ FtBarred /\ NoRedundantOutbound
      /\ UNCHANGED <<ftNow, ftIn, ftFails, ftContact>>
  BY DEF FtInv, FetchSucceeds
<1>2. PICK id \in FtURLs, b \in FtBodies, header \in FtHeaders :
        LET d == FtDoc(id, ftFlights[k].allow, b) IN
        /\ ValidateDocument(id, k[2])
        /\ Land(k, FtAnswer(d))
        /\ \/ \E ttl \in CacheLifetime(header) : PutCache(k, d, ttl)
           \/ CacheLifetime(header) = {} /\ UNCHANGED ftDocs
  BY Zenon DEF FetchSucceeds
<1>3. PICK d : d = FtDoc(id, ftFlights[k].allow, b)
  OBVIOUS
<1>4. /\ k \in FtKeys /\ ftNow \in Nat /\ CacheTTL \in Nat
      /\ (ftFlights[k].allow <=> (k[1] = "unfiltered"))
      /\ \A c \in ftFlights[k].waiters : c \in FtCalls /\ KeyOf(c) = k
  BY <1>1, FtAssumption DEF FtFlown, FtCalling, FtFlight
<1>5. /\ d.url = k[2] /\ (d.dial <=> (k[1] = "unfiltered")) /\ d.at = ftNow /\ d.body \in FtBodies
  BY <1>2, <1>3, <1>4 DEF FtDoc, ValidateDocument
<1>6. /\ FtCalling' /\ FtTold' /\ FtFlown' /\ DOMAIN ftFlights' = DOMAIN ftFlights \ {k}
      /\ \A j \in DOMAIN ftFlights' : ftFlights'[j] = ftFlights[j]
  <2>1. FtAnswer(d).kind = "doc" /\ FtAnswer(d).doc = d /\ FtAnswer(d).since = ftNow
    BY DEF FtAnswer
  <2>2. \A c \in ftFlights[k].waiters : FtFits(ftIn[c].url, ftIn[c].allow, FtAnswer(d))
    <3> SUFFICES ASSUME NEW c \in ftFlights[k].waiters
                 PROVE  FtFits(ftIn[c].url, ftIn[c].allow, FtAnswer(d))
      OBVIOUS
    <3>1. k[2] = ftIn[c].url /\ ((k[1] = "unfiltered") <=> ftIn[c].allow)
      BY <1>1, <1>4, KeyOfCall DEF FtKeyed
    <3> QED BY <1>4, <1>5, <2>1, <3>1 DEF FtFits
  <2>3. Land(k, FtAnswer(d))
    BY <1>2, <1>3
  <2> QED BY <1>1, <2>2, <2>3, LandKeeps
<1>7. /\ FtStored'
      /\ \A j \in DOMAIN ftDocs' \ {k} : j \in DOMAIN ftDocs /\ ftDocs'[j] = ftDocs[j]
  <2>1. CASE UNCHANGED ftDocs
    BY <1>1, <2>1 DEF FtStored, FtStores
  <2>2. ASSUME NEW ttl \in CacheLifetime(header), PutCache(k, d, ttl)
        PROVE  /\ FtStored'
               /\ \A j \in DOMAIN ftDocs' \ {k} : j \in DOMAIN ftDocs /\ ftDocs'[j] = ftDocs[j]
    <3>1. ttl \in Nat /\ ttl <= CacheTTL
      BY <2>2, LifetimeBounded
    <3> QED BY <1>1, <1>4, <1>5, <2>2, <3>1, PutCacheKeeps
  <2> QED BY <1>2, <1>3, <2>1, <2>2
<1>8. FtBarred'
  BY <1>1 DEF FtBarred
<1>9. NoRedundantOutbound'
  BY <1>1, <1>6, <1>7, OutboundStays
<1> QED BY <1>6, <1>7, <1>8, <1>9 DEF FtInv

\* Time passes; what has expired stays so.
LEMMA FetchTickKeeps ==
  ASSUME FtInv, FtTick
  PROVE  FtInv'
<1>1. /\ FtCalling /\ FtTold /\ FtFlown /\ FtStored /\ FtBarred /\ NoRedundantOutbound
      /\ ftNow' = ftNow + 1 /\ ftNow < FtLast
      /\ UNCHANGED <<ftIn, ftAt, ftGot, ftFlights, ftDocs, ftFails, ftContact>>
  BY DEF FtInv, FtTick
<1>2. FtStored' /\ FtBarred' /\ FtTold'
  BY <1>1 DEF FtStored, FtStores, FtBarred, FtTold
<1>3. FtCalling'
  BY <1>1, FtAssumption DEF FtCalling
<1>4. FtFlown'
  BY <1>1 DEF FtFlown, KeyOf
<1>5. NoRedundantOutbound'
  <2>1. ftNow \in Nat /\ NegativeCacheTTL \in Nat
    BY <1>1, FtAssumption DEF FtCalling
  <2>2. \A j \in DOMAIN ftDocs : ftDocs[j].exp \in Nat
    BY <1>1 DEF FtStored, FtStores
  <2>3. \A j \in DOMAIN ftFails : ftFails[j] \in Nat
    BY <1>1, <2>1 DEF FtBarred
  <2> QED BY <1>1, <2>1, <2>2, <2>3 DEF NoRedundantOutbound, GetCached, GetCachedFailure
<1> QED BY <1>2, <1>3, <1>4, <1>5 DEF FtInv

\* The fetcher begins without flights and with empty caches.
LEMMA FetchInit ==
  ASSUME FtInit, ftIn \in FtAsks
  PROVE  FtInv
<1>1. /\ ftNow = 0 /\ ftAt = [c \in FtCalls |-> "idle"] /\ ftGot = [c \in FtCalls |-> FtNothing]
      /\ DOMAIN ftFlights = {} /\ DOMAIN ftDocs = {} /\ DOMAIN ftFails = {}
      /\ ftFlights = <<>>
  BY DEF FtInit
<1>2. ftNow \in 0..FtLast /\ MaxCacheEntries \in Nat
  BY <1>1, FtAssumption
<1>3. FtCalling /\ FtTold
  BY <1>1, <1>2 DEF FtCalling, FtTold
<1>4. FtFlown /\ NoRedundantOutbound
  BY <1>1 DEF FtFlown, NoRedundantOutbound
<1>5. FtStored /\ FtBarred
  BY <1>1, <1>2, FS_EmptySet DEF FtStored, FtBarred
<1> QED BY <1>3, <1>4, <1>5 DEF FtInv

\* The step of a flight.
LEMMA FlightKeeps ==
  ASSUME FtInv, NEW k \in DOMAIN ftFlights, FlightStep(k)
  PROVE  FtInv'
  BY RecheckKeeps, AcquireKeeps, ShedKeeps, FailureKeeps, SuccessKeeps DEF FlightStep

\* A step that is not the fetcher's.
LEMMA FetcherRests ==
  ASSUME FtInv, UNCHANGED ftVars
  PROVE  FtInv'
<1>1. FtCalling' /\ FtTold' /\ FtFlown'
  BY DEF FtInv, ftVars, FtCalling, FtTold, FtFlown, KeyOf
<1>2. FtStored' /\ FtBarred'
  BY DEF FtInv, ftVars, FtStored, FtStores, FtBarred
<1>3. NoRedundantOutbound'
  BY DEF FtInv, ftVars, NoRedundantOutbound, GetCached, GetCachedFailure
<1> QED BY <1>1, <1>2, <1>3 DEF FtInv

\* The invariant says what a fetched document promises.
LEMMA FetchInvSound ==
  ASSUME FtInv
  PROVE  DocumentCacheSound
<1>1. FtTypeOK
  <2>1. \A c \in FtCalls : (ftGot[c] # FtNothing) <=> (ftAt[c] = "answered")
    <3>1. FtNothing.kind = "none"
      BY DEF FtNothing
    <3> QED BY <3>1 DEF FtInv, FtTold, FtFits
  <2>2. \A k \in DOMAIN ftFlights :
          ftFlights[k].waiters \subseteq {c \in FtCalls : ftAt[c] = "waiting"}
    BY DEF FtInv, FtFlown, FtFlight
  <2> QED BY <2>1, <2>2 DEF FtInv, FtCalling, FtFlown, FtStored, FtBarred, FtTypeOK
<1>2. FilteredAnswersWereFiltered /\ ServedWhileFresh
  <2>1. FtNothing.kind = "none"
    BY DEF FtNothing
  <2> QED BY <2>1 DEF FtInv, FtTold, FtFits, FilteredAnswersWereFiltered, ServedWhileFresh
<1>3. SuppressionIsEarned /\ NoRedundantOutbound
  BY DEF FtInv, FtBarred, SuppressionIsEarned
<1> QED BY <1>1, <1>2, <1>3 DEF DocumentCacheSound

\* DocumentFetcher.Fetch: for any number of calls, URLs and cache entries, a call is
\* answered for its own URL and under its own address policy, within the operator's
\* ceiling; no request goes out while an answer stands, the caches stay within their
\* bounds, and only a contact with the target itself suppresses one.
THEOREM DocumentCacheStaysSound == FtSpec => []DocumentCacheSound
<1>1. FtInit /\ ftIn \in FtAsks => FtInv
  BY FetchInit
<1>2. FtInv /\ [FtNext]_ftVars => FtInv'
  BY FetchKeeps, DoChanKeeps, LeaveKeeps, FlightKeeps, FetchTickKeeps, FetcherRests DEF FtNext
<1>3. FtInv => DocumentCacheSound
  BY FetchInvSound
<1> QED BY <1>1, <1>2, <1>3, PTL DEF FtSpec

-----------------------------------------------------------------------------
(* ClientRegistration: DCRService, CIMDService, DCRModeProvider *)

\* What a client may ask for.
CrGrants == (UNION {s.grants : s \in CrShapes \cup FtBodies})
            \cup {"authorization_code", "refresh_token", "client_credentials"}
CrURIs == UNION {s.uris : s \in CrShapes \cup FtBodies}

\* Rows of the clients table.
CrRows == [src : {"dcr", "cimd"}, grants : SUBSET CrGrants, uris : SUBSET CrURIs,
           secret : BOOLEAN, scope : {"", "default", "operator"}, version : Nat,
           by : CrRequests, op : BOOLEAN]

\* The requests that are under way.
CrBusy == {"verify", "fetch", "create", "update", "patch", "apply"}

\* The requests, the mode and the history have their types.
CrTyped ==
  /\ crAt \in [CrRequests -> CrBusy \cup {"idle", "done", "refused"}]
  /\ DOMAIN crIn = CrRequests
  /\ crSaw \in [CrRequests -> SUBSET DcrModes]
  /\ dcrMode \in DcrModes /\ dcrSaved \in DcrModes \cup {""} /\ dcrRaced \in BOOLEAN

\* A mode that was in force since r began admits these redirect URIs.
CrAdmits(r, uris) == \E m \in crSaw[r] : EnforceMode(m, uris)

\* A row that may stand under id.
CrGood(id, cli) ==
  /\ cli \in CrRows
  /\ cli.grants \cap ValidGrantTypes \subseteq EnabledGrants
  /\ cli.uris \cap BadURIs = {}
  /\ (cli.src = "cimd") <=> (id \in FtURLs)

\* The table: a row is acceptable, and the registration that wrote it has begun.
CrTable ==
  /\ DOMAIN crClients \subseteq CrDcr \cup FtURLs
  /\ \A id \in DOMAIN crClients :
       LET cli == crClients[id] IN
       /\ CrGood(id, cli)
       /\ ~cli.op => /\ crAt[cli.by] # "idle" /\ CrAdmits(cli.by, cli.uris)
                     /\ ~IsDelegatedOnly(cli.grants) => cli.scope = ""

\* What a request carries to its next call.
CrCarries(r) ==
  /\ r \in FtCalls \cup CrDcr /\ crAt[r] \in CrBusy => dcrMode \in crSaw[r]
  /\ r \in CrDcr /\ crAt[r] = "create" =>
       /\ crIn[r].grants \subseteq CrGrants /\ crIn[r].uris \subseteq CrURIs
       /\ ValidateCreateParams(crIn[r]) /\ CrAdmits(r, crIn[r].uris)
  /\ r \in FtCalls /\ crAt[r] = "fetch" =>
       crIn[r].mode \in crSaw[r] /\ crIn[r].mode # "admin_only"
  /\ r \in FtCalls /\ crAt[r] \in {"create", "update"} =>
       /\ crIn[r].body \in FtBodies /\ GrantTypesEnabled(crIn[r].body.grants)
       /\ CrAdmits(r, crIn[r].body.uris)
  /\ r \in FtCalls /\ crAt[r] = "update" =>
       crIn[r].row \in CrRows /\ crIn[r].row.src = "cimd"
  /\ r \in CrAdmins /\ crAt[r] = "patch" => CrGood(crIn[r].id, crIn[r].row)
  /\ r \in CrAdmins /\ crAt[r] = "apply" => crIn[r].mode \in DcrModes

CrCarried == \A r \in CrRequests : CrCarries(r)

\* Unless changes of the mode overlapped, the one under way, if there is one, has the
\* saved mode, and without one the mode is the saved one.
CrModes ==
  ~dcrRaced =>
    /\ \A a \in ModeWriters : crIn[a].mode = dcrSaved /\ \A b \in ModeWriters : a = b
    /\ ModeWriters = {} => dcrMode = RestoredMode(dcrSaved)

\* The inductive invariant of registration.
CrInv == FtInv /\ CrTyped /\ CrTable /\ CrCarried /\ CrModes

\* What no step takes back: a request that has begun, and the modes it has seen.
CrFrame ==
  \A q \in CrRequests : crAt[q] # "idle" => crAt'[q] # "idle" /\ crSaw[q] \subseteq crSaw'[q]


\* Every step of registration keeps the fetcher sound, a restart with its memory lost
\* too.
LEMMA RegistrationFetches ==
    ASSUME CrInv, [CrNext]_crVars
    PROVE  FtInv'
<1>1. ASSUME NEW r \in CrDcr, RegisterClient(r) PROVE FtInv'
  BY <1>1, FetcherRests DEF CrInv, RegisterClient
<1>2. ASSUME NEW r \in CrDcr, RegisterCreate(r) PROVE FtInv'
  BY <1>2, FetcherRests DEF CrInv, RegisterCreate
<1>3. ASSUME NEW c \in FtCalls, LookupClient(c) PROVE FtInv'
  BY <1>3, FetcherRests DEF CrInv, LookupClient
<1>4. ASSUME NEW c \in FtCalls, VerifyCIMD(c) PROVE FtInv'
  BY <1>4, FetcherRests DEF CrInv, VerifyCIMD
<1>5. ASSUME NEW c \in FtCalls, FetchForCIMD(c) PROVE FtInv'
  BY <1>5, FetchKeeps, DoChanKeeps, LeaveKeeps DEF CrInv, FetchForCIMD
<1>6. ASSUME NEW c \in FtCalls, CheckDocument(c) PROVE FtInv'
  BY <1>6, FetcherRests DEF CrInv, CheckDocument
<1>7. ASSUME NEW c \in FtCalls, CreateFromDocument(c) PROVE FtInv'
  BY <1>7, FetcherRests DEF CrInv, CreateFromDocument
<1>8. ASSUME NEW c \in FtCalls, UpdateFromDocument(c) PROVE FtInv'
  BY <1>8, FetcherRests DEF CrInv, UpdateFromDocument
<1>9. ASSUME NEW a \in CrAdmins, PatchClient(a) PROVE FtInv'
  BY <1>9, FetcherRests DEF CrInv, PatchClient
<1>10. ASSUME NEW a \in CrAdmins, PatchClientWrite(a) PROVE FtInv'
  BY <1>10, FetcherRests DEF CrInv, PatchClientWrite
<1>11. ASSUME NEW a \in CrAdmins, UpdateDCRSettings(a) PROVE FtInv'
  BY <1>11, FetcherRests DEF CrInv, UpdateDCRSettings
<1>12. ASSUME NEW a \in CrAdmins, SetMode(a) PROVE FtInv'
  BY <1>12, FetcherRests DEF CrInv, SetMode
<1>13. ASSUME NEW a \in CrAdmins, SetModeElsewhere(a) PROVE FtInv'
  BY <1>13, FetcherRests DEF CrInv, SetModeElsewhere
<1>14. ASSUME FetcherSteps PROVE FtInv'
  BY <1>14, FlightKeeps, FetchTickKeeps DEF CrInv, FetcherSteps
<1>15. ASSUME CrRestart PROVE FtInv'
  <2>1. /\ FtCalling /\ FtTold
        /\ ftNow' = ftNow /\ ftIn' = ftIn /\ ftFlights' = <<>> /\ ftDocs' = <<>> /\ ftFails' = <<>>
        /\ ftAt' = [c \in FtCalls |-> IF ftAt[c] = "answered" \/ crAt[c] = "fetch" THEN "answered"
                                      ELSE ftAt[c]]
        /\ ftGot' = [c \in FtCalls |-> IF ftAt[c] # "answered" /\ crAt[c] = "fetch"
                                       THEN FtError("cancelled") ELSE ftGot[c]]
    BY <1>15 DEF CrInv, FtInv, CrRestart
  <2>2. FtCalling'
    BY <2>1 DEF FtCalling
  <2>3. FtTold'
    <3> SUFFICES ASSUME NEW c \in FtCalls
                 PROVE  IF ftAt'[c] = "answered" THEN FtFits(ftIn'[c].url, ftIn'[c].allow, ftGot'[c])
                        ELSE ftGot'[c] = FtNothing
      BY DEF FtTold
    <3>1. FtFits(ftIn[c].url, ftIn[c].allow, FtError("cancelled"))
      BY ErrorFits
    <3> QED BY <2>1, <3>1 DEF FtTold
  <2>4. DOMAIN ftFlights' = {} /\ DOMAIN ftDocs' = {} /\ DOMAIN ftFails' = {}
    BY <2>1
  <2>5. FtFlown' /\ NoRedundantOutbound'
    BY <2>1, <2>4 DEF FtFlown, NoRedundantOutbound
  <2>6. FtStored' /\ FtBarred'
    BY <2>4, FtAssumption, FS_EmptySet DEF FtStored, FtBarred
  <2> QED BY <2>2, <2>3, <2>5, <2>6 DEF FtInv
<1>16. CASE UNCHANGED crVars
  BY <1>16, FetcherRests DEF CrInv, crVars
<1> QED BY <1>1, <1>2, <1>3, <1>4, <1>5, <1>6, <1>7, <1>8, <1>9, <1>10, <1>11, <1>12, <1>13,
       <1>14, <1>15, <1>16
        DEF CrNext

\* Every step of registration keeps the types, and takes nothing back.
LEMMA RegistrationTypes ==
    ASSUME CrTyped, CrCarried, [CrNext]_crVars
    PROVE  CrTyped' /\ CrFrame
<1>1. ASSUME NEW r \in CrDcr, RegisterClient(r) PROVE CrTyped' /\ CrFrame
  BY <1>1 DEF RegisterClient, CrTyped, CrFrame, CrMove, CrTake, CrBegin, CrBusy, CrRequests, dcrVars
<1>2. ASSUME NEW r \in CrDcr, RegisterCreate(r) PROVE CrTyped' /\ CrFrame
  BY <1>2 DEF RegisterCreate, CrTyped, CrFrame, CrMove, CrTake, CrBegin, CrBusy, CrRequests, dcrVars
<1>3. ASSUME NEW c \in FtCalls, LookupClient(c) PROVE CrTyped' /\ CrFrame
  BY <1>3 DEF LookupClient, CrTyped, CrFrame, CrMove, CrTake, CrBegin, CrBusy, CrRequests, dcrVars
<1>4. ASSUME NEW c \in FtCalls, VerifyCIMD(c) PROVE CrTyped' /\ CrFrame
  BY <1>4 DEF VerifyCIMD, CrTyped, CrFrame, CrMove, CrTake, CrBegin, CrBusy, CrRequests, dcrVars
<1>5. ASSUME NEW c \in FtCalls, FetchForCIMD(c) PROVE CrTyped' /\ CrFrame
  BY <1>5
     DEF FetchForCIMD, regVars, CrTyped, CrFrame, CrMove, CrTake, CrBegin, CrBusy, CrRequests,
         dcrVars
<1>6. ASSUME NEW c \in FtCalls, CheckDocument(c) PROVE CrTyped' /\ CrFrame
  BY <1>6 DEF CheckDocument, CrTyped, CrFrame, CrMove, CrTake, CrBegin, CrBusy, CrRequests, dcrVars
<1>7. ASSUME NEW c \in FtCalls, CreateFromDocument(c) PROVE CrTyped' /\ CrFrame
  BY <1>7
     DEF CreateFromDocument, CrTyped, CrFrame, CrMove, CrTake, CrBegin, CrBusy, CrRequests, dcrVars
<1>8. ASSUME NEW c \in FtCalls, UpdateFromDocument(c) PROVE CrTyped' /\ CrFrame
  BY <1>8
     DEF UpdateFromDocument, CrTyped, CrFrame, CrMove, CrTake, CrBegin, CrBusy, CrRequests, dcrVars
<1>9. ASSUME NEW a \in CrAdmins, PatchClient(a) PROVE CrTyped' /\ CrFrame
  BY <1>9 DEF PatchClient, CrTyped, CrFrame, CrMove, CrTake, CrBegin, CrBusy, CrRequests, dcrVars
<1>10. ASSUME NEW a \in CrAdmins, PatchClientWrite(a) PROVE CrTyped' /\ CrFrame
  BY <1>10
     DEF PatchClientWrite, CrTyped, CrFrame, CrMove, CrTake, CrBegin, CrBusy, CrRequests, dcrVars
<1>11. ASSUME NEW a \in CrAdmins, UpdateDCRSettings(a) PROVE CrTyped' /\ CrFrame
  BY <1>11
     DEF UpdateDCRSettings, SaveMode, CrTyped, CrFrame, CrMove, CrTake, CrBegin, CrBusy, CrRequests,
         dcrVars
<1>12. ASSUME NEW a \in CrAdmins, SetMode(a) PROVE CrTyped' /\ CrFrame
  <2>1. crIn[a].mode \in DcrModes
    BY <1>12 DEF SetMode, CrCarried, CrCarries, CrRequests
  <2> QED BY <1>12, <2>1
     DEF SetMode, CrTyped, CrFrame, CrMove, CrTake, CrBegin, CrBusy, CrRequests, dcrVars
<1>13. ASSUME NEW a \in CrAdmins, SetModeElsewhere(a) PROVE CrTyped' /\ CrFrame
  BY <1>13
     DEF SetModeElsewhere, CrTyped, CrFrame, CrMove, CrTake, CrBegin, CrBusy, CrRequests, dcrVars
<1>14. ASSUME FetcherSteps PROVE CrTyped' /\ CrFrame
  BY <1>14
     DEF FetcherSteps, regVars, CrTyped, CrFrame, CrMove, CrTake, CrBegin, CrBusy, CrRequests,
         dcrVars
<1>15. ASSUME CrRestart PROVE CrTyped' /\ CrFrame
  BY <1>15, CrAssumption
     DEF CrRestart, RestoreMode, RestoredMode, CrTyped, CrFrame, CrMove, CrTake, CrBegin, CrBusy,
         CrRequests, dcrVars
<1>16. CASE UNCHANGED crVars
  BY <1>16 DEF crVars, regVars, CrTyped, CrFrame
<1> QED BY <1>1, <1>2, <1>3, <1>4, <1>5, <1>6, <1>7, <1>8, <1>9, <1>10, <1>11, <1>12, <1>13,
       <1>14, <1>15, <1>16
        DEF CrNext

\* A request that did not move carries what it did.
LEMMA CarriesStays ==
  ASSUME CrTyped, NEW q \in CrRequests, CrCarries(q), crAt'[q] = crAt[q], crIn'[q] = crIn[q],
         crSaw[q] \subseteq crSaw'[q],
         dcrMode' = dcrMode \/ (crAt[q] \in CrBusy => dcrMode' \in crSaw'[q])
  PROVE  CrCarries(q)'
<1>1. \A uris : CrAdmits(q, uris) => \E m \in crSaw'[q] : EnforceMode(m, uris)
  BY DEF CrAdmits
<1>2. \A uris : (\E m \in crSaw'[q] : EnforceMode(m, uris)) <=> CrAdmits(q, uris)'
  BY DEF CrAdmits
<1> HIDE DEF CrAdmits
<1> QED BY <1>1, <1>2 DEF CrCarries

\* A table that is not written stays sound.
LEMMA TableStays ==
  ASSUME CrTyped, CrTable, CrFrame, crClients' = crClients
  PROVE  CrTable'
<1>1. ASSUME NEW id \in DOMAIN crClients, ~crClients[id].op
      PROVE  /\ crAt'[crClients[id].by] # "idle" /\ CrAdmits(crClients[id].by, crClients[id].uris)'
             /\ ~IsDelegatedOnly(crClients[id].grants) => crClients[id].scope = ""
  <2>1. crClients[id].by \in CrRequests
    BY <1>1 DEF CrTable, CrGood, CrRows
  <2> QED BY <1>1, <2>1 DEF CrTable, CrFrame, CrAdmits
<1> QED BY <1>1 DEF CrTable

\* A table with one more acceptable row is sound.
LEMMA TableGrows ==
  ASSUME CrTyped, CrTable, CrFrame, NEW id \in CrDcr \cup FtURLs, NEW cli,
         DOMAIN crClients' = DOMAIN crClients \cup {id}, crClients'[id] = cli,
         \A x \in DOMAIN crClients \ {id} : crClients'[x] = crClients[x],
         CrGood(id, cli),
         ~cli.op => /\ crAt'[cli.by] # "idle"
                    /\ \E m \in crSaw'[cli.by] : EnforceMode(m, cli.uris)
                    /\ ~IsDelegatedOnly(cli.grants) => cli.scope = ""
  PROVE  CrTable'
<1>1. ASSUME NEW x \in DOMAIN crClients \ {id}, ~crClients[x].op
      PROVE  /\ crAt'[crClients[x].by] # "idle" /\ CrAdmits(crClients[x].by, crClients[x].uris)'
             /\ ~IsDelegatedOnly(crClients[x].grants) => crClients[x].scope = ""
  <2>1. crClients[x].by \in CrRequests
    BY <1>1 DEF CrTable, CrGood, CrRows
  <2> QED BY <1>1, <2>1 DEF CrTable, CrFrame, CrAdmits
<1>2. ~cli.op => CrAdmits(cli.by, cli.uris)'
  BY DEF CrAdmits
<1> QED BY <1>1, <1>2 DEF CrTable

\* What a row of the table holds.
LEMMA RowFields ==
  ASSUME NEW cli \in CrRows
  PROVE  /\ cli.secret \in BOOLEAN /\ cli.version \in Nat /\ cli.version + 1 \in Nat
         /\ cli.scope \in {"", "default", "operator"} /\ cli.by \in CrRequests
         /\ cli.grants \subseteq CrGrants /\ cli.uris \subseteq CrURIs
         /\ cli.src \in {"dcr", "cimd"}
<1>1. /\ cli.secret \in BOOLEAN /\ cli.version \in Nat
      /\ cli.scope \in {"", "default", "operator"} /\ cli.by \in CrRequests
  BY DEF CrRows
<1>2. /\ cli.grants \in SUBSET CrGrants /\ cli.uris \in SUBSET CrURIs
      /\ cli.src \in {"dcr", "cimd"}
  BY DEF CrRows
<1>3. \A n \in Nat : n + 1 \in Nat
  OBVIOUS
<1> QED BY <1>1, <1>2, <1>3

\* A document stays within what clients may ask for.
LEMMA BodyType ==
  ASSUME NEW b \in FtBodies
  PROVE  b.grants \subseteq CrGrants /\ b.uris \subseteq CrURIs
  BY DEF CrGrants, CrURIs

\* Every row of the table is acceptable, whatever wrote it last.
LEMMA TableKeeps ==
    ASSUME CrInv, CrTyped, CrTable, CrCarried, CrFrame, [CrNext]_crVars
    PROVE  CrTable'
<1>1. ASSUME NEW r \in CrDcr, RegisterClient(r) PROVE CrTable'
  BY <1>1, TableStays DEF RegisterClient
<1>2. ASSUME NEW r \in CrDcr, RegisterCreate(r) PROVE CrTable'
  <2>1. PICK p : p = crIn[r]
    OBVIOUS
  <2>2. PICK scope : scope = DefaultScope(p.grants)
    OBVIOUS
  <2>3. PICK cli : cli = CrRow(r, "dcr", p, scope, 1)
    OBVIOUS
  <2>4. /\ crAt[r] = "create" /\ r \in CrRequests /\ ClientCreate(r, cli)
        /\ crAt'[r] = "done" /\ crSaw' = crSaw
    BY <1>2, <2>1, <2>2, <2>3 DEF RegisterCreate, CrMove, CrTyped, CrRequests
  <2>5. /\ p.grants \subseteq CrGrants /\ p.uris \subseteq CrURIs
        /\ ValidateCreateParams(p) /\ \E m \in crSaw[r] : EnforceMode(m, p.uris)
    BY <2>1, <2>4 DEF CrCarried, CrCarries, CrAdmits
  <2>6. scope \in {"", "default", "operator"} /\ (~IsDelegatedOnly(p.grants) => scope = "")
    BY <2>2 DEF DefaultScope
  <2>7. /\ cli \in CrRows /\ cli.grants = p.grants /\ cli.uris = p.uris
        /\ cli.src = "dcr" /\ cli.by = r /\ cli.op = FALSE /\ cli.scope = scope
    <3>1. p.grants \in SUBSET CrGrants /\ p.uris \in SUBSET CrURIs
      BY <2>5
    <3> QED BY ONLY <2>3, <2>4, <2>6, <3>1 DEF CrRow, CrRows
  <2>8. /\ DOMAIN crClients' = DOMAIN crClients \cup {r} /\ crClients'[r] = cli
        /\ \A x \in DOMAIN crClients \ {r} : crClients'[x] = crClients[x]
    BY <2>4 DEF ClientCreate, FtPut
  <2>9. CrGood(r, cli)
    BY <2>5, <2>7, CrNamesAssumption DEF CrGood, ValidateCreateParams, GrantTypesEnabled
  <2> QED BY <2>4, <2>5, <2>6, <2>7, <2>8, <2>9, TableGrows
<1>3. ASSUME NEW c \in FtCalls, LookupClient(c) PROVE CrTable'
  BY <1>3, TableStays DEF LookupClient
<1>4. ASSUME NEW c \in FtCalls, VerifyCIMD(c) PROVE CrTable'
  BY <1>4, TableStays DEF VerifyCIMD
<1>5. ASSUME NEW c \in FtCalls, FetchForCIMD(c) PROVE CrTable'
  BY <1>5, TableStays DEF FetchForCIMD, regVars
<1>6. ASSUME NEW c \in FtCalls, CheckDocument(c) PROVE CrTable'
  BY <1>6, TableStays DEF CheckDocument
<1>7. ASSUME NEW c \in FtCalls, CreateFromDocument(c) PROVE CrTable'
  <2>1. CASE UNCHANGED crClients
    BY <2>1, TableStays
  <2>2. CASE ~UNCHANGED crClients
    <3>1. PICK p : p = crIn[c].body
      OBVIOUS
    <3>2. PICK scope : scope = DefaultScope(p.grants)
      OBVIOUS
    <3>3. PICK cli : cli = [CrRow(c, "cimd", p, scope, 1) EXCEPT !.secret = FALSE]
      OBVIOUS
    <3>4. PICK u : u = ftIn[c].url
      OBVIOUS
    <3>5. /\ crAt[c] = "create" /\ c \in CrRequests /\ u \in FtURLs
          /\ ClientCreate(u, cli) /\ crAt'[c] = "done" /\ crSaw' = crSaw
      <4>1. u \in FtURLs
        BY <3>4 DEF CrInv, FtInv, FtCalling, FtAsks
      <4> QED BY <1>7, <2>2, <3>1, <3>2, <3>3, <3>4, <4>1
              DEF CreateFromDocument, CrMove, CrTyped, CrRequests
    <3>6. /\ p \in FtBodies /\ GrantTypesEnabled(p.grants)
          /\ \E m \in crSaw[c] : EnforceMode(m, p.uris)
      BY <3>1, <3>5 DEF CrCarried, CrCarries, CrAdmits
    <3>7. scope \in {"", "default", "operator"} /\ (~IsDelegatedOnly(p.grants) => scope = "")
      BY <3>2 DEF DefaultScope
    <3>8. /\ cli \in CrRows /\ cli.grants = p.grants /\ cli.uris = p.uris
          /\ cli.src = "cimd" /\ cli.by = c /\ cli.op = FALSE /\ cli.scope = scope
      <4>1. p.grants \in SUBSET CrGrants /\ p.uris \in SUBSET CrURIs
        BY <3>6, BodyType
      <4> QED BY ONLY <3>3, <3>5, <3>7, <4>1 DEF CrRow, CrRows
    <3>9. /\ DOMAIN crClients' = DOMAIN crClients \cup {u} /\ crClients'[u] = cli
          /\ \A x \in DOMAIN crClients \ {u} : crClients'[x] = crClients[x]
      BY <3>5 DEF ClientCreate, FtPut
    <3>10. CrGood(u, cli)
      BY <3>5, <3>6, <3>8, CrBodiesAssumption DEF CrGood, GrantTypesEnabled
    <3> QED BY <3>5, <3>6, <3>7, <3>8, <3>9, <3>10, TableGrows
  <2> QED BY <2>1, <2>2
<1>8. ASSUME NEW c \in FtCalls, UpdateFromDocument(c) PROVE CrTable'
  <2>1. CASE UNCHANGED crClients
    BY <2>1, TableStays
  <2>2. CASE ~UNCHANGED crClients
    <3>1. PICK p : p = crIn[c].body
      OBVIOUS
    <3>2. PICK old : old = crIn[c].row
      OBVIOUS
    <3>3. PICK scope : scope = RefreshedScope(old, p.grants)
      OBVIOUS
    <3>4. PICK made : made = CrRow(c, old.src, p, scope, old.version + 1)
      OBVIOUS
    <3>5. PICK cli : cli = [made EXCEPT !.secret = old.secret]
      OBVIOUS
    <3>6. PICK u : u = ftIn[c].url
      OBVIOUS
    <3>7. /\ crAt[c] = "update" /\ c \in CrRequests /\ u \in FtURLs
          /\ crAt'[c] = "done" /\ crSaw' = crSaw /\ u \in DOMAIN crClients
          /\ crClients' = [crClients EXCEPT ![u] = cli]
      <4>1. u \in FtURLs
        BY <3>6 DEF CrInv, FtInv, FtCalling, FtAsks
      <4> QED BY <1>8, <2>2, <3>1, <3>2, <3>3, <3>4, <3>5, <3>6, <4>1
              DEF UpdateFromDocument, ClientUpdate, CrMove, CrTyped, CrRequests
    <3>8. /\ p \in FtBodies /\ GrantTypesEnabled(p.grants)
          /\ (\E m \in crSaw[c] : EnforceMode(m, p.uris)) /\ old \in CrRows /\ old.src = "cimd"
      BY <3>1, <3>2, <3>7 DEF CrCarried, CrCarries, CrAdmits
    <3>9. /\ old.secret \in BOOLEAN /\ old.version \in Nat /\ old.version + 1 \in Nat
          /\ old.scope \in {"", "default", "operator"}
      BY ONLY <3>8, RowFields
    <3>10. scope \in {"", "default", "operator"} /\ (~IsDelegatedOnly(p.grants) => scope = "")
      BY <3>3, <3>9 DEF RefreshedScope
    <3>11. /\ made \in CrRows /\ made.grants = p.grants /\ made.uris = p.uris
           /\ made.src = "cimd" /\ made.by = c /\ made.op = FALSE /\ made.scope = scope
      <4>1. p.grants \in SUBSET CrGrants /\ p.uris \in SUBSET CrURIs
        BY <3>8, BodyType
      <4> QED BY ONLY <3>4, <3>7, <3>8, <3>9, <3>10, <4>1 DEF CrRow, CrRows
    <3>12. /\ cli \in CrRows /\ cli.grants = p.grants /\ cli.uris = p.uris
           /\ cli.src = "cimd" /\ cli.by = c /\ cli.op = FALSE /\ cli.scope = scope
      BY <3>5, <3>9, <3>11 DEF CrRows
    <3>13. /\ DOMAIN crClients' = DOMAIN crClients \cup {u} /\ crClients'[u] = cli
           /\ \A x \in DOMAIN crClients \ {u} : crClients'[x] = crClients[x]
      BY <3>7
    <3>14. CrGood(u, cli)
      BY <3>7, <3>8, <3>12, CrBodiesAssumption DEF CrGood, GrantTypesEnabled
    <3> QED BY <3>7, <3>8, <3>10, <3>12, <3>13, <3>14, TableGrows
  <2> QED BY <2>1, <2>2
<1>9. ASSUME NEW a \in CrAdmins, PatchClient(a) PROVE CrTable'
  BY <1>9, TableStays DEF PatchClient
<1>10. ASSUME NEW a \in CrAdmins, PatchClientWrite(a) PROVE CrTable'
  <2>1. CASE UNCHANGED crClients
    BY <2>1, TableStays
  <2>2. CASE ~UNCHANGED crClients
    <3>1. PICK id : id = crIn[a].id
      OBVIOUS
    <3>2. PICK old : old = crIn[a].row
      OBVIOUS
    <3>3. PICK cli : cli = [old EXCEPT !.version = @ + 1, !.by = a, !.op = TRUE]
      OBVIOUS
    <3>4. /\ crAt[a] = "patch" /\ a \in CrRequests /\ id \in DOMAIN crClients
          /\ crClients' = [crClients EXCEPT ![id] = cli]
      BY <1>10, <2>2, <3>1, <3>2, <3>3 DEF PatchClientWrite, ClientUpdate, CrRequests
    <3>5. CrGood(id, old) /\ id \in CrDcr \cup FtURLs
      BY <3>1, <3>2, <3>4 DEF CrCarried, CrCarries, CrTable
    <3>6. /\ DOMAIN crClients' = DOMAIN crClients \cup {id} /\ crClients'[id] = cli
          /\ \A x \in DOMAIN crClients \ {id} : crClients'[x] = crClients[x]
      BY <3>4
    <3>7. /\ cli \in CrRows /\ cli.grants = old.grants /\ cli.uris = old.uris
          /\ cli.src = old.src /\ cli.op = TRUE
      <4>1. old \in CrRows /\ old.version + 1 \in Nat
        BY ONLY <3>5, RowFields DEF CrGood
      <4> QED BY <3>3, <3>4, <4>1 DEF CrRows
    <3>8. CrGood(id, cli)
      BY <3>5, <3>7 DEF CrGood
    <3> QED BY <3>5, <3>6, <3>7, <3>8, TableGrows
  <2> QED BY <2>1, <2>2
<1>11. ASSUME NEW a \in CrAdmins, UpdateDCRSettings(a) PROVE CrTable'
  BY <1>11, TableStays DEF UpdateDCRSettings
<1>12. ASSUME NEW a \in CrAdmins, SetMode(a) PROVE CrTable'
  BY <1>12, TableStays DEF SetMode
<1>13. ASSUME NEW a \in CrAdmins, SetModeElsewhere(a) PROVE CrTable'
  BY <1>13, TableStays DEF SetModeElsewhere
<1>14. ASSUME FetcherSteps PROVE CrTable'
  BY <1>14, TableStays DEF FetcherSteps, regVars
<1>15. ASSUME CrRestart PROVE CrTable'
  BY <1>15, TableStays DEF CrRestart
<1>16. CASE UNCHANGED crVars
  BY <1>16, TableStays DEF crVars, regVars
<1> QED BY <1>1, <1>2, <1>3, <1>4, <1>5, <1>6, <1>7, <1>8, <1>9, <1>10, <1>11, <1>12, <1>13,
       <1>14, <1>15, <1>16
        DEF CrNext

\* The one request that moved carries what it must, and the others do not notice.
LEMMA OthersCarry ==
  ASSUME CrTyped, CrCarried, NEW r \in CrRequests, dcrMode' = dcrMode, CrCarries(r)',
         \A q \in CrRequests \ {r} :
           crAt'[q] = crAt[q] /\ crIn'[q] = crIn[q] /\ crSaw[q] \subseteq crSaw'[q]
  PROVE  CrCarried'
<1> SUFFICES ASSUME NEW q \in CrRequests PROVE CrCarries(q)'
  BY DEF CrCarried
<1>1. CASE q = r
  BY <1>1
<1>2. CASE q # r
  BY <1>2, CarriesStays DEF CrCarried
<1> QED BY <1>1, <1>2

\* A request that ended carries nothing on.
LEMMA EndedCarries ==
  ASSUME NEW r \in CrRequests, crAt'[r] \in {"idle", "done", "refused"}
  PROVE  CrCarries(r)'
  BY DEF CrCarries, CrBusy

\* When nothing moves, every request carries what it did.
LEMMA NoneMoves ==
  ASSUME CrTyped, CrCarried, UNCHANGED regVars
  PROVE  CrCarried'
<1> SUFFICES ASSUME NEW q \in CrRequests PROVE CrCarries(q)'
  BY DEF CrCarried
<1> QED BY CarriesStays DEF CrCarried, regVars

\* What a request read is what it acts on, whatever the others do meanwhile.
LEMMA CarriedKeeps ==
    ASSUME CrInv, CrTyped, CrTable, CrCarried, [CrNext]_crVars
    PROVE  CrCarried'
<1>1. ASSUME NEW r \in CrDcr, RegisterClient(r) PROVE CrCarried'
  <2>1. /\ r \in CrRequests /\ dcrMode' = dcrMode
        /\ \A q \in CrRequests \ {r} :
             crAt'[q] = crAt[q] /\ crIn'[q] = crIn[q] /\ crSaw[q] \subseteq crSaw'[q]
    BY <1>1 DEF RegisterClient, CrMove, CrTake, CrBegin, CrTyped, CrRequests, dcrVars
  <2>2. ASSUME crAt'[r] \in {"done", "refused"} PROVE CrCarries(r)'
    BY <2>1, <2>2, EndedCarries
  <2>3. ASSUME crAt'[r] \notin {"done", "refused"} PROVE CrCarries(r)'
    <3>1. PICK shape \in CrShapes :
            /\ EnforceMode(dcrMode, Defaults(shape).uris) /\ ValidateCreateParams(Defaults(shape))
            /\ CrTake(r, Defaults(shape)) /\ CrMove(r, "create") /\ CrBegin(r)
      BY <1>1, <2>1, <2>3 DEF RegisterClient, CrMove, CrTyped
    <3>2. /\ crAt'[r] = "create" /\ crIn'[r] = Defaults(shape) /\ crSaw'[r] = {dcrMode}
      BY <2>1, <3>1 DEF CrTake, CrMove, CrBegin, CrTyped
    <3>3. Defaults(shape).grants \subseteq CrGrants /\ Defaults(shape).uris \subseteq CrURIs
      <4>1. shape.grants \subseteq CrGrants /\ shape.uris \subseteq CrURIs
        BY DEF CrGrants, CrURIs
      <4>2. {"authorization_code", "refresh_token"} \subseteq CrGrants
        BY DEF CrGrants
      <4> QED BY <4>1, <4>2 DEF Defaults
    <3>4. PICK p : p = Defaults(shape)
      OBVIOUS
    <3>5. /\ crIn'[r] = p /\ p.grants \subseteq CrGrants /\ p.uris \subseteq CrURIs
          /\ ValidateCreateParams(p) /\ EnforceMode(dcrMode, p.uris)
      BY <3>1, <3>2, <3>3, <3>4
    <3>6. \E m \in crSaw'[r] : EnforceMode(m, crIn'[r].uris)
      BY <3>2, <3>5
    <3>7. CrAdmits(r, crIn[r].uris)'
      BY <3>6 DEF CrAdmits
    <3>8. ValidateCreateParams(crIn[r])'
      BY <3>5 DEF ValidateCreateParams, RequiresRedirectURI, GrantTypesEnabled
    <3> QED BY <2>1, <3>2, <3>5, <3>7, <3>8, CrNamesAssumption DEF CrCarries
  <2>4. CrCarries(r)'
    BY <2>2, <2>3
  <2> QED BY <2>1, <2>4, OthersCarry
<1>2. ASSUME NEW r \in CrDcr, RegisterCreate(r) PROVE CrCarried'
  <2>1. /\ r \in CrRequests /\ crAt'[r] \in {"done", "refused"} /\ dcrMode' = dcrMode
        /\ \A q \in CrRequests \ {r} :
             crAt'[q] = crAt[q] /\ crIn'[q] = crIn[q] /\ crSaw[q] \subseteq crSaw'[q]
    BY <1>2 DEF RegisterCreate, CrMove, CrTake, CrBegin, CrTyped, CrRequests, dcrVars
  <2> QED BY <2>1, EndedCarries, OthersCarry
<1>3. ASSUME NEW c \in FtCalls, LookupClient(c) PROVE CrCarried'
  <2>1. /\ c \in CrRequests /\ dcrMode' = dcrMode
        /\ \A q \in CrRequests \ {c} :
             crAt'[q] = crAt[q] /\ crIn'[q] = crIn[q] /\ crSaw[q] \subseteq crSaw'[q]
    BY <1>3 DEF LookupClient, CrMove, CrTake, CrBegin, CrTyped, CrRequests, dcrVars
  <2>2. ASSUME crAt'[c] \in {"done", "refused"} PROVE CrCarries(c)'
    BY <2>1, <2>2, EndedCarries
  <2>3. ASSUME crAt'[c] \notin {"done", "refused"} PROVE CrCarries(c)'
    <3>1. crAt'[c] = "verify" /\ crSaw'[c] = {dcrMode}
      BY <1>3, <2>1, <2>3 DEF LookupClient, CrMove, CrBegin, CrTyped
    <3> QED BY <2>1, <3>1, CrNamesAssumption DEF CrCarries
  <2>4. CrCarries(c)'
    BY <2>2, <2>3
  <2> QED BY <2>1, <2>4, OthersCarry
<1>4. ASSUME NEW c \in FtCalls, VerifyCIMD(c) PROVE CrCarried'
  <2>1. /\ c \in CrRequests /\ dcrMode' = dcrMode
        /\ \A q \in CrRequests \ {c} :
             crAt'[q] = crAt[q] /\ crIn'[q] = crIn[q] /\ crSaw[q] \subseteq crSaw'[q]
    BY <1>4 DEF VerifyCIMD, CrMove, CrTake, CrBegin, CrTyped, CrRequests, dcrVars
  <2>2. ASSUME crAt'[c] \in {"done", "refused"} PROVE CrCarries(c)'
    BY <2>1, <2>2, EndedCarries
  <2>3. ASSUME crAt'[c] \notin {"done", "refused"} PROVE CrCarries(c)'
    <3>1. /\ crAt[c] = "verify" /\ crAt'[c] = "fetch" /\ crSaw'[c] = crSaw[c]
          /\ crIn'[c] = [mode |-> dcrMode] /\ dcrMode # "admin_only"
      BY <1>4, <2>1, <2>3 DEF VerifyCIMD, CrMove, CrTake, CrTyped
    <3>2. dcrMode \in crSaw[c]
      BY <2>1, <3>1 DEF CrCarried, CrCarries, CrBusy
    <3> QED BY <2>1, <3>1, <3>2, CrNamesAssumption DEF CrCarries
  <2>4. CrCarries(c)'
    BY <2>2, <2>3
  <2> QED BY <2>1, <2>4, OthersCarry
<1>5. ASSUME NEW c \in FtCalls, FetchForCIMD(c) PROVE CrCarried'
  BY <1>5, NoneMoves DEF FetchForCIMD
<1>6. ASSUME NEW c \in FtCalls, CheckDocument(c) PROVE CrCarried'
  <2>1. /\ c \in CrRequests /\ dcrMode' = dcrMode
        /\ \A q \in CrRequests \ {c} :
             crAt'[q] = crAt[q] /\ crIn'[q] = crIn[q] /\ crSaw[q] \subseteq crSaw'[q]
    BY <1>6 DEF CheckDocument, CrMove, CrTake, CrBegin, CrTyped, CrRequests, dcrVars
  <2>2. ASSUME crAt'[c] \in {"done", "refused"} PROVE CrCarries(c)'
    BY <2>1, <2>2, EndedCarries
  <2>3. ASSUME crAt'[c] \notin {"done", "refused"} PROVE CrCarries(c)'
    <3>1. /\ crAt[c] = "fetch" /\ ftAt[c] = "answered" /\ crSaw'[c] = crSaw[c]
          /\ ftGot[c].kind = "doc" /\ DocumentAllowed(crIn[c].mode, ftGot[c].doc.body)
          /\ \/ /\ ftIn[c].url \in DOMAIN crClients /\ crAt'[c] = "update"
                /\ crIn'[c] = [body |-> ftGot[c].doc.body, row |-> crClients[ftIn[c].url]]
             \/ crAt'[c] = "create" /\ crIn'[c] = [body |-> ftGot[c].doc.body]
      BY <1>6, <2>1, <2>3 DEF CheckDocument, CrMove, CrTake, CrTyped
    <3>2. ftGot[c].doc.body \in FtBodies
      BY <3>1 DEF CrInv, FtInv, FtTold, FtFits
    <3>3. /\ dcrMode \in crSaw[c] /\ crIn[c].mode \in crSaw[c] /\ crIn[c].mode # "admin_only"
          /\ crIn[c].mode \in DcrModes
      BY <2>1, <3>1 DEF CrCarried, CrCarries, CrBusy, CrTyped
    <3>4. PICK b : b = ftGot[c].doc.body
      OBVIOUS
    <3>5. /\ crIn'[c].body = b /\ b \in FtBodies /\ GrantTypesEnabled(b.grants)
          /\ EnforceMode(crIn[c].mode, b.uris)
      BY <3>1, <3>2, <3>3, <3>4 DEF DocumentAllowed, EnforceMode, DcrModes
    <3>6. CrAdmits(c, crIn[c].body.uris)'
      BY <3>1, <3>3, <3>5 DEF CrAdmits
    <3>7. ASSUME crAt'[c] = "update"
          PROVE  crIn'[c].row \in CrRows /\ crIn'[c].row.src = "cimd"
      <4>1. ftIn[c].url \in FtURLs
        BY DEF CrInv, FtInv, FtCalling, FtAsks
      <4>2. crIn'[c].row = crClients[ftIn[c].url] /\ ftIn[c].url \in DOMAIN crClients
        BY <3>1, <3>7
      <4> QED BY <4>1, <4>2 DEF CrTable, CrGood
    <3>8. GrantTypesEnabled(crIn[c].body.grants)'
      BY <3>5 DEF GrantTypesEnabled
    <3>9. crAt'[c] \in {"create", "update"}
      BY <3>1
    <3> QED BY <2>1, <3>1, <3>3, <3>5, <3>6, <3>7, <3>8, <3>9, CrNamesAssumption DEF CrCarries
  <2>4. CrCarries(c)'
    BY <2>2, <2>3
  <2> QED BY <2>1, <2>4, OthersCarry
<1>7. ASSUME NEW c \in FtCalls, CreateFromDocument(c) PROVE CrCarried'
  <2>1. /\ c \in CrRequests /\ crAt'[c] \in {"done", "refused"} /\ dcrMode' = dcrMode
        /\ \A q \in CrRequests \ {c} :
             crAt'[q] = crAt[q] /\ crIn'[q] = crIn[q] /\ crSaw[q] \subseteq crSaw'[q]
    BY <1>7 DEF CreateFromDocument, CrMove, CrTake, CrBegin, CrTyped, CrRequests, dcrVars
  <2> QED BY <2>1, EndedCarries, OthersCarry
<1>8. ASSUME NEW c \in FtCalls, UpdateFromDocument(c) PROVE CrCarried'
  <2>1. /\ c \in CrRequests /\ crAt'[c] \in {"done", "refused"} /\ dcrMode' = dcrMode
        /\ \A q \in CrRequests \ {c} :
             crAt'[q] = crAt[q] /\ crIn'[q] = crIn[q] /\ crSaw[q] \subseteq crSaw'[q]
    BY <1>8 DEF UpdateFromDocument, CrMove, CrTake, CrBegin, CrTyped, CrRequests, dcrVars
  <2> QED BY <2>1, EndedCarries, OthersCarry
<1>9. ASSUME NEW a \in CrAdmins, PatchClient(a) PROVE CrCarried'
  <2>1. /\ a \in CrRequests /\ dcrMode' = dcrMode
        /\ \A q \in CrRequests \ {a} :
             crAt'[q] = crAt[q] /\ crIn'[q] = crIn[q] /\ crSaw[q] \subseteq crSaw'[q]
    BY <1>9 DEF PatchClient, CrMove, CrTake, CrBegin, CrTyped, CrRequests, dcrVars
  <2>2. ASSUME crAt'[a] \in {"done", "refused"} PROVE CrCarries(a)'
    BY <2>1, <2>2, EndedCarries
  <2>3. CrCarries(a)'
    <3>1. PICK id \in DOMAIN crClients :
            \E new \in {[crClients[id] EXCEPT !.scope = "operator"],
                        [crClients[id] EXCEPT !.grants = @ \cup {"client_credentials"}]} :
              ValidateCreateParams(new) /\ CrTake(a, [id |-> id, row |-> new])
      BY <1>9 DEF PatchClient
    <3>2. PICK new \in {[crClients[id] EXCEPT !.scope = "operator"],
                        [crClients[id] EXCEPT !.grants = @ \cup {"client_credentials"}]} :
            ValidateCreateParams(new) /\ CrTake(a, [id |-> id, row |-> new])
      BY <3>1
    <3>3. PICK old : old = crClients[id]
      OBVIOUS
    <3>4. CrGood(id, old)
      BY <3>3 DEF CrTable
    <3>5. new \in CrRows /\ new.src = old.src
      <4>1. old \in CrRows /\ "client_credentials" \in CrGrants
        BY <3>4 DEF CrGood, CrGrants
      <4>2. old.grants \cup {"client_credentials"} \in SUBSET CrGrants
        BY <4>1, RowFields
      <4>3. \/ new = [old EXCEPT !.scope = "operator"]
            \/ new = [old EXCEPT !.grants = old.grants \cup {"client_credentials"}]
        BY <3>2, <3>3
      <4>4. CASE new = [old EXCEPT !.scope = "operator"]
        BY <4>1, <4>4 DEF CrRows
      <4>5. CASE new = [old EXCEPT !.grants = old.grants \cup {"client_credentials"}]
        BY <4>1, <4>2, <4>5 DEF CrRows
      <4> QED BY <4>3, <4>4, <4>5
    <3>6. CrGood(id, new)
      BY <3>2, <3>4, <3>5 DEF CrGood, ValidateCreateParams, GrantTypesEnabled
    <3>7. crIn'[a] = [id |-> id, row |-> new] /\ crAt'[a] = "patch"
      BY <1>9, <2>1, <3>2 DEF PatchClient, CrTake, CrMove, CrTyped
    <3>8. CrGood(crIn[a].id, crIn[a].row)'
      BY <3>6, <3>7 DEF CrGood
    <3> QED BY <2>1, <3>7, <3>8, CrNamesAssumption DEF CrCarries
  <2>4. CrCarries(a)'
    BY <2>3
  <2> QED BY <2>1, <2>4, OthersCarry
<1>10. ASSUME NEW a \in CrAdmins, PatchClientWrite(a) PROVE CrCarried'
  <2>1. /\ a \in CrRequests /\ crAt'[a] \in {"done", "refused"} /\ dcrMode' = dcrMode
        /\ \A q \in CrRequests \ {a} :
             crAt'[q] = crAt[q] /\ crIn'[q] = crIn[q] /\ crSaw[q] \subseteq crSaw'[q]
    BY <1>10 DEF PatchClientWrite, CrMove, CrTake, CrBegin, CrTyped, CrRequests, dcrVars
  <2> QED BY <2>1, EndedCarries, OthersCarry
<1>11. ASSUME NEW a \in CrAdmins, UpdateDCRSettings(a) PROVE CrCarried'
  <2>1. /\ a \in CrRequests /\ dcrMode' = dcrMode
        /\ \A q \in CrRequests \ {a} :
             crAt'[q] = crAt[q] /\ crIn'[q] = crIn[q] /\ crSaw[q] \subseteq crSaw'[q]
    BY <1>11 DEF UpdateDCRSettings, CrMove, CrTake, CrBegin, CrTyped, CrRequests, dcrVars, SaveMode
  <2>2. ASSUME crAt'[a] \in {"done", "refused"} PROVE CrCarries(a)'
    BY <2>1, <2>2, EndedCarries
  <2>3. ASSUME crAt'[a] \notin {"done", "refused"} PROVE CrCarries(a)'
    <3>1. PICK m \in DcrModes : crAt'[a] = "apply" /\ crIn'[a] = [mode |-> m]
      BY <1>11, <2>1, <2>3 DEF UpdateDCRSettings, SaveMode, CrMove, CrTake, CrTyped
    <3> QED BY <2>1, <3>1, CrNamesAssumption DEF CrCarries
  <2>4. CrCarries(a)'
    BY <2>2, <2>3
  <2> QED BY <2>1, <2>4, OthersCarry
<1>12. ASSUME NEW a \in CrAdmins, SetMode(a) PROVE CrCarried'
  <2>1. /\ a \in CrRequests /\ crAt'[a] = "done" /\ crIn' = crIn
        /\ \A q \in CrRequests \ {a} : crAt'[q] = crAt[q]
        /\ \A q \in CrRequests : crSaw[q] \subseteq crSaw'[q]
        /\ \A q \in CrRequests : crAt[q] \in CrBusy => dcrMode' \in crSaw'[q]
    BY <1>12 DEF SetMode, CrMove, CrTyped, CrRequests, CrBusy
  <2> SUFFICES ASSUME NEW q \in CrRequests PROVE CrCarries(q)'
    BY DEF CrCarried
  <2>2. CASE q = a
    BY <2>1, <2>2, EndedCarries
  <2>3. CASE q # a
    BY <2>1, <2>3, CarriesStays DEF CrCarried
  <2> QED BY <2>2, <2>3
<1>13. ASSUME NEW a \in CrAdmins, SetModeElsewhere(a) PROVE CrCarried'
  <2>1. /\ a \in CrRequests /\ crAt'[a] \in {"done", "refused"} /\ dcrMode' = dcrMode
        /\ \A q \in CrRequests \ {a} :
             crAt'[q] = crAt[q] /\ crIn'[q] = crIn[q] /\ crSaw[q] \subseteq crSaw'[q]
    BY <1>13 DEF SetModeElsewhere, CrMove, CrTake, CrBegin, CrTyped, CrRequests, dcrVars
  <2> QED BY <2>1, EndedCarries, OthersCarry
<1>14. ASSUME FetcherSteps PROVE CrCarried'
  BY <1>14, NoneMoves DEF FetcherSteps
<1>15. ASSUME CrRestart PROVE CrCarried'
  <2> SUFFICES ASSUME NEW q \in CrRequests PROVE CrCarries(q)'
    BY DEF CrCarried
  <2>1. crAt'[q] \in {"idle", "done", "refused"}
    BY <1>15 DEF CrRestart, CrTyped
  <2> QED BY <2>1, EndedCarries
<1>16. CASE UNCHANGED crVars
  BY <1>16, NoneMoves DEF crVars
<1> QED BY <1>1, <1>2, <1>3, <1>4, <1>5, <1>6, <1>7, <1>8, <1>9, <1>10, <1>11, <1>12, <1>13,
       <1>14, <1>15, <1>16
        DEF CrNext

\* No administrator begins or ends a change of the mode.
CrModesRest ==
  /\ dcrMode' = dcrMode /\ dcrSaved' = dcrSaved /\ dcrRaced' = dcrRaced
  /\ \A a \in CrAdmins : /\ (crAt'[a] = "apply") <=> (crAt[a] = "apply")
                         /\ crAt[a] = "apply" => crIn'[a] = crIn[a]

\* Steps that leave the mode, its writers and the saved row alone.
LEMMA ModesStay ==
  ASSUME CrModes, CrModesRest
  PROVE  CrModes'
<1>1. ModeWriters' = ModeWriters
  BY DEF ModeWriters, CrModesRest
<1>2. \A a \in ModeWriters : crIn'[a] = crIn[a]
  BY DEF ModeWriters, CrModesRest
<1> QED BY <1>1, <1>2 DEF CrModes, RestoredMode, CrModesRest

\* The saved mode and the mode in memory agree again when the change that is under way
\* has made its second write.
LEMMA ModesKeep ==
    ASSUME CrTyped, CrCarried, CrModes, [CrNext]_crVars
    PROVE  CrModes'
<1>1. ASSUME NEW r \in CrDcr, RegisterClient(r) PROVE CrModes'
  <2>1. CrModesRest
    BY <1>1, CrNamesAssumption
       DEF RegisterClient, CrMove, CrTake, CrTyped, CrRequests, dcrVars, CrModesRest
  <2> QED BY <2>1, ModesStay
<1>2. ASSUME NEW r \in CrDcr, RegisterCreate(r) PROVE CrModes'
  <2>1. CrModesRest
    BY <1>2, CrNamesAssumption
       DEF RegisterCreate, CrMove, CrTake, CrTyped, CrRequests, dcrVars, CrModesRest
  <2> QED BY <2>1, ModesStay
<1>3. ASSUME NEW c \in FtCalls, LookupClient(c) PROVE CrModes'
  <2>1. CrModesRest
    BY <1>3, CrNamesAssumption
       DEF LookupClient, CrMove, CrTake, CrTyped, CrRequests, dcrVars, CrModesRest
  <2> QED BY <2>1, ModesStay
<1>4. ASSUME NEW c \in FtCalls, VerifyCIMD(c) PROVE CrModes'
  <2>1. CrModesRest
    BY <1>4, CrNamesAssumption
       DEF VerifyCIMD, CrMove, CrTake, CrTyped, CrRequests, dcrVars, CrModesRest
  <2> QED BY <2>1, ModesStay
<1>5. ASSUME NEW c \in FtCalls, FetchForCIMD(c) PROVE CrModes'
  BY <1>5, ModesStay DEF FetchForCIMD, regVars, CrModesRest
<1>6. ASSUME NEW c \in FtCalls, CheckDocument(c) PROVE CrModes'
  <2>1. CrModesRest
    BY <1>6, CrNamesAssumption
       DEF CheckDocument, CrMove, CrTake, CrTyped, CrRequests, dcrVars, CrModesRest
  <2> QED BY <2>1, ModesStay
<1>7. ASSUME NEW c \in FtCalls, CreateFromDocument(c) PROVE CrModes'
  <2>1. CrModesRest
    BY <1>7, CrNamesAssumption
       DEF CreateFromDocument, CrMove, CrTake, CrTyped, CrRequests, dcrVars, CrModesRest
  <2> QED BY <2>1, ModesStay
<1>8. ASSUME NEW c \in FtCalls, UpdateFromDocument(c) PROVE CrModes'
  <2>1. CrModesRest
    BY <1>8, CrNamesAssumption
       DEF UpdateFromDocument, CrMove, CrTake, CrTyped, CrRequests, dcrVars, CrModesRest
  <2> QED BY <2>1, ModesStay
<1>9. ASSUME NEW a \in CrAdmins, PatchClient(a) PROVE CrModes'
  <2>1. CrModesRest
    BY <1>9, CrNamesAssumption
       DEF PatchClient, CrMove, CrTake, CrTyped, CrRequests, dcrVars, CrModesRest
  <2> QED BY <2>1, ModesStay
<1>10. ASSUME NEW a \in CrAdmins, PatchClientWrite(a) PROVE CrModes'
  <2>1. CrModesRest
    BY <1>10, CrNamesAssumption
       DEF PatchClientWrite, CrMove, CrTake, CrTyped, CrRequests, dcrVars, CrModesRest
  <2> QED BY <2>1, ModesStay
<1>11. ASSUME NEW a \in CrAdmins, UpdateDCRSettings(a) PROVE CrModes'
  <2>1. a \in CrRequests /\ crAt[a] = "idle" /\ dcrMode' = dcrMode
    BY <1>11 DEF UpdateDCRSettings, SaveMode, CrRequests
  <2>2. dcrRaced' = IF crAt'[a] = "apply" THEN ModeWriters # {} ELSE dcrRaced
    BY <1>11 DEF UpdateDCRSettings
  <2>3. PICK m \in DcrModes : SaveMode(a, m)
    BY <1>11 DEF UpdateDCRSettings
  <2>4. CASE dcrSaved' = m /\ CrMove(a, "apply") /\ CrTake(a, [mode |-> m])
    <3>1. crAt'[a] = "apply" /\ crIn'[a].mode = m
      BY <2>1, <2>4 DEF CrMove, CrTake, CrTyped
    <3>2. CASE ModeWriters # {}
      BY <2>2, <3>1, <3>2 DEF CrModes
    <3>3. CASE ModeWriters = {}
      <4>1. \A b \in CrAdmins : crAt[b] # "apply"
        BY <3>3 DEF ModeWriters
      <4>2. ModeWriters' = {a}
        BY <2>1, <2>4, <4>1 DEF CrMove, CrTyped, ModeWriters, CrRequests
      <4> QED BY <2>4, <3>1, <4>2 DEF CrModes
    <3> QED BY <3>2, <3>3
  <2>5. CASE CrMove(a, "refused") /\ UNCHANGED <<dcrSaved, crIn>>
    <3>1. crAt'[a] # "apply"
      BY <2>1, <2>5 DEF CrMove, CrTyped
    <3>2. CrModesRest
      BY <2>1, <2>2, <2>5, <3>1 DEF CrMove, CrTyped, CrModesRest, CrRequests
    <3> QED BY <3>2, ModesStay
  <2> QED BY <2>3, <2>4, <2>5 DEF SaveMode
<1>12. ASSUME NEW a \in CrAdmins, SetMode(a) PROVE CrModes'
  <2> SUFFICES ASSUME ~dcrRaced'
               PROVE  /\ \A b \in ModeWriters' : /\ crIn'[b].mode = dcrSaved'
                                                 /\ \A d \in ModeWriters' : b = d
                      /\ ModeWriters' = {} => dcrMode' = RestoredMode(dcrSaved')
    BY DEF CrModes, RestoredMode
  <2>1. /\ ~dcrRaced /\ a \in ModeWriters /\ crAt' = [crAt EXCEPT ![a] = "done"]
        /\ dcrMode' = crIn[a].mode /\ dcrSaved' = dcrSaved
    BY <1>12 DEF SetMode, CrMove, ModeWriters
  <2>2. crIn[a].mode = dcrSaved /\ \A b \in ModeWriters : a = b
    BY <2>1 DEF CrModes
  <2>3. ModeWriters' = {}
    <3> SUFFICES ASSUME NEW b \in CrAdmins, crAt'[b] = "apply" PROVE FALSE
      BY DEF ModeWriters
    <3>1. CASE b = a
      BY <2>1, <3>1 DEF CrTyped, CrRequests
    <3>2. CASE b # a
      BY <2>1, <2>2, <3>2 DEF CrTyped, CrRequests, ModeWriters
    <3> QED BY <3>1, <3>2
  <2>4. crIn[a].mode \in DcrModes
    BY <2>1 DEF ModeWriters, CrCarried, CrCarries, CrRequests
  <2> QED BY <2>1, <2>2, <2>3, <2>4 DEF RestoredMode
<1>13. ASSUME NEW a \in CrAdmins, SetModeElsewhere(a) PROVE CrModes'
  BY <1>13 DEF SetModeElsewhere, CrModes
<1>14. ASSUME FetcherSteps PROVE CrModes'
  BY <1>14, ModesStay DEF FetcherSteps, regVars, CrModesRest
<1>15. ASSUME CrRestart PROVE CrModes'
  <2>1. ModeWriters' = {}
    BY <1>15 DEF CrRestart, CrTyped, ModeWriters, CrRequests
  <2>2. CASE dcrMode' = RestoredMode(dcrSaved) /\ dcrRaced' = FALSE
    BY <1>15, <2>1, <2>2 DEF CrRestart, CrModes, RestoredMode
  <2>3. CASE dcrMode' = ConfigMode /\ dcrRaced' = TRUE
    BY <2>3 DEF CrModes
  <2> QED BY <1>15, <2>2, <2>3 DEF CrRestart, RestoreMode
<1>16. CASE UNCHANGED crVars
  BY <1>16, ModesStay DEF crVars, regVars, CrModesRest
<1> QED BY <1>1, <1>2, <1>3, <1>4, <1>5, <1>6, <1>7, <1>8, <1>9, <1>10, <1>11, <1>12, <1>13,
       <1>14, <1>15, <1>16
        DEF CrNext

\* A server that starts has no client, and its mode is the configured one.
LEMMA RegistrationInit ==
  ASSUME FtInit, ftIn \in FtAsks, NEW who \in SUBSET CrRequests, CrInit(who)
  PROVE  CrInv
<1>1. FtInv
  BY FetchInit
<1>2. CrTyped
  BY CrAssumption DEF CrInit, CrTyped
<1>3. CrTable
  <2>1. crClients = <<>>
    BY DEF CrInit
  <2>2. DOMAIN crClients = {}
    BY <2>1
  <2> QED BY <2>2 DEF CrTable
<1>4. CrCarried
  <2> SUFFICES ASSUME NEW q \in CrRequests PROVE CrCarries(q)
    BY DEF CrCarried
  <2>1. crAt[q] \in {"idle", "done"}
    BY DEF CrInit
  <2> QED BY <2>1 DEF CrCarries, CrBusy
<1>5. CrModes
  <2>1. ModeWriters = {}
    BY DEF CrInit, ModeWriters, CrRequests
  <2>2. dcrMode = RestoredMode(dcrSaved)
    BY CrAssumption DEF CrInit, RestoredMode, DcrModes
  <2> QED BY <2>1, <2>2 DEF CrModes
<1> QED BY <1>1, <1>2, <1>3, <1>4, <1>5 DEF CrInv

\* The invariant of registration is kept by every step.
LEMMA RegistrationKeeps ==
  ASSUME CrInv, [CrNext]_crVars
  PROVE  CrInv'
<1>1. CrTyped /\ CrTable /\ CrCarried /\ CrModes
  BY DEF CrInv
<1>2. FtInv'
  BY RegistrationFetches
<1>3. CrTyped' /\ CrFrame
  BY <1>1, RegistrationTypes
<1>4. CrTable'
  BY <1>1, <1>3, TableKeeps
<1>5. CrCarried'
  BY <1>1, CarriedKeeps
<1>6. CrModes'
  BY <1>1, ModesKeep
<1> QED BY <1>2, <1>3, <1>4, <1>5, <1>6 DEF CrInv

\* The invariant says what RegistrationSound asks.
LEMMA RegistrationInvSound ==
  ASSUME CrInv
  PROVE  RegistrationSound
<1>1. CrTyped /\ CrTable /\ CrModes
  BY DEF CrInv
<1>2. ASSUME NEW id \in DOMAIN crClients
      PROVE  /\ crClients[id].grants \cap ValidGrantTypes \subseteq EnabledGrants
             /\ crClients[id].uris \cap BadURIs = {}
             /\ (crClients[id].src = "cimd") <=> (id \in FtURLs)
             /\ crClients[id].scope \in {"", "default", "operator"}
  BY <1>1, <1>2, RowFields DEF CrTable, CrGood
<1>3. CrTypeOK
  BY <1>1, <1>2 DEF CrTypeOK, CrTyped
<1>4. AdmittedByAModeInForce /\ SelfMadeMachinesHoldNoScope
  BY <1>1 DEF CrTable, CrAdmits, AdmittedByAModeInForce, SelfMadeMachinesHoldNoScope
<1>5. ModeSurvivesRestart
  BY <1>1 DEF CrModes, ModeSurvivesRestart
<1> QED BY <1>3, <1>4, <1>5 DEF RegistrationSound

\* DCRService.RegisterClient, CIMDService.VerifyCIMD and handleUpdateDCRSettings: for any
\* number of requests that interleave with each other, with the operator and with
\* restarts, every client in the table was acceptable to a mode in force while it
\* registered, a client that made itself a machine holds no scope, and the mode in
\* memory is the one a restart restores, unless two changes overlapped, a command
\* changed the row, or the last start could not read it.  The fetcher keeps its
\* promises under them.
THEOREM RegistrationStaysSound == CrSpec => [](RegistrationSound /\ DocumentCacheSound)
<1>1. FtInit /\ ftIn \in FtAsks /\ (\E who \in SUBSET CrRequests : CrInit(who)) => CrInv
  BY RegistrationInit
<1>2. CrInv /\ [CrNext]_crVars => CrInv'
  BY RegistrationKeeps
<1>3. CrInv => RegistrationSound /\ DocumentCacheSound
  BY RegistrationInvSound, FetchInvSound DEF CrInv
<1> QED BY <1>1, <1>2, <1>3, PTL DEF CrSpec
=============================================================================
