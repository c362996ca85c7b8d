--------------------------- MODULE ExchangeProofs ---------------------------
(***************************************************************************)
(* Token exchange for the two kinds of resource, for every number of       *)
(* clients, resources, users and requests: what is minted here             *)
(* (TokenExchange, Introspection) and what is brokered from an upstream    *)
(* provider (Connections).                                                 *)
(*                                                                         *)
(* Minted tokens.  The danger is a consent that is revoked while a token   *)
(* that rests on it is being made.  TxLineages says that such a token      *)
(* descends, by parent_jti, from a row minted under the consent, so the    *)
(* cascade finds it; TxCaught says that a token the cascade came too early *)
(* for has not been handed out, and TxRestsOn that the second look of its  *)
(* request, at the subject's row and at the grant, covers every consent it *)
(* rests on.  InFails is the same argument for an introspection: what made *)
(* the token dead is one of the checks still to come.                      *)
(*                                                                         *)
(* Connections.  The invariant says what each request holds at each of its *)
(* calls.  CnFresh and CnReads carry the argument: a credential is named   *)
(* by the request that obtained it, so until that request has written it   *)
(* no row has it, and a row that a request has read is still that row or   *)
(* has the credential of a later writer.  The version in UpdateWithVersion *)
(* tells the two apart.                                                    *)
(***************************************************************************)
EXTENDS Introspection, Connections, WellFoundedInduction, NaturalsInduction, TLAPS

-----------------------------------------------------------------------------
(* TokenExchangeService, IntrospectionService *)

\* The requests that have signed nothing.
TxBlank == {"idle", "gate", "mint", "selfSave", "ccIssue", "cascade",
            "inIssuance", "inMachine", "inDenylist", "inClient", "inUser"}

\* What was handed out was signed, by the code flow or by a request that has ended.
TxHandedOut ==
    /\ \A j \in txHeld : txTok[j] # TxNone /\ (j \in TxRequests => txAt[j] = "done")
    /\ \A p \in TxRequests : txAt[p] \in TxBlank =>
          txTok[p] = TxNone /\ txIss[p] = TxNone /\ txRests[p] = {} /\ txMach[p] = "none"

\* Behind its signature a request has a token.
TxSigned ==
    \A p \in TxRequests : txAt[p] \in {"recheck", "reconsent", "undo", "ccSave"} =>
        txTok[p] # TxNone

\* The tokens of the code flow are the user's, and the only ones on the denylist.
TxRootsStand ==
    /\ txDenied \subseteq TxRoots
    /\ \A j \in TxRoots :
          /\ txMach[j] = "none" /\ txTok[j] # TxNone
          /\ txTok[j].sub = "user" /\ txTok[j].client \in TxClients

\* What a request is doing fits what it came with.
TxPhase(p) ==
    LET i == txIn[p]  t == txTok[i.subject] IN
    /\ txAt[p] = "idle" => i = NoInput
    /\ i.op \in {"exchange", "introspect"} => i.subject \in txHeld
    /\ txAt[p] \in {"gate", "mint", "recheck", "reconsent", "undo"} =>
          i.op = "exchange" /\ i.target \in TxResources
    /\ txAt[p] \in {"gate", "mint", "recheck", "reconsent", "selfSave",
                    "ccIssue", "ccSave", "cascade"} =>
          i.caller \in TxClients
    /\ txAt[p] = "cascade" => i.target \in TxResources
    /\ txAt[p] \in {"gate", "reconsent"} => i.gated
    /\ i.gated => ~i.fronted /\ i.op = "exchange"
    /\ i.fronted => i.op = "exchange" /\ t.aud \in TxResources
    /\ txAt[p] \in {"mint", "recheck", "reconsent"} /\ i.gated =>
          t.sub = "user" /\ t.client \in TxClients
    /\ txAt[p] = "mint" /\ ~i.gated /\ ~i.fronted => i.caller = t.client
    /\ txAt[p] = "selfSave" => i.op = "exchange" /\ i.target = TxNone /\ i.caller = t.client
    /\ txAt[p] \in {"ccIssue", "ccSave"} => i.op = "credentials"
    /\ txAt[p] = "ccSave" => txTok[p].sub = i.caller /\ txTok[p].client = i.caller
    /\ txAt[p] \in {"inIssuance", "inMachine", "inDenylist", "inClient", "inUser"} =>
          i.op = "introspect"

TxPhases == \A p \in TxRequests : TxPhase(p)

\* A machine token is its client's own, or the user's.  Only a fronted exchange
\* gives the token of a client another client, and that is a resource.
TxMachines ==
    \A j \in TxJtis : txTok[j] # TxNone =>
        /\ txTok[j].sub = "user" \/ txTok[j].client \in {txTok[j].sub} \cup TxResources
        /\ txMach[j] # "none" /\ txTok[j].sub # "user" => txTok[j].client = txTok[j].sub

\* The scopes i may be given.
TxNarrow(i, scope) ==
    LET t == txTok[i.subject] IN
    \A s \in scope :
        \/ s \in t.scope
        \/ /\ t.scope = {} /\ (i.gated \/ SelfExchange(i))
           /\ i.target # TxNone /\ s \in Catalog[i.target]
        \/ i.fronted /\ \E o \in t.scope : s \in txLink[<<t.aud, i.target>>][o]

\* No request asks for more, and none was given more.
TxNarrows ==
    \A p \in TxRequests : txIn[p].op = "exchange" =>
        /\ txAt[p] \in {"gate", "mint", "selfSave"} => TxNarrow(txIn[p], txIn[p].scope)
        /\ txTok[p] # TxNone => TxNarrow(txIn[p], txTok[p].scope)

\* The row a was minted under the consent k.
TxUnder(a, k) ==
    /\ txIss[a] # TxNone
    /\ txIss[a].sub = "user" /\ txIss[a].res = k[2]
    /\ \/ txIss[a].consentClient = k[1]
       \/ txIss[a].consentClient = TxNone /\ txIss[a].client = k[1]

\* A token that rests on a consent descends from a row minted under it.
TxLineages ==
    \A j \in TxJtis : \A k \in txRests[j] :
        txIss[j] # TxNone /\ \E a \in txIss[j].lineage : TxUnder(a, k)

\* The consent that p's exchange was gated by.
TxOwn(p) == <<txTok[txIn[p].subject].client, txIn[p].target>>

\* A new token rests on what its subject rests on, and on the consent of its gate.
TxRestsOn ==
    \A p \in TxRequests : txAt[p] \in {"recheck", "reconsent"} =>
        \A k \in txRests[p] : k \in txRests[txIn[p].subject] \/ (txIn[p].gated /\ k = TxOwn(p))

\* A token that rests on a consent that is gone, and is not revoked, has not been
\* handed out: its request will look again, or has refused.
TxCaught ==
    \A j \in TxJtis : \A k \in txRests[j] :
        txGrant[k] = {} /\ ~Cascading(k) /\ ~txIss[j].revoked =>
            /\ j \in TxRequests \ txHeld
            /\ \/ txAt[j] \in {"recheck", "undo", "done"}
               \/ txAt[j] = "reconsent" /\ k = TxOwn(j)

\* What makes a token dead and is looked at by the user, client, denylist and
\* machine-token checks of an introspection.
InOffUser(j) == txTok[j].sub = "user" /\ txUser = "off"
InOffClient(j) == txTok[j].client \in txOff \/ InOffUser(j)
InOnList(j) == (txMach[j] = "none" /\ j \in txDenied) \/ InOffClient(j)
InNoMachine(j) == txMach[j] = "revoked" \/ InOnList(j)

\* A token that was dead when its introspection began still fails a check to come.
InFail(p) ==
    LET j == txIn[p].subject IN
    inDead[p] /\ ~inBlind[p] =>
        /\ txAt[p] = "inIssuance" => Dead(j)
        /\ txAt[p] = "inMachine" => InNoMachine(j)
        /\ txAt[p] = "inDenylist" => InOnList(j)
        /\ txAt[p] = "inClient" => InOffClient(j)
        /\ txAt[p] = "inUser" => InOffUser(j)
        /\ inAnswer[p] # "active"

InFails == \A p \in TxRequests : InFail(p)

\* There is no answer before the end.
InQuiet == \A p \in TxRequests : txAt[p] # "done" => inAnswer[p] = "none"

\* The inductive invariant of exchange and introspection.
ExchangeInv ==
    /\ IntrospectTypeOK /\ TxHandedOut /\ TxSigned /\ TxRootsStand /\ TxPhases /\ TxMachines
    /\ TxNarrows /\ TxLineages /\ TxRestsOn /\ TxCaught
    /\ InFails /\ InQuiet


\* What no step takes back: a signed token, a row, a revocation, a suspension, and
\* what a token that was handed out rests on.
TxFrame ==
    /\ txHeld \subseteq txHeld' /\ txLink' = txLink /\ txOff \subseteq txOff'
    /\ (txUser = "off" => txUser' = "off") /\ txDenied \subseteq txDenied'
    /\ \A j \in TxJtis :
          /\ txTok[j] # TxNone => txTok'[j] = txTok[j]
          /\ j \in txHeld => txRests'[j] = txRests[j]
          /\ j \in txHeld /\ txMach[j] # "live" => txMach'[j] = txMach[j]
          /\ txIss[j] # TxNone =>
                /\ txIss'[j] # TxNone
                /\ txIss'[j].sub = txIss[j].sub /\ txIss'[j].client = txIss[j].client
                /\ txIss'[j].res = txIss[j].res
                /\ txIss'[j].consentClient = txIss[j].consentClient
                /\ txIss'[j].lineage = txIss[j].lineage
                /\ txIss[j].revoked => txIss'[j].revoked

\* A fronting link maps scopes to scopes (LinkOf).
LEMMA LinkType ==
    ASSUME ExchangeTypeOK, NEW a \in TxResources, NEW b \in TxResources, txLink[<<a, b>>] # TxNone
    PROVE  txLink[<<a, b>>] \in [TxScopes -> SUBSET TxScopes]
  BY LinksAssumption DEF ExchangeTypeOK

\* The first source of a mapped scope is a source of it (requiredSourceScopesForTargets).
LEMMA FirstSourceIsOne ==
    ASSUME NEW m \in [TxScopes -> SUBSET TxScopes], NEW s \in Mapped(m)
    PROVE  FirstSource(m, s) \in SourcesOf(m, s)
<1> DEFINE S == SourcesOf(m, s)
<1>1. S \subseteq Nat /\ S # {}
  BY TxScopesAssumption DEF SourcesOf, Mapped
<1> HIDE DEF S
<1>2. PICK v \in S : \A w \in S : ~(<<w, v>> \in OpToRel(<, Nat))
  BY <1>1, WFMin, NatLessThanWellFounded
<1>3. \A w \in S : ~(w < v)
  BY <1>1, <1>2 DEF OpToRel
<1>4. \A w \in S : v <= w
  BY <1>1, <1>3
<1> QED BY <1>2, <1>4, Zenon DEF FirstSource, S

\* What the decision to go on with an exchange has established (Exchange, dispatchMint).
LEMMA DecisionSound ==
    ASSUME ExchangeTypeOK, NEW i \in TxInput, i.op = "exchange", i.caller \in TxClients,
           i.subject \in TxJtis, txTok[i.subject] # TxNone, i.gated = FALSE, i.fronted = FALSE,
           NEW d \in Decide(i)
    PROVE  /\ d \in TxInput /\ d.op = "exchange" /\ d.caller = i.caller
           /\ d.subject = i.subject /\ d.target = i.target
           /\ d.gated => ~d.fronted /\ i.target # TxNone
           /\ d.fronted => txTok[i.subject].aud \in TxResources /\ i.target # TxNone
           /\ ~d.gated /\ ~d.fronted => i.caller = txTok[i.subject].client
           /\ TxNarrow(d, d.scope)
<1>0. PICK c \in TxClients, j \in TxJtis, r \in TxResources \cup {TxNone}, scope \in SUBSET TxScopes :
        c = i.caller /\ j = i.subject /\ r = i.target /\ scope = i.scope
  BY DEF TxInput
<1> DEFINE t == txTok[j]
<1>1. i \in TxInput /\ i.op = "exchange" /\ i.caller = c /\ i.subject = j /\ i.target = r
      /\ i.scope = scope /\ i.gated = FALSE /\ i.fronted = FALSE /\ t # TxNone
  BY <1>0
<1>2. t \in Claims /\ t.scope \subseteq TxScopes /\ Subject(i) = t /\ SourceOf(i) = t.aud
  BY <1>1 DEF ExchangeTypeOK, Claims, Subject, SourceOf
<1> HIDE DEF t
<1>3. CASE r = TxNone
  <2>1. PICK e \in SUBSET TxScopes :
          e \subseteq t.scope /\ SelfExchange(i) /\ d = [i EXCEPT !.scope = e]
    BY <1>1, <1>2, <1>3 DEF Decide, DecideSelf
  <2>2. d \in TxInput /\ d.op = "exchange" /\ d.caller = c /\ d.subject = j /\ d.target = r
        /\ d.scope = e /\ d.gated = FALSE /\ d.fronted = FALSE
    BY <2>1, <1>1 DEF TxInput
  <2>3. c = t.client
    BY <2>1, <1>1, <1>2 DEF SelfExchange
  <2> QED BY <2>1, <2>2, <2>3, <1>2, <1>3 DEF TxNarrow, t
<1>4. CASE r # TxNone /\ LinkOf(i) # TxNone
  <2>0. t.aud \in TxResources /\ r \in TxResources /\ LinkOf(i) = txLink[<<t.aud, r>>]
    BY <1>1, <1>2, <1>4 DEF LinkOf, Claims
  <2>1. LinkOf(i) \in [TxScopes -> SUBSET TxScopes]
    BY ONLY <2>0, <1>4, LinkType, ExchangeTypeOK
  <2>2. d \in DecideFronted(i)
    BY <1>1, <1>4 DEF Decide
  <2> DEFINE e == IF i.scope = {} THEN FrontedMintTargetsFor(LinkOf(i), t.scope) ELSE i.scope
  <2>3. FrontedCovered(LinkOf(i), e, t.scope)
        /\ d = [i EXCEPT !.scope = e, !.fronted = TRUE, !.actor = FALSE]
    BY <2>2, <1>2 DEF DecideFronted
  <2>4. e \in SUBSET TxScopes
    BY <1>1 DEF FrontedMintTargetsFor, Mapped, TxInput
  <2> HIDE DEF e
  <2>5. d \in TxInput /\ d.op = "exchange" /\ d.caller = c /\ d.subject = j /\ d.target = r
        /\ d.scope = e /\ d.gated = FALSE /\ d.fronted = TRUE
    BY <2>3, <2>4, <1>1 DEF TxInput
  <2>6. ASSUME NEW s \in e PROVE \E o \in t.scope : s \in LinkOf(i)[o]
    <3>1. s \in Mapped(LinkOf(i)) /\ FirstSource(LinkOf(i), s) \in t.scope
      BY <2>3, <2>6 DEF FrontedCovered, RequiredSources
    <3>2. FirstSource(LinkOf(i), s) \in SourcesOf(LinkOf(i), s)
      BY <3>1, <2>1, FirstSourceIsOne
    <3> QED BY <3>1, <3>2 DEF SourcesOf
  <2> QED BY <1>0, <2>0, <2>5, <2>6, <1>4 DEF TxNarrow, t
<1>5. CASE r # TxNone /\ LinkOf(i) = TxNone
  <2>0. r \in TxResources /\ scope \subseteq Catalog[r] /\ d \in DecideDirect(i)
    BY <1>1, <1>5 DEF Decide, ValidateAgainstCatalog
  <2>1. scope = {} \/ t.scope = {} \/ scope \subseteq t.scope
    BY <2>0, <1>1, <1>2 DEF DecideDirect, WithinSubject
  <2>2. CASE SelfExchange(i)
    <3> DEFINE e == IF scope = {} THEN SelfDefaultScopes(r, t.scope) ELSE scope
    <3>1. d = [i EXCEPT !.scope = e]
      BY <2>0, <2>2, <1>1, <1>2 DEF DecideDirect
    <3>2. e \in SUBSET TxScopes /\ e \subseteq Catalog[r]
          /\ (scope = {} => e \subseteq t.scope) /\ (scope # {} => e = scope)
      BY <2>0, <1>2 DEF SelfDefaultScopes
    <3> HIDE DEF e
    <3>3. d \in TxInput /\ d.op = "exchange" /\ d.caller = c /\ d.subject = j /\ d.target = r
          /\ d.scope = e /\ d.gated = FALSE /\ d.fronted = FALSE
      BY <3>1, <3>2, <1>1 DEF TxInput
    <3>4. c = t.client /\ SelfExchange(d)
      BY <2>2, <3>3, <1>1, <1>2 DEF SelfExchange, Subject
    <3> QED BY <1>0, <2>1, <3>2, <3>3, <3>4, <1>5 DEF TxNarrow, t
  <2>3. CASE ~SelfExchange(i)
    <3>1. d = [i EXCEPT !.gated = TRUE]
      BY <2>0, <2>3 DEF DecideDirect
    <3>2. d \in TxInput /\ d.op = "exchange" /\ d.caller = c /\ d.subject = j /\ d.target = r
          /\ d.scope = scope /\ d.gated = TRUE /\ d.fronted = FALSE
      BY <3>1, <1>1 DEF TxInput
    <3> QED BY <1>0, <2>0, <2>1, <3>2, <1>5 DEF TxNarrow, t
  <2> QED BY <2>2, <2>3
<1> QED BY <1>0, <1>3, <1>4, <1>5


\* A request arrives with its input (TxArrive).
LEMMA ArrivalTypes ==
    ASSUME ExchangeTypeOK, NEW p \in TxRequests, NEW i \in TxInput, NEW l \in TxLabels,
           TxArrive(p, i, l)
    PROVE  ExchangeTypeOK'
  BY DEF ExchangeTypeOK, TxArrive, TxGoto, txAdminVars

\* What HandleTokenExchange lets through (Exchange).
LEMMA ExchangeArrives ==
    ASSUME ExchangeTypeOK, TxHandedOut, NEW p \in TxRequests, HandleTokenExchange(p)
    PROVE  \E d \in TxInput :
             /\ d.op = "exchange" /\ d.caller \in TxClients /\ d.subject \in txHeld
             /\ d.gated => ~d.fronted /\ d.target # TxNone
             /\ d.fronted => txTok[d.subject].aud \in TxResources /\ d.target # TxNone
             /\ ~d.gated /\ ~d.fronted => d.caller = txTok[d.subject].client
             /\ TxNarrow(d, d.scope)
             /\ TxArrive(p, d, IF d.target = TxNone THEN "selfSave"
                               ELSE IF d.gated THEN "gate" ELSE "mint")
<1>1. PICK c \in TxClients, j \in txHeld, r \in TxResources \cup {TxNone},
           scope \in Asked, actor \in Actors :
           LET i == [NoInput EXCEPT !.op = "exchange", !.caller = c, !.subject = j,
                                    !.target = r, !.scope = scope, !.actor = actor]
           IN \E d \in Decide(i) :
                TxArrive(p, d, IF d.target = TxNone THEN "selfSave"
                               ELSE IF d.gated THEN "gate" ELSE "mint")
  BY Zenon DEF HandleTokenExchange
<1>2. PICK i : i = [NoInput EXCEPT !.op = "exchange", !.caller = c, !.subject = j,
                                   !.target = r, !.scope = scope, !.actor = actor]
  OBVIOUS
<1>3. i \in TxInput /\ i.op = "exchange" /\ i.caller = c /\ i.subject = j /\ i.target = r
      /\ i.scope = scope /\ i.gated = FALSE /\ i.fronted = FALSE
  BY <1>2, TxBoundsAssumption DEF NoInput, TxInput, ExchangeTypeOK
<1>4. PICK d \in Decide(i) :
         TxArrive(p, d, IF d.target = TxNone THEN "selfSave"
                        ELSE IF d.gated THEN "gate" ELSE "mint")
  BY <1>1, <1>2, Zenon
<1>5. j \in TxJtis /\ txTok[j] # TxNone /\ scope \in SUBSET TxScopes
  BY TxBoundsAssumption DEF ExchangeTypeOK, TxHandedOut
<1>6. /\ d \in TxInput /\ d.op = "exchange" /\ d.caller = c /\ d.subject = j /\ d.target = r
      /\ d.gated => ~d.fronted /\ r # TxNone
      /\ d.fronted => txTok[j].aud \in TxResources /\ r # TxNone
      /\ ~d.gated /\ ~d.fronted => c = txTok[j].client
      /\ TxNarrow(d, d.scope)
  BY <1>3, <1>4, <1>5, DecisionSound
<1> QED BY <1>4, <1>6

\* The input of a client credentials request (HandleClientCredentials).
LEMMA CredentialsArrive ==
    ASSUME NEW p \in TxRequests, HandleClientCredentials(p)
    PROVE  \E d \in TxInput : /\ d.op = "credentials" /\ d.caller \in TxClients
                              /\ d.gated = FALSE /\ d.fronted = FALSE
                              /\ TxArrive(p, d, "ccIssue")
<1>1. PICK c \in Daemons \ txOff, r \in TxResources \cup {TxNone}, scope \in Asked :
         LET catalog == IF r = TxNone THEN TxScopes ELSE Catalog[r]
             asked == IF scope = {} THEN catalog ELSE scope
         IN TxArrive(p, [NoInput EXCEPT !.op = "credentials", !.caller = c,
                                        !.target = r, !.scope = asked], "ccIssue")
  BY Zenon DEF HandleClientCredentials
<1>2. PICK asked : asked = IF scope = {} THEN IF r = TxNone THEN TxScopes ELSE Catalog[r] ELSE scope
  OBVIOUS
<1>3. asked \in SUBSET TxScopes
  BY <1>2, TxBoundsAssumption, PolicyAssumption
<1>4. PICK d : d = [NoInput EXCEPT !.op = "credentials", !.caller = c, !.target = r, !.scope = asked]
  OBVIOUS
<1>5. d \in TxInput /\ d.op = "credentials" /\ d.caller = c /\ d.gated = FALSE /\ d.fronted = FALSE
  BY <1>3, <1>4, PolicyAssumption DEF NoInput, TxInput
<1>6. TxArrive(p, d, "ccIssue")
  BY <1>1, <1>2, <1>4
<1> QED BY <1>5, <1>6, PolicyAssumption

\* The input of an introspection (IntrospectToken).
LEMMA IntrospectArrives ==
    ASSUME ExchangeTypeOK, NEW p \in TxRequests, IntrospectToken(p)
    PROVE  \E d \in TxInput :
             /\ d.op = "introspect" /\ d.subject \in txHeld /\ d.gated = FALSE /\ d.fronted = FALSE
             /\ TxArrive(p, d, "inIssuance")
             /\ inDead' = [inDead EXCEPT ![p] = Dead(d.subject)]
             /\ UNCHANGED <<inAnswer, inMachine, inBlind>>
<1>1. PICK c \in TxClients, j \in txHeld :
         /\ TxArrive(p, [NoInput EXCEPT !.op = "introspect", !.caller = c, !.subject = j],
                     "inIssuance")
         /\ inDead' = [inDead EXCEPT ![p] = Dead(j)]
         /\ UNCHANGED <<inAnswer, inMachine, inBlind>>
  BY Zenon DEF IntrospectToken
<1>2. PICK d : d = [NoInput EXCEPT !.op = "introspect", !.caller = c, !.subject = j]
  OBVIOUS
<1>3. d \in TxInput /\ d.op = "introspect" /\ d.subject = j /\ d.gated = FALSE /\ d.fronted = FALSE
  BY <1>2 DEF NoInput, TxInput, ExchangeTypeOK
<1> QED BY <1>1, <1>2, <1>3

\* The subject token of a request is a token (Exchange, Introspect).
LEMMA SubjectType ==
    ASSUME ExchangeTypeOK, TxHandedOut, TxPhases, NEW p \in TxRequests,
           txIn[p].op \in {"exchange", "introspect"}
    PROVE  /\ txIn[p].subject \in txHeld /\ txIn[p].subject \in TxJtis
           /\ txTok[txIn[p].subject] \in Claims /\ Subject(txIn[p]) = txTok[txIn[p].subject]
           /\ NewDepth(txIn[p]) \in Nat
<1>1. txIn[p].subject \in txHeld /\ txIn[p].subject \in TxJtis
  BY DEF TxPhases, TxPhase, ExchangeTypeOK
<1>2. txTok[txIn[p].subject] \in Claims /\ Subject(txIn[p]) = txTok[txIn[p].subject]
  BY <1>1 DEF ExchangeTypeOK, TxHandedOut, Subject
<1>3. NewDepth(txIn[p]) \in Nat
  <2>1. PICK n \in Nat : n = Subject(txIn[p]).act
    BY <1>2 DEF Claims
  <2> QED BY <2>1 DEF NewDepth
<1> QED BY <1>1, <1>2, <1>3

\* A row that is revoked stays the row it was (RevokeIssuances).
LEMMA RevokingKeeps ==
    ASSUME ExchangeTypeOK, NEW J, RevokeIssuances(J)
    PROVE  /\ txIss' \in [TxJtis -> IssRow \cup {TxNone}]
           /\ \A j \in TxJtis :
                 /\ (txIss'[j] = TxNone) <=> (txIss[j] = TxNone)
                 /\ txIss[j] # TxNone =>
                       /\ txIss'[j].sub = txIss[j].sub /\ txIss'[j].client = txIss[j].client
                       /\ txIss'[j].res = txIss[j].res
                       /\ txIss'[j].consentClient = txIss[j].consentClient
                       /\ txIss'[j].lineage = txIss[j].lineage
                       /\ txIss[j].revoked \/ j \in J => txIss'[j].revoked
<1>1. ASSUME NEW j \in TxJtis, txIss[j] # TxNone
      PROVE  /\ txIss'[j] \in IssRow
             /\ txIss'[j].sub = txIss[j].sub /\ txIss'[j].client = txIss[j].client
             /\ txIss'[j].res = txIss[j].res
             /\ txIss'[j].consentClient = txIss[j].consentClient
             /\ txIss'[j].lineage = txIss[j].lineage
             /\ txIss[j].revoked \/ j \in J => txIss'[j].revoked
  <2>1. txIss[j] \in IssRow
    BY <1>1 DEF ExchangeTypeOK
  <2>2. txIss'[j] = txIss[j] \/ txIss'[j] = [txIss[j] EXCEPT !.revoked = TRUE]
    BY <1>1 DEF RevokeIssuances
  <2>3. j \in J => txIss'[j] = [txIss[j] EXCEPT !.revoked = TRUE]
    BY <1>1 DEF RevokeIssuances
  <2> QED BY <2>1, <2>2, <2>3 DEF IssRow
<1>2. ASSUME NEW j \in TxJtis, txIss[j] = TxNone PROVE txIss'[j] = TxNone
  BY <1>2 DEF RevokeIssuances
<1>3. \A j \in TxJtis : txIss'[j] \in IssRow \cup {TxNone}
  BY <1>1, <1>2
<1>4. txIss' \in [TxJtis -> IssRow \cup {TxNone}]
  BY <1>3 DEF RevokeIssuances
<1> QED BY <1>1, <1>2, <1>4, TxRowsAssumption

\* Every step keeps the types of the exchange.
LEMMA ExchangeTypes ==
    ASSUME ExchangeTypeOK, TxHandedOut, TxPhases, [IntrospectNext]_introspectVars
    PROVE  ExchangeTypeOK'
<1>1. ASSUME NEW p \in TxRequests, UNCHANGED inVars, HandleTokenExchange(p) PROVE ExchangeTypeOK'
  <2>1. PICK d \in TxInput : TxArrive(p, d, IF d.target = TxNone THEN "selfSave"
                                            ELSE IF d.gated THEN "gate" ELSE "mint")
    BY <1>1, ExchangeArrives
  <2> QED BY <2>1, ArrivalTypes DEF TxLabels
<1>2. ASSUME NEW p \in TxRequests, UNCHANGED inVars, ConsentGate(p) PROVE ExchangeTypeOK'
  <2>1. txIn' \in [TxRequests -> TxInput]
    <3>1. CASE UNCHANGED txIn
      BY <3>1 DEF ExchangeTypeOK
    <3>2. CASE ~UNCHANGED txIn
      <4> DEFINE scope == IF txIn[p].scope # {} THEN txIn[p].scope
                          ELSE GrantDefaultScopes(txIn[p].target, ConsentFor(p), Subject(txIn[p]).scope)
      <4>1. txIn' = [txIn EXCEPT ![p].scope = scope]
        BY <1>2, <3>2 DEF ConsentGate
      <4>2. txIn[p].target \in TxResources /\ txIn[p] \in TxInput
        BY <1>2 DEF TxPhases, TxPhase, ConsentGate, ExchangeTypeOK
      <4>3. scope \in SUBSET TxScopes
        BY <4>2, PolicyAssumption DEF GrantDefaultScopes, TxInput
      <4> HIDE DEF scope
      <4>4. [txIn[p] EXCEPT !.scope = scope] \in TxInput
        BY <4>2, <4>3 DEF TxInput
      <4> QED BY <4>1, <4>4 DEF ExchangeTypeOK
    <3> QED BY <3>1, <3>2
  <2> QED BY <1>2, <2>1 DEF ConsentGate, ExchangeTypeOK, TxGoto, TxLabels, txAdminVars
<1>3. ASSUME NEW p \in TxRequests, UNCHANGED inVars, MintIssue(p) PROVE ExchangeTypeOK'
  <2> DEFINE i == txIn[p]  t == txTok[txIn[p].subject]
  <2>1. i.op = "exchange" /\ i.target \in TxResources /\ i.caller \in TxClients /\ i \in TxInput
        /\ (i.fronted => t.aud \in TxResources) /\ (i.gated => t.client \in TxClients)
    BY <1>3 DEF TxPhases, TxPhase, MintIssue, ExchangeTypeOK
  <2>2. t \in Claims /\ Subject(i) = t /\ NewDepth(i) \in Nat /\ i.subject \in TxJtis
    BY <2>1, SubjectType
  <2>3. MintRow(p) \in IssRow
    <3>1. Lineage(i.subject) \subseteq TxJtis
      BY <2>2 DEF Lineage, ExchangeTypeOK, IssRow
    <3> QED BY <2>1, <2>2, <3>1 DEF MintRow, IssRow, Claims, SourceOf, TxInput, TxJtis
  <2>4. MintRow(p).client \in TxClients \cup TxResources
    BY <2>3 DEF IssRow
  <2>5. [sub |-> Subject(txIn[p]).sub, client |-> MintRow(p).client, aud |-> txIn[p].target,
         scope |-> txIn[p].scope, act |-> NewDepth(txIn[p])] \in Claims
    BY <2>1, <2>2, <2>4 DEF Claims, TxInput
  <2>6. txRests[i.subject] \cup (IF i.gated THEN {<<Subject(i).client, i.target>>} ELSE {})
          \in SUBSET TxConsents
    BY <2>1, <2>2 DEF ExchangeTypeOK, TxConsents
  <2>7. txIss' \in [TxJtis -> IssRow \cup {TxNone}]
    BY <1>3, <2>3 DEF MintIssue, ExchangeTypeOK
  <2>8. txTok' \in [TxJtis -> Claims \cup {TxNone}]
    BY <1>3, <2>5 DEF MintIssue, ExchangeTypeOK
  <2>9. txRests' \in [TxJtis -> SUBSET TxConsents]
    BY <1>3, <2>6 DEF MintIssue, ExchangeTypeOK
  <2> QED BY <1>3, <2>7, <2>8, <2>9 DEF MintIssue, ExchangeTypeOK, TxGoto, TxLabels, txAdminVars
<1>4. ASSUME NEW p \in TxRequests, UNCHANGED inVars, RefuseIfRevoked(p) PROVE ExchangeTypeOK'
  BY <1>4 DEF RefuseIfRevoked, ExchangeTypeOK, TxGoto, TxLabels, txAdminVars, TxJtis
<1>5. ASSUME NEW p \in TxRequests, UNCHANGED inVars, RefuseIfConsentGone(p) PROVE ExchangeTypeOK'
  BY <1>5 DEF RefuseIfConsentGone, ExchangeTypeOK, TxGoto, TxLabels, txAdminVars, TxJtis
<1>6. ASSUME NEW p \in TxRequests, UNCHANGED inVars, RevokeOwnIssuance(p) PROVE ExchangeTypeOK'
  BY <1>6, RevokingKeeps DEF RevokeOwnIssuance, ExchangeTypeOK, TxGoto, TxLabels, txAdminVars
<1>7. ASSUME NEW p \in TxRequests, UNCHANGED inVars, SaveExchanged(p) PROVE ExchangeTypeOK'
  <2> DEFINE i == txIn[p]  t == txTok[txIn[p].subject]
  <2>1. i.op = "exchange" /\ i.caller \in TxClients /\ i \in TxInput
    BY <1>7 DEF TxPhases, TxPhase, SaveExchanged, ExchangeTypeOK
  <2>2. t \in Claims /\ Subject(i) = t /\ NewDepth(i) \in Nat /\ i.subject \in TxJtis
    BY <2>1, SubjectType
  <2>3. [sub |-> Subject(txIn[p]).sub, client |-> txIn[p].caller, aud |-> Subject(txIn[p]).aud,
         scope |-> txIn[p].scope, act |-> NewDepth(txIn[p])] \in Claims
    BY <2>1, <2>2 DEF Claims, TxInput
  <2>4. txTok' \in [TxJtis -> Claims \cup {TxNone}]
    BY <1>7, <2>3 DEF SaveExchanged, ExchangeTypeOK
  <2> QED BY <1>7, <2>4 DEF SaveExchanged, SaveMachineToken, ExchangeTypeOK, TxGoto, TxLabels,
         txAdminVars, TxJtis
<1>8. ASSUME NEW p \in TxRequests, UNCHANGED inVars, HandleClientCredentials(p) PROVE ExchangeTypeOK'
  <2>1. PICK d \in TxInput : TxArrive(p, d, "ccIssue")
    BY <1>8, CredentialsArrive
  <2> QED BY <2>1, ArrivalTypes DEF TxLabels
<1>9. ASSUME NEW p \in TxRequests, UNCHANGED inVars, CredentialsIssue(p) PROVE ExchangeTypeOK'
  <2> DEFINE i == txIn[p]
  <2>1. i.caller \in TxClients /\ i \in TxInput
    BY <1>9 DEF TxPhases, TxPhase, CredentialsIssue, ExchangeTypeOK
  <2>2. [sub |-> i.caller, client |-> i.caller, aud |-> i.target, scope |-> i.scope, act |-> 0]
           \in Claims
    BY <2>1 DEF Claims, TxInput
  <2>3. i.target # TxNone =>
          [sub |-> i.caller, client |-> i.caller, res |-> i.target,
           consentClient |-> TxNone, lineage |-> {p}, revoked |-> FALSE] \in IssRow
    BY <2>1 DEF IssRow, TxInput, TxJtis
  <2>4. txTok' \in [TxJtis -> Claims \cup {TxNone}]
    BY <1>9, <2>2 DEF CredentialsIssue, ExchangeTypeOK
  <2>5. txIss' \in [TxJtis -> IssRow \cup {TxNone}]
    BY <1>9, <2>3 DEF CredentialsIssue, ExchangeTypeOK
  <2> QED BY <1>9, <2>4, <2>5 DEF CredentialsIssue, ExchangeTypeOK, TxGoto, TxLabels, txAdminVars
<1>10. ASSUME NEW p \in TxRequests, UNCHANGED inVars, CredentialsSave(p) PROVE ExchangeTypeOK'
  BY <1>10
     DEF CredentialsSave, ExchangeTypeOK, TxGoto, TxLabels, txAdminVars, SaveMachineToken, TxJtis
<1>11. ASSUME NEW p \in TxRequests, UNCHANGED inVars, ExchangeRevokeConsent(p) PROVE ExchangeTypeOK'
  <2>1. PICK c \in TxClients, r \in TxResources :
          /\ txGrant' = [txGrant EXCEPT ![<<c, r>>] = {}]
          /\ txIn' = [txIn EXCEPT ![p] = [NoInput EXCEPT !.op = "consent", !.caller = c, !.target = r]]
    BY <1>11, Zenon DEF ExchangeRevokeConsent
  <2>2. [NoInput EXCEPT !.op = "consent", !.caller = c, !.target = r] \in TxInput
    BY DEF NoInput, TxInput
  <2>3. txIn' \in [TxRequests -> TxInput]
    BY <2>1, <2>2 DEF ExchangeTypeOK
  <2>4. txGrant' \in [TxConsents -> SUBSET TxScopes]
    BY <2>1 DEF ExchangeTypeOK
  <2>5. /\ txAt' \in [TxRequests -> TxLabels]
        /\ UNCHANGED <<txTok, txIss, txMach, txDenied, txAdminVars, txHeld, txRests>>
    BY <1>11 DEF ExchangeRevokeConsent, TxGoto, TxLabels, ExchangeTypeOK
  <2> QED BY <2>3, <2>4, <2>5 DEF ExchangeTypeOK, txAdminVars
<1>12. ASSUME NEW p \in TxRequests, UNCHANGED inVars, ExchangeCascade(p) PROVE ExchangeTypeOK'
  BY <1>12, RevokingKeeps DEF ExchangeCascade, ExchangeTypeOK, TxGoto, TxLabels, txAdminVars
<1>13. ASSUME NEW k \in TxConsents, UNCHANGED inVars, Regrant(k) PROVE ExchangeTypeOK'
  BY <1>13, TxBoundsAssumption DEF Regrant, Move, ExchangeTypeOK, txReqVars
<1>14. ASSUME NEW j \in TxJtis, UNCHANGED inVars, AdminRevokeIssuance(j) PROVE ExchangeTypeOK'
  BY <1>14, RevokingKeeps, TxBoundsAssumption
     DEF AdminRevokeIssuance, Move, ExchangeTypeOK, txReqVars
<1>15. ASSUME NEW j \in TxJtis, UNCHANGED inVars, TryRevokeMachineToken(j) PROVE ExchangeTypeOK'
  BY <1>15, TxBoundsAssumption
     DEF TryRevokeMachineToken, RevokeMachineToken, Move, ExchangeTypeOK, txReqVars
<1>16. ASSUME NEW j \in TxJtis, UNCHANGED inVars, DenyRoot(j) PROVE ExchangeTypeOK'
  BY <1>16, TxBoundsAssumption DEF DenyRoot, Move, ExchangeTypeOK, txReqVars
<1>17. ASSUME UNCHANGED inVars, SuspendOrDisable PROVE ExchangeTypeOK'
  <2>1. txOff' \in SUBSET TxClients /\ txUser' \in {"active", "lagging", "off"}
    BY <1>17 DEF SuspendOrDisable, ExchangeTypeOK
  <2>2. txMoves' \in 0 .. MaxMoves
    BY <1>17, TxBoundsAssumption DEF SuspendOrDisable, Move, ExchangeTypeOK
  <2> QED BY <1>17, <2>1, <2>2 DEF SuspendOrDisable, ExchangeTypeOK, txReqVars
<1>18. ASSUME NEW p \in TxRequests, IntrospectToken(p) PROVE ExchangeTypeOK'
  <2>1. PICK d \in TxInput : TxArrive(p, d, "inIssuance")
    BY <1>18, IntrospectArrives
  <2> QED BY <2>1, ArrivalTypes DEF TxLabels
<1>19. ASSUME NEW p \in TxRequests, InIssuance(p) PROVE ExchangeTypeOK'
  BY <1>19
     DEF InIssuance, ExchangeTypeOK, TxGoto, TxLabels, txAdminVars, DenyInactive, Answer, PassTo,
         InUnchanged
<1>20. ASSUME NEW p \in TxRequests, InMachine(p) PROVE ExchangeTypeOK'
  BY <1>20
     DEF InMachine, ExchangeTypeOK, TxGoto, TxLabels, txAdminVars, DenyInactive, Answer, PassTo,
         InUnchanged
<1>21. ASSUME NEW p \in TxRequests, InDenylist(p) PROVE ExchangeTypeOK'
  BY <1>21
     DEF InDenylist, ExchangeTypeOK, TxGoto, TxLabels, txAdminVars, DenyInactive, Answer, PassTo,
         InUnchanged
<1>22. ASSUME NEW p \in TxRequests, InClient(p) PROVE ExchangeTypeOK'
  BY <1>22
     DEF InClient, ExchangeTypeOK, TxGoto, TxLabels, txAdminVars, DenyInactive, Answer, PassTo,
         InUnchanged
<1>23. ASSUME NEW p \in TxRequests, InUser(p) PROVE ExchangeTypeOK'
  BY <1>23
     DEF InUser, ExchangeTypeOK, TxGoto, TxLabels, txAdminVars, DenyInactive, Answer, PassTo,
         InUnchanged
<1>24. ASSUME UNCHANGED inVars, UserCacheLapses PROVE ExchangeTypeOK'
  BY <1>24 DEF UserCacheLapses, ExchangeTypeOK, txReqVars
<1>25. CASE UNCHANGED introspectVars
  BY <1>25 DEF introspectVars, txVars, ExchangeTypeOK
<1> QED BY <1>1, <1>2, <1>3, <1>4, <1>5, <1>6, <1>7, <1>8, <1>9, <1>10, <1>11, <1>12, <1>13,
       <1>14, <1>15, <1>16, <1>17, <1>18, <1>19, <1>20, <1>21, <1>22, <1>23, <1>24, <1>25
        DEF IntrospectNext, ExchangeNext, ExchangeAdmin, ExchangeStep, IntrospectStep

\* What is signed or revoked stays so.
LEMMA ExchangeFrames ==
    ASSUME ExchangeTypeOK, TxHandedOut, [IntrospectNext]_introspectVars
    PROVE  TxFrame
<1>1. ASSUME NEW p \in TxRequests, UNCHANGED inVars, HandleTokenExchange(p) PROVE TxFrame
  <2>1. PICK d \in TxInput : TxArrive(p, d, IF d.target = TxNone THEN "selfSave"
                                            ELSE IF d.gated THEN "gate" ELSE "mint")
    BY <1>1, ExchangeArrives
  <2> QED BY <2>1 DEF TxArrive, TxFrame, txAdminVars
<1>2. ASSUME NEW p \in TxRequests, UNCHANGED inVars, ConsentGate(p) PROVE TxFrame
  BY <1>2 DEF ConsentGate, Move, TxFrame, txAdminVars, txReqVars
<1>3. ASSUME NEW p \in TxRequests, UNCHANGED inVars, MintIssue(p) PROVE TxFrame
  <2>1. txTok[p] = TxNone /\ txIss[p] = TxNone /\ p \notin txHeld
    BY <1>3 DEF MintIssue, TxHandedOut, TxBlank
  <2> QED BY <1>3, <2>1 DEF MintIssue, TxFrame, txAdminVars, ExchangeTypeOK
<1>4. ASSUME NEW p \in TxRequests, UNCHANGED inVars, RefuseIfRevoked(p) PROVE TxFrame
  BY <1>4 DEF RefuseIfRevoked, Move, TxFrame, txAdminVars, txReqVars
<1>5. ASSUME NEW p \in TxRequests, UNCHANGED inVars, RefuseIfConsentGone(p) PROVE TxFrame
  BY <1>5 DEF RefuseIfConsentGone, Move, TxFrame, txAdminVars, txReqVars
<1>6. ASSUME NEW p \in TxRequests, UNCHANGED inVars, RevokeOwnIssuance(p) PROVE TxFrame
  BY <1>6, RevokingKeeps DEF RevokeOwnIssuance, Move, TxFrame, txAdminVars, txReqVars
<1>7. ASSUME NEW p \in TxRequests, UNCHANGED inVars, SaveExchanged(p) PROVE TxFrame
  <2>1. txTok[p] = TxNone /\ p \notin txHeld
    BY <1>7 DEF SaveExchanged, TxHandedOut, TxBlank
  <2> QED BY <1>7, <2>1 DEF SaveExchanged, SaveMachineToken, TxFrame, txAdminVars, ExchangeTypeOK
<1>8. ASSUME NEW p \in TxRequests, UNCHANGED inVars, HandleClientCredentials(p) PROVE TxFrame
  <2>1. PICK d \in TxInput : TxArrive(p, d, "ccIssue")
    BY <1>8, CredentialsArrive
  <2> QED BY <2>1 DEF TxArrive, TxFrame, txAdminVars
<1>9. ASSUME NEW p \in TxRequests, UNCHANGED inVars, CredentialsIssue(p) PROVE TxFrame
  <2>1. txTok[p] = TxNone /\ txIss[p] = TxNone /\ p \notin txHeld
    BY <1>9 DEF CredentialsIssue, TxHandedOut, TxBlank
  <2> QED BY <1>9, <2>1 DEF CredentialsIssue, TxFrame, txAdminVars, ExchangeTypeOK
<1>10. ASSUME NEW p \in TxRequests, UNCHANGED inVars, CredentialsSave(p) PROVE TxFrame
  <2>1. p \notin txHeld
    BY <1>10 DEF CredentialsSave, TxHandedOut
  <2> QED BY <1>10, <2>1 DEF CredentialsSave, SaveMachineToken, TxFrame, txAdminVars, ExchangeTypeOK
<1>11. ASSUME NEW p \in TxRequests, UNCHANGED inVars, ExchangeRevokeConsent(p) PROVE TxFrame
  BY <1>11 DEF ExchangeRevokeConsent, Move, TxFrame, txAdminVars, txReqVars
<1>12. ASSUME NEW p \in TxRequests, UNCHANGED inVars, ExchangeCascade(p) PROVE TxFrame
  BY <1>12, RevokingKeeps DEF ExchangeCascade, Move, TxFrame, txAdminVars, txReqVars
<1>13. ASSUME NEW k \in TxConsents, UNCHANGED inVars, Regrant(k) PROVE TxFrame
  BY <1>13 DEF Regrant, Move, TxFrame, txAdminVars, txReqVars
<1>14. ASSUME NEW j \in TxJtis, UNCHANGED inVars, AdminRevokeIssuance(j) PROVE TxFrame
  BY <1>14, RevokingKeeps DEF AdminRevokeIssuance, Move, TxFrame, txAdminVars, txReqVars
<1>15. ASSUME NEW j \in TxJtis, UNCHANGED inVars, TryRevokeMachineToken(j) PROVE TxFrame
  BY <1>15
     DEF TryRevokeMachineToken, RevokeMachineToken, Move, TxFrame, txAdminVars, txReqVars,
         ExchangeTypeOK
<1>16. ASSUME NEW j \in TxJtis, UNCHANGED inVars, DenyRoot(j) PROVE TxFrame
  BY <1>16 DEF DenyRoot, Move, TxFrame, txAdminVars, txReqVars
<1>17. ASSUME UNCHANGED inVars, SuspendOrDisable PROVE TxFrame
  BY <1>17 DEF SuspendOrDisable, Move, TxFrame, txAdminVars, txReqVars
<1>18. ASSUME NEW p \in TxRequests, IntrospectToken(p) PROVE TxFrame
  <2>1. PICK d \in TxInput : TxArrive(p, d, "inIssuance")
    BY <1>18, IntrospectArrives
  <2> QED BY <2>1 DEF TxArrive, TxFrame, txAdminVars
<1>19. ASSUME NEW p \in TxRequests, InIssuance(p) PROVE TxFrame
  BY <1>19
     DEF InIssuance, DenyInactive, Answer, PassTo, InUnchanged, TxFrame, txAdminVars, txReqVars
<1>20. ASSUME NEW p \in TxRequests, InMachine(p) PROVE TxFrame
  BY <1>20 DEF InMachine, DenyInactive, Answer, PassTo, InUnchanged, TxFrame, txAdminVars, txReqVars
<1>21. ASSUME NEW p \in TxRequests, InDenylist(p) PROVE TxFrame
  BY <1>21
     DEF InDenylist, DenyInactive, Answer, PassTo, InUnchanged, TxFrame, txAdminVars, txReqVars
<1>22. ASSUME NEW p \in TxRequests, InClient(p) PROVE TxFrame
  BY <1>22 DEF InClient, DenyInactive, Answer, PassTo, InUnchanged, TxFrame, txAdminVars, txReqVars
<1>23. ASSUME NEW p \in TxRequests, InUser(p) PROVE TxFrame
  BY <1>23 DEF InUser, DenyInactive, Answer, PassTo, InUnchanged, TxFrame, txAdminVars, txReqVars
<1>24. ASSUME UNCHANGED inVars, UserCacheLapses PROVE TxFrame
  BY <1>24 DEF UserCacheLapses, Move, TxFrame, txAdminVars, txReqVars
<1>25. CASE UNCHANGED introspectVars
  BY <1>25 DEF introspectVars, txVars, TxFrame
<1> QED BY <1>1, <1>2, <1>3, <1>4, <1>5, <1>6, <1>7, <1>8, <1>9, <1>10, <1>11, <1>12, <1>13,
       <1>14, <1>15, <1>16, <1>17, <1>18, <1>19, <1>20, <1>21, <1>22, <1>23, <1>24, <1>25
        DEF IntrospectNext, ExchangeNext, ExchangeAdmin, ExchangeStep, IntrospectStep

\* Nothing is handed out before it is signed.
LEMMA HandedOutKeeps ==
    ASSUME ExchangeTypeOK, TxHandedOut, TxPhases, TxSigned, [IntrospectNext]_introspectVars
    PROVE  TxHandedOut'
<1>1. ASSUME NEW p \in TxRequests, UNCHANGED inVars, HandleTokenExchange(p) PROVE TxHandedOut'
  <2>1. PICK d \in TxInput : TxArrive(p, d, IF d.target = TxNone THEN "selfSave"
                                            ELSE IF d.gated THEN "gate" ELSE "mint")
    BY <1>1, ExchangeArrives
  <2> QED BY <2>1 DEF TxArrive, TxMayAsk, TxHandedOut, TxBlank, ExchangeTypeOK, TxGoto, TxJtis
<1>2. ASSUME NEW p \in TxRequests, UNCHANGED inVars, ConsentGate(p) PROVE TxHandedOut'
  BY <1>2 DEF ConsentGate, TxHandedOut, TxBlank, ExchangeTypeOK, TxGoto, TxJtis
<1>3. ASSUME NEW p \in TxRequests, UNCHANGED inVars, MintIssue(p) PROVE TxHandedOut'
  BY <1>3 DEF MintIssue, TxHandedOut, TxBlank, ExchangeTypeOK, TxGoto, TxJtis
<1>4. ASSUME NEW p \in TxRequests, UNCHANGED inVars, RefuseIfRevoked(p) PROVE TxHandedOut'
  BY <1>4 DEF RefuseIfRevoked, TxHandedOut, TxBlank, ExchangeTypeOK, TxGoto, TxJtis, TxSigned
<1>5. ASSUME NEW p \in TxRequests, UNCHANGED inVars, RefuseIfConsentGone(p) PROVE TxHandedOut'
  BY <1>5 DEF RefuseIfConsentGone, TxHandedOut, TxBlank, ExchangeTypeOK, TxGoto, TxJtis, TxSigned
<1>6. ASSUME NEW p \in TxRequests, UNCHANGED inVars, RevokeOwnIssuance(p) PROVE TxHandedOut'
  BY <1>6, RevokingKeeps
     DEF RevokeOwnIssuance, Move, TxHandedOut, TxBlank, ExchangeTypeOK, TxGoto, TxJtis, txReqVars
<1>7. ASSUME NEW p \in TxRequests, UNCHANGED inVars, SaveExchanged(p) PROVE TxHandedOut'
  <2>1. txIn[p].op = "exchange" /\ txIn[p].caller \in TxClients /\ txIn[p] \in TxInput
    BY <1>7 DEF TxPhases, TxPhase, SaveExchanged, ExchangeTypeOK
  <2>2. txTok[txIn[p].subject] \in Claims /\ Subject(txIn[p]) = txTok[txIn[p].subject]
        /\ NewDepth(txIn[p]) \in Nat
    BY <2>1, SubjectType
  <2>3. [sub |-> Subject(txIn[p]).sub, client |-> txIn[p].caller, aud |-> Subject(txIn[p]).aud,
         scope |-> txIn[p].scope, act |-> NewDepth(txIn[p])] \in Claims
    BY <2>1, <2>2 DEF Claims, TxInput
  <2>4. txTok'[p] # TxNone
    BY <1>7, <2>3, TxRowsAssumption DEF SaveExchanged, ExchangeTypeOK, TxJtis
  <2> QED BY <1>7, <2>4 DEF SaveExchanged, SaveMachineToken, TxHandedOut, TxBlank, ExchangeTypeOK,
         TxGoto, TxJtis
<1>8. ASSUME NEW p \in TxRequests, UNCHANGED inVars, HandleClientCredentials(p) PROVE TxHandedOut'
  <2>1. PICK d \in TxInput : TxArrive(p, d, "ccIssue")
    BY <1>8, CredentialsArrive
  <2> QED BY <2>1 DEF TxArrive, TxMayAsk, TxHandedOut, TxBlank, ExchangeTypeOK, TxGoto, TxJtis
<1>9. ASSUME NEW p \in TxRequests, UNCHANGED inVars, CredentialsIssue(p) PROVE TxHandedOut'
  BY <1>9 DEF CredentialsIssue, TxHandedOut, TxBlank, ExchangeTypeOK, TxGoto, TxJtis
<1>10. ASSUME NEW p \in TxRequests, UNCHANGED inVars, CredentialsSave(p) PROVE TxHandedOut'
  BY <1>10
     DEF CredentialsSave, SaveMachineToken, TxHandedOut, TxBlank, ExchangeTypeOK, TxGoto, TxJtis,
         TxSigned
<1>11. ASSUME NEW p \in TxRequests, UNCHANGED inVars, ExchangeRevokeConsent(p) PROVE TxHandedOut'
  BY <1>11 DEF ExchangeRevokeConsent, TxHandedOut, TxBlank, ExchangeTypeOK, TxGoto, TxJtis
<1>12. ASSUME NEW p \in TxRequests, UNCHANGED inVars, ExchangeCascade(p) PROVE TxHandedOut'
  BY <1>12, RevokingKeeps
     DEF ExchangeCascade, Move, TxHandedOut, TxBlank, ExchangeTypeOK, TxGoto, TxJtis, txReqVars
<1>13. ASSUME NEW k \in TxConsents, UNCHANGED inVars, Regrant(k) PROVE TxHandedOut'
  BY <1>13 DEF Regrant, txReqVars, TxHandedOut, TxBlank, ExchangeTypeOK, TxGoto, TxJtis
<1>14. ASSUME NEW j \in TxJtis, UNCHANGED inVars, AdminRevokeIssuance(j) PROVE TxHandedOut'
  BY <1>14, RevokingKeeps
     DEF AdminRevokeIssuance, Move, TxHandedOut, TxBlank, ExchangeTypeOK, TxGoto, TxJtis, txReqVars
<1>15. ASSUME NEW j \in TxJtis, UNCHANGED inVars, TryRevokeMachineToken(j) PROVE TxHandedOut'
  BY <1>15
     DEF TryRevokeMachineToken, RevokeMachineToken, txReqVars, TxHandedOut, TxBlank, ExchangeTypeOK,
         TxGoto, TxJtis
<1>16. ASSUME NEW j \in TxJtis, UNCHANGED inVars, DenyRoot(j) PROVE TxHandedOut'
  BY <1>16 DEF DenyRoot, txReqVars, TxHandedOut, TxBlank, ExchangeTypeOK, TxGoto, TxJtis
<1>17. ASSUME UNCHANGED inVars, SuspendOrDisable PROVE TxHandedOut'
  BY <1>17 DEF SuspendOrDisable, txReqVars, TxHandedOut, TxBlank, ExchangeTypeOK, TxGoto, TxJtis
<1>18. ASSUME NEW p \in TxRequests, IntrospectToken(p) PROVE TxHandedOut'
  <2>1. PICK d \in TxInput : TxArrive(p, d, "inIssuance")
    BY <1>18, IntrospectArrives
  <2> QED BY <2>1 DEF TxArrive, TxMayAsk, TxHandedOut, TxBlank, ExchangeTypeOK, TxGoto, TxJtis
<1>19. ASSUME NEW p \in TxRequests, InIssuance(p) PROVE TxHandedOut'
  BY <1>19
     DEF InIssuance, DenyInactive, Answer, PassTo, InUnchanged, TxHandedOut, TxBlank,
         ExchangeTypeOK, TxGoto, TxJtis
<1>20. ASSUME NEW p \in TxRequests, InMachine(p) PROVE TxHandedOut'
  BY <1>20
     DEF InMachine, DenyInactive, Answer, PassTo, InUnchanged, TxHandedOut, TxBlank, ExchangeTypeOK,
         TxGoto, TxJtis
<1>21. ASSUME NEW p \in TxRequests, InDenylist(p) PROVE TxHandedOut'
  BY <1>21
     DEF InDenylist, DenyInactive, Answer, PassTo, InUnchanged, TxHandedOut, TxBlank,
         ExchangeTypeOK, TxGoto, TxJtis
<1>22. ASSUME NEW p \in TxRequests, InClient(p) PROVE TxHandedOut'
  BY <1>22
     DEF InClient, DenyInactive, Answer, PassTo, InUnchanged, TxHandedOut, TxBlank, ExchangeTypeOK,
         TxGoto, TxJtis
<1>23. ASSUME NEW p \in TxRequests, InUser(p) PROVE TxHandedOut'
  BY <1>23
     DEF InUser, DenyInactive, Answer, PassTo, InUnchanged, TxHandedOut, TxBlank, ExchangeTypeOK,
         TxGoto, TxJtis
<1>24. ASSUME UNCHANGED inVars, UserCacheLapses PROVE TxHandedOut'
  BY <1>24 DEF UserCacheLapses, txReqVars, TxHandedOut, TxBlank, ExchangeTypeOK, TxGoto, TxJtis
<1>25. CASE UNCHANGED introspectVars
  BY <1>25 DEF introspectVars, txVars, TxHandedOut
<1> QED BY <1>1, <1>2, <1>3, <1>4, <1>5, <1>6, <1>7, <1>8, <1>9, <1>10, <1>11, <1>12, <1>13,
       <1>14, <1>15, <1>16, <1>17, <1>18, <1>19, <1>20, <1>21, <1>22, <1>23, <1>24, <1>25
        DEF IntrospectNext, ExchangeNext, ExchangeAdmin, ExchangeStep, IntrospectStep

\* A request that goes on after its signature has signed.
LEMMA SignedKeeps ==
    ASSUME ExchangeTypeOK, TxHandedOut, TxPhases, TxSigned, [IntrospectNext]_introspectVars
    PROVE  TxSigned'
<1>1. ASSUME NEW p \in TxRequests, UNCHANGED inVars, HandleTokenExchange(p) PROVE TxSigned'
  <2>1. PICK d \in TxInput : TxArrive(p, d, IF d.target = TxNone THEN "selfSave"
                                            ELSE IF d.gated THEN "gate" ELSE "mint")
    BY <1>1, ExchangeArrives
  <2> QED BY <2>1 DEF TxArrive, TxSigned, ExchangeTypeOK, TxGoto, TxJtis
<1>2. ASSUME NEW p \in TxRequests, UNCHANGED inVars, ConsentGate(p) PROVE TxSigned'
  BY <1>2 DEF ConsentGate, TxSigned, ExchangeTypeOK, TxGoto, TxJtis
<1>3. ASSUME NEW p \in TxRequests, UNCHANGED inVars, MintIssue(p) PROVE TxSigned'
  <2>1. /\ txIn[p].op = "exchange" /\ txIn[p].target \in TxResources /\ txIn[p].caller \in TxClients
        /\ txIn[p] \in TxInput /\ (txIn[p].fronted => txTok[txIn[p].subject].aud \in TxResources)
    BY <1>3 DEF TxPhases, TxPhase, MintIssue, ExchangeTypeOK
  <2>2. /\ txTok[txIn[p].subject] \in Claims /\ Subject(txIn[p]) = txTok[txIn[p].subject]
        /\ NewDepth(txIn[p]) \in Nat /\ txIn[p].subject \in TxJtis
    BY <2>1, SubjectType
  <2>3. MintRow(p).client \in TxClients \cup TxResources
    BY <2>1, <2>2 DEF MintRow, SourceOf
  <2>4. [sub |-> Subject(txIn[p]).sub, client |-> MintRow(p).client, aud |-> txIn[p].target,
         scope |-> txIn[p].scope, act |-> NewDepth(txIn[p])] \in Claims
    BY <2>1, <2>2, <2>3 DEF Claims, TxInput
  <2>5. txTok'[p] # TxNone /\ \A q \in TxRequests \ {p} : txTok'[q] = txTok[q] /\ txAt'[q] = txAt[q]
    BY <1>3, <2>4, TxRowsAssumption DEF MintIssue, ExchangeTypeOK, TxJtis, TxGoto
  <2> QED BY <2>5 DEF TxSigned
<1>4. ASSUME NEW p \in TxRequests, UNCHANGED inVars, RefuseIfRevoked(p) PROVE TxSigned'
  BY <1>4 DEF RefuseIfRevoked, TxSigned, ExchangeTypeOK, TxGoto, TxJtis
<1>5. ASSUME NEW p \in TxRequests, UNCHANGED inVars, RefuseIfConsentGone(p) PROVE TxSigned'
  BY <1>5 DEF RefuseIfConsentGone, TxSigned, ExchangeTypeOK, TxGoto, TxJtis
<1>6. ASSUME NEW p \in TxRequests, UNCHANGED inVars, RevokeOwnIssuance(p) PROVE TxSigned'
  BY <1>6 DEF RevokeOwnIssuance, TxSigned, ExchangeTypeOK, TxGoto, TxJtis, txReqVars
<1>7. ASSUME NEW p \in TxRequests, UNCHANGED inVars, SaveExchanged(p) PROVE TxSigned'
  BY <1>7 DEF SaveExchanged, TxSigned, ExchangeTypeOK, TxGoto, TxJtis
<1>8. ASSUME NEW p \in TxRequests, UNCHANGED inVars, HandleClientCredentials(p) PROVE TxSigned'
  <2>1. PICK d \in TxInput : TxArrive(p, d, "ccIssue")
    BY <1>8, CredentialsArrive
  <2> QED BY <2>1 DEF TxArrive, TxSigned, ExchangeTypeOK, TxGoto, TxJtis
<1>9. ASSUME NEW p \in TxRequests, UNCHANGED inVars, CredentialsIssue(p) PROVE TxSigned'
  <2>1. txIn[p].caller \in TxClients /\ txIn[p] \in TxInput
    BY <1>9 DEF TxPhases, TxPhase, CredentialsIssue, ExchangeTypeOK
  <2>2. [sub |-> txIn[p].caller, client |-> txIn[p].caller, aud |-> txIn[p].target,
         scope |-> txIn[p].scope, act |-> 0] \in Claims
    BY <2>1 DEF Claims, TxInput
  <2>3. txTok'[p] # TxNone /\ \A q \in TxRequests \ {p} : txTok'[q] = txTok[q] /\ txAt'[q] = txAt[q]
    BY <1>9, <2>2, TxRowsAssumption DEF CredentialsIssue, ExchangeTypeOK, TxJtis, TxGoto
  <2> QED BY <2>3 DEF TxSigned
<1>10. ASSUME NEW p \in TxRequests, UNCHANGED inVars, CredentialsSave(p) PROVE TxSigned'
  BY <1>10 DEF CredentialsSave, TxSigned, ExchangeTypeOK, TxGoto, TxJtis
<1>11. ASSUME NEW p \in TxRequests, UNCHANGED inVars, ExchangeRevokeConsent(p) PROVE TxSigned'
  BY <1>11 DEF ExchangeRevokeConsent, TxSigned, ExchangeTypeOK, TxGoto, TxJtis
<1>12. ASSUME NEW p \in TxRequests, UNCHANGED inVars, ExchangeCascade(p) PROVE TxSigned'
  BY <1>12 DEF ExchangeCascade, TxSigned, ExchangeTypeOK, TxGoto, TxJtis, txReqVars
<1>13. ASSUME NEW k \in TxConsents, UNCHANGED inVars, Regrant(k) PROVE TxSigned'
  BY <1>13 DEF Regrant, TxSigned, ExchangeTypeOK, TxGoto, TxJtis, txReqVars
<1>14. ASSUME NEW j \in TxJtis, UNCHANGED inVars, AdminRevokeIssuance(j) PROVE TxSigned'
  BY <1>14 DEF AdminRevokeIssuance, TxSigned, ExchangeTypeOK, TxGoto, TxJtis, txReqVars
<1>15. ASSUME NEW j \in TxJtis, UNCHANGED inVars, TryRevokeMachineToken(j) PROVE TxSigned'
  BY <1>15 DEF TryRevokeMachineToken, TxSigned, ExchangeTypeOK, TxGoto, TxJtis, txReqVars
<1>16. ASSUME NEW j \in TxJtis, UNCHANGED inVars, DenyRoot(j) PROVE TxSigned'
  BY <1>16 DEF DenyRoot, TxSigned, ExchangeTypeOK, TxGoto, TxJtis, txReqVars
<1>17. ASSUME UNCHANGED inVars, SuspendOrDisable PROVE TxSigned'
  BY <1>17 DEF SuspendOrDisable, TxSigned, ExchangeTypeOK, TxGoto, TxJtis, txReqVars
<1>18. ASSUME NEW p \in TxRequests, IntrospectToken(p) PROVE TxSigned'
  <2>1. PICK d \in TxInput : TxArrive(p, d, "inIssuance")
    BY <1>18, IntrospectArrives
  <2> QED BY <2>1 DEF TxArrive, TxSigned, ExchangeTypeOK, TxGoto, TxJtis
<1>19. ASSUME NEW p \in TxRequests, InIssuance(p) PROVE TxSigned'
  BY <1>19
     DEF InIssuance, DenyInactive, Answer, PassTo, InUnchanged, TxSigned, ExchangeTypeOK, TxGoto,
         TxJtis
<1>20. ASSUME NEW p \in TxRequests, InMachine(p) PROVE TxSigned'
  BY <1>20
     DEF InMachine, DenyInactive, Answer, PassTo, InUnchanged, TxSigned, ExchangeTypeOK, TxGoto,
         TxJtis
<1>21. ASSUME NEW p \in TxRequests, InDenylist(p) PROVE TxSigned'
  BY <1>21
     DEF InDenylist, DenyInactive, Answer, PassTo, InUnchanged, TxSigned, ExchangeTypeOK, TxGoto,
         TxJtis
<1>22. ASSUME NEW p \in TxRequests, InClient(p) PROVE TxSigned'
  BY <1>22
     DEF InClient, DenyInactive, Answer, PassTo, InUnchanged, TxSigned, ExchangeTypeOK, TxGoto,
         TxJtis
<1>23. ASSUME NEW p \in TxRequests, InUser(p) PROVE TxSigned'
  BY <1>23
     DEF InUser, DenyInactive, Answer, PassTo, InUnchanged, TxSigned, ExchangeTypeOK, TxGoto, TxJtis
<1>24. ASSUME UNCHANGED inVars, UserCacheLapses PROVE TxSigned'
  BY <1>24 DEF UserCacheLapses, TxSigned, ExchangeTypeOK, TxGoto, TxJtis, txReqVars
<1>25. CASE UNCHANGED introspectVars
  BY <1>25 DEF introspectVars, txVars, TxSigned
<1> QED BY <1>1, <1>2, <1>3, <1>4, <1>5, <1>6, <1>7, <1>8, <1>9, <1>10, <1>11, <1>12, <1>13,
       <1>14, <1>15, <1>16, <1>17, <1>18, <1>19, <1>20, <1>21, <1>22, <1>23, <1>24, <1>25
        DEF IntrospectNext, ExchangeNext, ExchangeAdmin, ExchangeStep, IntrospectStep

\* The tokens of the code flow stay as they are.
LEMMA RootsKeep ==
    ASSUME ExchangeTypeOK, TxHandedOut, TxRootsStand, [IntrospectNext]_introspectVars
    PROVE  TxRootsStand'
<1>1. ASSUME NEW p \in TxRequests, UNCHANGED inVars, HandleTokenExchange(p) PROVE TxRootsStand'
  <2>1. PICK d \in TxInput : TxArrive(p, d, IF d.target = TxNone THEN "selfSave"
                                            ELSE IF d.gated THEN "gate" ELSE "mint")
    BY <1>1, ExchangeArrives
  <2> QED BY <2>1 DEF TxArrive, TxRootsStand, ExchangeTypeOK, TxJtis
<1>2. ASSUME NEW p \in TxRequests, UNCHANGED inVars, ConsentGate(p) PROVE TxRootsStand'
  BY <1>2 DEF ConsentGate, TxRootsStand, ExchangeTypeOK, TxJtis
<1>3. ASSUME NEW p \in TxRequests, UNCHANGED inVars, MintIssue(p) PROVE TxRootsStand'
  BY <1>3, TxNamesAssumption DEF MintIssue, SaveMachineToken, TxRootsStand, ExchangeTypeOK, TxJtis
<1>4. ASSUME NEW p \in TxRequests, UNCHANGED inVars, RefuseIfRevoked(p) PROVE TxRootsStand'
  BY <1>4 DEF RefuseIfRevoked, TxRootsStand, ExchangeTypeOK, TxJtis
<1>5. ASSUME NEW p \in TxRequests, UNCHANGED inVars, RefuseIfConsentGone(p) PROVE TxRootsStand'
  BY <1>5 DEF RefuseIfConsentGone, TxRootsStand, ExchangeTypeOK, TxJtis
<1>6. ASSUME NEW p \in TxRequests, UNCHANGED inVars, RevokeOwnIssuance(p) PROVE TxRootsStand'
  BY <1>6 DEF RevokeOwnIssuance, TxRootsStand, ExchangeTypeOK, TxJtis
<1>7. ASSUME NEW p \in TxRequests, UNCHANGED inVars, SaveExchanged(p) PROVE TxRootsStand'
  BY <1>7, TxNamesAssumption
     DEF SaveExchanged, SaveMachineToken, TxRootsStand, ExchangeTypeOK, TxJtis
<1>8. ASSUME NEW p \in TxRequests, UNCHANGED inVars, HandleClientCredentials(p) PROVE TxRootsStand'
  <2>1. PICK d \in TxInput : TxArrive(p, d, "ccIssue")
    BY <1>8, CredentialsArrive
  <2> QED BY <2>1 DEF TxArrive, TxRootsStand, ExchangeTypeOK, TxJtis
<1>9. ASSUME NEW p \in TxRequests, UNCHANGED inVars, CredentialsIssue(p) PROVE TxRootsStand'
  BY <1>9, TxNamesAssumption
     DEF CredentialsIssue, SaveMachineToken, TxRootsStand, ExchangeTypeOK, TxJtis
<1>10. ASSUME NEW p \in TxRequests, UNCHANGED inVars, CredentialsSave(p) PROVE TxRootsStand'
  BY <1>10, TxNamesAssumption
     DEF CredentialsSave, SaveMachineToken, TxRootsStand, ExchangeTypeOK, TxJtis
<1>11. ASSUME NEW p \in TxRequests, UNCHANGED inVars, ExchangeRevokeConsent(p) PROVE TxRootsStand'
  BY <1>11 DEF ExchangeRevokeConsent, TxRootsStand, ExchangeTypeOK, TxJtis
<1>12. ASSUME NEW p \in TxRequests, UNCHANGED inVars, ExchangeCascade(p) PROVE TxRootsStand'
  BY <1>12 DEF ExchangeCascade, TxRootsStand, ExchangeTypeOK, TxJtis
<1>13. ASSUME NEW k \in TxConsents, UNCHANGED inVars, Regrant(k) PROVE TxRootsStand'
  BY <1>13 DEF Regrant, TxRootsStand, ExchangeTypeOK, TxJtis
<1>14. ASSUME NEW j \in TxJtis, UNCHANGED inVars, AdminRevokeIssuance(j) PROVE TxRootsStand'
  BY <1>14 DEF AdminRevokeIssuance, TxRootsStand, ExchangeTypeOK, TxJtis
<1>15. ASSUME NEW j \in TxJtis, UNCHANGED inVars, TryRevokeMachineToken(j) PROVE TxRootsStand'
  BY <1>15 DEF TryRevokeMachineToken, RevokeMachineToken, TxRootsStand, ExchangeTypeOK, TxJtis
<1>16. ASSUME NEW j \in TxJtis, UNCHANGED inVars, DenyRoot(j) PROVE TxRootsStand'
  BY <1>16 DEF DenyRoot, TxRootsStand, ExchangeTypeOK, TxJtis
<1>17. ASSUME UNCHANGED inVars, SuspendOrDisable PROVE TxRootsStand'
  BY <1>17 DEF SuspendOrDisable, TxRootsStand, ExchangeTypeOK, TxJtis
<1>18. ASSUME NEW p \in TxRequests, IntrospectToken(p) PROVE TxRootsStand'
  <2>1. PICK d \in TxInput : TxArrive(p, d, "inIssuance")
    BY <1>18, IntrospectArrives
  <2> QED BY <2>1 DEF TxArrive, TxRootsStand, ExchangeTypeOK, TxJtis
<1>19. ASSUME NEW p \in TxRequests, InIssuance(p) PROVE TxRootsStand'
  BY <1>19
     DEF InIssuance, DenyInactive, Answer, PassTo, InUnchanged, TxRootsStand, ExchangeTypeOK, TxJtis
<1>20. ASSUME NEW p \in TxRequests, InMachine(p) PROVE TxRootsStand'
  BY <1>20
     DEF InMachine, DenyInactive, Answer, PassTo, InUnchanged, TxRootsStand, ExchangeTypeOK, TxJtis
<1>21. ASSUME NEW p \in TxRequests, InDenylist(p) PROVE TxRootsStand'
  BY <1>21
     DEF InDenylist, DenyInactive, Answer, PassTo, InUnchanged, TxRootsStand, ExchangeTypeOK, TxJtis
<1>22. ASSUME NEW p \in TxRequests, InClient(p) PROVE TxRootsStand'
  BY <1>22
     DEF InClient, DenyInactive, Answer, PassTo, InUnchanged, TxRootsStand, ExchangeTypeOK, TxJtis
<1>23. ASSUME NEW p \in TxRequests, InUser(p) PROVE TxRootsStand'
  BY <1>23
     DEF InUser, DenyInactive, Answer, PassTo, InUnchanged, TxRootsStand, ExchangeTypeOK, TxJtis
<1>24. ASSUME UNCHANGED inVars, UserCacheLapses PROVE TxRootsStand'
  BY <1>24 DEF UserCacheLapses, TxRootsStand, ExchangeTypeOK, TxJtis
<1>25. CASE UNCHANGED introspectVars
  BY <1>25 DEF introspectVars, txVars, TxRootsStand
<1> QED BY <1>1, <1>2, <1>3, <1>4, <1>5, <1>6, <1>7, <1>8, <1>9, <1>10, <1>11, <1>12, <1>13,
       <1>14, <1>15, <1>16, <1>17, <1>18, <1>19, <1>20, <1>21, <1>22, <1>23, <1>24, <1>25
        DEF IntrospectNext, ExchangeNext, ExchangeAdmin, ExchangeStep, IntrospectStep

\* A request that did not move is in the phase it was in.
LEMMA PhaseStays ==
    ASSUME ExchangeTypeOK, TxHandedOut, TxSigned, TxFrame, NEW q \in TxRequests, TxPhase(q),
           txAt'[q] = txAt[q], txIn'[q] = txIn[q]
    PROVE  TxPhase(q)'
<1>1. q \in TxJtis /\ (txAt[q] = "ccSave" => txTok'[q] = txTok[q])
  BY DEF TxSigned, TxFrame, TxJtis
<1>2. txIn[q].op \in {"exchange", "introspect"} =>
        txIn[q].subject \in txHeld' /\ txTok'[txIn[q].subject] = txTok[txIn[q].subject]
  BY DEF TxPhase, TxHandedOut, TxFrame, ExchangeTypeOK
<1> QED BY <1>1, <1>2 DEF TxPhase

\* Every request is in a phase that fits what it came with.
LEMMA PhasesKeep ==
    ASSUME ExchangeTypeOK, TxHandedOut, TxSigned, TxPhases, TxFrame, [IntrospectNext]_introspectVars
    PROVE  TxPhases'
<1>1. ASSUME NEW p \in TxRequests, UNCHANGED inVars, HandleTokenExchange(p) PROVE TxPhases'
  <2>1. PICK d \in TxInput : 
          /\ d.op = "exchange" /\ d.caller \in TxClients /\ d.subject \in txHeld
          /\ (d.gated => ~d.fronted /\ d.target # TxNone)
          /\ (d.fronted => txTok[d.subject].aud \in TxResources /\ d.target # TxNone)
          /\ (~d.gated /\ ~d.fronted => d.caller = txTok[d.subject].client)
          /\ TxArrive(p, d, IF d.target = TxNone THEN "selfSave"
                                ELSE IF d.gated THEN "gate" ELSE "mint")
    BY <1>1, ExchangeArrives
  <2>8. \A q \in TxRequests \ {p} : txAt'[q] = txAt[q] /\ txIn'[q] = txIn[q]
    BY <2>1 DEF TxArrive, TxGoto, ExchangeTypeOK
  <2>9. TxPhase(p)'
    BY <2>1 DEF TxArrive, TxGoto, ExchangeTypeOK, TxPhase, TxInput, txAdminVars
  <2> QED BY <2>8, <2>9, PhaseStays DEF TxPhases
<1>2. ASSUME NEW p \in TxRequests, UNCHANGED inVars, ConsentGate(p) PROVE TxPhases'
  <2>8. \A q \in TxRequests \ {p} : txAt'[q] = txAt[q] /\ txIn'[q] = txIn[q]
    BY <1>2 DEF ConsentGate, TxGoto, ExchangeTypeOK
  <2>1. /\ txAt[p] = "gate" /\ txTok' = txTok /\ txHeld' = txHeld
        /\ txAt'[p] = "mint" \/ (txAt'[p] = "done" /\ txIn'[p] = txIn[p])
    BY <1>2 DEF ConsentGate, TxGoto, ExchangeTypeOK
  <2>2. txAt'[p] = "mint" => ConsentFor(p) # {}
    BY <1>2 DEF ConsentGate, TxGoto, ExchangeTypeOK
  <2>3. /\ txIn'[p].op = txIn[p].op /\ txIn'[p].caller = txIn[p].caller
        /\ txIn'[p].subject = txIn[p].subject /\ txIn'[p].target = txIn[p].target
        /\ txIn'[p].gated = txIn[p].gated /\ txIn'[p].fronted = txIn[p].fronted
    <3>1. txIn[p] \in TxInput
      BY DEF ExchangeTypeOK
    <3>2. PICK s : txIn' = [txIn EXCEPT ![p].scope = s] \/ txIn' = txIn
      BY <1>2 DEF ConsentGate
    <3> QED BY <3>1, <3>2 DEF ExchangeTypeOK, TxInput
  <2>4. ConsentFor(p) # {} =>
          txTok[txIn[p].subject].sub = "user" /\ txTok[txIn[p].subject].client \in TxClients
    BY DEF ConsentFor, Subject
  <2>9. TxPhase(p)'
    BY <2>1, <2>2, <2>3, <2>4 DEF TxPhases, TxPhase
  <2> QED BY <2>8, <2>9, PhaseStays DEF TxPhases
<1>3. ASSUME NEW p \in TxRequests, UNCHANGED inVars, MintIssue(p) PROVE TxPhases'
  <2>1. txTok[p] = TxNone /\ p \notin txHeld
    BY <1>3 DEF MintIssue, TxHandedOut, TxBlank
  <2>2. txIn[p].op = "exchange" /\ txIn[p].subject \in txHeld /\ txIn[p].subject # p
    BY <1>3, <2>1 DEF MintIssue, TxPhases, TxPhase
  <2>3. txTok'[txIn[p].subject] = txTok[txIn[p].subject] /\ txAt'[p] = "recheck" /\ txAt[p] = "mint"
        /\ txIn' = txIn /\ txHeld' = txHeld
    BY <1>3, <2>2 DEF MintIssue, ExchangeTypeOK, TxGoto
  <2>8. \A q \in TxRequests \ {p} : txAt'[q] = txAt[q] /\ txIn'[q] = txIn[q]
    BY <1>3 DEF MintIssue, TxGoto, ExchangeTypeOK
  <2>9. TxPhase(p)'
    BY <2>3 DEF TxPhases, TxPhase
  <2> QED BY <2>8, <2>9, PhaseStays DEF TxPhases
<1>4. ASSUME NEW p \in TxRequests, UNCHANGED inVars, RefuseIfRevoked(p) PROVE TxPhases'
  <2>8. \A q \in TxRequests \ {p} : txAt'[q] = txAt[q] /\ txIn'[q] = txIn[q]
    BY <1>4 DEF RefuseIfRevoked, TxGoto, ExchangeTypeOK
  <2>9. TxPhase(p)'
    BY <1>4 DEF RefuseIfRevoked, TxGoto, ExchangeTypeOK, TxPhases, TxPhase
  <2> QED BY <2>8, <2>9, PhaseStays DEF TxPhases
<1>5. ASSUME NEW p \in TxRequests, UNCHANGED inVars, RefuseIfConsentGone(p) PROVE TxPhases'
  <2>8. \A q \in TxRequests \ {p} : txAt'[q] = txAt[q] /\ txIn'[q] = txIn[q]
    BY <1>5 DEF RefuseIfConsentGone, TxGoto, ExchangeTypeOK
  <2>9. TxPhase(p)'
    BY <1>5 DEF RefuseIfConsentGone, TxGoto, ExchangeTypeOK, TxPhases, TxPhase
  <2> QED BY <2>8, <2>9, PhaseStays DEF TxPhases
<1>6. ASSUME NEW p \in TxRequests, UNCHANGED inVars, RevokeOwnIssuance(p) PROVE TxPhases'
  <2>8. \A q \in TxRequests \ {p} : txAt'[q] = txAt[q] /\ txIn'[q] = txIn[q]
    BY <1>6 DEF RevokeOwnIssuance, TxGoto, ExchangeTypeOK
  <2>9. TxPhase(p)'
    BY <1>6 DEF RevokeOwnIssuance, TxGoto, ExchangeTypeOK, TxPhases, TxPhase
  <2> QED BY <2>8, <2>9, PhaseStays DEF TxPhases
<1>7. ASSUME NEW p \in TxRequests, UNCHANGED inVars, SaveExchanged(p) PROVE TxPhases'
  <2>1. txTok[p] = TxNone /\ p \notin txHeld
    BY <1>7 DEF SaveExchanged, TxHandedOut, TxBlank
  <2>2. txIn[p].op = "exchange" /\ txIn[p].subject \in txHeld /\ txIn[p].subject # p
    BY <1>7, <2>1 DEF SaveExchanged, TxPhases, TxPhase
  <2>3. txTok'[txIn[p].subject] = txTok[txIn[p].subject] /\ txAt'[p] = "done"
        /\ txIn' = txIn /\ txHeld \subseteq txHeld'
    BY <1>7, <2>2 DEF SaveExchanged, ExchangeTypeOK, TxGoto
  <2>8. \A q \in TxRequests \ {p} : txAt'[q] = txAt[q] /\ txIn'[q] = txIn[q]
    BY <1>7 DEF SaveExchanged, TxGoto, ExchangeTypeOK
  <2>9. TxPhase(p)'
    BY <2>3 DEF TxPhases, TxPhase
  <2> QED BY <2>8, <2>9, PhaseStays DEF TxPhases
<1>8. ASSUME NEW p \in TxRequests, UNCHANGED inVars, HandleClientCredentials(p) PROVE TxPhases'
  <2>1. PICK d \in TxInput : 
          /\ d.op = "credentials" /\ d.caller \in TxClients /\ d.gated = FALSE /\ d.fronted = FALSE
          /\ TxArrive(p, d, "ccIssue")
    BY <1>8, CredentialsArrive
  <2>8. \A q \in TxRequests \ {p} : txAt'[q] = txAt[q] /\ txIn'[q] = txIn[q]
    BY <2>1 DEF TxArrive, TxGoto, ExchangeTypeOK
  <2>9. TxPhase(p)'
    BY <2>1 DEF TxArrive, TxGoto, ExchangeTypeOK, TxPhase, TxInput, txAdminVars
  <2> QED BY <2>8, <2>9, PhaseStays DEF TxPhases
<1>9. ASSUME NEW p \in TxRequests, UNCHANGED inVars, CredentialsIssue(p) PROVE TxPhases'
  <2>8. \A q \in TxRequests \ {p} : txAt'[q] = txAt[q] /\ txIn'[q] = txIn[q]
    BY <1>9 DEF CredentialsIssue, TxGoto, ExchangeTypeOK, TxJtis
  <2>9. TxPhase(p)'
    BY <1>9 DEF CredentialsIssue, TxGoto, ExchangeTypeOK, TxPhases, TxPhase, TxJtis
  <2> QED BY <2>8, <2>9, PhaseStays DEF TxPhases
<1>10. ASSUME NEW p \in TxRequests, UNCHANGED inVars, CredentialsSave(p) PROVE TxPhases'
  <2>8. \A q \in TxRequests \ {p} : txAt'[q] = txAt[q] /\ txIn'[q] = txIn[q]
    BY <1>10 DEF CredentialsSave, TxGoto, ExchangeTypeOK
  <2>9. TxPhase(p)'
    BY <1>10 DEF CredentialsSave, TxGoto, ExchangeTypeOK, TxPhases, TxPhase
  <2> QED BY <2>8, <2>9, PhaseStays DEF TxPhases
<1>11. ASSUME NEW p \in TxRequests, UNCHANGED inVars, ExchangeRevokeConsent(p) PROVE TxPhases'
  <2>1. PICK c \in TxClients, r \in TxResources :
          txIn' = [txIn EXCEPT ![p] = [NoInput EXCEPT !.op = "consent", !.caller = c, !.target = r]]
    BY <1>11, Zenon DEF ExchangeRevokeConsent
  <2>2. /\ txIn'[p].op = "consent" /\ txIn'[p].caller = c /\ txIn'[p].target = r
        /\ txIn'[p].gated = FALSE /\ txIn'[p].fronted = FALSE
    BY <2>1 DEF NoInput, ExchangeTypeOK
  <2>3. txAt'[p] = "cascade"
    BY <1>11 DEF ExchangeRevokeConsent, TxGoto, ExchangeTypeOK
  <2>8. \A q \in TxRequests \ {p} : txAt'[q] = txAt[q] /\ txIn'[q] = txIn[q]
    BY <1>11 DEF ExchangeRevokeConsent, TxGoto, ExchangeTypeOK
  <2>9. TxPhase(p)'
    BY <2>2, <2>3 DEF TxPhase
  <2> QED BY <2>8, <2>9, PhaseStays DEF TxPhases
<1>12. ASSUME NEW p \in TxRequests, UNCHANGED inVars, ExchangeCascade(p) PROVE TxPhases'
  <2>8. \A q \in TxRequests \ {p} : txAt'[q] = txAt[q] /\ txIn'[q] = txIn[q]
    BY <1>12 DEF ExchangeCascade, TxGoto, ExchangeTypeOK
  <2>9. TxPhase(p)'
    BY <1>12 DEF ExchangeCascade, TxGoto, ExchangeTypeOK, TxPhases, TxPhase
  <2> QED BY <2>8, <2>9, PhaseStays DEF TxPhases
<1>13. ASSUME NEW k \in TxConsents, UNCHANGED inVars, Regrant(k) PROVE TxPhases'
  <2>1. txAt' = txAt /\ txIn' = txIn
    BY <1>13 DEF Regrant, txReqVars
  <2> QED BY <2>1, PhaseStays DEF TxPhases
<1>14. ASSUME NEW j \in TxJtis, UNCHANGED inVars, AdminRevokeIssuance(j) PROVE TxPhases'
  <2>1. txAt' = txAt /\ txIn' = txIn
    BY <1>14 DEF AdminRevokeIssuance, txReqVars
  <2> QED BY <2>1, PhaseStays DEF TxPhases
<1>15. ASSUME NEW j \in TxJtis, UNCHANGED inVars, TryRevokeMachineToken(j) PROVE TxPhases'
  <2>1. txAt' = txAt /\ txIn' = txIn
    BY <1>15 DEF TryRevokeMachineToken, txReqVars
  <2> QED BY <2>1, PhaseStays DEF TxPhases
<1>16. ASSUME NEW j \in TxJtis, UNCHANGED inVars, DenyRoot(j) PROVE TxPhases'
  <2>1. txAt' = txAt /\ txIn' = txIn
    BY <1>16 DEF DenyRoot, txReqVars
  <2> QED BY <2>1, PhaseStays DEF TxPhases
<1>17. ASSUME UNCHANGED inVars, SuspendOrDisable PROVE TxPhases'
  <2>1. txAt' = txAt /\ txIn' = txIn
    BY <1>17 DEF SuspendOrDisable, txReqVars
  <2> QED BY <2>1, PhaseStays DEF TxPhases
<1>18. ASSUME NEW p \in TxRequests, IntrospectToken(p) PROVE TxPhases'
  <2>1. PICK d \in TxInput : 
          /\ d.op = "introspect" /\ d.subject \in txHeld /\ d.gated = FALSE /\ d.fronted = FALSE
          /\ TxArrive(p, d, "inIssuance")
    BY <1>18, IntrospectArrives
  <2>8. \A q \in TxRequests \ {p} : txAt'[q] = txAt[q] /\ txIn'[q] = txIn[q]
    BY <2>1 DEF TxArrive, TxGoto, ExchangeTypeOK
  <2>9. TxPhase(p)'
    BY <2>1 DEF TxArrive, TxGoto, ExchangeTypeOK, TxPhase, TxInput, txAdminVars
  <2> QED BY <2>8, <2>9, PhaseStays DEF TxPhases
<1>19. ASSUME NEW p \in TxRequests, InIssuance(p) PROVE TxPhases'
  <2>8. \A q \in TxRequests \ {p} : txAt'[q] = txAt[q] /\ txIn'[q] = txIn[q]
    BY <1>19 DEF InIssuance, TxGoto, ExchangeTypeOK, DenyInactive, Answer, PassTo, InUnchanged
  <2>9. TxPhase(p)'
    BY <1>19
       DEF InIssuance, TxGoto, ExchangeTypeOK, TxPhases, TxPhase, DenyInactive, Answer, PassTo,
           InUnchanged
  <2> QED BY <2>8, <2>9, PhaseStays DEF TxPhases
<1>20. ASSUME NEW p \in TxRequests, InMachine(p) PROVE TxPhases'
  <2>8. \A q \in TxRequests \ {p} : txAt'[q] = txAt[q] /\ txIn'[q] = txIn[q]
    BY <1>20 DEF InMachine, TxGoto, ExchangeTypeOK, DenyInactive, Answer, PassTo, InUnchanged
  <2>9. TxPhase(p)'
    BY <1>20
       DEF InMachine, TxGoto, ExchangeTypeOK, TxPhases, TxPhase, DenyInactive, Answer, PassTo,
           InUnchanged
  <2> QED BY <2>8, <2>9, PhaseStays DEF TxPhases
<1>21. ASSUME NEW p \in TxRequests, InDenylist(p) PROVE TxPhases'
  <2>8. \A q \in TxRequests \ {p} : txAt'[q] = txAt[q] /\ txIn'[q] = txIn[q]
    BY <1>21 DEF InDenylist, TxGoto, ExchangeTypeOK, DenyInactive, Answer, PassTo, InUnchanged
  <2>9. TxPhase(p)'
    BY <1>21
       DEF InDenylist, TxGoto, ExchangeTypeOK, TxPhases, TxPhase, DenyInactive, Answer, PassTo,
           InUnchanged
  <2> QED BY <2>8, <2>9, PhaseStays DEF TxPhases
<1>22. ASSUME NEW p \in TxRequests, InClient(p) PROVE TxPhases'
  <2>8. \A q \in TxRequests \ {p} : txAt'[q] = txAt[q] /\ txIn'[q] = txIn[q]
    BY <1>22 DEF InClient, TxGoto, ExchangeTypeOK, DenyInactive, Answer, PassTo, InUnchanged
  <2>9. TxPhase(p)'
    BY <1>22
       DEF InClient, TxGoto, ExchangeTypeOK, TxPhases, TxPhase, DenyInactive, Answer, PassTo,
           InUnchanged
  <2> QED BY <2>8, <2>9, PhaseStays DEF TxPhases
<1>23. ASSUME NEW p \in TxRequests, InUser(p) PROVE TxPhases'
  <2>8. \A q \in TxRequests \ {p} : txAt'[q] = txAt[q] /\ txIn'[q] = txIn[q]
    BY <1>23 DEF InUser, TxGoto, ExchangeTypeOK, DenyInactive, Answer, PassTo, InUnchanged
  <2>9. TxPhase(p)'
    BY <1>23
       DEF InUser, TxGoto, ExchangeTypeOK, TxPhases, TxPhase, DenyInactive, Answer, PassTo,
           InUnchanged
  <2> QED BY <2>8, <2>9, PhaseStays DEF TxPhases
<1>24. ASSUME UNCHANGED inVars, UserCacheLapses PROVE TxPhases'
  <2>1. txAt' = txAt /\ txIn' = txIn
    BY <1>24 DEF UserCacheLapses, txReqVars
  <2> QED BY <2>1, PhaseStays DEF TxPhases
<1>25. CASE UNCHANGED introspectVars
  <2>1. txAt' = txAt /\ txIn' = txIn
    BY <1>25 DEF introspectVars, txVars
  <2> QED BY <2>1, PhaseStays DEF TxPhases
<1> QED BY <1>1, <1>2, <1>3, <1>4, <1>5, <1>6, <1>7, <1>8, <1>9, <1>10, <1>11, <1>12, <1>13,
       <1>14, <1>15, <1>16, <1>17, <1>18, <1>19, <1>20, <1>21, <1>22, <1>23, <1>24, <1>25
        DEF IntrospectNext, ExchangeNext, ExchangeAdmin, ExchangeStep, IntrospectStep

\* A machine token stays its own client's, or the user's.
LEMMA MachinesKeep ==
    ASSUME ExchangeTypeOK, TxHandedOut, TxPhases, TxMachines, [IntrospectNext]_introspectVars
    PROVE  TxMachines'
<1>1. ASSUME NEW p \in TxRequests, UNCHANGED inVars, HandleTokenExchange(p) PROVE TxMachines'
  <2>1. PICK d \in TxInput : TxArrive(p, d, IF d.target = TxNone THEN "selfSave"
                                            ELSE IF d.gated THEN "gate" ELSE "mint")
    BY <1>1, ExchangeArrives
  <2> QED BY <2>1 DEF TxArrive, TxMachines, ExchangeTypeOK, TxJtis
<1>2. ASSUME NEW p \in TxRequests, UNCHANGED inVars, ConsentGate(p) PROVE TxMachines'
  BY <1>2 DEF ConsentGate, TxMachines, ExchangeTypeOK, TxJtis
<1>3. ASSUME NEW p \in TxRequests, UNCHANGED inVars, MintIssue(p) PROVE TxMachines'
  <2>1. /\ txAt[p] = "mint" /\ txIn[p].op = "exchange" /\ txIn[p].caller \in TxClients
        /\ txIn[p].subject \in TxJtis /\ txTok[txIn[p].subject] \in Claims
        /\ txTok[txIn[p].subject] # TxNone /\ Subject(txIn[p]) = txTok[txIn[p].subject]
    <3>1. txAt[p] = "mint" /\ txIn[p].op = "exchange" /\ txIn[p].caller \in TxClients
      BY <1>3 DEF MintIssue, TxPhases, TxPhase
    <3> QED BY <3>1, SubjectType, TxRowsAssumption
  <2>2. /\ txTok'[p].sub = txTok[txIn[p].subject].sub /\ txMach' = txMach /\ txMach[p] = "none"
        /\ txTok'[p].client = IF txIn[p].fronted THEN txTok[txIn[p].subject].aud ELSE txIn[p].caller
    BY <1>3, <2>1 DEF MintIssue, MintRow, SourceOf, ExchangeTypeOK, TxJtis, TxHandedOut, TxBlank
  <2>3. \/ txTok'[p].sub = "user"
        \/ txTok'[p].client \in {txTok'[p].sub} \cup TxResources
    BY <2>1, <2>2, TxNamesAssumption DEF TxMachines, TxPhases, TxPhase
  <2>4. \A j \in TxJtis \ {p} : txTok'[j] = txTok[j]
    BY <1>3 DEF MintIssue, ExchangeTypeOK
  <2> QED BY <2>2, <2>3, <2>4 DEF TxMachines
<1>4. ASSUME NEW p \in TxRequests, UNCHANGED inVars, RefuseIfRevoked(p) PROVE TxMachines'
  BY <1>4 DEF RefuseIfRevoked, TxMachines, ExchangeTypeOK, TxJtis
<1>5. ASSUME NEW p \in TxRequests, UNCHANGED inVars, RefuseIfConsentGone(p) PROVE TxMachines'
  BY <1>5 DEF RefuseIfConsentGone, TxMachines, ExchangeTypeOK, TxJtis
<1>6. ASSUME NEW p \in TxRequests, UNCHANGED inVars, RevokeOwnIssuance(p) PROVE TxMachines'
  BY <1>6 DEF RevokeOwnIssuance, TxMachines, ExchangeTypeOK, TxJtis
<1>7. ASSUME NEW p \in TxRequests, UNCHANGED inVars, SaveExchanged(p) PROVE TxMachines'
  <2>1. /\ txAt[p] = "selfSave" /\ txIn[p].op = "exchange" /\ txIn[p].caller \in TxClients
        /\ txIn[p].subject \in TxJtis /\ txTok[txIn[p].subject] \in Claims
        /\ txTok[txIn[p].subject] # TxNone /\ Subject(txIn[p]) = txTok[txIn[p].subject]
    <3>1. txAt[p] = "selfSave" /\ txIn[p].op = "exchange" /\ txIn[p].caller \in TxClients
      BY <1>7 DEF SaveExchanged, TxPhases, TxPhase
    <3> QED BY <3>1, SubjectType, TxRowsAssumption
  <2>2. /\ txTok'[p].sub = txTok[txIn[p].subject].sub /\ txTok'[p].client = txIn[p].caller
        /\ txIn[p].caller = txTok[txIn[p].subject].client
    BY <1>7, <2>1 DEF SaveExchanged, ExchangeTypeOK, TxJtis, TxPhases, TxPhase
  <2>3. txTok'[p].sub = "user" \/ txTok'[p].client = txTok'[p].sub
    BY <2>1, <2>2, TxNamesAssumption DEF TxMachines
  <2>4. \A j \in TxJtis \ {p} : txTok'[j] = txTok[j] /\ txMach'[j] = txMach[j]
    BY <1>7 DEF SaveExchanged, SaveMachineToken, ExchangeTypeOK
  <2> QED BY <2>3, <2>4 DEF TxMachines
<1>8. ASSUME NEW p \in TxRequests, UNCHANGED inVars, HandleClientCredentials(p) PROVE TxMachines'
  <2>1. PICK d \in TxInput : TxArrive(p, d, "ccIssue")
    BY <1>8, CredentialsArrive
  <2> QED BY <2>1 DEF TxArrive, TxMachines, ExchangeTypeOK, TxJtis
<1>9. ASSUME NEW p \in TxRequests, UNCHANGED inVars, CredentialsIssue(p) PROVE TxMachines'
  BY <1>9 DEF CredentialsIssue, TxMachines, ExchangeTypeOK, TxJtis
<1>10. ASSUME NEW p \in TxRequests, UNCHANGED inVars, CredentialsSave(p) PROVE TxMachines'
  BY <1>10
     DEF CredentialsSave, SaveMachineToken, TxMachines, ExchangeTypeOK, TxJtis, TxPhases, TxPhase
<1>11. ASSUME NEW p \in TxRequests, UNCHANGED inVars, ExchangeRevokeConsent(p) PROVE TxMachines'
  BY <1>11 DEF ExchangeRevokeConsent, TxMachines, ExchangeTypeOK, TxJtis
<1>12. ASSUME NEW p \in TxRequests, UNCHANGED inVars, ExchangeCascade(p) PROVE TxMachines'
  BY <1>12 DEF ExchangeCascade, TxMachines, ExchangeTypeOK, TxJtis
<1>13. ASSUME NEW k \in TxConsents, UNCHANGED inVars, Regrant(k) PROVE TxMachines'
  BY <1>13 DEF Regrant, TxMachines, ExchangeTypeOK, TxJtis
<1>14. ASSUME NEW j \in TxJtis, UNCHANGED inVars, AdminRevokeIssuance(j) PROVE TxMachines'
  BY <1>14 DEF AdminRevokeIssuance, TxMachines, ExchangeTypeOK, TxJtis
<1>15. ASSUME NEW j \in TxJtis, UNCHANGED inVars, TryRevokeMachineToken(j) PROVE TxMachines'
  BY <1>15 DEF TryRevokeMachineToken, RevokeMachineToken, TxMachines, ExchangeTypeOK, TxJtis
<1>16. ASSUME NEW j \in TxJtis, UNCHANGED inVars, DenyRoot(j) PROVE TxMachines'
  BY <1>16 DEF DenyRoot, TxMachines, ExchangeTypeOK, TxJtis
<1>17. ASSUME UNCHANGED inVars, SuspendOrDisable PROVE TxMachines'
  BY <1>17 DEF SuspendOrDisable, TxMachines, ExchangeTypeOK, TxJtis
<1>18. ASSUME NEW p \in TxRequests, IntrospectToken(p) PROVE TxMachines'
  <2>1. PICK d \in TxInput : TxArrive(p, d, "inIssuance")
    BY <1>18, IntrospectArrives
  <2> QED BY <2>1 DEF TxArrive, TxMachines, ExchangeTypeOK, TxJtis
<1>19. ASSUME NEW p \in TxRequests, InIssuance(p) PROVE TxMachines'
  BY <1>19
     DEF InIssuance, DenyInactive, Answer, PassTo, InUnchanged, TxMachines, ExchangeTypeOK, TxJtis
<1>20. ASSUME NEW p \in TxRequests, InMachine(p) PROVE TxMachines'
  BY <1>20
     DEF InMachine, DenyInactive, Answer, PassTo, InUnchanged, TxMachines, ExchangeTypeOK, TxJtis
<1>21. ASSUME NEW p \in TxRequests, InDenylist(p) PROVE TxMachines'
  BY <1>21
     DEF InDenylist, DenyInactive, Answer, PassTo, InUnchanged, TxMachines, ExchangeTypeOK, TxJtis
<1>22. ASSUME NEW p \in TxRequests, InClient(p) PROVE TxMachines'
  BY <1>22
     DEF InClient, DenyInactive, Answer, PassTo, InUnchanged, TxMachines, ExchangeTypeOK, TxJtis
<1>23. ASSUME NEW p \in TxRequests, InUser(p) PROVE TxMachines'
  BY <1>23 DEF InUser, DenyInactive, Answer, PassTo, InUnchanged, TxMachines, ExchangeTypeOK, TxJtis
<1>24. ASSUME UNCHANGED inVars, UserCacheLapses PROVE TxMachines'
  BY <1>24 DEF UserCacheLapses, TxMachines, ExchangeTypeOK, TxJtis
<1>25. CASE UNCHANGED introspectVars
  BY <1>25 DEF introspectVars, txVars, TxMachines
<1> QED BY <1>1, <1>2, <1>3, <1>4, <1>5, <1>6, <1>7, <1>8, <1>9, <1>10, <1>11, <1>12, <1>13,
       <1>14, <1>15, <1>16, <1>17, <1>18, <1>19, <1>20, <1>21, <1>22, <1>23, <1>24, <1>25
        DEF IntrospectNext, ExchangeNext, ExchangeAdmin, ExchangeStep, IntrospectStep

\* A request that did not move has asked for no more, and was given no more.
LEMMA NarrowsStay ==
    ASSUME ExchangeTypeOK, TxHandedOut, TxPhases, TxNarrows, TxFrame, NEW q \in TxRequests,
           txIn[q].op = "exchange", txIn'[q] = txIn[q]
    PROVE  /\ txAt[q] \in {"gate", "mint", "selfSave"} => TxNarrow(txIn[q], txIn[q].scope)'
           /\ txTok[q] # TxNone => TxNarrow(txIn[q], txTok[q].scope)'
<1>1. txTok'[txIn[q].subject] = txTok[txIn[q].subject] /\ txLink' = txLink
  BY DEF TxPhases, TxPhase, TxHandedOut, TxFrame, ExchangeTypeOK
<1>2. SelfExchange(txIn[q])' <=> SelfExchange(txIn[q])
  BY <1>1 DEF SelfExchange, Subject
<1>3. ASSUME txAt[q] \in {"gate", "mint", "selfSave"} PROVE TxNarrow(txIn[q], txIn[q].scope)'
  <2>1. TxNarrow(txIn[q], txIn[q].scope)
    BY <1>3 DEF TxNarrows
  <2> QED BY <1>1, <1>2, <2>1 DEF TxNarrow
<1>4. ASSUME txTok[q] # TxNone PROVE TxNarrow(txIn[q], txTok[q].scope)'
  <2>1. TxNarrow(txIn[q], txTok[q].scope) /\ txTok'[q] = txTok[q]
    BY <1>4 DEF TxNarrows, TxFrame, TxJtis
  <2> QED BY <1>1, <1>2, <2>1 DEF TxNarrow
<1> QED BY <1>3, <1>4

\* No exchange widens.
LEMMA NarrowsKeep ==
    ASSUME ExchangeTypeOK, TxHandedOut, TxPhases, TxFrame, TxNarrows,
           [IntrospectNext]_introspectVars
    PROVE  TxNarrows'
<1>1. ASSUME NEW p \in TxRequests, UNCHANGED inVars, HandleTokenExchange(p) PROVE TxNarrows'
  <2>1. PICK d \in TxInput : TxNarrow(d, d.scope) /\ TxArrive(p, d, IF d.target = TxNone THEN "selfSave"
                                            ELSE IF d.gated THEN "gate" ELSE "mint")
    BY <1>1, ExchangeArrives
  <2>8. \A q \in TxRequests \ {p} :
          txAt'[q] = txAt[q] /\ txIn'[q] = txIn[q] /\ txTok'[q] = txTok[q]
    BY <2>1 DEF TxArrive, TxGoto, ExchangeTypeOK
  <2>2. txIn'[p] = d /\ txTok' = txTok /\ txLink' = txLink /\ txTok[p] = TxNone
    BY <2>1 DEF TxArrive, TxMayAsk, ExchangeTypeOK, txAdminVars, TxHandedOut, TxBlank
  <2>3. SelfExchange(txIn[p])' <=> SelfExchange(d)
    BY <2>2 DEF SelfExchange, Subject
  <2>9. TxNarrow(txIn[p], txIn[p].scope)' /\ txTok'[p] = TxNone
    BY <2>1, <2>2, <2>3 DEF TxNarrow
  <2> QED BY <2>8, <2>9, NarrowsStay DEF TxNarrows
<1>2. ASSUME NEW p \in TxRequests, UNCHANGED inVars, ConsentGate(p) PROVE TxNarrows'
  <2>8. \A q \in TxRequests \ {p} :
          txAt'[q] = txAt[q] /\ txIn'[q] = txIn[q] /\ txTok'[q] = txTok[q]
    BY <1>2 DEF ConsentGate, TxGoto, ExchangeTypeOK, TxJtis
  <2>1. txTok' = txTok /\ txTok[p] = TxNone /\ txLink' = txLink /\ txAt[p] = "gate"
        /\ txIn[p].gated /\ txIn[p].target \in TxResources /\ txIn[p].op = "exchange"
    BY <1>2 DEF ConsentGate, TxHandedOut, TxBlank, TxPhases, TxPhase, txAdminVars
  <2>2. CASE txAt'[p] = "done"
    BY <2>1, <2>2, <2>8, NarrowsStay DEF TxNarrows
  <2>3. CASE txAt'[p] # "done"
    <3> DEFINE s == IF txIn[p].scope # {} THEN txIn[p].scope
                    ELSE GrantDefaultScopes(txIn[p].target, ConsentFor(p), Subject(txIn[p]).scope)
    <3>1. txIn' = [txIn EXCEPT ![p].scope = s]
      BY <1>2, <2>3 DEF ConsentGate, TxGoto, ExchangeTypeOK
    <3>2. TxNarrow(txIn[p], s)
      BY <2>1, TxNoneAssumption DEF TxNarrows, TxNarrow, GrantDefaultScopes, Subject
    <3> HIDE DEF s
    <3>3. /\ txIn'[p].scope = s /\ txIn'[p].caller = txIn[p].caller
          /\ txIn'[p].subject = txIn[p].subject /\ txIn'[p].target = txIn[p].target
          /\ txIn'[p].gated = txIn[p].gated /\ txIn'[p].fronted = txIn[p].fronted
      BY <3>1 DEF ExchangeTypeOK, TxInput
    <3>4. SelfExchange(txIn[p])' <=> SelfExchange(txIn[p])
      BY <2>1, <3>3 DEF SelfExchange, Subject
    <3>5. TxNarrow(txIn[p], txIn[p].scope)'
      BY <2>1, <3>2, <3>3, <3>4 DEF TxNarrow
    <3> QED BY <2>1, <2>8, <3>5, NarrowsStay DEF TxNarrows
  <2> QED BY <2>2, <2>3
<1>3. ASSUME NEW p \in TxRequests, UNCHANGED inVars, MintIssue(p) PROVE TxNarrows'
  <2>8. \A q \in TxRequests \ {p} :
          txAt'[q] = txAt[q] /\ txIn'[q] = txIn[q] /\ txTok'[q] = txTok[q]
    BY <1>3 DEF MintIssue, TxGoto, ExchangeTypeOK, TxJtis
  <2>1. /\ txAt[p] = "mint" /\ txIn[p].op = "exchange" /\ txIn' = txIn
        /\ txTok'[p].scope = txIn[p].scope
        /\ txAt'[p] \notin {"gate", "mint", "selfSave"}
    BY <1>3 DEF MintIssue, TxGoto, ExchangeTypeOK, TxJtis, TxPhases, TxPhase
  <2>2. TxNarrow(txIn[p], txIn[p].scope)'
    BY <2>1, NarrowsStay
  <2>9. TxNarrow(txIn[p], txTok[p].scope)'
    BY <2>1, <2>2 DEF TxNarrow
  <2> QED BY <2>1, <2>8, <2>9, NarrowsStay DEF TxNarrows
<1>4. ASSUME NEW p \in TxRequests, UNCHANGED inVars, RefuseIfRevoked(p) PROVE TxNarrows'
  <2>8. \A q \in TxRequests \ {p} :
          txAt'[q] = txAt[q] /\ txIn'[q] = txIn[q] /\ txTok'[q] = txTok[q]
    BY <1>4 DEF RefuseIfRevoked, TxGoto, ExchangeTypeOK, TxJtis
  <2>9. txAt'[p] \notin {"gate", "mint", "selfSave"} /\ txIn'[p] = txIn[p] /\ txTok'[p] = txTok[p]
    BY <1>4 DEF RefuseIfRevoked, TxGoto, ExchangeTypeOK
  <2> QED BY <2>8, <2>9, NarrowsStay DEF TxNarrows
<1>5. ASSUME NEW p \in TxRequests, UNCHANGED inVars, RefuseIfConsentGone(p) PROVE TxNarrows'
  <2>8. \A q \in TxRequests \ {p} :
          txAt'[q] = txAt[q] /\ txIn'[q] = txIn[q] /\ txTok'[q] = txTok[q]
    BY <1>5 DEF RefuseIfConsentGone, TxGoto, ExchangeTypeOK, TxJtis
  <2>9. txAt'[p] \notin {"gate", "mint", "selfSave"} /\ txIn'[p] = txIn[p] /\ txTok'[p] = txTok[p]
    BY <1>5 DEF RefuseIfConsentGone, TxGoto, ExchangeTypeOK
  <2> QED BY <2>8, <2>9, NarrowsStay DEF TxNarrows
<1>6. ASSUME NEW p \in TxRequests, UNCHANGED inVars, RevokeOwnIssuance(p) PROVE TxNarrows'
  <2>8. \A q \in TxRequests \ {p} :
          txAt'[q] = txAt[q] /\ txIn'[q] = txIn[q] /\ txTok'[q] = txTok[q]
    BY <1>6 DEF RevokeOwnIssuance, TxGoto, ExchangeTypeOK, TxJtis
  <2>9. txAt'[p] \notin {"gate", "mint", "selfSave"} /\ txIn'[p] = txIn[p] /\ txTok'[p] = txTok[p]
    BY <1>6 DEF RevokeOwnIssuance, TxGoto, ExchangeTypeOK
  <2> QED BY <2>8, <2>9, NarrowsStay DEF TxNarrows
<1>7. ASSUME NEW p \in TxRequests, UNCHANGED inVars, SaveExchanged(p) PROVE TxNarrows'
  <2>8. \A q \in TxRequests \ {p} :
          txAt'[q] = txAt[q] /\ txIn'[q] = txIn[q] /\ txTok'[q] = txTok[q]
    BY <1>7 DEF SaveExchanged, TxGoto, ExchangeTypeOK, TxJtis
  <2>1. /\ txAt[p] = "selfSave" /\ txIn[p].op = "exchange" /\ txIn' = txIn
        /\ txTok'[p].scope = txIn[p].scope
        /\ txAt'[p] \notin {"gate", "mint", "selfSave"}
    BY <1>7 DEF SaveExchanged, TxGoto, ExchangeTypeOK, TxJtis, TxPhases, TxPhase
  <2>2. TxNarrow(txIn[p], txIn[p].scope)'
    BY <2>1, NarrowsStay
  <2>9. TxNarrow(txIn[p], txTok[p].scope)'
    BY <2>1, <2>2 DEF TxNarrow
  <2> QED BY <2>1, <2>8, <2>9, NarrowsStay DEF TxNarrows
<1>8. ASSUME NEW p \in TxRequests, UNCHANGED inVars, HandleClientCredentials(p) PROVE TxNarrows'
  <2>1. PICK d \in TxInput : d.op = "credentials" /\ TxArrive(p, d, "ccIssue")
    BY <1>8, CredentialsArrive
  <2>8. \A q \in TxRequests \ {p} :
          txAt'[q] = txAt[q] /\ txIn'[q] = txIn[q] /\ txTok'[q] = txTok[q]
    BY <2>1 DEF TxArrive, TxGoto, ExchangeTypeOK
  <2>9. txIn'[p].op = "credentials"
    BY <2>1 DEF TxArrive, ExchangeTypeOK
  <2> QED BY <2>8, <2>9, NarrowsStay DEF TxNarrows
<1>9. ASSUME NEW p \in TxRequests, UNCHANGED inVars, CredentialsIssue(p) PROVE TxNarrows'
  <2>8. \A q \in TxRequests \ {p} :
          txAt'[q] = txAt[q] /\ txIn'[q] = txIn[q] /\ txTok'[q] = txTok[q]
    BY <1>9 DEF CredentialsIssue, TxGoto, ExchangeTypeOK, TxJtis
  <2>9. txIn'[p].op = "credentials"
    BY <1>9 DEF CredentialsIssue, TxPhases, TxPhase
  <2> QED BY <2>8, <2>9, NarrowsStay DEF TxNarrows
<1>10. ASSUME NEW p \in TxRequests, UNCHANGED inVars, CredentialsSave(p) PROVE TxNarrows'
  <2>8. \A q \in TxRequests \ {p} :
          txAt'[q] = txAt[q] /\ txIn'[q] = txIn[q] /\ txTok'[q] = txTok[q]
    BY <1>10 DEF CredentialsSave, TxGoto, ExchangeTypeOK, TxJtis
  <2>9. txIn'[p].op = "credentials"
    BY <1>10 DEF CredentialsSave, TxPhases, TxPhase
  <2> QED BY <2>8, <2>9, NarrowsStay DEF TxNarrows
<1>11. ASSUME NEW p \in TxRequests, UNCHANGED inVars, ExchangeRevokeConsent(p) PROVE TxNarrows'
  <2>8. \A q \in TxRequests \ {p} :
          txAt'[q] = txAt[q] /\ txIn'[q] = txIn[q] /\ txTok'[q] = txTok[q]
    BY <1>11 DEF ExchangeRevokeConsent, TxGoto, ExchangeTypeOK, TxJtis
  <2>1. PICK c \in TxClients, r \in TxResources :
          txIn' = [txIn EXCEPT ![p] = [NoInput EXCEPT !.op = "consent", !.caller = c, !.target = r]]
    BY <1>11, Zenon DEF ExchangeRevokeConsent
  <2>9. txIn'[p].op = "consent"
    BY <2>1 DEF NoInput, ExchangeTypeOK
  <2> QED BY <2>8, <2>9, NarrowsStay DEF TxNarrows
<1>12. ASSUME NEW p \in TxRequests, UNCHANGED inVars, ExchangeCascade(p) PROVE TxNarrows'
  <2>8. \A q \in TxRequests \ {p} :
          txAt'[q] = txAt[q] /\ txIn'[q] = txIn[q] /\ txTok'[q] = txTok[q]
    BY <1>12 DEF ExchangeCascade, TxGoto, ExchangeTypeOK, TxJtis
  <2>9. txAt'[p] \notin {"gate", "mint", "selfSave"} /\ txIn'[p] = txIn[p] /\ txTok'[p] = txTok[p]
    BY <1>12 DEF ExchangeCascade, TxGoto, ExchangeTypeOK
  <2> QED BY <2>8, <2>9, NarrowsStay DEF TxNarrows
<1>13. ASSUME NEW k \in TxConsents, UNCHANGED inVars, Regrant(k) PROVE TxNarrows'
  <2>1. txAt' = txAt /\ txIn' = txIn /\ txTok' = txTok
    BY <1>13 DEF Regrant, txReqVars
  <2> QED BY <2>1, NarrowsStay DEF TxNarrows
<1>14. ASSUME NEW j \in TxJtis, UNCHANGED inVars, AdminRevokeIssuance(j) PROVE TxNarrows'
  <2>1. txAt' = txAt /\ txIn' = txIn /\ txTok' = txTok
    BY <1>14 DEF AdminRevokeIssuance, txReqVars
  <2> QED BY <2>1, NarrowsStay DEF TxNarrows
<1>15. ASSUME NEW j \in TxJtis, UNCHANGED inVars, TryRevokeMachineToken(j) PROVE TxNarrows'
  <2>1. txAt' = txAt /\ txIn' = txIn /\ txTok' = txTok
    BY <1>15 DEF TryRevokeMachineToken, txReqVars
  <2> QED BY <2>1, NarrowsStay DEF TxNarrows
<1>16. ASSUME NEW j \in TxJtis, UNCHANGED inVars, DenyRoot(j) PROVE TxNarrows'
  <2>1. txAt' = txAt /\ txIn' = txIn /\ txTok' = txTok
    BY <1>16 DEF DenyRoot, txReqVars
  <2> QED BY <2>1, NarrowsStay DEF TxNarrows
<1>17. ASSUME UNCHANGED inVars, SuspendOrDisable PROVE TxNarrows'
  <2>1. txAt' = txAt /\ txIn' = txIn /\ txTok' = txTok
    BY <1>17 DEF SuspendOrDisable, txReqVars
  <2> QED BY <2>1, NarrowsStay DEF TxNarrows
<1>18. ASSUME NEW p \in TxRequests, IntrospectToken(p) PROVE TxNarrows'
  <2>1. PICK d \in TxInput : d.op = "introspect" /\ TxArrive(p, d, "inIssuance")
    BY <1>18, IntrospectArrives
  <2>8. \A q \in TxRequests \ {p} :
          txAt'[q] = txAt[q] /\ txIn'[q] = txIn[q] /\ txTok'[q] = txTok[q]
    BY <2>1 DEF TxArrive, TxGoto, ExchangeTypeOK
  <2>9. txIn'[p].op = "introspect"
    BY <2>1 DEF TxArrive, ExchangeTypeOK
  <2> QED BY <2>8, <2>9, NarrowsStay DEF TxNarrows
<1>19. ASSUME NEW p \in TxRequests, InIssuance(p) PROVE TxNarrows'
  <2>8. \A q \in TxRequests \ {p} :
          txAt'[q] = txAt[q] /\ txIn'[q] = txIn[q] /\ txTok'[q] = txTok[q]
    BY <1>19
       DEF InIssuance, TxGoto, ExchangeTypeOK, TxJtis, DenyInactive, Answer, PassTo, InUnchanged
  <2>9. txIn'[p].op = "introspect"
    BY <1>19 DEF InIssuance, DenyInactive, Answer, PassTo, InUnchanged, TxPhases, TxPhase
  <2> QED BY <2>8, <2>9, NarrowsStay DEF TxNarrows
<1>20. ASSUME NEW p \in TxRequests, InMachine(p) PROVE TxNarrows'
  <2>8. \A q \in TxRequests \ {p} :
          txAt'[q] = txAt[q] /\ txIn'[q] = txIn[q] /\ txTok'[q] = txTok[q]
    BY <1>20
       DEF InMachine, TxGoto, ExchangeTypeOK, TxJtis, DenyInactive, Answer, PassTo, InUnchanged
  <2>9. txIn'[p].op = "introspect"
    BY <1>20 DEF InMachine, DenyInactive, Answer, PassTo, InUnchanged, TxPhases, TxPhase
  <2> QED BY <2>8, <2>9, NarrowsStay DEF TxNarrows
<1>21. ASSUME NEW p \in TxRequests, InDenylist(p) PROVE TxNarrows'
  <2>8. \A q \in TxRequests \ {p} :
          txAt'[q] = txAt[q] /\ txIn'[q] = txIn[q] /\ txTok'[q] = txTok[q]
    BY <1>21
       DEF InDenylist, TxGoto, ExchangeTypeOK, TxJtis, DenyInactive, Answer, PassTo, InUnchanged
  <2>9. txIn'[p].op = "introspect"
    BY <1>21 DEF InDenylist, DenyInactive, Answer, PassTo, InUnchanged, TxPhases, TxPhase
  <2> QED BY <2>8, <2>9, NarrowsStay DEF TxNarrows
<1>22. ASSUME NEW p \in TxRequests, InClient(p) PROVE TxNarrows'
  <2>8. \A q \in TxRequests \ {p} :
          txAt'[q] = txAt[q] /\ txIn'[q] = txIn[q] /\ txTok'[q] = txTok[q]
    BY <1>22 DEF InClient, TxGoto, ExchangeTypeOK, TxJtis, DenyInactive, Answer, PassTo, InUnchanged
  <2>9. txIn'[p].op = "introspect"
    BY <1>22 DEF InClient, DenyInactive, Answer, PassTo, InUnchanged, TxPhases, TxPhase
  <2> QED BY <2>8, <2>9, NarrowsStay DEF TxNarrows
<1>23. ASSUME NEW p \in TxRequests, InUser(p) PROVE TxNarrows'
  <2>8. \A q \in TxRequests \ {p} :
          txAt'[q] = txAt[q] /\ txIn'[q] = txIn[q] /\ txTok'[q] = txTok[q]
    BY <1>23 DEF InUser, TxGoto, ExchangeTypeOK, TxJtis, DenyInactive, Answer, PassTo, InUnchanged
  <2>9. txIn'[p].op = "introspect"
    BY <1>23 DEF InUser, DenyInactive, Answer, PassTo, InUnchanged, TxPhases, TxPhase
  <2> QED BY <2>8, <2>9, NarrowsStay DEF TxNarrows
<1>24. ASSUME UNCHANGED inVars, UserCacheLapses PROVE TxNarrows'
  <2>1. txAt' = txAt /\ txIn' = txIn /\ txTok' = txTok
    BY <1>24 DEF UserCacheLapses, txReqVars
  <2> QED BY <2>1, NarrowsStay DEF TxNarrows
<1>25. CASE UNCHANGED introspectVars
  <2>1. txAt' = txAt /\ txIn' = txIn /\ txTok' = txTok
    BY <1>25 DEF introspectVars, txVars
  <2> QED BY <2>1, NarrowsStay DEF TxNarrows
<1> QED BY <1>1, <1>2, <1>3, <1>4, <1>5, <1>6, <1>7, <1>8, <1>9, <1>10, <1>11, <1>12, <1>13,
       <1>14, <1>15, <1>16, <1>17, <1>18, <1>19, <1>20, <1>21, <1>22, <1>23, <1>24, <1>25
        DEF IntrospectNext, ExchangeNext, ExchangeAdmin, ExchangeStep, IntrospectStep

\* Which step changes what a request does behind its mint, what tokens rest on, and
\* whether a consent stands: the mint is the only one to add to what a token rests
\* on, and a consent goes with a cascade that begins.
TxShape ==
    /\ \A q \in TxRequests : txAt[q] \in {"recheck", "reconsent", "undo", "done", "cascade", "cascadeFailed"} =>
          \/ txAt'[q] = txAt[q] /\ txIn'[q] = txIn[q] /\ (q \in txHeld' => q \in txHeld)
          \/ RefuseIfRevoked(q) \/ RefuseIfConsentGone(q)
          \/ RevokeOwnIssuance(q) \/ ExchangeCascade(q)
    /\ \A q \in TxRequests : txAt'[q] \in {"recheck", "reconsent"} =>
          txAt[q] \in {"recheck", "reconsent"} \/ MintIssue(q)
    /\ txRests' = txRests \/ \E q \in TxRequests : MintIssue(q)
    /\ \A k \in TxConsents : txGrant'[k] = {} => txGrant[k] = {} \/ Cascading(k)'

\* What a step may do to the requests behind their mint, to what tokens rest on, and
\* to the consents.
LEMMA StepShape ==
    ASSUME ExchangeTypeOK, TxHandedOut, [IntrospectNext]_introspectVars
    PROVE  TxShape
<1>1. ASSUME NEW p \in TxRequests, UNCHANGED inVars, HandleTokenExchange(p) PROVE TxShape
  <2>1. PICK d \in TxInput : TxArrive(p, d, IF d.target = TxNone THEN "selfSave"
                                            ELSE IF d.gated THEN "gate" ELSE "mint")
    BY <1>1, ExchangeArrives
  <2> QED BY <2>1 DEF TxArrive, TxMayAsk, TxShape, TxGoto, ExchangeTypeOK, TxJtis
<1>2. ASSUME NEW p \in TxRequests, UNCHANGED inVars, ConsentGate(p) PROVE TxShape
  <2>1. /\ \A q \in TxRequests \ {p} : txAt'[q] = txAt[q] /\ txIn'[q] = txIn[q]
                                        /\ (q \in txHeld' => q \in txHeld)
        /\ txGrant' = txGrant
    BY <1>2 DEF ConsentGate, TxGoto, ExchangeTypeOK
  <2>2. txRests' = txRests \/ MintIssue(p)
    BY <1>2 DEF ConsentGate
  <2>3. /\ txAt[p] \in {"recheck", "reconsent", "undo", "done", "cascade", "cascadeFailed"} =>
              \/ RefuseIfRevoked(p) \/ RefuseIfConsentGone(p)
              \/ RevokeOwnIssuance(p) \/ ExchangeCascade(p)
        /\ txAt'[p] \in {"recheck", "reconsent"} =>
              txAt[p] \in {"recheck", "reconsent"} \/ MintIssue(p)
    BY <1>2 DEF ConsentGate, TxGoto, ExchangeTypeOK
  <2> QED BY <2>1, <2>2, <2>3 DEF TxShape
<1>3. ASSUME NEW p \in TxRequests, UNCHANGED inVars, MintIssue(p) PROVE TxShape
  <2>1. /\ \A q \in TxRequests \ {p} : txAt'[q] = txAt[q] /\ txIn'[q] = txIn[q]
                                        /\ (q \in txHeld' => q \in txHeld)
        /\ txGrant' = txGrant
    BY <1>3 DEF MintIssue, TxGoto, ExchangeTypeOK
  <2>2. txRests' = txRests \/ MintIssue(p)
    BY <1>3 DEF MintIssue
  <2>3. /\ txAt[p] \in {"recheck", "reconsent", "undo", "done", "cascade", "cascadeFailed"} =>
              \/ RefuseIfRevoked(p) \/ RefuseIfConsentGone(p)
              \/ RevokeOwnIssuance(p) \/ ExchangeCascade(p)
        /\ txAt'[p] \in {"recheck", "reconsent"} =>
              txAt[p] \in {"recheck", "reconsent"} \/ MintIssue(p)
    BY <1>3 DEF MintIssue, TxGoto, ExchangeTypeOK
  <2> QED BY <2>1, <2>2, <2>3 DEF TxShape
<1>4. ASSUME NEW p \in TxRequests, UNCHANGED inVars, RefuseIfRevoked(p) PROVE TxShape
  <2>1. /\ \A q \in TxRequests \ {p} : txAt'[q] = txAt[q] /\ txIn'[q] = txIn[q]
                                        /\ (q \in txHeld' => q \in txHeld)
        /\ txGrant' = txGrant
    BY <1>4 DEF RefuseIfRevoked, TxGoto, ExchangeTypeOK
  <2>2. txRests' = txRests \/ MintIssue(p)
    BY <1>4 DEF RefuseIfRevoked
  <2>3. /\ txAt[p] \in {"recheck", "reconsent", "undo", "done", "cascade", "cascadeFailed"} =>
              \/ RefuseIfRevoked(p) \/ RefuseIfConsentGone(p)
              \/ RevokeOwnIssuance(p) \/ ExchangeCascade(p)
        /\ txAt'[p] \in {"recheck", "reconsent"} =>
              txAt[p] \in {"recheck", "reconsent"} \/ MintIssue(p)
    BY <1>4 DEF RefuseIfRevoked, TxGoto, ExchangeTypeOK
  <2> QED BY <2>1, <2>2, <2>3 DEF TxShape
<1>5. ASSUME NEW p \in TxRequests, UNCHANGED inVars, RefuseIfConsentGone(p) PROVE TxShape
  <2>1. /\ \A q \in TxRequests \ {p} : txAt'[q] = txAt[q] /\ txIn'[q] = txIn[q]
                                        /\ (q \in txHeld' => q \in txHeld)
        /\ txGrant' = txGrant
    BY <1>5 DEF RefuseIfConsentGone, TxGoto, ExchangeTypeOK
  <2>2. txRests' = txRests \/ MintIssue(p)
    BY <1>5 DEF RefuseIfConsentGone
  <2>3. /\ txAt[p] \in {"recheck", "reconsent", "undo", "done", "cascade", "cascadeFailed"} =>
              \/ RefuseIfRevoked(p) \/ RefuseIfConsentGone(p)
              \/ RevokeOwnIssuance(p) \/ ExchangeCascade(p)
        /\ txAt'[p] \in {"recheck", "reconsent"} =>
              txAt[p] \in {"recheck", "reconsent"} \/ MintIssue(p)
    BY <1>5 DEF RefuseIfConsentGone, TxGoto, ExchangeTypeOK
  <2> QED BY <2>1, <2>2, <2>3 DEF TxShape
<1>6. ASSUME NEW p \in TxRequests, UNCHANGED inVars, RevokeOwnIssuance(p) PROVE TxShape
  <2>1. /\ \A q \in TxRequests \ {p} : txAt'[q] = txAt[q] /\ txIn'[q] = txIn[q]
                                        /\ (q \in txHeld' => q \in txHeld)
        /\ txGrant' = txGrant
    BY <1>6 DEF RevokeOwnIssuance, TxGoto, ExchangeTypeOK
  <2>2. txRests' = txRests \/ MintIssue(p)
    BY <1>6 DEF RevokeOwnIssuance
  <2>3. /\ txAt[p] \in {"recheck", "reconsent", "undo", "done", "cascade", "cascadeFailed"} =>
              \/ RefuseIfRevoked(p) \/ RefuseIfConsentGone(p)
              \/ RevokeOwnIssuance(p) \/ ExchangeCascade(p)
        /\ txAt'[p] \in {"recheck", "reconsent"} =>
              txAt[p] \in {"recheck", "reconsent"} \/ MintIssue(p)
    BY <1>6 DEF RevokeOwnIssuance, TxGoto, ExchangeTypeOK
  <2> QED BY <2>1, <2>2, <2>3 DEF TxShape
<1>7. ASSUME NEW p \in TxRequests, UNCHANGED inVars, SaveExchanged(p) PROVE TxShape
  <2>1. /\ \A q \in TxRequests \ {p} : txAt'[q] = txAt[q] /\ txIn'[q] = txIn[q]
                                        /\ (q \in txHeld' => q \in txHeld)
        /\ txGrant' = txGrant
    BY <1>7 DEF SaveExchanged, TxGoto, ExchangeTypeOK
  <2>2. txRests' = txRests \/ MintIssue(p)
    BY <1>7 DEF SaveExchanged
  <2>3. /\ txAt[p] \in {"recheck", "reconsent", "undo", "done", "cascade", "cascadeFailed"} =>
              \/ RefuseIfRevoked(p) \/ RefuseIfConsentGone(p)
              \/ RevokeOwnIssuance(p) \/ ExchangeCascade(p)
        /\ txAt'[p] \in {"recheck", "reconsent"} =>
              txAt[p] \in {"recheck", "reconsent"} \/ MintIssue(p)
    BY <1>7 DEF SaveExchanged, TxGoto, ExchangeTypeOK
  <2> QED BY <2>1, <2>2, <2>3 DEF TxShape
<1>8. ASSUME NEW p \in TxRequests, UNCHANGED inVars, HandleClientCredentials(p) PROVE TxShape
  <2>1. PICK d \in TxInput : TxArrive(p, d, "ccIssue")
    BY <1>8, CredentialsArrive
  <2> QED BY <2>1 DEF TxArrive, TxMayAsk, TxShape, TxGoto, ExchangeTypeOK, TxJtis
<1>9. ASSUME NEW p \in TxRequests, UNCHANGED inVars, CredentialsIssue(p) PROVE TxShape
  <2>1. /\ \A q \in TxRequests \ {p} : txAt'[q] = txAt[q] /\ txIn'[q] = txIn[q]
                                        /\ (q \in txHeld' => q \in txHeld)
        /\ txGrant' = txGrant
    BY <1>9 DEF CredentialsIssue, TxGoto, ExchangeTypeOK
  <2>2. txRests' = txRests \/ MintIssue(p)
    BY <1>9 DEF CredentialsIssue
  <2>3. /\ txAt[p] \in {"recheck", "reconsent", "undo", "done", "cascade", "cascadeFailed"} =>
              \/ RefuseIfRevoked(p) \/ RefuseIfConsentGone(p)
              \/ RevokeOwnIssuance(p) \/ ExchangeCascade(p)
        /\ txAt'[p] \in {"recheck", "reconsent"} =>
              txAt[p] \in {"recheck", "reconsent"} \/ MintIssue(p)
    BY <1>9 DEF CredentialsIssue, TxGoto, ExchangeTypeOK
  <2> QED BY <2>1, <2>2, <2>3 DEF TxShape
<1>10. ASSUME NEW p \in TxRequests, UNCHANGED inVars, CredentialsSave(p) PROVE TxShape
  <2>1. /\ \A q \in TxRequests \ {p} : txAt'[q] = txAt[q] /\ txIn'[q] = txIn[q]
                                        /\ (q \in txHeld' => q \in txHeld)
        /\ txGrant' = txGrant
    BY <1>10 DEF CredentialsSave, TxGoto, ExchangeTypeOK
  <2>2. txRests' = txRests \/ MintIssue(p)
    BY <1>10 DEF CredentialsSave
  <2>3. /\ txAt[p] \in {"recheck", "reconsent", "undo", "done", "cascade", "cascadeFailed"} =>
              \/ RefuseIfRevoked(p) \/ RefuseIfConsentGone(p)
              \/ RevokeOwnIssuance(p) \/ ExchangeCascade(p)
        /\ txAt'[p] \in {"recheck", "reconsent"} =>
              txAt[p] \in {"recheck", "reconsent"} \/ MintIssue(p)
    BY <1>10 DEF CredentialsSave, TxGoto, ExchangeTypeOK
  <2> QED BY <2>1, <2>2, <2>3 DEF TxShape
<1>11. ASSUME NEW p \in TxRequests, UNCHANGED inVars, ExchangeRevokeConsent(p) PROVE TxShape
  <2>1. PICK c \in TxClients, r \in TxResources :
          /\ txGrant' = [txGrant EXCEPT ![<<c, r>>] = {}]
          /\ txIn' = [txIn EXCEPT ![p] = [NoInput EXCEPT !.op = "consent", !.caller = c, !.target = r]]
    BY <1>11, Zenon DEF ExchangeRevokeConsent
  <2>2. txIn'[p].caller = c /\ txIn'[p].target = r
    BY <2>1 DEF NoInput, ExchangeTypeOK
  <2>3. txAt[p] = "idle" /\ txAt'[p] = "cascade" /\ txRests' = txRests /\ txHeld' = txHeld
    BY <1>11 DEF ExchangeRevokeConsent, TxGoto, ExchangeTypeOK
  <2>4. \A q \in TxRequests \ {p} : txAt'[q] = txAt[q] /\ txIn'[q] = txIn[q]
    BY <1>11 DEF ExchangeRevokeConsent, TxGoto, ExchangeTypeOK
  <2>5. ASSUME NEW k \in TxConsents, txGrant'[k] = {} PROVE txGrant[k] = {} \/ Cascading(k)'
    <3>1. k # <<c, r>> => txGrant'[k] = txGrant[k]
      BY <2>1 DEF ExchangeTypeOK
    <3> QED BY <2>5, <3>1, <2>2, <2>3 DEF Cascading
  <2> QED BY <2>3, <2>4, <2>5 DEF TxShape
<1>12. ASSUME NEW p \in TxRequests, UNCHANGED inVars, ExchangeCascade(p) PROVE TxShape
  <2>1. /\ \A q \in TxRequests \ {p} : txAt'[q] = txAt[q] /\ txIn'[q] = txIn[q]
                                        /\ (q \in txHeld' => q \in txHeld)
        /\ txGrant' = txGrant
    BY <1>12 DEF ExchangeCascade, TxGoto, ExchangeTypeOK
  <2>2. txRests' = txRests \/ MintIssue(p)
    BY <1>12 DEF ExchangeCascade
  <2>3. /\ txAt[p] \in {"recheck", "reconsent", "undo", "done", "cascade", "cascadeFailed"} =>
              \/ RefuseIfRevoked(p) \/ RefuseIfConsentGone(p)
              \/ RevokeOwnIssuance(p) \/ ExchangeCascade(p)
        /\ txAt'[p] \in {"recheck", "reconsent"} =>
              txAt[p] \in {"recheck", "reconsent"} \/ MintIssue(p)
    BY <1>12 DEF ExchangeCascade, TxGoto, ExchangeTypeOK
  <2> QED BY <2>1, <2>2, <2>3 DEF TxShape
<1>13. ASSUME NEW k \in TxConsents, UNCHANGED inVars, Regrant(k) PROVE TxShape
  <2>1. txAt' = txAt /\ txIn' = txIn /\ txHeld' = txHeld /\ txRests' = txRests
    BY <1>13 DEF Regrant, txReqVars
  <2>2. txGrant[k] = {} /\ \A x \in TxConsents \ {k} : txGrant'[x] = txGrant[x]
    BY <1>13 DEF Regrant, ExchangeTypeOK
  <2> QED BY <2>1, <2>2 DEF TxShape
<1>14. ASSUME NEW j \in TxJtis, UNCHANGED inVars, AdminRevokeIssuance(j) PROVE TxShape
  BY <1>14 DEF AdminRevokeIssuance, txReqVars, TxShape
<1>15. ASSUME NEW j \in TxJtis, UNCHANGED inVars, TryRevokeMachineToken(j) PROVE TxShape
  BY <1>15 DEF TryRevokeMachineToken, txReqVars, TxShape
<1>16. ASSUME NEW j \in TxJtis, UNCHANGED inVars, DenyRoot(j) PROVE TxShape
  BY <1>16 DEF DenyRoot, txReqVars, TxShape
<1>17. ASSUME UNCHANGED inVars, SuspendOrDisable PROVE TxShape
  BY <1>17 DEF SuspendOrDisable, txReqVars, TxShape
<1>18. ASSUME NEW p \in TxRequests, IntrospectToken(p) PROVE TxShape
  <2>1. PICK d \in TxInput : TxArrive(p, d, "inIssuance")
    BY <1>18, IntrospectArrives
  <2> QED BY <2>1 DEF TxArrive, TxMayAsk, TxShape, TxGoto, ExchangeTypeOK, TxJtis
<1>19. ASSUME NEW p \in TxRequests, InIssuance(p) PROVE TxShape
  BY <1>19
     DEF InIssuance, DenyInactive, Answer, PassTo, InUnchanged, TxShape, TxGoto, ExchangeTypeOK,
         TxJtis
<1>20. ASSUME NEW p \in TxRequests, InMachine(p) PROVE TxShape
  BY <1>20
     DEF InMachine, DenyInactive, Answer, PassTo, InUnchanged, TxShape, TxGoto, ExchangeTypeOK,
         TxJtis
<1>21. ASSUME NEW p \in TxRequests, InDenylist(p) PROVE TxShape
  BY <1>21
     DEF InDenylist, DenyInactive, Answer, PassTo, InUnchanged, TxShape, TxGoto, ExchangeTypeOK,
         TxJtis
<1>22. ASSUME NEW p \in TxRequests, InClient(p) PROVE TxShape
  BY <1>22
     DEF InClient, DenyInactive, Answer, PassTo, InUnchanged, TxShape, TxGoto, ExchangeTypeOK,
         TxJtis
<1>23. ASSUME NEW p \in TxRequests, InUser(p) PROVE TxShape
  BY <1>23
     DEF InUser, DenyInactive, Answer, PassTo, InUnchanged, TxShape, TxGoto, ExchangeTypeOK, TxJtis
<1>24. ASSUME UNCHANGED inVars, UserCacheLapses PROVE TxShape
  BY <1>24 DEF UserCacheLapses, txReqVars, TxShape
<1>25. CASE UNCHANGED introspectVars
  BY <1>25 DEF introspectVars, txVars, TxShape
<1> QED BY <1>1, <1>2, <1>3, <1>4, <1>5, <1>6, <1>7, <1>8, <1>9, <1>10, <1>11, <1>12, <1>13,
       <1>14, <1>15, <1>16, <1>17, <1>18, <1>19, <1>20, <1>21, <1>22, <1>23, <1>24, <1>25
        DEF IntrospectNext, ExchangeNext, ExchangeAdmin, ExchangeStep, IntrospectStep

\* A row that was minted under a consent stays so.
LEMMA UnderStays ==
    ASSUME TxFrame, NEW a \in TxJtis, NEW k, TxUnder(a, k)
    PROVE  TxUnder(a, k)'
  BY DEF TxFrame, TxUnder

\* The lineage of a token that rests on what it did stays a descent.
LEMMA LineageStays ==
    ASSUME ExchangeTypeOK, TxLineages, TxFrame, NEW j \in TxJtis, NEW k \in txRests[j]
    PROVE  txIss'[j] # TxNone /\ \E a \in txIss'[j].lineage : TxUnder(a, k)'
<1>1. txIss[j] # TxNone /\ \E a \in txIss[j].lineage : TxUnder(a, k)
  BY DEF TxLineages
<1>2. txIss'[j] # TxNone /\ txIss'[j].lineage = txIss[j].lineage
  BY <1>1 DEF TxFrame
<1>3. txIss[j].lineage \subseteq TxJtis
  BY <1>1 DEF ExchangeTypeOK, IssRow
<1> QED BY <1>1, <1>2, <1>3, UnderStays

\* Every token descends from a row of each consent it rests on (MintIssue).
LEMMA LineagesKeep ==
    ASSUME ExchangeTypeOK, TxHandedOut, TxPhases, TxLineages, TxFrame, TxShape
    PROVE  TxLineages'
<1>1. ASSUME NEW p \in TxRequests, MintIssue(p) PROVE TxLineages'
  <2>1. /\ txIn[p].op = "exchange" /\ txIn[p].target \in TxResources /\ txIn[p].caller \in TxClients
        /\ txIn[p].gated => ~txIn[p].fronted /\ txTok[txIn[p].subject].sub = "user"
                            /\ txTok[txIn[p].subject].client \in TxClients
        /\ p \in TxJtis /\ txIn[p] \in TxInput
    BY <1>1 DEF MintIssue, TxPhases, TxPhase, TxJtis, ExchangeTypeOK
  <2>2. /\ txIn[p].subject \in TxJtis /\ txIn[p].subject \in txHeld
        /\ Subject(txIn[p]) = txTok[txIn[p].subject] /\ txTok[txIn[p].subject] \in Claims
    BY <2>1, SubjectType
  <2>3. txIss'[p] = MintRow(p) /\ \A j \in TxJtis \ {p} : txRests'[j] = txRests[j]
    BY <1>1, <2>1 DEF MintIssue, ExchangeTypeOK
  <2>4. txRests'[p] = txRests[txIn[p].subject] \cup
          (IF txIn[p].gated THEN {<<Subject(txIn[p]).client, txIn[p].target>>} ELSE {})
    BY <1>1, <2>1 DEF MintIssue, ExchangeTypeOK
  <2>5. /\ MintRow(p).sub = txTok[txIn[p].subject].sub /\ MintRow(p).res = txIn[p].target
        /\ MintRow(p).lineage = {p} \cup Lineage(txIn[p].subject)
        /\ txIn[p].gated => MintRow(p).consentClient = txTok[txIn[p].subject].client
    BY <2>1, <2>2 DEF MintRow
  <2>6. MintRow(p) # TxNone
    <3>1. Lineage(txIn[p].subject) \subseteq TxJtis
      BY <2>2 DEF Lineage, ExchangeTypeOK, IssRow
    <3>2. txIn[p].fronted => txTok[txIn[p].subject].aud \in TxResources
      BY DEF TxPhases, TxPhase
    <3>3. MintRow(p) \in IssRow
      BY <2>1, <2>2, <3>1, <3>2 DEF MintRow, IssRow, Claims, SourceOf, TxInput, TxJtis
    <3> QED BY <3>3, TxRowsAssumption
  <2>7. ASSUME NEW k \in txRests[txIn[p].subject]
        PROVE  txIss'[p] # TxNone /\ \E a \in txIss'[p].lineage : TxUnder(a, k)'
    <3>1. txIss[txIn[p].subject] # TxNone /\ \E a \in txIss[txIn[p].subject].lineage : TxUnder(a, k)
      BY <2>2, <2>7 DEF TxLineages
    <3>2. txIss[txIn[p].subject].lineage \subseteq TxJtis
      BY <3>1, <2>2 DEF ExchangeTypeOK, IssRow
    <3>3. txIss[txIn[p].subject].lineage \subseteq txIss'[p].lineage
      BY <3>1, <2>3, <2>5 DEF Lineage
    <3> QED BY <3>1, <3>2, <3>3, <2>3, <2>6, UnderStays
  <2>8. ASSUME NEW k, txIn[p].gated, k = <<Subject(txIn[p]).client, txIn[p].target>>
        PROVE  txIss'[p] # TxNone /\ \E a \in txIss'[p].lineage : TxUnder(a, k)'
    <3>1. k[1] = txTok[txIn[p].subject].client /\ k[2] = txIn[p].target
      BY <2>8, <2>2
    <3>2. p \in txIss'[p].lineage
      BY <2>3, <2>5
    <3>3. TxUnder(p, k)'
      BY <2>1, <2>3, <2>5, <2>6, <2>8, <3>1 DEF TxUnder
    <3> QED BY <2>3, <2>6, <3>2, <3>3
  <2>9. \A k \in txRests'[p] : txIss'[p] # TxNone /\ \E a \in txIss'[p].lineage : TxUnder(a, k)'
    BY <2>4, <2>7, <2>8
  <2>10. \A j \in TxJtis \ {p} : \A k \in txRests'[j] :
            txIss'[j] # TxNone /\ \E a \in txIss'[j].lineage : TxUnder(a, k)'
    BY <2>3, LineageStays
  <2> QED BY <2>9, <2>10 DEF TxLineages
<1>2. CASE txRests' = txRests
  BY <1>2, LineageStays DEF TxLineages
<1> QED BY <1>1, <1>2 DEF TxShape

\* The subject of an exchange, its claims and the consent of the gate do not change
\* under a request that came for one.
LEMMA OwnStays ==
    ASSUME ExchangeTypeOK, TxHandedOut, TxPhases, TxFrame, NEW q \in TxRequests,
           txIn[q].op = "exchange", txIn'[q] = txIn[q]
    PROVE  /\ TxOwn(q)' = TxOwn(q) /\ txIn[q].subject \in txHeld /\ txIn[q].subject \in TxJtis
           /\ txRests'[txIn[q].subject] = txRests[txIn[q].subject]
<1>1. txIn[q].subject \in txHeld /\ txIn[q].subject \in TxJtis
  BY SubjectType
<1>2. txTok[txIn[q].subject] # TxNone
  BY <1>1 DEF TxHandedOut
<1> QED BY <1>1, <1>2 DEF TxFrame, TxOwn

\* What a new token rests on is known until it is handed out (MintIssue).
LEMMA RestsOnKeeps ==
    ASSUME ExchangeTypeOK, TxHandedOut, TxPhases, TxRestsOn, TxFrame, TxShape
    PROVE  TxRestsOn'
<1> SUFFICES ASSUME NEW q \in TxRequests, txAt'[q] \in {"recheck", "reconsent"}, NEW k \in txRests'[q]
             PROVE  k \in txRests'[txIn'[q].subject] \/ (txIn'[q].gated /\ k = TxOwn(q)')
  BY DEF TxRestsOn
<1>1. CASE MintIssue(q)
  <2>1. txIn' = txIn /\ txIn[q].op = "exchange"
    BY <1>1 DEF MintIssue, TxPhases, TxPhase
  <2>2. txRests'[q] = txRests[txIn[q].subject] \cup
          (IF txIn[q].gated THEN {<<Subject(txIn[q]).client, txIn[q].target>>} ELSE {})
    BY <1>1 DEF MintIssue, ExchangeTypeOK, TxJtis
  <2>3. <<Subject(txIn[q]).client, txIn[q].target>> = TxOwn(q)
    BY DEF Subject, TxOwn
  <2>4. TxOwn(q)' = TxOwn(q) /\ txRests'[txIn[q].subject] = txRests[txIn[q].subject]
    BY <2>1, OwnStays
  <2> QED BY <2>1, <2>2, <2>3, <2>4
<1>2. CASE ~MintIssue(q)
  <2>1. txAt[q] \in {"recheck", "reconsent"}
    BY <1>2 DEF TxShape
  <2>2. txIn'[q] = txIn[q] /\ txIn[q].op = "exchange"
    BY <2>1 DEF TxShape, RefuseIfRevoked, RefuseIfConsentGone, RevokeOwnIssuance, ExchangeCascade,
           TxPhases, TxPhase
  <2>3. txRests'[q] = txRests[q]
    <3>1. ASSUME NEW p \in TxRequests, MintIssue(p) PROVE txRests'[q] = txRests[q]
      BY <3>1, <2>1 DEF MintIssue, ExchangeTypeOK, TxJtis
    <3> QED BY <3>1 DEF TxShape
  <2>4. TxOwn(q)' = TxOwn(q) /\ txRests'[txIn[q].subject] = txRests[txIn[q].subject]
    BY <2>2, OwnStays
  <2> QED BY <2>1, <2>2, <2>3, <2>4 DEF TxRestsOn
<1> QED BY <1>1, <1>2

\* The cascade revokes all that rests on its consent (RevokeFamily).
LEMMA CascadeReaches ==
    ASSUME ExchangeTypeOK, TxLineages, NEW p \in TxRequests, ExchangeCascade(p),
           txAt'[p] # "cascadeFailed",
           NEW j \in TxJtis, NEW k \in txRests[j], k = <<txIn[p].caller, txIn[p].target>>
    PROVE  txIss'[j].revoked
<1>1. txIss[j] # TxNone /\ \E a \in txIss[j].lineage : TxUnder(a, k)
  BY DEF TxLineages
<1>2. k[1] = txIn[p].caller /\ k[2] = txIn[p].target
  OBVIOUS
<1>3. j \in FamilyOfConsent(txIn[p].caller, txIn[p].target)
  BY <1>1, <1>2 DEF FamilyOfConsent, TxUnder
<1>4. RevokeIssuances(FamilyOfConsent(txIn[p].caller, txIn[p].target))
  BY DEF ExchangeCascade, TxGoto, ExchangeTypeOK
<1> HIDE DEF FamilyOfConsent
<1> QED BY <1>1, <1>3, <1>4, RevokingKeeps

\* A consent that is gone with its cascade behind it was so before, unless the
\* cascade ends here (RevokeConsent).
LEMMA GoneBefore ==
    ASSUME ExchangeTypeOK, TxShape, NEW k \in TxConsents, txGrant'[k] = {}, ~Cascading(k)'
    PROVE  \/ txGrant[k] = {} /\ ~Cascading(k)
           \/ \E p \in TxRequests : /\ ExchangeCascade(p) /\ txAt'[p] # "cascadeFailed"
                                     /\ k = <<txIn[p].caller, txIn[p].target>>
<1>1. txGrant[k] = {}
  BY DEF TxShape
<1>2. ASSUME NEW p \in TxRequests, txAt[p] \in {"cascade", "cascadeFailed"},
             k = <<txIn[p].caller, txIn[p].target>>
      PROVE  ExchangeCascade(p) /\ txAt'[p] # "cascadeFailed"
  <2>1. \/ txAt'[p] = txAt[p] /\ txIn'[p] = txIn[p]
        \/ ExchangeCascade(p)
    BY <1>2 DEF TxShape, RefuseIfRevoked, RefuseIfConsentGone, RevokeOwnIssuance
  <2>2. ExchangeCascade(p) => txIn'[p] = txIn[p]
    BY DEF ExchangeCascade
  <2> QED BY <1>2, <2>1, <2>2 DEF Cascading
<1> QED BY <1>1, <1>2 DEF Cascading

\* A token whose consent went while it was being made is caught before it is handed
\* out, or by the cascade (refuseIfRevokedSinceCheck, RevokeConsent).
LEMMA CaughtKeeps ==
    ASSUME ExchangeTypeOK, TxHandedOut, TxPhases, TxLineages, TxRestsOn, TxCaught, TxFrame, TxShape,
           ExchangeTypeOK'
    PROVE  TxCaught'
<1> SUFFICES ASSUME NEW j \in TxJtis, NEW k \in txRests'[j], txGrant'[k] = {}, ~Cascading(k)',
                    ~txIss'[j].revoked
             PROVE  /\ j \in TxRequests \ txHeld'
                    /\ \/ txAt'[j] \in {"recheck", "undo", "done"}
                       \/ txAt'[j] = "reconsent" /\ k = TxOwn(j)'
  BY DEF TxCaught
<1>1. k \in TxConsents
  BY DEF ExchangeTypeOK
<1>2. CASE j \in TxRequests /\ MintIssue(j)
  <2>1. txAt'[j] = "recheck" /\ txHeld' = txHeld /\ txAt[j] = "mint"
    BY <1>2 DEF MintIssue, TxGoto, ExchangeTypeOK
  <2> QED BY <1>2, <2>1 DEF TxHandedOut
<1>3. CASE ~(j \in TxRequests /\ MintIssue(j))
  <2>1. k \in txRests[j]
    <3>1. ASSUME NEW p \in TxRequests, MintIssue(p) PROVE txRests'[j] = txRests[j]
      BY <1>3, <3>1 DEF MintIssue, ExchangeTypeOK
    <3> QED BY <3>1 DEF TxShape
  <2>2. txGrant[k] = {} /\ ~Cascading(k)
    BY <1>1, <2>1, GoneBefore, CascadeReaches
  <2>3. ~txIss[j].revoked
    BY <2>1 DEF TxLineages, TxFrame
  <2>4. /\ j \in TxRequests \ txHeld
        /\ \/ txAt[j] \in {"recheck", "undo", "done"}
           \/ txAt[j] = "reconsent" /\ k = TxOwn(j)
    BY <2>1, <2>2, <2>3 DEF TxCaught
  <2>5. CASE txAt'[j] = txAt[j] /\ txIn'[j] = txIn[j] /\ (j \in txHeld' => j \in txHeld)
    <3>1. txAt[j] = "reconsent" => TxOwn(j)' = TxOwn(j)
      BY <2>4, <2>5, OwnStays DEF TxPhases, TxPhase
    <3> QED BY <2>4, <2>5, <3>1
  <2>6. CASE RefuseIfRevoked(j)
    <3>1. txAt[j] = "recheck" /\ txIn'[j] = txIn[j] /\ txIn[j].op = "exchange"
      BY <2>4, <2>6 DEF RefuseIfRevoked, TxPhases, TxPhase
    <3>2. TxOwn(j)' = TxOwn(j) /\ txIn[j].subject \in txHeld /\ txIn[j].subject \in TxJtis
      BY <2>4, <3>1, OwnStays
    <3>3. CASE k \in txRests[txIn[j].subject]
      <4>1. txIss[txIn[j].subject].revoked /\ txIss[txIn[j].subject] # TxNone
        BY <2>2, <3>2, <3>3 DEF TxCaught, TxLineages
      <4>2. IssRevoked(txIn[j].subject)
        BY <4>1 DEF IssRevoked
      <4> QED BY <2>4, <2>6, <4>2 DEF RefuseIfRevoked, TxGoto, ExchangeTypeOK
    <3>4. CASE txIn[j].gated /\ k = TxOwn(j)
      BY <2>4, <2>6, <3>2, <3>4 DEF RefuseIfRevoked, TxGoto, ExchangeTypeOK
    <3> QED BY <2>1, <2>4, <3>1, <3>3, <3>4 DEF TxRestsOn
  <2>7. CASE RefuseIfConsentGone(j)
    <3>1. txAt[j] = "reconsent" /\ txIn[j].gated /\ k = TxOwn(j)
      BY <2>4, <2>7 DEF RefuseIfConsentGone, TxPhases, TxPhase
    <3>2. ConsentFor(j) = txGrant[k]
      BY <2>4, <3>1 DEF ConsentFor, Subject, TxOwn, TxPhases, TxPhase
    <3> HIDE DEF ConsentFor
    <3> QED BY <2>2, <2>4, <2>7, <3>2 DEF RefuseIfConsentGone, TxGoto, ExchangeTypeOK
  <2>8. CASE RevokeOwnIssuance(j)
    BY <2>4, <2>8 DEF RevokeOwnIssuance, TxGoto, ExchangeTypeOK
  <2>9. ~ExchangeCascade(j)
    BY <2>4 DEF ExchangeCascade
  <2> QED BY <2>4, <2>5, <2>6, <2>7, <2>8, <2>9 DEF TxShape
<1> QED BY <1>2, <1>3

\* A token that is dead stays so, and so does what a check finds (Introspect).
LEMMA DeadStays ==
    ASSUME ExchangeTypeOK, TxHandedOut, TxFrame, NEW j \in TxJtis, j \in txHeld
    PROVE  /\ Dead(j) => Dead(j)'
           /\ InNoMachine(j) => InNoMachine(j)'
           /\ InOnList(j) => InOnList(j)'
           /\ InOffClient(j) => InOffClient(j)'
           /\ InOffUser(j) => InOffUser(j)'
<1>1. txTok'[j] = txTok[j]
  BY DEF TxHandedOut, TxFrame
<1>2. IssRevoked(j) => IssRevoked(j)'
  BY DEF IssRevoked, TxFrame
<1>3. /\ txMach[j] = "revoked" => txMach'[j] = "revoked"
      /\ txMach[j] = "none" => txMach'[j] = "none"
      /\ txOff \subseteq txOff' /\ (txUser = "off" => txUser' = "off") /\ txDenied \subseteq txDenied'
  BY DEF TxFrame
<1>4. InOffUser(j) => InOffUser(j)'
  BY <1>1, <1>3 DEF InOffUser
<1>5. InOffClient(j) => InOffClient(j)'
  BY <1>1, <1>3, <1>4 DEF InOffClient
<1>6. InOnList(j) => InOnList(j)'
  BY <1>3, <1>5 DEF InOnList
<1>7. InNoMachine(j) => InNoMachine(j)'
  BY <1>3, <1>6 DEF InNoMachine
<1>8. Dead(j) => Dead(j)'
  BY <1>1, <1>2, <1>3 DEF Dead
<1> QED BY <1>4, <1>5, <1>6, <1>7, <1>8

\* An introspection that did not move still meets the check.
LEMMA FailStays ==
    ASSUME ExchangeTypeOK, TxHandedOut, TxPhases, TxFrame, NEW q \in TxRequests, InFail(q),
           txAt'[q] = txAt[q], txIn'[q] = txIn[q], inDead'[q] = inDead[q],
           inBlind'[q] = inBlind[q], inAnswer'[q] = inAnswer[q]
    PROVE  InFail(q)'
<1>1. CASE txAt[q] \in {"inIssuance", "inMachine", "inDenylist", "inClient", "inUser"}
  <2>1. txIn[q].op = "introspect"
    BY <1>1 DEF TxPhases, TxPhase
  <2>2. txIn[q].subject \in txHeld /\ txIn[q].subject \in TxJtis
    BY <2>1, SubjectType
  <2> QED BY <2>2, DeadStays DEF InFail
<1>2. CASE txAt[q] \notin {"inIssuance", "inMachine", "inDenylist", "inClient", "inUser"}
  BY <1>2 DEF InFail
<1> QED BY <1>1, <1>2

\* A token that was dead when its introspection began is never answered active.
LEMMA FailsKeep ==
    ASSUME IntrospectTypeOK, ExchangeTypeOK, TxHandedOut, TxPhases, TxFrame, InQuiet, InFails,
           [IntrospectNext]_introspectVars
    PROVE  InFails'
<1>1. ASSUME NEW p \in TxRequests, UNCHANGED inVars, HandleTokenExchange(p) PROVE InFails'
  <2>1. PICK d \in TxInput : TxArrive(p, d, IF d.target = TxNone THEN "selfSave"
                                            ELSE IF d.gated THEN "gate" ELSE "mint")
    BY <1>1, ExchangeArrives
  <2>8. \A q \in TxRequests \ {p} :
          /\ txAt'[q] = txAt[q] /\ txIn'[q] = txIn[q] /\ inDead'[q] = inDead[q]
          /\ inBlind'[q] = inBlind[q] /\ inAnswer'[q] = inAnswer[q]
    BY <2>1, <1>1 DEF TxArrive, TxGoto, ExchangeTypeOK, inVars
  <2>7. /\ txAt'[p] \notin {"inIssuance", "inMachine", "inDenylist", "inClient", "inUser"}
        /\ inAnswer' = inAnswer /\ inDead' = inDead /\ inBlind' = inBlind
    BY <2>1, <1>1 DEF TxArrive, TxGoto, ExchangeTypeOK, inVars
  <2>9. InFail(p)'
    BY <2>7 DEF InFails, InFail
  <2> QED BY <2>8, <2>9, FailStays DEF InFails
<1>2. ASSUME NEW p \in TxRequests, UNCHANGED inVars, ConsentGate(p) PROVE InFails'
  <2>8. \A q \in TxRequests \ {p} :
          /\ txAt'[q] = txAt[q] /\ txIn'[q] = txIn[q] /\ inDead'[q] = inDead[q]
          /\ inBlind'[q] = inBlind[q] /\ inAnswer'[q] = inAnswer[q]
    BY <1>2 DEF ConsentGate, TxGoto, ExchangeTypeOK, inVars
  <2>7. /\ txAt'[p] \notin {"inIssuance", "inMachine", "inDenylist", "inClient", "inUser"}
        /\ inAnswer' = inAnswer /\ inDead' = inDead /\ inBlind' = inBlind
    BY <1>2 DEF ConsentGate, TxGoto, ExchangeTypeOK, inVars
  <2>9. InFail(p)'
    BY <2>7 DEF InFails, InFail
  <2> QED BY <2>8, <2>9, FailStays DEF InFails
<1>3. ASSUME NEW p \in TxRequests, UNCHANGED inVars, MintIssue(p) PROVE InFails'
  <2>8. \A q \in TxRequests \ {p} :
          /\ txAt'[q] = txAt[q] /\ txIn'[q] = txIn[q] /\ inDead'[q] = inDead[q]
          /\ inBlind'[q] = inBlind[q] /\ inAnswer'[q] = inAnswer[q]
    BY <1>3 DEF MintIssue, TxGoto, ExchangeTypeOK, inVars
  <2>7. /\ txAt'[p] \notin {"inIssuance", "inMachine", "inDenylist", "inClient", "inUser"}
        /\ inAnswer' = inAnswer /\ inDead' = inDead /\ inBlind' = inBlind
    BY <1>3 DEF MintIssue, TxGoto, ExchangeTypeOK, inVars
  <2>9. InFail(p)'
    BY <2>7 DEF InFails, InFail
  <2> QED BY <2>8, <2>9, FailStays DEF InFails
<1>4. ASSUME NEW p \in TxRequests, UNCHANGED inVars, RefuseIfRevoked(p) PROVE InFails'
  <2>8. \A q \in TxRequests \ {p} :
          /\ txAt'[q] = txAt[q] /\ txIn'[q] = txIn[q] /\ inDead'[q] = inDead[q]
          /\ inBlind'[q] = inBlind[q] /\ inAnswer'[q] = inAnswer[q]
    BY <1>4 DEF RefuseIfRevoked, TxGoto, ExchangeTypeOK, inVars
  <2>7. /\ txAt'[p] \notin {"inIssuance", "inMachine", "inDenylist", "inClient", "inUser"}
        /\ inAnswer' = inAnswer /\ inDead' = inDead /\ inBlind' = inBlind
    BY <1>4 DEF RefuseIfRevoked, TxGoto, ExchangeTypeOK, inVars
  <2>9. InFail(p)'
    BY <2>7 DEF InFails, InFail
  <2> QED BY <2>8, <2>9, FailStays DEF InFails
<1>5. ASSUME NEW p \in TxRequests, UNCHANGED inVars, RefuseIfConsentGone(p) PROVE InFails'
  <2>8. \A q \in TxRequests \ {p} :
          /\ txAt'[q] = txAt[q] /\ txIn'[q] = txIn[q] /\ inDead'[q] = inDead[q]
          /\ inBlind'[q] = inBlind[q] /\ inAnswer'[q] = inAnswer[q]
    BY <1>5 DEF RefuseIfConsentGone, TxGoto, ExchangeTypeOK, inVars
  <2>7. /\ txAt'[p] \notin {"inIssuance", "inMachine", "inDenylist", "inClient", "inUser"}
        /\ inAnswer' = inAnswer /\ inDead' = inDead /\ inBlind' = inBlind
    BY <1>5 DEF RefuseIfConsentGone, TxGoto, ExchangeTypeOK, inVars
  <2>9. InFail(p)'
    BY <2>7 DEF InFails, InFail
  <2> QED BY <2>8, <2>9, FailStays DEF InFails
<1>6. ASSUME NEW p \in TxRequests, UNCHANGED inVars, RevokeOwnIssuance(p) PROVE InFails'
  <2>8. \A q \in TxRequests \ {p} :
          /\ txAt'[q] = txAt[q] /\ txIn'[q] = txIn[q] /\ inDead'[q] = inDead[q]
          /\ inBlind'[q] = inBlind[q] /\ inAnswer'[q] = inAnswer[q]
    BY <1>6 DEF RevokeOwnIssuance, TxGoto, ExchangeTypeOK, inVars
  <2>7. /\ txAt'[p] \notin {"inIssuance", "inMachine", "inDenylist", "inClient", "inUser"}
        /\ inAnswer' = inAnswer /\ inDead' = inDead /\ inBlind' = inBlind
    BY <1>6 DEF RevokeOwnIssuance, TxGoto, ExchangeTypeOK, inVars
  <2>9. InFail(p)'
    BY <2>7 DEF InFails, InFail
  <2> QED BY <2>8, <2>9, FailStays DEF InFails
<1>7. ASSUME NEW p \in TxRequests, UNCHANGED inVars, SaveExchanged(p) PROVE InFails'
  <2>8. \A q \in TxRequests \ {p} :
          /\ txAt'[q] = txAt[q] /\ txIn'[q] = txIn[q] /\ inDead'[q] = inDead[q]
          /\ inBlind'[q] = inBlind[q] /\ inAnswer'[q] = inAnswer[q]
    BY <1>7 DEF SaveExchanged, TxGoto, ExchangeTypeOK, inVars
  <2>7. /\ txAt'[p] \notin {"inIssuance", "inMachine", "inDenylist", "inClient", "inUser"}
        /\ inAnswer' = inAnswer /\ inDead' = inDead /\ inBlind' = inBlind
    BY <1>7 DEF SaveExchanged, TxGoto, ExchangeTypeOK, inVars
  <2>9. InFail(p)'
    BY <2>7 DEF InFails, InFail
  <2> QED BY <2>8, <2>9, FailStays DEF InFails
<1>8. ASSUME NEW p \in TxRequests, UNCHANGED inVars, HandleClientCredentials(p) PROVE InFails'
  <2>1. PICK d \in TxInput : TxArrive(p, d, "ccIssue")
    BY <1>8, CredentialsArrive
  <2>8. \A q \in TxRequests \ {p} :
          /\ txAt'[q] = txAt[q] /\ txIn'[q] = txIn[q] /\ inDead'[q] = inDead[q]
          /\ inBlind'[q] = inBlind[q] /\ inAnswer'[q] = inAnswer[q]
    BY <2>1, <1>8 DEF TxArrive, TxGoto, ExchangeTypeOK, inVars
  <2>7. /\ txAt'[p] \notin {"inIssuance", "inMachine", "inDenylist", "inClient", "inUser"}
        /\ inAnswer' = inAnswer /\ inDead' = inDead /\ inBlind' = inBlind
    BY <2>1, <1>8 DEF TxArrive, TxGoto, ExchangeTypeOK, inVars
  <2>9. InFail(p)'
    BY <2>7 DEF InFails, InFail
  <2> QED BY <2>8, <2>9, FailStays DEF InFails
<1>9. ASSUME NEW p \in TxRequests, UNCHANGED inVars, CredentialsIssue(p) PROVE InFails'
  <2>8. \A q \in TxRequests \ {p} :
          /\ txAt'[q] = txAt[q] /\ txIn'[q] = txIn[q] /\ inDead'[q] = inDead[q]
          /\ inBlind'[q] = inBlind[q] /\ inAnswer'[q] = inAnswer[q]
    BY <1>9 DEF CredentialsIssue, TxGoto, ExchangeTypeOK, inVars
  <2>7. /\ txAt'[p] \notin {"inIssuance", "inMachine", "inDenylist", "inClient", "inUser"}
        /\ inAnswer' = inAnswer /\ inDead' = inDead /\ inBlind' = inBlind
    BY <1>9 DEF CredentialsIssue, TxGoto, ExchangeTypeOK, inVars
  <2>9. InFail(p)'
    BY <2>7 DEF InFails, InFail
  <2> QED BY <2>8, <2>9, FailStays DEF InFails
<1>10. ASSUME NEW p \in TxRequests, UNCHANGED inVars, CredentialsSave(p) PROVE InFails'
  <2>8. \A q \in TxRequests \ {p} :
          /\ txAt'[q] = txAt[q] /\ txIn'[q] = txIn[q] /\ inDead'[q] = inDead[q]
          /\ inBlind'[q] = inBlind[q] /\ inAnswer'[q] = inAnswer[q]
    BY <1>10 DEF CredentialsSave, TxGoto, ExchangeTypeOK, inVars
  <2>7. /\ txAt'[p] \notin {"inIssuance", "inMachine", "inDenylist", "inClient", "inUser"}
        /\ inAnswer' = inAnswer /\ inDead' = inDead /\ inBlind' = inBlind
    BY <1>10 DEF CredentialsSave, TxGoto, ExchangeTypeOK, inVars
  <2>9. InFail(p)'
    BY <2>7 DEF InFails, InFail
  <2> QED BY <2>8, <2>9, FailStays DEF InFails
<1>11. ASSUME NEW p \in TxRequests, UNCHANGED inVars, ExchangeRevokeConsent(p) PROVE InFails'
  <2>8. \A q \in TxRequests \ {p} :
          /\ txAt'[q] = txAt[q] /\ txIn'[q] = txIn[q] /\ inDead'[q] = inDead[q]
          /\ inBlind'[q] = inBlind[q] /\ inAnswer'[q] = inAnswer[q]
    BY <1>11 DEF ExchangeRevokeConsent, TxGoto, ExchangeTypeOK, inVars
  <2>7. /\ txAt'[p] \notin {"inIssuance", "inMachine", "inDenylist", "inClient", "inUser"}
        /\ inAnswer' = inAnswer /\ inDead' = inDead /\ inBlind' = inBlind
    BY <1>11 DEF ExchangeRevokeConsent, TxGoto, ExchangeTypeOK, inVars
  <2>9. InFail(p)'
    BY <2>7 DEF InFails, InFail
  <2> QED BY <2>8, <2>9, FailStays DEF InFails
<1>12. ASSUME NEW p \in TxRequests, UNCHANGED inVars, ExchangeCascade(p) PROVE InFails'
  <2>8. \A q \in TxRequests \ {p} :
          /\ txAt'[q] = txAt[q] /\ txIn'[q] = txIn[q] /\ inDead'[q] = inDead[q]
          /\ inBlind'[q] = inBlind[q] /\ inAnswer'[q] = inAnswer[q]
    BY <1>12 DEF ExchangeCascade, TxGoto, ExchangeTypeOK, inVars
  <2>7. /\ txAt'[p] \notin {"inIssuance", "inMachine", "inDenylist", "inClient", "inUser"}
        /\ inAnswer' = inAnswer /\ inDead' = inDead /\ inBlind' = inBlind
    BY <1>12 DEF ExchangeCascade, TxGoto, ExchangeTypeOK, inVars
  <2>9. InFail(p)'
    BY <2>7 DEF InFails, InFail
  <2> QED BY <2>8, <2>9, FailStays DEF InFails
<1>13. ASSUME NEW k \in TxConsents, UNCHANGED inVars, Regrant(k) PROVE InFails'
  <2>1. txAt' = txAt /\ txIn' = txIn /\ inAnswer' = inAnswer /\ inDead' = inDead /\ inBlind' = inBlind
    BY <1>13 DEF Regrant, txReqVars, inVars
  <2> QED BY <2>1, FailStays DEF InFails
<1>14. ASSUME NEW j \in TxJtis, UNCHANGED inVars, AdminRevokeIssuance(j) PROVE InFails'
  <2>1. txAt' = txAt /\ txIn' = txIn /\ inAnswer' = inAnswer /\ inDead' = inDead /\ inBlind' = inBlind
    BY <1>14 DEF AdminRevokeIssuance, txReqVars, inVars
  <2> QED BY <2>1, FailStays DEF InFails
<1>15. ASSUME NEW j \in TxJtis, UNCHANGED inVars, TryRevokeMachineToken(j) PROVE InFails'
  <2>1. txAt' = txAt /\ txIn' = txIn /\ inAnswer' = inAnswer /\ inDead' = inDead /\ inBlind' = inBlind
    BY <1>15 DEF TryRevokeMachineToken, txReqVars, inVars
  <2> QED BY <2>1, FailStays DEF InFails
<1>16. ASSUME NEW j \in TxJtis, UNCHANGED inVars, DenyRoot(j) PROVE InFails'
  <2>1. txAt' = txAt /\ txIn' = txIn /\ inAnswer' = inAnswer /\ inDead' = inDead /\ inBlind' = inBlind
    BY <1>16 DEF DenyRoot, txReqVars, inVars
  <2> QED BY <2>1, FailStays DEF InFails
<1>17. ASSUME UNCHANGED inVars, SuspendOrDisable PROVE InFails'
  <2>1. txAt' = txAt /\ txIn' = txIn /\ inAnswer' = inAnswer /\ inDead' = inDead /\ inBlind' = inBlind
    BY <1>17 DEF SuspendOrDisable, txReqVars, inVars
  <2> QED BY <2>1, FailStays DEF InFails
<1>18. ASSUME NEW p \in TxRequests, IntrospectToken(p) PROVE InFails'
  <2>1. PICK d \in TxInput :
          /\ TxArrive(p, d, "inIssuance") /\ d.subject \in txHeld
          /\ inDead' = [inDead EXCEPT ![p] = Dead(d.subject)]
          /\ UNCHANGED <<inAnswer, inMachine, inBlind>>
    BY <1>18, IntrospectArrives
  <2>2. txIn'[p].subject = d.subject /\ txAt'[p] = "inIssuance" /\ inAnswer'[p] = "none"
        /\ inDead'[p] = Dead(d.subject)
    BY <2>1 DEF TxArrive, TxGoto, TxMayAsk, ExchangeTypeOK, IntrospectTypeOK, InQuiet
  <2>3. Dead(d.subject) => Dead(d.subject)'
    BY <2>1, DeadStays DEF ExchangeTypeOK
  <2>9. InFail(p)'
    BY <2>2, <2>3 DEF InFail
  <2>8. \A q \in TxRequests \ {p} :
          /\ txAt'[q] = txAt[q] /\ txIn'[q] = txIn[q] /\ inDead'[q] = inDead[q]
          /\ inBlind'[q] = inBlind[q] /\ inAnswer'[q] = inAnswer[q]
    BY <2>1 DEF TxArrive, TxGoto, ExchangeTypeOK, IntrospectTypeOK
  <2> QED BY <2>8, <2>9, FailStays DEF InFails
<1>19. ASSUME NEW p \in TxRequests, InIssuance(p) PROVE InFails'
  <2>8. \A q \in TxRequests \ {p} :
          /\ txAt'[q] = txAt[q] /\ txIn'[q] = txIn[q] /\ inDead'[q] = inDead[q]
          /\ inBlind'[q] = inBlind[q] /\ inAnswer'[q] = inAnswer[q]
    BY <1>19
       DEF InIssuance, DenyInactive, Answer, PassTo, InUnchanged, TxGoto, ExchangeTypeOK,
           IntrospectTypeOK
  <2>1. /\ txIn[p].op = "introspect" /\ txIn' = txIn /\ inDead' = inDead
        /\ txTok' = txTok /\ txMach' = txMach /\ txDenied' = txDenied
        /\ txOff' = txOff /\ txUser' = txUser
    BY <1>19
       DEF InIssuance, DenyInactive, Answer, PassTo, InUnchanged, TxPhases, TxPhase, txAdminVars
  <2>2. InFail(p)
    BY DEF InFails
  <2>9. InFail(p)'
    <3>3. CASE txAt'[p] = "done" /\ inAnswer'[p] = "inactive"
      BY <3>3 DEF InFail
    <3>4. CASE /\ txAt'[p] = "inMachine" /\ inAnswer'[p] = inAnswer[p]
               /\ inBlind' = inBlind /\ ~IssRevoked(txIn[p].subject)
      BY <1>19, <2>1, <2>2, <3>4
         DEF InIssuance, InFail, Dead, InNoMachine, InOnList, InOffClient, InOffUser
    <3> QED BY <1>19, <3>3, <3>4
       DEF InIssuance, DenyInactive, Answer, PassTo, InUnchanged, TxGoto, ExchangeTypeOK,
           IntrospectTypeOK
  <2> QED BY <2>8, <2>9, FailStays DEF InFails
<1>20. ASSUME NEW p \in TxRequests, InMachine(p) PROVE InFails'
  <2>8. \A q \in TxRequests \ {p} :
          /\ txAt'[q] = txAt[q] /\ txIn'[q] = txIn[q] /\ inDead'[q] = inDead[q]
          /\ inBlind'[q] = inBlind[q] /\ inAnswer'[q] = inAnswer[q]
    BY <1>20
       DEF InMachine, DenyInactive, Answer, PassTo, InUnchanged, TxGoto, ExchangeTypeOK,
           IntrospectTypeOK
  <2>1. /\ txIn[p].op = "introspect" /\ txIn' = txIn /\ inDead' = inDead
        /\ txTok' = txTok /\ txMach' = txMach /\ txDenied' = txDenied
        /\ txOff' = txOff /\ txUser' = txUser
    BY <1>20
       DEF InMachine, DenyInactive, Answer, PassTo, InUnchanged, TxPhases, TxPhase, txAdminVars
  <2>2. InFail(p)
    BY DEF InFails
  <2>9. InFail(p)'
    <3>3. CASE txAt'[p] = "done" /\ inAnswer'[p] = "inactive"
      BY <3>3 DEF InFail
    <3>4. CASE /\ txAt'[p] = "inDenylist" /\ inAnswer'[p] = inAnswer[p]
               /\ inBlind' = inBlind /\ txMach[txIn[p].subject] = "none"
      BY <1>20, <2>1, <2>2, <3>4
         DEF InMachine, InFail, InNoMachine, InOnList, InOffClient, InOffUser
    <3>5. CASE /\ txAt'[p] = "inClient" /\ inAnswer'[p] = inAnswer[p]
               /\ inBlind' = inBlind /\ txMach[txIn[p].subject] = "live"
      BY <1>20, <2>1, <2>2, <3>5
         DEF InMachine, InFail, InNoMachine, InOnList, InOffClient, InOffUser
    <3>6. CASE inBlind'[p]
      BY <3>6 DEF InFail
    <3> QED BY <1>20, <3>3, <3>4, <3>5, <3>6
       DEF InMachine, DenyInactive, Answer, PassTo, InUnchanged, TxGoto, ExchangeTypeOK,
           IntrospectTypeOK
  <2> QED BY <2>8, <2>9, FailStays DEF InFails
<1>21. ASSUME NEW p \in TxRequests, InDenylist(p) PROVE InFails'
  <2>8. \A q \in TxRequests \ {p} :
          /\ txAt'[q] = txAt[q] /\ txIn'[q] = txIn[q] /\ inDead'[q] = inDead[q]
          /\ inBlind'[q] = inBlind[q] /\ inAnswer'[q] = inAnswer[q]
    BY <1>21
       DEF InDenylist, DenyInactive, Answer, PassTo, InUnchanged, TxGoto, ExchangeTypeOK,
           IntrospectTypeOK
  <2>1. /\ txIn[p].op = "introspect" /\ txIn' = txIn /\ inDead' = inDead
        /\ txTok' = txTok /\ txMach' = txMach /\ txDenied' = txDenied
        /\ txOff' = txOff /\ txUser' = txUser
    BY <1>21
       DEF InDenylist, DenyInactive, Answer, PassTo, InUnchanged, TxPhases, TxPhase, txAdminVars
  <2>2. InFail(p)
    BY DEF InFails
  <2>9. InFail(p)'
    <3>3. CASE txAt'[p] = "done" /\ inAnswer'[p] = "inactive"
      BY <3>3 DEF InFail
    <3>4. CASE /\ txAt'[p] = "inClient" /\ inAnswer'[p] = inAnswer[p]
               /\ inBlind' = inBlind /\ txIn[p].subject \notin txDenied
      BY <1>21, <2>1, <2>2, <3>4 DEF InDenylist, InFail, InOnList, InOffClient, InOffUser
    <3> QED BY <1>21, <3>3, <3>4
       DEF InDenylist, DenyInactive, Answer, PassTo, InUnchanged, TxGoto, ExchangeTypeOK,
           IntrospectTypeOK
  <2> QED BY <2>8, <2>9, FailStays DEF InFails
<1>22. ASSUME NEW p \in TxRequests, InClient(p) PROVE InFails'
  <2>8. \A q \in TxRequests \ {p} :
          /\ txAt'[q] = txAt[q] /\ txIn'[q] = txIn[q] /\ inDead'[q] = inDead[q]
          /\ inBlind'[q] = inBlind[q] /\ inAnswer'[q] = inAnswer[q]
    BY <1>22
       DEF InClient, DenyInactive, Answer, PassTo, InUnchanged, TxGoto, ExchangeTypeOK,
           IntrospectTypeOK
  <2>1. /\ txIn[p].op = "introspect" /\ txIn' = txIn /\ inDead' = inDead
        /\ txTok' = txTok /\ txMach' = txMach /\ txDenied' = txDenied
        /\ txOff' = txOff /\ txUser' = txUser
    BY <1>22 DEF InClient, DenyInactive, Answer, PassTo, InUnchanged, TxPhases, TxPhase, txAdminVars
  <2>2. InFail(p)
    BY DEF InFails
  <2>9. InFail(p)'
    <3>3. CASE txAt'[p] = "done" /\ inAnswer'[p] = "inactive"
      BY <3>3 DEF InFail
    <3>4. CASE /\ txAt'[p] = "inUser" /\ inAnswer'[p] = inAnswer[p] /\ inBlind' = inBlind
               /\ IF Token(p).client \in TxClients THEN Token(p).client \notin txOff
                  ELSE IssuedThroughFrontingSource(txIn[p].subject)
      <4>1. txTok[txIn[p].subject].client \notin txOff
        BY <3>4 DEF Token, ExchangeTypeOK
      <4> QED BY <1>22, <2>1, <2>2, <3>4, <4>1 DEF InClient, InFail, InOffClient, InOffUser
    <3> QED BY <1>22, <3>3, <3>4
       DEF InClient, DenyInactive, Answer, PassTo, InUnchanged, TxGoto, ExchangeTypeOK,
           IntrospectTypeOK
  <2> QED BY <2>8, <2>9, FailStays DEF InFails
<1>23. ASSUME NEW p \in TxRequests, InUser(p) PROVE InFails'
  <2>8. \A q \in TxRequests \ {p} :
          /\ txAt'[q] = txAt[q] /\ txIn'[q] = txIn[q] /\ inDead'[q] = inDead[q]
          /\ inBlind'[q] = inBlind[q] /\ inAnswer'[q] = inAnswer[q]
    BY <1>23
       DEF InUser, DenyInactive, Answer, PassTo, InUnchanged, TxGoto, ExchangeTypeOK,
           IntrospectTypeOK
  <2>1. /\ txIn[p].op = "introspect" /\ txIn' = txIn /\ inDead' = inDead
        /\ txTok' = txTok /\ txMach' = txMach /\ txDenied' = txDenied
        /\ txOff' = txOff /\ txUser' = txUser
    BY <1>23 DEF InUser, DenyInactive, Answer, PassTo, InUnchanged, TxPhases, TxPhase, txAdminVars
  <2>2. InFail(p)
    BY DEF InFails
  <2>9. InFail(p)'
    <3>3. CASE txAt'[p] = "done" /\ inAnswer'[p] = "inactive"
      BY <3>3 DEF InFail
    <3>4. CASE txAt'[p] = "done" /\ inBlind' = inBlind /\ SubjectActive(p)
      <4>1. ~InOffUser(txIn[p].subject) /\ txAt[p] = "inUser"
        BY <1>23, <3>4 DEF InUser, SubjectActive, UserReadsActive, InOffUser, Token
      <4> QED BY <2>1, <2>2, <3>4, <4>1 DEF InFail
    <3> QED BY <1>23, <3>3, <3>4
       DEF InUser, DenyInactive, Answer, PassTo, InUnchanged, TxGoto, ExchangeTypeOK,
           IntrospectTypeOK
  <2> QED BY <2>8, <2>9, FailStays DEF InFails
<1>24. ASSUME UNCHANGED inVars, UserCacheLapses PROVE InFails'
  <2>1. txAt' = txAt /\ txIn' = txIn /\ inAnswer' = inAnswer /\ inDead' = inDead /\ inBlind' = inBlind
    BY <1>24 DEF UserCacheLapses, txReqVars, inVars
  <2> QED BY <2>1, FailStays DEF InFails
<1>25. CASE UNCHANGED introspectVars
  <2>1. txAt' = txAt /\ txIn' = txIn /\ inAnswer' = inAnswer /\ inDead' = inDead /\ inBlind' = inBlind
    BY <1>25 DEF introspectVars, txVars, inVars
  <2> QED BY <2>1, FailStays DEF InFails
<1> QED BY <1>1, <1>2, <1>3, <1>4, <1>5, <1>6, <1>7, <1>8, <1>9, <1>10, <1>11, <1>12, <1>13,
       <1>14, <1>15, <1>16, <1>17, <1>18, <1>19, <1>20, <1>21, <1>22, <1>23, <1>24, <1>25
        DEF IntrospectNext, ExchangeNext, ExchangeAdmin, ExchangeStep, IntrospectStep

\* The answers have their types, and there is none before the end.
InAnswers ==
    /\ InQuiet
    /\ inAnswer \in [TxRequests -> {"none", "active", "inactive"}]
    /\ inMachine \in [TxRequests -> BOOLEAN]
    /\ inDead \in [TxRequests -> BOOLEAN]
    /\ inBlind \in [TxRequests -> BOOLEAN]

\* Whether a token is dead is a yes or a no.
LEMMA DeadType ==
    ASSUME ExchangeTypeOK, NEW j \in TxJtis
    PROVE  Dead(j) \in BOOLEAN
  BY DEF Dead

\* An answer comes at the end.
LEMMA AnswersKeep ==
    ASSUME ExchangeTypeOK, TxHandedOut, InAnswers, [IntrospectNext]_introspectVars
    PROVE  InAnswers'
<1>1. ASSUME NEW p \in TxRequests, UNCHANGED inVars, HandleTokenExchange(p) PROVE InAnswers'
  <2>1. PICK d \in TxInput : TxArrive(p, d, IF d.target = TxNone THEN "selfSave"
                                            ELSE IF d.gated THEN "gate" ELSE "mint")
    BY <1>1, ExchangeArrives
  <2> QED BY <1>1, <2>1 DEF TxArrive, TxMayAsk, TxGoto, ExchangeTypeOK, InAnswers, InQuiet, inVars
<1>2. ASSUME NEW p \in TxRequests, UNCHANGED inVars, ConsentGate(p) PROVE InAnswers'
  BY <1>2 DEF ConsentGate, TxGoto, ExchangeTypeOK, InAnswers, InQuiet, inVars
<1>3. ASSUME NEW p \in TxRequests, UNCHANGED inVars, MintIssue(p) PROVE InAnswers'
  BY <1>3 DEF MintIssue, TxGoto, ExchangeTypeOK, InAnswers, InQuiet, inVars
<1>4. ASSUME NEW p \in TxRequests, UNCHANGED inVars, RefuseIfRevoked(p) PROVE InAnswers'
  BY <1>4 DEF RefuseIfRevoked, TxGoto, ExchangeTypeOK, InAnswers, InQuiet, inVars
<1>5. ASSUME NEW p \in TxRequests, UNCHANGED inVars, RefuseIfConsentGone(p) PROVE InAnswers'
  BY <1>5 DEF RefuseIfConsentGone, TxGoto, ExchangeTypeOK, InAnswers, InQuiet, inVars
<1>6. ASSUME NEW p \in TxRequests, UNCHANGED inVars, RevokeOwnIssuance(p) PROVE InAnswers'
  BY <1>6 DEF RevokeOwnIssuance, TxGoto, ExchangeTypeOK, InAnswers, InQuiet, inVars
<1>7. ASSUME NEW p \in TxRequests, UNCHANGED inVars, SaveExchanged(p) PROVE InAnswers'
  BY <1>7 DEF SaveExchanged, TxGoto, ExchangeTypeOK, InAnswers, InQuiet, inVars
<1>8. ASSUME NEW p \in TxRequests, UNCHANGED inVars, HandleClientCredentials(p) PROVE InAnswers'
  <2>1. PICK d \in TxInput : TxArrive(p, d, "ccIssue")
    BY <1>8, CredentialsArrive
  <2> QED BY <1>8, <2>1 DEF TxArrive, TxMayAsk, TxGoto, ExchangeTypeOK, InAnswers, InQuiet, inVars
<1>9. ASSUME NEW p \in TxRequests, UNCHANGED inVars, CredentialsIssue(p) PROVE InAnswers'
  BY <1>9 DEF CredentialsIssue, TxGoto, ExchangeTypeOK, InAnswers, InQuiet, inVars
<1>10. ASSUME NEW p \in TxRequests, UNCHANGED inVars, CredentialsSave(p) PROVE InAnswers'
  BY <1>10 DEF CredentialsSave, TxGoto, ExchangeTypeOK, InAnswers, InQuiet, inVars
<1>11. ASSUME NEW p \in TxRequests, UNCHANGED inVars, ExchangeRevokeConsent(p) PROVE InAnswers'
  BY <1>11 DEF ExchangeRevokeConsent, TxGoto, ExchangeTypeOK, InAnswers, InQuiet, inVars
<1>12. ASSUME NEW p \in TxRequests, UNCHANGED inVars, ExchangeCascade(p) PROVE InAnswers'
  BY <1>12 DEF ExchangeCascade, TxGoto, ExchangeTypeOK, InAnswers, InQuiet, inVars
<1>13. ASSUME NEW k \in TxConsents, UNCHANGED inVars, Regrant(k) PROVE InAnswers'
  BY <1>13 DEF Regrant, txReqVars, TxGoto, ExchangeTypeOK, InAnswers, InQuiet, inVars
<1>14. ASSUME NEW j \in TxJtis, UNCHANGED inVars, AdminRevokeIssuance(j) PROVE InAnswers'
  BY <1>14 DEF AdminRevokeIssuance, txReqVars, TxGoto, ExchangeTypeOK, InAnswers, InQuiet, inVars
<1>15. ASSUME NEW j \in TxJtis, UNCHANGED inVars, TryRevokeMachineToken(j) PROVE InAnswers'
  BY <1>15 DEF TryRevokeMachineToken, txReqVars, TxGoto, ExchangeTypeOK, InAnswers, InQuiet, inVars
<1>16. ASSUME NEW j \in TxJtis, UNCHANGED inVars, DenyRoot(j) PROVE InAnswers'
  BY <1>16 DEF DenyRoot, txReqVars, TxGoto, ExchangeTypeOK, InAnswers, InQuiet, inVars
<1>17. ASSUME UNCHANGED inVars, SuspendOrDisable PROVE InAnswers'
  BY <1>17 DEF SuspendOrDisable, txReqVars, TxGoto, ExchangeTypeOK, InAnswers, InQuiet, inVars
<1>18. ASSUME NEW p \in TxRequests, IntrospectToken(p) PROVE InAnswers'
  <2>1. PICK d \in TxInput :
          /\ TxArrive(p, d, "inIssuance") /\ d.subject \in txHeld
          /\ inDead' = [inDead EXCEPT ![p] = Dead(d.subject)]
          /\ UNCHANGED <<inAnswer, inMachine, inBlind>>
    BY <1>18, IntrospectArrives
  <2>2. Dead(d.subject) \in BOOLEAN
    BY <2>1, DeadType DEF ExchangeTypeOK
  <2>3. inDead' \in [TxRequests -> BOOLEAN]
    BY <2>1, <2>2 DEF InAnswers
  <2> QED BY <2>1, <2>3 DEF TxArrive, TxMayAsk, TxGoto, ExchangeTypeOK, InAnswers, InQuiet, inVars
<1>19. ASSUME NEW p \in TxRequests, InIssuance(p) PROVE InAnswers'
  BY <1>19
     DEF InIssuance, DenyInactive, Answer, PassTo, InUnchanged, TxGoto, ExchangeTypeOK, InAnswers,
         InQuiet, inVars
<1>20. ASSUME NEW p \in TxRequests, InMachine(p) PROVE InAnswers'
  BY <1>20
     DEF InMachine, DenyInactive, Answer, PassTo, InUnchanged, TxGoto, ExchangeTypeOK, InAnswers,
         InQuiet, inVars
<1>21. ASSUME NEW p \in TxRequests, InDenylist(p) PROVE InAnswers'
  BY <1>21
     DEF InDenylist, DenyInactive, Answer, PassTo, InUnchanged, TxGoto, ExchangeTypeOK, InAnswers,
         InQuiet, inVars
<1>22. ASSUME NEW p \in TxRequests, InClient(p) PROVE InAnswers'
  BY <1>22
     DEF InClient, DenyInactive, Answer, PassTo, InUnchanged, TxGoto, ExchangeTypeOK, InAnswers,
         InQuiet, inVars
<1>23. ASSUME NEW p \in TxRequests, InUser(p) PROVE InAnswers'
  BY <1>23
     DEF InUser, DenyInactive, Answer, PassTo, InUnchanged, TxGoto, ExchangeTypeOK, InAnswers,
         InQuiet, inVars
<1>24. ASSUME UNCHANGED inVars, UserCacheLapses PROVE InAnswers'
  BY <1>24 DEF UserCacheLapses, txReqVars, TxGoto, ExchangeTypeOK, InAnswers, InQuiet, inVars
<1>25. CASE UNCHANGED introspectVars
  BY <1>25 DEF introspectVars, txVars, TxGoto, ExchangeTypeOK, InAnswers, InQuiet, inVars
<1> QED BY <1>1, <1>2, <1>3, <1>4, <1>5, <1>6, <1>7, <1>8, <1>9, <1>10, <1>11, <1>12, <1>13,
       <1>14, <1>15, <1>16, <1>17, <1>18, <1>19, <1>20, <1>21, <1>22, <1>23, <1>24, <1>25
        DEF IntrospectNext, ExchangeNext, ExchangeAdmin, ExchangeStep, IntrospectStep

\* What the code flow has issued satisfies the invariant.
LEMMA ExchangeInitInv ==
    ASSUME IntrospectInit
    PROVE  ExchangeInv
<1>1. PICK t \in RootTokens :
        /\ txTok = [j \in TxJtis |-> IF j \in TxRoots
                       THEN [sub |-> "user", client |-> t.client, aud |-> t.aud,
                             scope |-> t.scope, act |-> 0]
                       ELSE TxNone]
        /\ txIss = [j \in TxJtis |-> IF j \in TxRoots
                       THEN [sub |-> "user", client |-> t.client, res |-> t.aud,
                             consentClient |-> TxNone, lineage |-> {j},
                             revoked |-> FALSE]
                       ELSE TxNone]
        /\ txRests = [j \in TxJtis |-> IF j \in TxRoots THEN {<<t.client, t.aud>>} ELSE {}]
        /\ txGrant[<<t.client, t.aud>>] # {}
  BY Zenon DEF IntrospectInit, ExchangeInit
<1>2. /\ txAt = [p \in TxRequests |-> "idle"] /\ txIn = [p \in TxRequests |-> NoInput]
      /\ txMach = [j \in TxJtis |-> "none"] /\ txDenied = {} /\ txGrant \in Grants /\ txLink \in Links
      /\ txOff = {} /\ txUser = "active" /\ txMoves = MaxMoves /\ txHeld = TxRoots
      /\ inAnswer = [p \in TxRequests |-> "none"] /\ inMachine = [p \in TxRequests |-> FALSE]
      /\ inDead = [p \in TxRequests |-> FALSE] /\ inBlind = [p \in TxRequests |-> FALSE]
  BY DEF IntrospectInit, ExchangeInit
<1>3. t.client \in TxClients /\ t.aud \in TxResources /\ t.scope \in SUBSET TxScopes
  BY RootsAssumption
<1>4. ASSUME NEW j \in TxRoots
      PROVE  /\ txTok[j] \in Claims /\ txTok[j].sub = "user" /\ txTok[j].client = t.client
             /\ txIss[j] \in IssRow /\ txIss[j].sub = "user" /\ txIss[j].res = t.aud
             /\ txIss[j].client = t.client /\ txIss[j].consentClient = TxNone
             /\ txIss[j].lineage = {j} /\ txRests[j] = {<<t.client, t.aud>>}
  BY <1>1, <1>3 DEF Claims, IssRow, TxJtis
<1>5. \A p \in TxRequests : txTok[p] = TxNone /\ txIss[p] = TxNone /\ txRests[p] = {}
  BY <1>1, TxNamesAssumption DEF TxJtis
<1>6. IntrospectTypeOK
  <2>1. NoInput \in TxInput
    BY DEF NoInput, TxInput
  <2>2. txTok \in [TxJtis -> Claims \cup {TxNone}] /\ txIss \in [TxJtis -> IssRow \cup {TxNone}]
    <3>1. DOMAIN txTok = TxJtis /\ DOMAIN txIss = TxJtis
      BY <1>1
    <3> QED BY <1>1, <1>4, <1>5, <3>1 DEF TxJtis
  <2>3. txRests \in [TxJtis -> SUBSET TxConsents]
    BY <1>1, <1>3 DEF TxConsents
  <2>4. txMoves \in 0 .. MaxMoves /\ txGrant \in [TxConsents -> SUBSET TxScopes]
    <3>1. MaxMoves \in Nat
      BY TxBoundsAssumption
    <3>2. txMoves \in 0 .. MaxMoves
      BY <1>2, <3>1
    <3> QED BY <1>2, <3>2, RootsAssumption DEF TxConsents
  <2> QED BY <1>2, <2>1, <2>2, <2>3, <2>4 DEF IntrospectTypeOK, ExchangeTypeOK, TxLabels, TxJtis
<1>7. TxHandedOut /\ TxSigned /\ TxRootsStand
  BY <1>2, <1>3, <1>4, <1>5, TxNamesAssumption, TxRowsAssumption
     DEF TxHandedOut, TxSigned, TxRootsStand, TxJtis
<1>8. TxPhases /\ TxNarrows
  BY <1>2 DEF TxPhases, TxPhase, NoInput, TxNarrows
<1>9. TxMachines
  BY <1>2, <1>4, <1>5 DEF TxMachines, TxJtis
<1>10. TxLineages
  <2>1. ASSUME NEW j \in TxRoots, NEW k \in txRests[j]
        PROVE  txIss[j] # TxNone /\ \E a \in txIss[j].lineage : TxUnder(a, k)
    <3>1. txIss[j] # TxNone /\ k[1] = t.client /\ k[2] = t.aud
      BY <1>4, <2>1, TxRowsAssumption
    <3>2. TxUnder(j, k)
      BY <1>4, <3>1 DEF TxUnder
    <3> QED BY <1>4, <3>1, <3>2
  <2> QED BY <1>5, <2>1 DEF TxLineages, TxJtis
<1>11. TxRestsOn
  BY <1>2 DEF TxRestsOn
<1>12. TxCaught
  BY <1>1, <1>4, <1>5 DEF TxCaught, TxJtis
<1>13. InFails /\ InQuiet
  BY <1>2 DEF InFails, InFail, InQuiet
<1> QED BY <1>6, <1>7, <1>8, <1>9, <1>10, <1>11, <1>12, <1>13 DEF ExchangeInv

\* Every step of exchange, revocation and introspection keeps the invariant.
LEMMA ExchangeStepKeeps ==
    ASSUME ExchangeInv, [IntrospectNext]_introspectVars
    PROVE  ExchangeInv'
<1>1. /\ ExchangeTypeOK /\ TxHandedOut /\ TxSigned /\ TxRootsStand /\ TxPhases /\ TxMachines
      /\ TxNarrows /\ TxLineages /\ TxRestsOn /\ TxCaught /\ InFails /\ InQuiet
      /\ IntrospectTypeOK /\ InAnswers
  BY DEF ExchangeInv, IntrospectTypeOK, InAnswers
<1>2. TxFrame /\ TxShape /\ ExchangeTypeOK'
  BY <1>1, ExchangeFrames, StepShape, ExchangeTypes
<1>3. TxHandedOut' /\ TxSigned' /\ TxRootsStand'
  BY <1>1, HandedOutKeeps, SignedKeeps, RootsKeep
<1>4. TxPhases' /\ TxMachines' /\ TxNarrows'
  BY <1>1, <1>2, PhasesKeep, MachinesKeep, NarrowsKeep
<1>5. TxLineages' /\ TxRestsOn' /\ TxCaught'
  BY <1>1, <1>2, LineagesKeep, RestsOnKeeps, CaughtKeeps
<1>6. InFails' /\ InAnswers'
  BY <1>1, <1>2, FailsKeep, AnswersKeep
<1> QED BY <1>2, <1>3, <1>4, <1>5, <1>6 DEF ExchangeInv, IntrospectTypeOK, InAnswers

\* The invariant says that exchanged tokens are sound.
LEMMA ExchangeInvSound ==
    ASSUME ExchangeInv
    PROVE  ExchangeSound
<1>1. IntrospectTypeOK /\ ExchangeTypeOK
  BY DEF ExchangeInv, IntrospectTypeOK
<1>2. RevokedConsentReachesExchanges
  BY <1>1 DEF ExchangeInv, RevokedConsentReachesExchanges, TxCaught, ExchangeTypeOK
<1>3. ExchangeNeverWidens
  BY DEF ExchangeInv, ExchangeNeverWidens, TxNarrows, TxNarrow
<1>4. DefaultsAreRequestable
  BY DEF DefaultsAreRequestable, FrontedCovered, FrontedMintTargetsFor, RequiredSources
<1>5. DeadTokenIsInactive
  BY DEF ExchangeInv, DeadTokenIsInactive, InFails, InFail
<1>6. InactiveSeedsNothing
  <2> SUFFICES ASSUME NEW j \in txHeld, NEW blind \in BOOLEAN,
                      \/ SeenDead(j)
                      \/ ~blind /\ Dead(j) /\ (txTok[j].sub = "user" => txMach[j] = "none"),
                      SubjectStands(j, blind), SubjectLive(j)
               PROVE  FALSE
    BY DEF InactiveSeedsNothing
  <2>1. j \in TxJtis /\ txTok[j] # TxNone
    BY <1>1 DEF ExchangeInv, TxHandedOut, ExchangeTypeOK
  <2>2. ~IssRevoked(j) /\ txTok[j].client \notin txOff /\ ~(txTok[j].sub = "user" /\ txUser = "off")
    BY DEF SubjectStands, SubjectLive, UserReadsActive
  <2>5. ~blind /\ Dead(j) /\ (txTok[j].sub = "user" => txMach[j] = "none")
    BY <2>2 DEF SeenDead
  <2>3. txMach[j] # "revoked"
    BY <2>1, <2>5 DEF ExchangeInv, TxMachines, SubjectStands
  <2>4. ~(txMach[j] = "none" /\ j \in txDenied)
    BY <2>5, TxNamesAssumption DEF ExchangeInv, TxRootsStand, SubjectStands
  <2> QED BY <2>2, <2>3, <2>4, <2>5 DEF Dead
<1> QED BY <1>1, <1>2, <1>3, <1>4, <1>5, <1>6 DEF ExchangeSound

\* TokenExchangeService, IntrospectionService, RevokeConsent: whatever consents are
\* revoked while exchanges are under way, no exchanged token is wider than what it
\* came from, none that rests on a revoked consent stays in use once the cascade has
\* been carried out, and introspection calls no token active that was dead when it
\* was asked: revoked, of a suspended client, or of a user disabled for longer than
\* the user cache remembers.
THEOREM ExchangeStaysSound == IntrospectSpec => []ExchangeSound
<1>1. IntrospectInit => ExchangeInv
  BY ExchangeInitInv
<1>2. ExchangeInv /\ [IntrospectNext]_introspectVars => ExchangeInv'
  BY ExchangeStepKeeps
<1>3. ExchangeInv => ExchangeSound
  BY ExchangeInvSound
<1> QED BY <1>1, <1>2, <1>3, PTL DEF IntrospectSpec

-----------------------------------------------------------------------------
(* ConnectService, BrokerGrantService, BrokerIssuer *)

\* The requests that will not write a credential any more.
CnSettled == {"record", "done"}

\* A pending state is that of a connect that was started, and has not been consumed;
\* no two callbacks come with the same one.
CnStates ==
    /\ \A s \in CnRequests :
          /\ cnAt[s] = "idle" => cnIn[s] = NoConnection
          /\ cnPending[s] # "none" => cnAt[s] = "redirected"
    /\ \A p \in CnRequests : cnIn[p].op = "callback" =>
          /\ cnIn[p].state \in CnRequests
          /\ cnAt[cnIn[p].state] = "redirected" /\ cnPending[cnIn[p].state] = "none"
          /\ \A q \in CnRequests :
                cnIn[q].op = "callback" /\ cnIn[q].state = cnIn[p].state => p = q

\* What a request is doing fits what it came with.
CnPhase ==
    \A p \in CnRequests :
        /\ cnAt[p] # "idle" => cnIn[p].user \in CnUsers
        /\ cnAt[p] \in {"exchange", "upsert"} => cnIn[p].op = "callback"
        /\ cnAt[p] = "exchange" => cnIn[cnIn[p].state].user = cnIn[p].user
        /\ cnAt[p] = "upsert" =>
              cnIn[p].cred = p /\ p \in cnUp /\ cnOwner[p] = cnIn[p].user
        /\ cnAt[p] \in {"issue", "refresh", "persist", "record"} =>
              cnIn[p].op = "vend" /\ cnIn[p].scopes # {}

\* Until a request has written its credential nobody else has it.
CnFresh ==
    \A p \in CnRequests : cnAt[p] \notin CnSettled =>
        /\ \A u \in CnUsers : cnGrant[u] # CnNone => cnGrant[u].cred # p
        /\ \A q \in CnRequests \ {p} : cnIn[q].cred # p

\* A request between its read of a grant and its write holds a credential of its
\* user.  The row is the one that was read, or its credential is another one.
CnReading == {"revoke", "upRevoke", "refresh", "persist"}

CnRead(p) ==
    LET i == cnIn[p]  g == cnGrant[i.user] IN
    /\ cnAt[p] \in CnReading =>
          /\ i.cred \in CnRequests \ {p} /\ g # CnNone /\ cnOwner[i.cred] = i.user
    /\ cnAt[p] = "upRevoke" => g.revoked \/ g.cred # i.cred
    /\ cnAt[p] \in {"refresh", "persist"} =>
          /\ i.version <= g.version
          /\ (i.version = g.version) = (i.cred = g.cred)
    /\ cnAt[p] = "persist" => p \in cnUp /\ cnOwner[p] = i.user

CnReads == \A p \in CnRequests : CnRead(p)

\* The inductive invariant of connections.
ConnInv ==
    /\ ConnTypeOK /\ CnStates /\ CnPhase /\ CnFresh /\ CnReads
    /\ CredentialFollowsItsUser /\ StoredCredentialLives /\ RefreshNamesGrantedScopes

\* UpdateWithVersion writes the row that was read, or none.
LEMMA VersionedWrite ==
    ASSUME ConnTypeOK, NEW p \in CnRequests, cnIn[p].user \in CnUsers,
           cnGrant[cnIn[p].user] # CnNone, UpdateWithVersion(cnIn[p].user, cnIn[p], p)
    PROVE  LET u == cnIn[p].user  g == cnGrant[u] IN
           /\ g \in GrantRow
           /\ \A v \in CnUsers \ {u} : cnGrant'[v] = cnGrant[v]
           /\ g.version # cnIn[p].version => cnGrant'[u] = g
           /\ g.version = cnIn[p].version =>
                 /\ cnGrant'[u].cred = p /\ cnGrant'[u].version = g.version + 1
                 /\ cnGrant'[u].scopes = cnIn[p].granted /\ cnGrant'[u].revoked = g.revoked
           /\ cnGrant'[u] \in GrantRow
           /\ cnGrant' \in [CnUsers -> GrantRow \cup {CnNone}]
<1> DEFINE u == cnIn[p].user
           g == cnGrant[u]
           new == [g EXCEPT !.cred = p, !.scopes = cnIn[p].granted, !.version = g.version + 1]
<1>1. g \in GrantRow /\ cnIn[p] \in CnInput
  BY DEF ConnTypeOK
<1>2. /\ new.cred = p /\ new.version = g.version + 1
      /\ new.scopes = cnIn[p].granted /\ new.revoked = g.revoked
      /\ new \in GrantRow
  <2> DEFINE v == g.version + 1
  <2>1. v \in Nat \ {0} /\ cnIn[p].granted \in SUBSET Fine
    BY <1>1 DEF GrantRow, CnInput
  <2> HIDE DEF v
  <2>2. /\ [g EXCEPT !.cred = p, !.scopes = cnIn[p].granted, !.version = v].cred = p
        /\ [g EXCEPT !.cred = p, !.scopes = cnIn[p].granted, !.version = v].version = v
        /\ [g EXCEPT !.cred = p, !.scopes = cnIn[p].granted, !.version = v].scopes = cnIn[p].granted
        /\ [g EXCEPT !.cred = p, !.scopes = cnIn[p].granted, !.version = v].revoked = g.revoked
        /\ [g EXCEPT !.cred = p, !.scopes = cnIn[p].granted, !.version = v] \in GrantRow
    BY <1>1, <2>1 DEF GrantRow
  <2> QED BY <2>2 DEF v
<1>4. cnGrant' = [cnGrant EXCEPT ![u] = IF g.version = cnIn[p].version THEN new ELSE g]
  BY DEF UpdateWithVersion
<1> HIDE DEF new
<1>5. cnGrant' \in [CnUsers -> GrantRow \cup {CnNone}]
  BY <1>1, <1>2, <1>4 DEF ConnTypeOK
<1>6. cnGrant'[u] = IF g.version = cnIn[p].version THEN new ELSE g
  BY <1>4 DEF ConnTypeOK
<1>7. \A v \in CnUsers \ {u} : cnGrant'[v] = cnGrant[v]
  BY <1>4 DEF ConnTypeOK
<1> QED BY <1>1, <1>2, <1>5, <1>6, <1>7

\* RevokeBrokerRow changes nothing but the flag.
LEMMA RowRevoked ==
    ASSUME ConnTypeOK, NEW u \in CnUsers, cnGrant[u] # CnNone, RevokeBrokerRow(u)
    PROVE  /\ cnGrant'[u].cred = cnGrant[u].cred /\ cnGrant'[u].version = cnGrant[u].version
           /\ cnGrant'[u].scopes = cnGrant[u].scopes /\ cnGrant'[u].revoked
           /\ cnGrant'[u] \in GrantRow
           /\ \A v \in CnUsers \ {u} : cnGrant'[v] = cnGrant[v]
           /\ cnGrant' \in [CnUsers -> GrantRow \cup {CnNone}]
<1> DEFINE g == cnGrant[u]
           new == [g EXCEPT !.revoked = TRUE]
<1>1. g \in GrantRow
  BY DEF ConnTypeOK
<1>2. /\ new.cred = g.cred /\ new.version = g.version
      /\ new.scopes = g.scopes /\ new.revoked
      /\ new \in GrantRow
  BY <1>1 DEF GrantRow
<1>3. cnGrant' = [cnGrant EXCEPT ![u] = new]
  BY DEF RevokeBrokerRow
<1> HIDE DEF new
<1>4. cnGrant'[u] = new /\ \A v \in CnUsers \ {u} : cnGrant'[v] = cnGrant[v]
  BY <1>3 DEF ConnTypeOK
<1>5. cnGrant' \in [CnUsers -> GrantRow \cup {CnNone}]
  BY <1>2, <1>3 DEF ConnTypeOK
<1> QED BY <1>2, <1>4, <1>5

\* Upsert leaves an active row with the new credential, one version on.
LEMMA RowUpserted ==
    ASSUME ConnTypeOK, NEW u \in CnUsers, NEW c \in CnRequests, NEW scopes \in SUBSET Fine,
           UpsertBroker(u, c, scopes)
    PROVE  /\ cnGrant'[u] = [cred |-> c, scopes |-> scopes, revoked |-> FALSE,
                version |-> IF cnGrant[u] = CnNone THEN 1 ELSE cnGrant[u].version + 1]
           /\ cnGrant'[u] \in GrantRow
           /\ \A v \in CnUsers \ {u} : cnGrant'[v] = cnGrant[v]
           /\ cnGrant' \in [CnUsers -> GrantRow \cup {CnNone}]
<1> DEFINE new == [cred |-> c, scopes |-> scopes, revoked |-> FALSE,
                   version |-> IF cnGrant[u] = CnNone THEN 1 ELSE cnGrant[u].version + 1]
<1>1. cnGrant[u] # CnNone => cnGrant[u].version \in Nat \ {0}
  BY DEF ConnTypeOK, GrantRow
<1>2. new \in GrantRow
  BY <1>1 DEF GrantRow
<1>3. cnGrant' = [cnGrant EXCEPT ![u] = new]
  BY DEF UpsertBroker
<1> HIDE DEF new
<1>4. cnGrant'[u] = new /\ \A v \in CnUsers \ {u} : cnGrant'[v] = cnGrant[v]
  BY <1>3 DEF ConnTypeOK
<1>5. cnGrant' \in [CnUsers -> GrantRow \cup {CnNone}]
  BY <1>2, <1>3 DEF ConnTypeOK
<1> QED BY <1>2, <1>4, <1>5 DEF new

\* What Issue read of the grant, added to the request.
IssueReads(p) ==
    LET g == cnGrant[cnIn[p].user] IN
    cnIn' = [cnIn EXCEPT ![p].cred = g.cred, ![p].version = g.version, ![p].granted = g.scopes]

\* Issue keeps what the request came with.
LEMMA GrantRead ==
    ASSUME ConnTypeOK, NEW p \in CnRequests, cnIn[p].user \in CnUsers,
           cnGrant[cnIn[p].user] # CnNone, IssueReads(p)
    PROVE  LET g == cnGrant[cnIn[p].user] IN
           /\ g \in GrantRow
           /\ cnIn'[p].cred = g.cred /\ cnIn'[p].version = g.version
           /\ cnIn'[p].granted = g.scopes /\ cnIn'[p].op = cnIn[p].op
           /\ cnIn'[p].user = cnIn[p].user /\ cnIn'[p].state = cnIn[p].state
           /\ cnIn'[p].scopes = cnIn[p].scopes
           /\ \A q \in CnRequests \ {p} : cnIn'[q] = cnIn[q]
           /\ cnIn' \in [CnRequests -> CnInput]
<1> DEFINE g == cnGrant[cnIn[p].user]
           i == cnIn[p]
           new == [i EXCEPT !.cred = g.cred, !.version = g.version, !.granted = g.scopes]
<1>1. g \in GrantRow /\ i \in CnInput
  BY DEF ConnTypeOK
<1>2. g.cred \in CnRequests /\ g.version \in Nat /\ g.scopes \in SUBSET Fine
  BY <1>1 DEF GrantRow
<1>3. /\ new.cred = g.cred /\ new.version = g.version /\ new.granted = g.scopes
      /\ new.op = i.op /\ new.user = i.user /\ new.state = i.state /\ new.scopes = i.scopes
      /\ new \in CnInput
  BY <1>1, <1>2 DEF CnInput
<1>4. cnIn' = [cnIn EXCEPT ![p] = new]
  BY DEF IssueReads, ConnTypeOK
<1> HIDE DEF new
<1>5. /\ cnIn'[p] = new /\ \A q \in CnRequests \ {p} : cnIn'[q] = cnIn[q]
      /\ cnIn' \in [CnRequests -> CnInput]
  BY <1>3, <1>4 DEF ConnTypeOK
<1> QED BY <1>1, <1>3, <1>5

\* HandleCallback names the credential of the request after it.
LEMMA CallbackAnswered ==
    ASSUME ConnTypeOK, NEW p \in CnRequests, NEW scopes \in SUBSET Fine,
           cnIn' = [cnIn EXCEPT ![p].cred = p, ![p].granted = scopes]
    PROVE  /\ cnIn'[p].cred = p /\ cnIn'[p].op = cnIn[p].op
           /\ cnIn'[p].user = cnIn[p].user /\ cnIn'[p].state = cnIn[p].state
           /\ \A q \in CnRequests \ {p} : cnIn'[q] = cnIn[q]
           /\ cnIn' \in [CnRequests -> CnInput]
<1> DEFINE i == cnIn[p]
           new == [i EXCEPT !.cred = p, !.granted = scopes]
<1>1. i \in CnInput
  BY DEF ConnTypeOK
<1>2. /\ new.cred = p /\ new.op = i.op /\ new.user = i.user /\ new.state = i.state
      /\ new \in CnInput
  BY <1>1 DEF CnInput
<1>3. cnIn' = [cnIn EXCEPT ![p] = new]
  BY DEF ConnTypeOK
<1> HIDE DEF new
<1> HIDE DEF i
<1>4. cnIn' \in [CnRequests -> CnInput]
  BY <1>2, <1>3 DEF ConnTypeOK
<1>5. cnIn'[p] = new /\ \A q \in CnRequests \ {p} : cnIn'[q] = cnIn[q]
  BY <1>3 DEF ConnTypeOK
<1> QED BY <1>2, <1>4, <1>5 DEF i

\* A broker decision is a set of scopes that is not empty.
LEMMA DecisionInScope ==
    ASSUME NEW m \in BrokerLinks, NEW subject \in SUBSET Fine, NEW attested \in SUBSET Fine,
           NEW asked \in SUBSET Fine, NEW scopes \in DecideBroker(m, subject, attested, asked)
    PROVE  scopes \in SUBSET Fine /\ scopes # {}
<1> USE WireAssumption
<1>1. CASE m # CnNone
  <2>1. m \in [Fine -> SUBSET Fine] /\ scopes \in FrontedBroker(m, subject, asked)
    BY <1>1 DEF DecideBroker
  <2>2. FrontedBrokerTargetsFor(m, subject) \in SUBSET Fine
    BY <2>1 DEF FrontedBrokerTargetsFor
  <2> QED BY <2>1, <2>2 DEF FrontedBroker
<1>2. CASE m = CnNone
  BY <1>2 DEF DecideBroker, DirectBroker, DirectBrokerDefaultScopes
<1> QED BY <1>1, <1>2

\* Request p has just come, as op of user u, and its next call is label.
Came(p, op, u, label) ==
    /\ cnAt[p] = "idle" /\ cnAt' = [cnAt EXCEPT ![p] = label]
    /\ cnIn'[p].op = op /\ cnIn'[p].user = u
    /\ \A q \in CnRequests \ {p} : cnIn'[q] = cnIn[q]
    /\ cnIn' \in [CnRequests -> CnInput]

\* CnArrive: a request comes with what it carries, and the others are as they were.
LEMMA Arrived ==
    ASSUME ConnTypeOK, NEW p \in CnRequests, NEW i \in CnInput, NEW label,
           CnArrive(p, i, label)
    PROVE  Came(p, i.op, i.user, label) /\ cnIn'[p] = i
<1>1. cnIn'[p] = i /\ \A q \in CnRequests \ {p} : cnIn'[q] = cnIn[q]
  BY DEF CnArrive, ConnTypeOK
<1>2. cnIn' \in [CnRequests -> CnInput]
  BY DEF CnArrive, ConnTypeOK
<1> QED BY <1>1, <1>2 DEF CnArrive, CnMayAsk, CnGoto, Came

\* StartConnect: a request to connect comes without a credential.
LEMMA StartComes ==
    ASSUME ConnTypeOK, NEW p \in CnRequests, StartConnect(p)
    PROVE  \E u \in CnUsers :
               Came(p, "start", u, "redirected") /\ cnIn'[p].cred = CnNone
<1>1. PICK u \in CnUsers :
        CnArrive(p, [NoConnection EXCEPT !.op = "start", !.user = u], "redirected")
  BY DEF StartConnect
<1> DEFINE i == [NoConnection EXCEPT !.op = "start", !.user = u]
<1>2. i \in CnInput /\ i.op = "start" /\ i.user = u /\ i.cred = CnNone
  BY DEF NoConnection, CnInput
<1>3. CnArrive(p, i, "redirected")
  BY <1>1
<1> HIDE DEF i
<1> QED BY <1>2, <1>3, Arrived

\* CompleteConnect: a callback goes on to the exchange only for the user of its state.
LEMMA CallbackComes ==
    ASSUME ConnTypeOK, NEW p \in CnRequests, CompleteConnect(p)
    PROVE  \E s \in CnRequests, u \in CnUsers :
               /\ ConsumePending(s)
               /\ Came(p, "callback", u, IF OwnsPending(s, u) THEN "exchange" ELSE "done")
               /\ cnIn'[p].state = s /\ cnIn'[p].cred = CnNone
<1>1. PICK s \in CnRequests, u \in CnUsers :
        /\ ConsumePending(s)
        /\ CnArrive(p, [NoConnection EXCEPT !.op = "callback", !.user = u, !.state = s],
                    IF OwnsPending(s, u) THEN "exchange" ELSE "done")
  BY DEF CompleteConnect
<1> DEFINE i == [NoConnection EXCEPT !.op = "callback", !.user = u, !.state = s]
           label == IF OwnsPending(s, u) THEN "exchange" ELSE "done"
<1>2. i \in CnInput /\ i.op = "callback" /\ i.user = u /\ i.state = s /\ i.cred = CnNone
  BY DEF NoConnection, CnInput
<1>3. CnArrive(p, i, label)
  BY <1>1
<1> HIDE DEF i, label
<1>4. Came(p, "callback", u, label) /\ cnIn'[p] = i
  BY <1>2, <1>3, Arrived
<1> QED BY <1>1, <1>2, <1>4 DEF label

\* Disconnect: the request carries the credential of the active grant it has read.
LEMMA DisconnectComes ==
    ASSUME ConnTypeOK, NEW p \in CnRequests, Disconnect(p)
    PROVE  \E u \in CnUsers :
               /\ ActiveGrant(u) /\ Came(p, "disconnect", u, "revoke")
               /\ cnGrant[u] \in GrantRow /\ cnIn'[p].cred = cnGrant[u].cred
<1>1. PICK u \in CnUsers :
        /\ ActiveGrant(u)
        /\ CnArrive(p, [NoConnection EXCEPT !.op = "disconnect", !.user = u,
                                            !.cred = cnGrant[u].cred], "revoke")
  BY DEF Disconnect
<1> DEFINE c == cnGrant[u].cred
           i == [NoConnection EXCEPT !.op = "disconnect", !.user = u, !.cred = c]
<1>2. cnGrant[u] \in GrantRow /\ c \in CnRequests
  BY <1>1 DEF ActiveGrant, ConnTypeOK, GrantRow
<1>3. CnArrive(p, i, "revoke")
  BY <1>1
<1> HIDE DEF c
<1>4. i \in CnInput /\ i.op = "disconnect" /\ i.user = u /\ i.cred = c
  BY <1>2 DEF NoConnection, CnInput
<1> HIDE DEF i
<1>5. Came(p, "disconnect", u, "revoke") /\ cnIn'[p] = i
  BY <1>3, <1>4, Arrived
<1> QED BY <1>1, <1>2, <1>4, <1>5 DEF c

\* BrokerExchange: a vend comes with the scopes of the decision, and some.
LEMMA VendComes ==
    ASSUME ConnTypeOK, NEW p \in CnRequests, BrokerExchange(p)
    PROVE  \E u \in CnUsers :
               /\ Came(p, "vend", u, "issue")
               /\ cnIn'[p].scopes # {} /\ cnIn'[p].cred = CnNone
<1>1. PICK u \in CnUsers, m \in BrokerLinks, subject \in SubjectScopes, asked \in BrokerAsked :
        \E scopes \in DecideBroker(m, subject, cnAttest[u], asked) :
            CnArrive(p, [NoConnection EXCEPT !.op = "vend", !.user = u, !.scopes = scopes], "issue")
  BY Zenon DEF BrokerExchange
<1>2. PICK scopes \in DecideBroker(m, subject, cnAttest[u], asked) :
        CnArrive(p, [NoConnection EXCEPT !.op = "vend", !.user = u, !.scopes = scopes], "issue")
  BY <1>1
<1>3. scopes \in SUBSET Fine /\ scopes # {}
  BY <1>2, DecisionInScope, WireAssumption DEF ConnTypeOK
<1> DEFINE i == [NoConnection EXCEPT !.op = "vend", !.user = u, !.scopes = scopes]
<1>4. i \in CnInput /\ i.op = "vend" /\ i.user = u /\ i.scopes = scopes /\ i.cred = CnNone
  BY <1>3 DEF NoConnection, CnInput
<1>5. CnArrive(p, i, "issue")
  BY <1>2
<1> HIDE DEF i
<1>6. Came(p, "vend", u, "issue") /\ cnIn'[p] = i
  BY <1>4, <1>5, Arrived
<1> QED BY <1>3, <1>4, <1>6

\* HandleCallback: no credential, or one of the user who came back.
LEMMA CallbackEffect ==
    ASSUME ConnTypeOK, CnStates, CnPhase, NEW p \in CnRequests, HandleCallback(p)
    PROVE  /\ cnAt[p] = "exchange" /\ cnIn[p].user \in CnUsers
           /\ \/ /\ cnAt' = [cnAt EXCEPT ![p] = "done"]
                 /\ UNCHANGED <<cnIn, cnUp, cnOwner>>
              \/ /\ cnAt' = [cnAt EXCEPT ![p] = "upsert"]
                 /\ cnIn'[p].cred = p /\ cnIn'[p].op = cnIn[p].op
                 /\ cnIn'[p].user = cnIn[p].user /\ cnIn'[p].state = cnIn[p].state
                 /\ \A q \in CnRequests \ {p} : cnIn'[q] = cnIn[q]
                 /\ cnIn' \in [CnRequests -> CnInput]
                 /\ cnUp' = cnUp \cup {p}
                 /\ cnOwner' = [cnOwner EXCEPT ![p] = cnIn[p].user]
           /\ UNCHANGED <<cnPending, cnGrant, cnPolicy, cnAttest, cnLost>>
<1>1. cnAt[p] = "exchange" /\ cnIn[p].user \in CnUsers
  BY DEF HandleCallback, CnPhase
<1>2. cnIn[cnIn[p].state].user = cnIn[p].user
  BY <1>1 DEF CnPhase
<1>3. ASSUME NEW scopes \in UpstreamGrants,
             cnIn' = [cnIn EXCEPT ![p].cred = p, ![p].granted = scopes]
      PROVE  /\ cnIn'[p].cred = p /\ cnIn'[p].op = cnIn[p].op
             /\ cnIn'[p].user = cnIn[p].user /\ cnIn'[p].state = cnIn[p].state
             /\ \A q \in CnRequests \ {p} : cnIn'[q] = cnIn[q]
             /\ cnIn' \in [CnRequests -> CnInput]
  BY <1>3, CallbackAnswered, WireAssumption
<1> QED BY <1>1, <1>2, <1>3 DEF HandleCallback, CnGoto

\* Every variable keeps its type.
LEMMA ConnTypeStep ==
    ASSUME ConnTypeOK, CnStates, CnPhase, CnFresh, CnReads, [ConnNext]_cnVars
    PROVE  ConnTypeOK'
<1> USE CnNoneAssumption, WireAssumption DEF ConnTypeOK, CnGoto, CnArrive, CnMayAsk, CnLabels
<1>1. ASSUME NEW p \in CnRequests, StartConnect(p) PROVE ConnTypeOK'
  <2>1. PICK u \in CnUsers :
          Came(p, "start", u, "redirected") /\ cnIn'[p].cred = CnNone
    BY <1>1, StartComes
  <2> QED BY <1>1, <2>1 DEF StartConnect, Came, ConsumePending
<1>2. ASSUME NEW p \in CnRequests, CompleteConnect(p) PROVE ConnTypeOK'
  <2>1. PICK s \in CnRequests, u \in CnUsers :
          /\ ConsumePending(s)
          /\ Came(p, "callback", u, IF OwnsPending(s, u) THEN "exchange" ELSE "done")
          /\ cnIn'[p].state = s /\ cnIn'[p].cred = CnNone
    BY <1>2, CallbackComes
  <2> QED BY <1>2, <2>1 DEF CompleteConnect, Came, ConsumePending
<1>3. ASSUME NEW p \in CnRequests, HandleCallback(p) PROVE ConnTypeOK'
  BY <1>3, CallbackEffect
<1>4. ASSUME NEW p \in CnRequests, StoreConnection(p) PROVE ConnTypeOK'
  <2>1. cnIn[p].user \in CnUsers /\ cnIn[p].cred = p /\ cnIn[p].granted \in SUBSET Fine
    BY <1>4 DEF StoreConnection, CnPhase, CnInput
  <2>2. CASE UNCHANGED cnGrant
    BY <1>4, <2>2 DEF StoreConnection
  <2>3. CASE UpsertBroker(cnIn[p].user, p, cnIn[p].granted)
    <3> DEFINE u == cnIn[p].user
    <3>1. /\ cnGrant'[u] = [cred |-> p, scopes |-> cnIn[p].granted, revoked |-> FALSE,
                version |-> IF cnGrant[u] = CnNone THEN 1 ELSE cnGrant[u].version + 1]
          /\ \A v \in CnUsers \ {u} : cnGrant'[v] = cnGrant[v]
          /\ cnGrant' \in [CnUsers -> GrantRow \cup {CnNone}]
      BY <2>1, <2>3, RowUpserted
    <3> QED BY <1>4, <2>1, <3>1 DEF StoreConnection
  <2> QED BY <1>4, <2>1, <2>2, <2>3 DEF StoreConnection
<1>5. ASSUME NEW p \in CnRequests, Disconnect(p) PROVE ConnTypeOK'
  <2>1. PICK u \in CnUsers :
          /\ ActiveGrant(u) /\ Came(p, "disconnect", u, "revoke")
          /\ cnGrant[u] \in GrantRow /\ cnIn'[p].cred = cnGrant[u].cred
    BY <1>5, DisconnectComes
  <2> QED BY <1>5, <2>1 DEF Disconnect, Came, ConsumePending
<1>6. ASSUME NEW p \in CnRequests, DisconnectRevoke(p) PROVE ConnTypeOK'
  <2> DEFINE u == cnIn[p].user
  <2>1. u \in CnUsers /\ cnGrant[u] # CnNone /\ RevokeBrokerRow(u)
    BY <1>6 DEF DisconnectRevoke, CnPhase, CnReads, CnRead, CnReading
  <2>2. /\ cnGrant'[u].cred = cnGrant[u].cred /\ cnGrant'[u].version = cnGrant[u].version
        /\ cnGrant'[u].scopes = cnGrant[u].scopes /\ cnGrant'[u].revoked
        /\ cnGrant'[u] \in GrantRow
        /\ \A v \in CnUsers \ {u} : cnGrant'[v] = cnGrant[v]
        /\ cnGrant' \in [CnUsers -> GrantRow \cup {CnNone}]
    BY <2>1, RowRevoked
  <2> QED BY <1>6, <2>1, <2>2 DEF DisconnectRevoke
<1>7. ASSUME NEW p \in CnRequests, UpstreamRevoke(p) PROVE ConnTypeOK'
  BY <1>7 DEF UpstreamRevoke
<1>8. ASSUME NEW p \in CnRequests, BrokerExchange(p) PROVE ConnTypeOK'
  <2>1. PICK u \in CnUsers :
          /\ Came(p, "vend", u, "issue")
          /\ cnIn'[p].scopes # {} /\ cnIn'[p].cred = CnNone
    BY <1>8, VendComes
  <2> QED BY <1>8, <2>1 DEF BrokerExchange, Came, ConsumePending
<1>9. ASSUME NEW p \in CnRequests, IssueBroker(p) PROVE ConnTypeOK'
  <2>1. CASE UNCHANGED cnIn
    BY <1>9, <2>1 DEF IssueBroker
  <2>2. CASE ActiveGrant(cnIn[p].user) /\ IssueReads(p)
    <3> DEFINE g == cnGrant[cnIn[p].user]
    <3>1. cnIn[p].user \in CnUsers /\ g # CnNone
      BY <1>9, <2>2 DEF ActiveGrant, IssueBroker, CnPhase
    <3>2. /\ g \in GrantRow
          /\ cnIn'[p].cred = g.cred /\ cnIn'[p].version = g.version
          /\ cnIn'[p].granted = g.scopes /\ cnIn'[p].op = cnIn[p].op
          /\ cnIn'[p].user = cnIn[p].user /\ cnIn'[p].state = cnIn[p].state
          /\ cnIn'[p].scopes = cnIn[p].scopes
          /\ \A q \in CnRequests \ {p} : cnIn'[q] = cnIn[q]
          /\ cnIn' \in [CnRequests -> CnInput]
      BY <2>2, <3>1, GrantRead
    <3> QED BY <1>9, <2>2, <3>1, <3>2 DEF IssueBroker
  <2> QED BY <1>9, <2>1, <2>2 DEF IssueBroker, IssueReads
<1>10. ASSUME NEW p \in CnRequests, VendRefresh(p) PROVE ConnTypeOK'
  BY <1>10 DEF VendRefresh, Rotate, CnReads
<1>11. ASSUME NEW p \in CnRequests, PersistRotated(p) PROVE ConnTypeOK'
  <2> DEFINE u == cnIn[p].user
             g == cnGrant[u]
  <2>1. u \in CnUsers /\ g # CnNone
    BY <1>11 DEF PersistRotated, CnPhase, CnReads, CnRead, CnReading
  <2>2. CASE UNCHANGED cnGrant
    BY <1>11, <2>1, <2>2 DEF PersistRotated, CnReads, CnRead, CnReading
  <2>3. CASE UpdateWithVersion(u, cnIn[p], p) /\ cnAt' = [cnAt EXCEPT ![p] = "record"]
    <3>1. /\ g \in GrantRow
          /\ \A v \in CnUsers \ {u} : cnGrant'[v] = cnGrant[v]
          /\ g.version # cnIn[p].version => cnGrant'[u] = g
          /\ g.version = cnIn[p].version =>
                 /\ cnGrant'[u].cred = p /\ cnGrant'[u].version = g.version + 1
                 /\ cnGrant'[u].scopes = cnIn[p].granted /\ cnGrant'[u].revoked = g.revoked
          /\ cnGrant'[u] \in GrantRow
          /\ cnGrant' \in [CnUsers -> GrantRow \cup {CnNone}]
      BY <2>1, <2>3, VersionedWrite
    <3> QED BY <1>11, <2>1, <2>3, <3>1 DEF PersistRotated
  <2> QED BY <1>11, <2>2, <2>3 DEF PersistRotated
<1>12. ASSUME NEW p \in CnRequests, RecordVend(p) PROVE ConnTypeOK'
  BY <1>12 DEF RecordVend
<1>13. ASSUME NEW p \in CnRequests, ExpirePending(p) PROVE ConnTypeOK'
  BY <1>13 DEF ExpirePending
<1>14. ASSUME PurgePending PROVE ConnTypeOK'
  BY <1>14 DEF PurgePending
<1>15. ASSUME NEW u \in CnUsers, AdminRevokeBroker(u) PROVE ConnTypeOK'
  <2>1. cnGrant[u] # CnNone /\ RevokeBrokerRow(u)
    BY <1>15 DEF AdminRevokeBroker, ActiveGrant
  <2>2. /\ cnGrant'[u].cred = cnGrant[u].cred /\ cnGrant'[u].version = cnGrant[u].version
        /\ cnGrant'[u].scopes = cnGrant[u].scopes /\ cnGrant'[u].revoked
        /\ cnGrant'[u] \in GrantRow
        /\ \A v \in CnUsers \ {u} : cnGrant'[v] = cnGrant[v]
        /\ cnGrant' \in [CnUsers -> GrantRow \cup {CnNone}]
    BY <2>1, RowRevoked
  <2> QED BY <1>15, <2>1, <2>2 DEF AdminRevokeBroker
<1>16. CASE UNCHANGED cnVars
  BY <1>16 DEF cnVars
<1> QED BY <1>1, <1>2, <1>3, <1>4, <1>5, <1>6, <1>7, <1>8, <1>9, <1>10, <1>11, <1>12, <1>13,
       <1>14, <1>15, <1>16
        DEF ConnNext, ConnStep

\* A pending state is consumed by one callback.
LEMMA CnStatesStep ==
    ASSUME ConnTypeOK, CnStates, CnPhase, CnFresh, CnReads, [ConnNext]_cnVars
    PROVE  CnStates'
<1> USE CnNoneAssumption DEF ConnTypeOK, CnGoto, CnStates
<1>1. ASSUME NEW p \in CnRequests, StartConnect(p) PROVE CnStates'
  <2>1. PICK u \in CnUsers :
          Came(p, "start", u, "redirected") /\ cnIn'[p].cred = CnNone
    BY <1>1, StartComes
  <2> QED BY <1>1, <2>1 DEF StartConnect, Came
<1>2. ASSUME NEW p \in CnRequests, CompleteConnect(p) PROVE CnStates'
  <2>1. PICK s \in CnRequests, u \in CnUsers :
          /\ ConsumePending(s)
          /\ Came(p, "callback", u, IF OwnsPending(s, u) THEN "exchange" ELSE "done")
          /\ cnIn'[p].state = s /\ cnIn'[p].cred = CnNone
    BY <1>2, CallbackComes
  <2> QED BY <1>2, <2>1 DEF CompleteConnect, Came, ConsumePending
<1>3. ASSUME NEW p \in CnRequests, HandleCallback(p) PROVE CnStates'
  BY <1>3, CallbackEffect DEF CnPhase
<1>4. ASSUME NEW p \in CnRequests, StoreConnection(p) PROVE CnStates'
  BY <1>4 DEF StoreConnection
<1>5. ASSUME NEW p \in CnRequests, Disconnect(p) PROVE CnStates'
  <2>1. PICK u \in CnUsers :
          /\ ActiveGrant(u) /\ Came(p, "disconnect", u, "revoke")
          /\ cnGrant[u] \in GrantRow /\ cnIn'[p].cred = cnGrant[u].cred
    BY <1>5, DisconnectComes
  <2> QED BY <1>5, <2>1 DEF Disconnect, Came
<1>6. ASSUME NEW p \in CnRequests, DisconnectRevoke(p) PROVE CnStates'
  BY <1>6 DEF DisconnectRevoke
<1>7. ASSUME NEW p \in CnRequests, UpstreamRevoke(p) PROVE CnStates'
  BY <1>7 DEF UpstreamRevoke
<1>8. ASSUME NEW p \in CnRequests, BrokerExchange(p) PROVE CnStates'
  <2>1. PICK u \in CnUsers :
          /\ Came(p, "vend", u, "issue")
          /\ cnIn'[p].scopes # {} /\ cnIn'[p].cred = CnNone
    BY <1>8, VendComes
  <2> QED BY <1>8, <2>1 DEF BrokerExchange, Came
<1>9. ASSUME NEW p \in CnRequests, IssueBroker(p) PROVE CnStates'
  <2>1. CASE UNCHANGED cnIn
    BY <1>9, <2>1 DEF IssueBroker, CnPhase
  <2>2. CASE ActiveGrant(cnIn[p].user) /\ IssueReads(p)
    <3> DEFINE g == cnGrant[cnIn[p].user]
    <3>1. cnIn[p].user \in CnUsers /\ g # CnNone
      BY <1>9, <2>2 DEF ActiveGrant, IssueBroker, CnPhase
    <3>2. /\ g \in GrantRow
          /\ cnIn'[p].cred = g.cred /\ cnIn'[p].version = g.version
          /\ cnIn'[p].granted = g.scopes /\ cnIn'[p].op = cnIn[p].op
          /\ cnIn'[p].user = cnIn[p].user /\ cnIn'[p].state = cnIn[p].state
          /\ cnIn'[p].scopes = cnIn[p].scopes
          /\ \A q \in CnRequests \ {p} : cnIn'[q] = cnIn[q]
          /\ cnIn' \in [CnRequests -> CnInput]
      BY <2>2, <3>1, GrantRead
    <3> QED BY <1>9, <2>2, <3>1, <3>2 DEF IssueBroker, CnPhase
  <2> QED BY <1>9, <2>1, <2>2 DEF IssueBroker, IssueReads
<1>10. ASSUME NEW p \in CnRequests, VendRefresh(p) PROVE CnStates'
  BY <1>10 DEF VendRefresh
<1>11. ASSUME NEW p \in CnRequests, PersistRotated(p) PROVE CnStates'
  BY <1>11 DEF PersistRotated
<1>12. ASSUME NEW p \in CnRequests, RecordVend(p) PROVE CnStates'
  BY <1>12 DEF RecordVend
<1>13. ASSUME NEW p \in CnRequests, ExpirePending(p) PROVE CnStates'
  BY <1>13 DEF ExpirePending
<1>14. ASSUME PurgePending PROVE CnStates'
  BY <1>14 DEF PurgePending
<1>15. ASSUME NEW u \in CnUsers, AdminRevokeBroker(u) PROVE CnStates'
  BY <1>15 DEF AdminRevokeBroker
<1>16. CASE UNCHANGED cnVars
  BY <1>16 DEF cnVars
<1> QED BY <1>1, <1>2, <1>3, <1>4, <1>5, <1>6, <1>7, <1>8, <1>9, <1>10, <1>11, <1>12, <1>13,
       <1>14, <1>15, <1>16
        DEF ConnNext, ConnStep

\* A request goes through the calls of its kind.
LEMMA CnPhaseStep ==
    ASSUME ConnTypeOK, CnStates, CnPhase, CnFresh, CnReads, [ConnNext]_cnVars
    PROVE  CnPhase'
<1> USE CnNoneAssumption DEF ConnTypeOK, CnGoto, CnPhase
<1>1. ASSUME NEW p \in CnRequests, StartConnect(p) PROVE CnPhase'
  <2>1. PICK u \in CnUsers :
          Came(p, "start", u, "redirected") /\ cnIn'[p].cred = CnNone
    BY <1>1, StartComes
  <2> QED BY <1>1, <2>1 DEF StartConnect, Came, CnStates
<1>2. ASSUME NEW p \in CnRequests, CompleteConnect(p) PROVE CnPhase'
  <2>1. PICK s \in CnRequests, u \in CnUsers :
          /\ ConsumePending(s)
          /\ Came(p, "callback", u, IF OwnsPending(s, u) THEN "exchange" ELSE "done")
          /\ cnIn'[p].state = s /\ cnIn'[p].cred = CnNone
    BY <1>2, CallbackComes
  <2> QED BY <1>2, <2>1 DEF CompleteConnect, Came, ConsumePending, OwnsPending, CnStates
<1>3. ASSUME NEW p \in CnRequests, HandleCallback(p) PROVE CnPhase'
  BY <1>3, CallbackEffect DEF CnStates
<1>4. ASSUME NEW p \in CnRequests, StoreConnection(p) PROVE CnPhase'
  BY <1>4 DEF StoreConnection
<1>5. ASSUME NEW p \in CnRequests, Disconnect(p) PROVE CnPhase'
  <2>1. PICK u \in CnUsers :
          /\ ActiveGrant(u) /\ Came(p, "disconnect", u, "revoke")
          /\ cnGrant[u] \in GrantRow /\ cnIn'[p].cred = cnGrant[u].cred
    BY <1>5, DisconnectComes
  <2> QED BY <1>5, <2>1 DEF Disconnect, Came, CnStates
<1>6. ASSUME NEW p \in CnRequests, DisconnectRevoke(p) PROVE CnPhase'
  BY <1>6 DEF DisconnectRevoke
<1>7. ASSUME NEW p \in CnRequests, UpstreamRevoke(p) PROVE CnPhase'
  BY <1>7 DEF UpstreamRevoke, CnReads, CnFresh, CnSettled
<1>8. ASSUME NEW p \in CnRequests, BrokerExchange(p) PROVE CnPhase'
  <2>1. PICK u \in CnUsers :
          /\ Came(p, "vend", u, "issue")
          /\ cnIn'[p].scopes # {} /\ cnIn'[p].cred = CnNone
    BY <1>8, VendComes
  <2> QED BY <1>8, <2>1 DEF BrokerExchange, Came, CnStates
<1>9. ASSUME NEW p \in CnRequests, IssueBroker(p) PROVE CnPhase'
  <2>1. CASE UNCHANGED cnIn
    BY <1>9, <2>1 DEF IssueBroker, CnStates
  <2>2. CASE ActiveGrant(cnIn[p].user) /\ IssueReads(p)
    <3> DEFINE g == cnGrant[cnIn[p].user]
    <3>1. cnIn[p].user \in CnUsers /\ g # CnNone
      BY <1>9, <2>2 DEF ActiveGrant, IssueBroker, CnPhase
    <3>2. /\ g \in GrantRow
          /\ cnIn'[p].cred = g.cred /\ cnIn'[p].version = g.version
          /\ cnIn'[p].granted = g.scopes /\ cnIn'[p].op = cnIn[p].op
          /\ cnIn'[p].user = cnIn[p].user /\ cnIn'[p].state = cnIn[p].state
          /\ cnIn'[p].scopes = cnIn[p].scopes
          /\ \A q \in CnRequests \ {p} : cnIn'[q] = cnIn[q]
          /\ cnIn' \in [CnRequests -> CnInput]
      BY <2>2, <3>1, GrantRead
    <3> QED BY <1>9, <2>2, <3>1, <3>2 DEF IssueBroker, CnStates
  <2> QED BY <1>9, <2>1, <2>2 DEF IssueBroker, IssueReads
<1>10. ASSUME NEW p \in CnRequests, VendRefresh(p) PROVE CnPhase'
  BY <1>10 DEF VendRefresh, Rotate, CnReads, CnFresh, CnSettled
<1>11. ASSUME NEW p \in CnRequests, PersistRotated(p) PROVE CnPhase'
  BY <1>11 DEF PersistRotated
<1>12. ASSUME NEW p \in CnRequests, RecordVend(p) PROVE CnPhase'
  BY <1>12 DEF RecordVend
<1>13. ASSUME NEW p \in CnRequests, ExpirePending(p) PROVE CnPhase'
  BY <1>13 DEF ExpirePending
<1>14. ASSUME PurgePending PROVE CnPhase'
  BY <1>14 DEF PurgePending
<1>15. ASSUME NEW u \in CnUsers, AdminRevokeBroker(u) PROVE CnPhase'
  BY <1>15 DEF AdminRevokeBroker
<1>16. CASE UNCHANGED cnVars
  BY <1>16 DEF cnVars
<1> QED BY <1>1, <1>2, <1>3, <1>4, <1>5, <1>6, <1>7, <1>8, <1>9, <1>10, <1>11, <1>12, <1>13,
       <1>14, <1>15, <1>16
        DEF ConnNext, ConnStep

\* No credential is named before its request has written it.
LEMMA CnFreshStep ==
    ASSUME ConnTypeOK, CnStates, CnPhase, CnFresh, CnReads, [ConnNext]_cnVars
    PROVE  CnFresh'
<1> USE CnNoneAssumption DEF ConnTypeOK, CnGoto, CnFresh, CnSettled
<1>1. ASSUME NEW p \in CnRequests, StartConnect(p) PROVE CnFresh'
  <2>1. PICK u \in CnUsers :
          Came(p, "start", u, "redirected") /\ cnIn'[p].cred = CnNone
    BY <1>1, StartComes
  <2> QED BY <1>1, <2>1 DEF StartConnect, Came
<1>2. ASSUME NEW p \in CnRequests, CompleteConnect(p) PROVE CnFresh'
  <2>1. PICK s \in CnRequests, u \in CnUsers :
          /\ ConsumePending(s)
          /\ Came(p, "callback", u, IF OwnsPending(s, u) THEN "exchange" ELSE "done")
          /\ cnIn'[p].state = s /\ cnIn'[p].cred = CnNone
    BY <1>2, CallbackComes
  <2> QED BY <1>2, <2>1 DEF CompleteConnect, Came
<1>3. ASSUME NEW p \in CnRequests, HandleCallback(p) PROVE CnFresh'
  BY <1>3, CallbackEffect
<1>4. ASSUME NEW p \in CnRequests, StoreConnection(p) PROVE CnFresh'
  <2>1. cnIn[p].user \in CnUsers /\ cnIn[p].cred = p /\ cnIn[p].granted \in SUBSET Fine
    BY <1>4 DEF StoreConnection, CnPhase, CnInput
  <2>2. CASE UNCHANGED cnGrant
    BY <1>4, <2>2 DEF StoreConnection
  <2>3. CASE UpsertBroker(cnIn[p].user, p, cnIn[p].granted)
    <3> DEFINE u == cnIn[p].user
    <3>1. /\ cnGrant'[u] = [cred |-> p, scopes |-> cnIn[p].granted, revoked |-> FALSE,
                version |-> IF cnGrant[u] = CnNone THEN 1 ELSE cnGrant[u].version + 1]
          /\ \A v \in CnUsers \ {u} : cnGrant'[v] = cnGrant[v]
          /\ cnGrant' \in [CnUsers -> GrantRow \cup {CnNone}]
      BY <2>1, <2>3, RowUpserted
    <3> QED BY <1>4, <2>1, <3>1 DEF StoreConnection
  <2> QED BY <1>4, <2>1, <2>2, <2>3 DEF StoreConnection
<1>5. ASSUME NEW p \in CnRequests, Disconnect(p) PROVE CnFresh'
  <2>1. PICK u \in CnUsers :
          /\ ActiveGrant(u) /\ Came(p, "disconnect", u, "revoke")
          /\ cnGrant[u] \in GrantRow /\ cnIn'[p].cred = cnGrant[u].cred
    BY <1>5, DisconnectComes
  <2> QED BY <1>5, <2>1 DEF Disconnect, Came, ActiveGrant
<1>6. ASSUME NEW p \in CnRequests, DisconnectRevoke(p) PROVE CnFresh'
  <2> DEFINE u == cnIn[p].user
  <2>1. u \in CnUsers /\ cnGrant[u] # CnNone /\ RevokeBrokerRow(u)
    BY <1>6 DEF DisconnectRevoke, CnPhase, CnReads, CnRead, CnReading
  <2>2. /\ cnGrant'[u].cred = cnGrant[u].cred /\ cnGrant'[u].version = cnGrant[u].version
        /\ cnGrant'[u].scopes = cnGrant[u].scopes /\ cnGrant'[u].revoked
        /\ cnGrant'[u] \in GrantRow
        /\ \A v \in CnUsers \ {u} : cnGrant'[v] = cnGrant[v]
        /\ cnGrant' \in [CnUsers -> GrantRow \cup {CnNone}]
    BY <2>1, RowRevoked
  <2> QED BY <1>6, <2>1, <2>2 DEF DisconnectRevoke
<1>7. ASSUME NEW p \in CnRequests, UpstreamRevoke(p) PROVE CnFresh'
  BY <1>7 DEF UpstreamRevoke
<1>8. ASSUME NEW p \in CnRequests, BrokerExchange(p) PROVE CnFresh'
  <2>1. PICK u \in CnUsers :
          /\ Came(p, "vend", u, "issue")
          /\ cnIn'[p].scopes # {} /\ cnIn'[p].cred = CnNone
    BY <1>8, VendComes
  <2> QED BY <1>8, <2>1 DEF BrokerExchange, Came
<1>9. ASSUME NEW p \in CnRequests, IssueBroker(p) PROVE CnFresh'
  <2>1. CASE UNCHANGED cnIn
    BY <1>9, <2>1 DEF IssueBroker
  <2>2. CASE ActiveGrant(cnIn[p].user) /\ IssueReads(p)
    <3> DEFINE g == cnGrant[cnIn[p].user]
    <3>1. cnIn[p].user \in CnUsers /\ g # CnNone
      BY <1>9, <2>2 DEF ActiveGrant, IssueBroker, CnPhase
    <3>2. /\ g \in GrantRow
          /\ cnIn'[p].cred = g.cred /\ cnIn'[p].version = g.version
          /\ cnIn'[p].granted = g.scopes /\ cnIn'[p].op = cnIn[p].op
          /\ cnIn'[p].user = cnIn[p].user /\ cnIn'[p].state = cnIn[p].state
          /\ cnIn'[p].scopes = cnIn[p].scopes
          /\ \A q \in CnRequests \ {p} : cnIn'[q] = cnIn[q]
          /\ cnIn' \in [CnRequests -> CnInput]
      BY <2>2, <3>1, GrantRead
    <3> QED BY <1>9, <2>2, <3>1, <3>2 DEF IssueBroker
  <2> QED BY <1>9, <2>1, <2>2 DEF IssueBroker, IssueReads
<1>10. ASSUME NEW p \in CnRequests, VendRefresh(p) PROVE CnFresh'
  BY <1>10 DEF VendRefresh
<1>11. ASSUME NEW p \in CnRequests, PersistRotated(p) PROVE CnFresh'
  <2> DEFINE u == cnIn[p].user
             g == cnGrant[u]
  <2>1. u \in CnUsers /\ g # CnNone
    BY <1>11 DEF PersistRotated, CnPhase, CnReads, CnRead, CnReading
  <2>2. CASE UNCHANGED cnGrant
    BY <1>11, <2>1, <2>2 DEF PersistRotated
  <2>3. CASE UpdateWithVersion(u, cnIn[p], p) /\ cnAt' = [cnAt EXCEPT ![p] = "record"]
    <3>1. /\ g \in GrantRow
          /\ \A v \in CnUsers \ {u} : cnGrant'[v] = cnGrant[v]
          /\ g.version # cnIn[p].version => cnGrant'[u] = g
          /\ g.version = cnIn[p].version =>
                 /\ cnGrant'[u].cred = p /\ cnGrant'[u].version = g.version + 1
                 /\ cnGrant'[u].scopes = cnIn[p].granted /\ cnGrant'[u].revoked = g.revoked
          /\ cnGrant'[u] \in GrantRow
          /\ cnGrant' \in [CnUsers -> GrantRow \cup {CnNone}]
      BY <2>1, <2>3, VersionedWrite
    <3> QED BY <1>11, <2>1, <2>3, <3>1 DEF PersistRotated
  <2> QED BY <1>11, <2>2, <2>3 DEF PersistRotated
<1>12. ASSUME NEW p \in CnRequests, RecordVend(p) PROVE CnFresh'
  BY <1>12 DEF RecordVend
<1>13. ASSUME NEW p \in CnRequests, ExpirePending(p) PROVE CnFresh'
  BY <1>13 DEF ExpirePending
<1>14. ASSUME PurgePending PROVE CnFresh'
  BY <1>14 DEF PurgePending
<1>15. ASSUME NEW u \in CnUsers, AdminRevokeBroker(u) PROVE CnFresh'
  <2>1. cnGrant[u] # CnNone /\ RevokeBrokerRow(u)
    BY <1>15 DEF AdminRevokeBroker, ActiveGrant
  <2>2. /\ cnGrant'[u].cred = cnGrant[u].cred /\ cnGrant'[u].version = cnGrant[u].version
        /\ cnGrant'[u].scopes = cnGrant[u].scopes /\ cnGrant'[u].revoked
        /\ cnGrant'[u] \in GrantRow
        /\ \A v \in CnUsers \ {u} : cnGrant'[v] = cnGrant[v]
        /\ cnGrant' \in [CnUsers -> GrantRow \cup {CnNone}]
    BY <2>1, RowRevoked
  <2> QED BY <1>15, <2>1, <2>2 DEF AdminRevokeBroker
<1>16. CASE UNCHANGED cnVars
  BY <1>16 DEF cnVars
<1> QED BY <1>1, <1>2, <1>3, <1>4, <1>5, <1>6, <1>7, <1>8, <1>9, <1>10, <1>11, <1>12, <1>13,
       <1>14, <1>15, <1>16
        DEF ConnNext, ConnStep

\* What another request read stays what it was, or its row has a new credential.
LEMMA ReadStands ==
    ASSUME ConnTypeOK, ConnTypeOK', NEW q \in CnRequests, CnRead(q),
           cnAt'[q] = cnAt[q], cnIn'[q] = cnIn[q], cnIn[q].user \in CnUsers,
           cnOwner'[cnIn[q].cred] = cnOwner[cnIn[q].cred], cnOwner'[q] = cnOwner[q],
           cnAt[q] = "persist" /\ q \in cnUp => q \in cnUp',
           LET g == cnGrant[cnIn[q].user]  new == cnGrant'[cnIn[q].user] IN
               g # CnNone =>
                   /\ new # CnNone
                   /\ \/ new.cred = g.cred /\ new.version = g.version /\ (g.revoked => new.revoked)
                      \/ new.cred # cnIn[q].cred /\ new.version = g.version + 1
    PROVE  CnRead(q)'
<1> DEFINE g == cnGrant[cnIn[q].user]
<1>1. g # CnNone => g.version \in Nat
  BY DEF ConnTypeOK, GrantRow
<1>2. cnIn[q].version \in Nat
  BY DEF ConnTypeOK, CnInput
<1> QED BY <1>1, <1>2 DEF CnRead, CnReading

\* A row that was read is the row that is there, or its credential has changed.
LEMMA CnReadsStep ==
    ASSUME ConnTypeOK, CnStates, CnPhase, CnFresh, CnReads, CredentialFollowsItsUser, ConnTypeOK',
           [ConnNext]_cnVars
    PROVE  CnReads'
<1> USE CnNoneAssumption, CnRowAssumption DEF CnReads, ConnTypeOK, CnGoto
<1>1. ASSUME NEW p \in CnRequests, StartConnect(p) PROVE CnReads'
  <2>1. PICK u \in CnUsers :
          Came(p, "start", u, "redirected") /\ cnIn'[p].cred = CnNone
    BY <1>1, StartComes
  <2>8. ASSUME NEW q \in CnRequests \ {p} PROVE CnRead(q)'
    <3>1. CASE cnAt[q] \in CnReading
      <4>1. /\ cnIn[q].user \in CnUsers /\ cnIn[q].cred \in CnRequests
            /\ cnAt[p] \notin CnSettled => cnIn[q].cred # p
        BY <3>1 DEF CnReading, CnPhase, CnFresh, CnSettled, CnReads, CnRead
      <4> QED BY <1>1, <2>1, <2>8, <3>1, <4>1, ReadStands DEF StartConnect, Came, CnReads
    <3>2. CASE cnAt[q] \notin CnReading
      BY <1>1, <2>1, <2>8, <3>2 DEF CnRead, CnReading, StartConnect, Came, CnReads
    <3> QED BY <3>1, <3>2
  <2>9. CnRead(p)'
    BY <1>1, <2>1 DEF CnRead, CnReading, Came
  <2> QED BY <2>8, <2>9
<1>2. ASSUME NEW p \in CnRequests, CompleteConnect(p) PROVE CnReads'
  <2>1. PICK s \in CnRequests, u \in CnUsers :
          /\ ConsumePending(s)
          /\ Came(p, "callback", u, IF OwnsPending(s, u) THEN "exchange" ELSE "done")
          /\ cnIn'[p].state = s /\ cnIn'[p].cred = CnNone
    BY <1>2, CallbackComes
  <2>8. ASSUME NEW q \in CnRequests \ {p} PROVE CnRead(q)'
    <3>1. CASE cnAt[q] \in CnReading
      <4>1. /\ cnIn[q].user \in CnUsers /\ cnIn[q].cred \in CnRequests
            /\ cnAt[p] \notin CnSettled => cnIn[q].cred # p
        BY <3>1 DEF CnReading, CnPhase, CnFresh, CnSettled, CnReads, CnRead
      <4> QED BY <1>2, <2>1, <2>8, <3>1, <4>1, ReadStands DEF CompleteConnect, Came, CnReads
    <3>2. CASE cnAt[q] \notin CnReading
      BY <1>2, <2>1, <2>8, <3>2 DEF CnRead, CnReading, CompleteConnect, Came, CnReads
    <3> QED BY <3>1, <3>2
  <2>9. CnRead(p)'
    BY <1>2, <2>1 DEF CnRead, CnReading, Came
  <2> QED BY <2>8, <2>9
<1>3. ASSUME NEW p \in CnRequests, HandleCallback(p) PROVE CnReads'
  <2>1. /\ cnAt[p] = "exchange"
        /\ cnAt' = [cnAt EXCEPT ![p] = "done"] \/ cnAt' = [cnAt EXCEPT ![p] = "upsert"]
        /\ \A q \in CnRequests \ {p} : cnIn'[q] = cnIn[q] /\ cnOwner'[q] = cnOwner[q]
        /\ cnUp \subseteq cnUp' /\ UNCHANGED cnGrant
    BY <1>3, CallbackEffect
  <2>8. ASSUME NEW q \in CnRequests \ {p} PROVE CnRead(q)'
    <3>1. CASE cnAt[q] \in CnReading
      <4>1. /\ cnIn[q].user \in CnUsers /\ cnIn[q].cred \in CnRequests
            /\ cnAt[p] \notin CnSettled => cnIn[q].cred # p
        BY <3>1 DEF CnReading, CnPhase, CnFresh, CnSettled, CnReads, CnRead
      <4> QED BY <1>3, <2>1, <2>8, <3>1, <4>1, ReadStands DEF CnReads, CnSettled
    <3>2. CASE cnAt[q] \notin CnReading
      BY <1>3, <2>1, <2>8, <3>2 DEF CnRead, CnReading, CnReads, CnSettled
    <3> QED BY <3>1, <3>2
  <2>9. CnRead(p)'
    BY <2>1 DEF CnRead, CnReading
  <2> QED BY <2>8, <2>9
<1>4. ASSUME NEW p \in CnRequests, StoreConnection(p) PROVE CnReads'
  <2> DEFINE u == cnIn[p].user
  <2>1. /\ u \in CnUsers /\ cnIn[p].cred = p /\ cnIn[p].granted \in SUBSET Fine
        /\ cnAt[p] = "upsert" /\ cnAt' = [cnAt EXCEPT ![p] = "done"]
        /\ UNCHANGED <<cnIn, cnUp, cnOwner>>
    BY <1>4 DEF StoreConnection, CnPhase, CnInput
  <2>2. \A v \in CnUsers : \/ cnGrant'[v] = cnGrant[v]
                           \/ cnGrant[v] # CnNone =>
                                  /\ cnGrant'[v] # CnNone /\ cnGrant'[v].cred = p
                                  /\ cnGrant'[v].version = cnGrant[v].version + 1
    <3>1. CASE UpsertBroker(u, p, cnIn[p].granted)
      <4>1. /\ cnGrant'[u].cred = p
            /\ cnGrant[u] # CnNone => cnGrant'[u].version = cnGrant[u].version + 1
            /\ cnGrant'[u] \in GrantRow
            /\ \A v \in CnUsers \ {u} : cnGrant'[v] = cnGrant[v]
        BY <2>1, <3>1, RowUpserted
      <4> QED BY <4>1
    <3> QED BY <1>4, <2>1, <3>1 DEF StoreConnection
  <2>8. ASSUME NEW q \in CnRequests \ {p} PROVE CnRead(q)'
    <3>1. CASE cnAt[q] \in CnReading
      <4>1. /\ cnIn[q].user \in CnUsers /\ cnIn[q].cred \in CnRequests
            /\ cnAt[p] \notin CnSettled => cnIn[q].cred # p
        BY <3>1 DEF CnReading, CnPhase, CnFresh, CnSettled, CnReads, CnRead
      <4> QED BY <1>4, <2>1, <2>2, <2>8, <3>1, <4>1, ReadStands DEF CnReads, CnSettled
    <3>2. CASE cnAt[q] \notin CnReading
      BY <1>4, <2>1, <2>2, <2>8, <3>2 DEF CnRead, CnReading, CnReads, CnSettled
    <3> QED BY <3>1, <3>2
  <2>9. CnRead(p)'
    BY <2>1 DEF CnRead, CnReading
  <2> QED BY <2>8, <2>9
<1>5. ASSUME NEW p \in CnRequests, Disconnect(p) PROVE CnReads'
  <2>1. PICK u \in CnUsers :
          /\ ActiveGrant(u) /\ Came(p, "disconnect", u, "revoke")
          /\ cnGrant[u] \in GrantRow /\ cnIn'[p].cred = cnGrant[u].cred
    BY <1>5, DisconnectComes
  <2>8. ASSUME NEW q \in CnRequests \ {p} PROVE CnRead(q)'
    <3>1. CASE cnAt[q] \in CnReading
      <4>1. /\ cnIn[q].user \in CnUsers /\ cnIn[q].cred \in CnRequests
            /\ cnAt[p] \notin CnSettled => cnIn[q].cred # p
        BY <3>1 DEF CnReading, CnPhase, CnFresh, CnSettled, CnReads, CnRead
      <4> QED BY <1>5, <2>1, <2>8, <3>1, <4>1, ReadStands DEF Disconnect, Came, CnReads
    <3>2. CASE cnAt[q] \notin CnReading
      BY <1>5, <2>1, <2>8, <3>2 DEF CnRead, CnReading, Disconnect, Came, CnReads
    <3> QED BY <3>1, <3>2
  <2>9. CnRead(p)'
    <3>1. cnGrant[u].cred \in CnRequests \ {p} /\ cnOwner[cnGrant[u].cred] = u
      BY <2>1 DEF Came, ActiveGrant, GrantRow, CnFresh, CnSettled, CredentialFollowsItsUser
    <3> QED BY <1>5, <2>1, <3>1 DEF Disconnect, Came, ActiveGrant, CnRead, CnReading
  <2> QED BY <2>8, <2>9
<1>6. ASSUME NEW p \in CnRequests, DisconnectRevoke(p) PROVE CnReads'
  <2> DEFINE u == cnIn[p].user
  <2>1. /\ u \in CnUsers /\ cnGrant[u] # CnNone /\ RevokeBrokerRow(u)
        /\ cnAt[p] = "revoke" /\ cnAt' = [cnAt EXCEPT ![p] = "upRevoke"]
        /\ UNCHANGED <<cnIn, cnUp, cnOwner>>
    BY <1>6 DEF DisconnectRevoke, CnPhase, CnReads, CnRead, CnReading
  <2>2. \A v \in CnUsers : cnGrant[v] # CnNone =>
            /\ cnGrant'[v] # CnNone /\ cnGrant'[v].cred = cnGrant[v].cred
            /\ cnGrant'[v].version = cnGrant[v].version
            /\ cnGrant[v].revoked => cnGrant'[v].revoked
    BY <2>1, RowRevoked
  <2>8. ASSUME NEW q \in CnRequests \ {p} PROVE CnRead(q)'
    <3>1. CASE cnAt[q] \in CnReading
      <4>1. /\ cnIn[q].user \in CnUsers /\ cnIn[q].cred \in CnRequests
            /\ cnAt[p] \notin CnSettled => cnIn[q].cred # p
        BY <3>1 DEF CnReading, CnPhase, CnFresh, CnSettled, CnReads, CnRead
      <4> QED BY <1>6, <2>1, <2>2, <2>8, <3>1, <4>1, ReadStands DEF CnReads, CnSettled
    <3>2. CASE cnAt[q] \notin CnReading
      BY <1>6, <2>1, <2>2, <2>8, <3>2 DEF CnRead, CnReading, CnReads, CnSettled
    <3> QED BY <3>1, <3>2
  <2>9. CnRead(p)'
    <3>1. cnGrant'[u].revoked
      BY <2>1, RowRevoked
    <3> QED BY <2>1, <2>2, <3>1 DEF CnReads, CnRead, CnReading
  <2> QED BY <2>8, <2>9
<1>7. ASSUME NEW p \in CnRequests, UpstreamRevoke(p) PROVE CnReads'
  <2>1. cnAt[p] = "upRevoke" /\ cnIn[p].cred \in CnRequests
    BY <1>7 DEF UpstreamRevoke, CnReads, CnRead, CnReading
  <2>2. \A q \in CnRequests : cnAt[q] = "persist" /\ q \in cnUp => q \in cnUp'
    BY <1>7, <2>1 DEF UpstreamRevoke, CnFresh, CnSettled
  <2>8. ASSUME NEW q \in CnRequests \ {p} PROVE CnRead(q)'
    <3>1. CASE cnAt[q] \in CnReading
      <4>1. /\ cnIn[q].user \in CnUsers /\ cnIn[q].cred \in CnRequests
            /\ cnAt[p] \notin CnSettled => cnIn[q].cred # p
        BY <3>1 DEF CnReading, CnPhase, CnFresh, CnSettled, CnReads, CnRead
      <4> QED BY <1>7, <2>1, <2>2, <2>8, <3>1, <4>1, ReadStands DEF UpstreamRevoke, CnReads
    <3>2. CASE cnAt[q] \notin CnReading
      BY <1>7, <2>1, <2>2, <2>8, <3>2 DEF CnRead, CnReading, UpstreamRevoke, CnReads
    <3> QED BY <3>1, <3>2
  <2>9. CnRead(p)'
    BY <1>7 DEF UpstreamRevoke, CnRead, CnReading
  <2> QED BY <2>8, <2>9
<1>8. ASSUME NEW p \in CnRequests, BrokerExchange(p) PROVE CnReads'
  <2>1. PICK u \in CnUsers :
          /\ Came(p, "vend", u, "issue")
          /\ cnIn'[p].scopes # {} /\ cnIn'[p].cred = CnNone
    BY <1>8, VendComes
  <2>8. ASSUME NEW q \in CnRequests \ {p} PROVE CnRead(q)'
    <3>1. CASE cnAt[q] \in CnReading
      <4>1. /\ cnIn[q].user \in CnUsers /\ cnIn[q].cred \in CnRequests
            /\ cnAt[p] \notin CnSettled => cnIn[q].cred # p
        BY <3>1 DEF CnReading, CnPhase, CnFresh, CnSettled, CnReads, CnRead
      <4> QED BY <1>8, <2>1, <2>8, <3>1, <4>1, ReadStands DEF BrokerExchange, Came, CnReads
    <3>2. CASE cnAt[q] \notin CnReading
      BY <1>8, <2>1, <2>8, <3>2 DEF CnRead, CnReading, BrokerExchange, Came, CnReads
    <3> QED BY <3>1, <3>2
  <2>9. CnRead(p)'
    BY <1>8, <2>1 DEF CnRead, CnReading, Came
  <2> QED BY <2>8, <2>9
<1>9. ASSUME NEW p \in CnRequests, IssueBroker(p) PROVE CnReads'
  <2> DEFINE g == cnGrant[cnIn[p].user]
  <2>1. cnAt[p] = "issue" /\ cnIn[p].user \in CnUsers
    BY <1>9 DEF IssueBroker, CnPhase
  <2>2. \/ cnAt' = [cnAt EXCEPT ![p] = "done"] /\ cnIn' = cnIn
        \/ cnAt' = [cnAt EXCEPT ![p] = "refresh"] /\ IssueReads(p) /\ g # CnNone
    BY <1>9 DEF IssueBroker, IssueReads, ActiveGrant
  <2>3. IssueReads(p) /\ g # CnNone =>
           /\ g \in GrantRow
           /\ cnIn'[p].cred = g.cred /\ cnIn'[p].version = g.version
           /\ cnIn'[p].user = cnIn[p].user
           /\ \A q \in CnRequests \ {p} : cnIn'[q] = cnIn[q]
    BY <2>1, GrantRead
  <2>8. ASSUME NEW q \in CnRequests \ {p} PROVE CnRead(q)'
    <3>1. CASE cnAt[q] \in CnReading
      <4>1. /\ cnIn[q].user \in CnUsers /\ cnIn[q].cred \in CnRequests
            /\ cnAt[p] \notin CnSettled => cnIn[q].cred # p
        BY <3>1 DEF CnReading, CnPhase, CnFresh, CnSettled, CnReads, CnRead
      <4> QED BY <1>9, <2>1, <2>2, <2>3, <2>8, <3>1, <4>1, ReadStands DEF IssueBroker, CnReads
    <3>2. CASE cnAt[q] \notin CnReading
      BY <1>9, <2>1, <2>2, <2>3, <2>8, <3>2 DEF CnRead, CnReading, IssueBroker, CnReads
    <3> QED BY <3>1, <3>2
  <2>9. CnRead(p)'
    <3>1. CASE cnAt' = [cnAt EXCEPT ![p] = "done"]
      BY <3>1 DEF CnRead, CnReading
    <3>2. CASE cnAt' = [cnAt EXCEPT ![p] = "refresh"] /\ IssueReads(p) /\ g # CnNone
      <4>1. g.cred \in CnRequests \ {p} /\ cnOwner[g.cred] = cnIn[p].user /\ g.version \in Nat
        BY <2>1, <2>3, <3>2 DEF GrantRow, CnFresh, CnSettled, CredentialFollowsItsUser
      <4> QED BY <1>9, <2>1, <2>3, <3>2, <4>1 DEF IssueBroker, CnRead, CnReading
    <3> QED BY <2>2, <3>1, <3>2
  <2> QED BY <2>8, <2>9
<1>10. ASSUME NEW p \in CnRequests, VendRefresh(p) PROVE CnReads'
  <2>1. cnAt[p] = "refresh" /\ cnIn[p].cred \in CnRequests
    BY <1>10 DEF VendRefresh, CnReads, CnRead, CnReading
  <2>2. \A q \in CnRequests : cnAt[q] = "persist" /\ q \in cnUp => q \in cnUp'
    BY <1>10, <2>1 DEF VendRefresh, Rotate, CnFresh, CnSettled
  <2>3. \A q \in CnRequests \ {p} : cnOwner'[q] = cnOwner[q]
    BY <1>10 DEF VendRefresh, Rotate
  <2>8. ASSUME NEW q \in CnRequests \ {p} PROVE CnRead(q)'
    <3>1. CASE cnAt[q] \in CnReading
      <4>1. /\ cnIn[q].user \in CnUsers /\ cnIn[q].cred \in CnRequests
            /\ cnAt[p] \notin CnSettled => cnIn[q].cred # p
        BY <3>1 DEF CnReading, CnPhase, CnFresh, CnSettled, CnReads, CnRead
      <4> QED BY <1>10, <2>1, <2>2, <2>3, <2>8, <3>1, <4>1, ReadStands
          DEF VendRefresh, CnReads, CnSettled
    <3>2. CASE cnAt[q] \notin CnReading
      BY <1>10, <2>1, <2>2, <2>3, <2>8, <3>2 DEF CnRead, CnReading, VendRefresh, CnReads, CnSettled
    <3> QED BY <3>1, <3>2
  <2>9. CnRead(p)'
    BY <1>10, <2>1, <2>3 DEF VendRefresh, Rotate, CnReads, CnRead, CnReading
  <2> QED BY <2>8, <2>9
<1>11. ASSUME NEW p \in CnRequests, PersistRotated(p) PROVE CnReads'
  <2> DEFINE u == cnIn[p].user
             g == cnGrant[u]
  <2>1. u \in CnUsers /\ g # CnNone /\ cnAt[p] = "persist" /\ UNCHANGED <<cnIn, cnUp, cnOwner>>
    BY <1>11 DEF PersistRotated, CnPhase, CnReads, CnRead, CnReading
  <2>2. \A v \in CnUsers : \/ cnGrant'[v] = cnGrant[v]
                           \/ /\ cnGrant'[v] # CnNone /\ cnGrant'[v].cred = p
                              /\ cnGrant'[v].version = cnGrant[v].version + 1
    <3>1. CASE UpdateWithVersion(u, cnIn[p], p)
      BY <2>1, <3>1, VersionedWrite
    <3> QED BY <1>11, <2>1, <3>1 DEF PersistRotated
  <2>8. ASSUME NEW q \in CnRequests \ {p} PROVE CnRead(q)'
    <3>1. CASE cnAt[q] \in CnReading
      <4>1. /\ cnIn[q].user \in CnUsers /\ cnIn[q].cred \in CnRequests
            /\ cnAt[p] \notin CnSettled => cnIn[q].cred # p
        BY <3>1 DEF CnReading, CnPhase, CnFresh, CnSettled, CnReads, CnRead
      <4> QED BY <1>11, <2>1, <2>2, <2>8, <3>1, <4>1, ReadStands
          DEF PersistRotated, CnReads, CnSettled
    <3>2. CASE cnAt[q] \notin CnReading
      BY <1>11, <2>1, <2>2, <2>8, <3>2 DEF CnRead, CnReading, PersistRotated, CnReads, CnSettled
    <3> QED BY <3>1, <3>2
  <2>9. CnRead(p)'
    BY <1>11 DEF PersistRotated, CnRead, CnReading
  <2> QED BY <2>8, <2>9
<1>12. ASSUME NEW p \in CnRequests, RecordVend(p) PROVE CnReads'
  <2> USE DEF CnReads
  <2>8. ASSUME NEW q \in CnRequests \ {p} PROVE CnRead(q)'
    <3>1. CASE cnAt[q] \in CnReading
      <4>1. /\ cnIn[q].user \in CnUsers /\ cnIn[q].cred \in CnRequests
            /\ cnAt[p] \notin CnSettled => cnIn[q].cred # p
        BY <3>1 DEF CnReading, CnPhase, CnFresh, CnSettled, CnReads, CnRead
      <4> QED BY <1>12, <2>8, <3>1, <4>1, ReadStands DEF RecordVend
    <3>2. CASE cnAt[q] \notin CnReading
      BY <1>12, <2>8, <3>2 DEF CnRead, CnReading, RecordVend
    <3> QED BY <3>1, <3>2
  <2>9. CnRead(p)'
    BY <1>12 DEF RecordVend, CnRead, CnReading
  <2> QED BY <2>8, <2>9
<1>13. ASSUME NEW p \in CnRequests, ExpirePending(p) PROVE CnReads'
  BY <1>13 DEF ExpirePending, CnReads, CnRead, CnReading
<1>14. ASSUME PurgePending PROVE CnReads'
  BY <1>14 DEF PurgePending, CnReads, CnRead, CnReading
<1>15. ASSUME NEW u \in CnUsers, AdminRevokeBroker(u) PROVE CnReads'
  <2>1. /\ cnGrant[u] # CnNone /\ RevokeBrokerRow(u)
        /\ UNCHANGED <<cnAt, cnIn, cnUp, cnOwner>>
    BY <1>15 DEF AdminRevokeBroker, ActiveGrant
  <2>2. \A v \in CnUsers : cnGrant[v] # CnNone =>
            /\ cnGrant'[v] # CnNone /\ cnGrant'[v].cred = cnGrant[v].cred
            /\ cnGrant'[v].version = cnGrant[v].version
            /\ cnGrant[v].revoked => cnGrant'[v].revoked
    BY <2>1, RowRevoked
  <2>3. ASSUME NEW q \in CnRequests PROVE CnRead(q)'
    <3>1. CASE cnAt[q] \in CnReading
      <4>1. cnIn[q].user \in CnUsers
        BY <3>1 DEF CnReading, CnPhase
      <4> QED BY <2>1, <2>2, <4>1, ReadStands DEF CnReads
    <3>2. CASE cnAt[q] \notin CnReading
      BY <2>1, <3>2 DEF CnRead, CnReading
    <3> QED BY <3>1, <3>2
  <2> QED BY <2>3
<1>16. CASE UNCHANGED cnVars
  BY <1>16 DEF cnVars, CnReads, CnRead, CnReading
<1> QED BY <1>1, <1>2, <1>3, <1>4, <1>5, <1>6, <1>7, <1>8, <1>9, <1>10, <1>11, <1>12, <1>13,
       <1>14, <1>15, <1>16
        DEF ConnNext, ConnStep

\* A credential is stored for the user who started its connect.
LEMMA CredentialsStep ==
    ASSUME ConnTypeOK, CnStates, CnPhase, CnFresh, CnReads, CredentialFollowsItsUser,
           [ConnNext]_cnVars
    PROVE  CredentialFollowsItsUser'
<1> USE CnNoneAssumption DEF CredentialFollowsItsUser, ConnTypeOK, CnGoto
<1>1. ASSUME NEW p \in CnRequests, StartConnect(p) PROVE CredentialFollowsItsUser'
  BY <1>1 DEF StartConnect
<1>2. ASSUME NEW p \in CnRequests, CompleteConnect(p) PROVE CredentialFollowsItsUser'
  BY <1>2 DEF CompleteConnect
<1>3. ASSUME NEW p \in CnRequests, HandleCallback(p) PROVE CredentialFollowsItsUser'
  <2>1. /\ cnAt[p] = "exchange" /\ UNCHANGED cnGrant
        /\ \A q \in CnRequests \ {p} : cnOwner'[q] = cnOwner[q]
    BY <1>3, CallbackEffect
  <2>2. \A u \in CnUsers : cnGrant[u] # CnNone => cnGrant[u].cred \in CnRequests \ {p}
    BY <2>1 DEF CnFresh, CnSettled, GrantRow
  <2> QED BY <2>1, <2>2
<1>4. ASSUME NEW p \in CnRequests, StoreConnection(p) PROVE CredentialFollowsItsUser'
  <2>1. cnIn[p].user \in CnUsers /\ cnIn[p].cred = p /\ cnIn[p].granted \in SUBSET Fine
    BY <1>4 DEF StoreConnection, CnPhase, CnInput
  <2>2. CASE UNCHANGED cnGrant
    BY <1>4, <2>2 DEF StoreConnection
  <2>3. CASE UpsertBroker(cnIn[p].user, p, cnIn[p].granted)
    <3> DEFINE u == cnIn[p].user
    <3>1. /\ cnGrant'[u] = [cred |-> p, scopes |-> cnIn[p].granted, revoked |-> FALSE,
                version |-> IF cnGrant[u] = CnNone THEN 1 ELSE cnGrant[u].version + 1]
          /\ \A v \in CnUsers \ {u} : cnGrant'[v] = cnGrant[v]
          /\ cnGrant' \in [CnUsers -> GrantRow \cup {CnNone}]
      BY <2>1, <2>3, RowUpserted
    <3> QED BY <1>4, <2>1, <3>1 DEF StoreConnection, CnPhase
  <2> QED BY <1>4, <2>1, <2>2, <2>3 DEF StoreConnection
<1>5. ASSUME NEW p \in CnRequests, Disconnect(p) PROVE CredentialFollowsItsUser'
  BY <1>5 DEF Disconnect
<1>6. ASSUME NEW p \in CnRequests, DisconnectRevoke(p) PROVE CredentialFollowsItsUser'
  <2> DEFINE u == cnIn[p].user
  <2>1. u \in CnUsers /\ cnGrant[u] # CnNone /\ RevokeBrokerRow(u)
    BY <1>6 DEF DisconnectRevoke, CnPhase, CnReads, CnRead, CnReading
  <2>2. /\ cnGrant'[u].cred = cnGrant[u].cred /\ cnGrant'[u].version = cnGrant[u].version
        /\ cnGrant'[u].scopes = cnGrant[u].scopes /\ cnGrant'[u].revoked
        /\ cnGrant'[u] \in GrantRow
        /\ \A v \in CnUsers \ {u} : cnGrant'[v] = cnGrant[v]
        /\ cnGrant' \in [CnUsers -> GrantRow \cup {CnNone}]
    BY <2>1, RowRevoked
  <2> QED BY <1>6, <2>1, <2>2 DEF DisconnectRevoke
<1>7. ASSUME NEW p \in CnRequests, UpstreamRevoke(p) PROVE CredentialFollowsItsUser'
  BY <1>7 DEF UpstreamRevoke
<1>8. ASSUME NEW p \in CnRequests, BrokerExchange(p) PROVE CredentialFollowsItsUser'
  BY <1>8 DEF BrokerExchange
<1>9. ASSUME NEW p \in CnRequests, IssueBroker(p) PROVE CredentialFollowsItsUser'
  BY <1>9 DEF IssueBroker
<1>10. ASSUME NEW p \in CnRequests, VendRefresh(p) PROVE CredentialFollowsItsUser'
  <2>1. cnAt[p] = "refresh" /\ UNCHANGED cnGrant
    BY <1>10 DEF VendRefresh
  <2>2. \A q \in CnRequests \ {p} : cnOwner'[q] = cnOwner[q]
    BY <1>10 DEF VendRefresh, Rotate
  <2>3. \A u \in CnUsers : cnGrant[u] # CnNone => cnGrant[u].cred \in CnRequests \ {p}
    BY <2>1 DEF CnFresh, CnSettled, GrantRow
  <2> QED BY <2>1, <2>2, <2>3
<1>11. ASSUME NEW p \in CnRequests, PersistRotated(p) PROVE CredentialFollowsItsUser'
  <2> DEFINE u == cnIn[p].user
             g == cnGrant[u]
  <2>1. u \in CnUsers /\ g # CnNone
    BY <1>11 DEF PersistRotated, CnPhase, CnReads, CnRead, CnReading
  <2>2. CASE UNCHANGED cnGrant
    BY <1>11, <2>1, <2>2 DEF PersistRotated
  <2>3. CASE UpdateWithVersion(u, cnIn[p], p) /\ cnAt' = [cnAt EXCEPT ![p] = "record"]
    <3>1. /\ g \in GrantRow
          /\ \A v \in CnUsers \ {u} : cnGrant'[v] = cnGrant[v]
          /\ g.version # cnIn[p].version => cnGrant'[u] = g
          /\ g.version = cnIn[p].version =>
                 /\ cnGrant'[u].cred = p /\ cnGrant'[u].version = g.version + 1
                 /\ cnGrant'[u].scopes = cnIn[p].granted /\ cnGrant'[u].revoked = g.revoked
          /\ cnGrant'[u] \in GrantRow
          /\ cnGrant' \in [CnUsers -> GrantRow \cup {CnNone}]
      BY <2>1, <2>3, VersionedWrite
    <3> QED BY <1>11, <2>1, <2>3, <3>1 DEF PersistRotated, CnReads, CnRead
  <2> QED BY <1>11, <2>2, <2>3 DEF PersistRotated
<1>12. ASSUME NEW p \in CnRequests, RecordVend(p) PROVE CredentialFollowsItsUser'
  BY <1>12 DEF RecordVend
<1>13. ASSUME NEW p \in CnRequests, ExpirePending(p) PROVE CredentialFollowsItsUser'
  BY <1>13 DEF ExpirePending
<1>14. ASSUME PurgePending PROVE CredentialFollowsItsUser'
  BY <1>14 DEF PurgePending
<1>15. ASSUME NEW u \in CnUsers, AdminRevokeBroker(u) PROVE CredentialFollowsItsUser'
  <2>1. cnGrant[u] # CnNone /\ RevokeBrokerRow(u)
    BY <1>15 DEF AdminRevokeBroker, ActiveGrant
  <2>2. /\ cnGrant'[u].cred = cnGrant[u].cred /\ cnGrant'[u].version = cnGrant[u].version
        /\ cnGrant'[u].scopes = cnGrant[u].scopes /\ cnGrant'[u].revoked
        /\ cnGrant'[u] \in GrantRow
        /\ \A v \in CnUsers \ {u} : cnGrant'[v] = cnGrant[v]
        /\ cnGrant' \in [CnUsers -> GrantRow \cup {CnNone}]
    BY <2>1, RowRevoked
  <2> QED BY <1>15, <2>1, <2>2 DEF AdminRevokeBroker
<1>16. CASE UNCHANGED cnVars
  BY <1>16 DEF cnVars
<1> QED BY <1>1, <1>2, <1>3, <1>4, <1>5, <1>6, <1>7, <1>8, <1>9, <1>10, <1>11, <1>12, <1>13,
       <1>14, <1>15, <1>16
        DEF ConnNext, ConnStep

\* An active grant keeps a credential that works, or that a vend is about to replace.
LEMMA StoredCredentialsStep ==
    ASSUME ConnTypeOK, CnStates, CnPhase, CnFresh, CnReads, CredentialFollowsItsUser,
           StoredCredentialLives, ConnTypeOK', [ConnNext]_cnVars
    PROVE  StoredCredentialLives'
<1> USE CnNoneAssumption DEF StoredCredentialLives, ActiveGrant, ConnTypeOK, CnGoto
<1>1. ASSUME NEW p \in CnRequests, StartConnect(p) PROVE StoredCredentialLives'
  <2>1. PICK u \in CnUsers :
          Came(p, "start", u, "redirected") /\ cnIn'[p].cred = CnNone
    BY <1>1, StartComes
  <2> QED BY <1>1, <2>1 DEF StartConnect, Came
<1>2. ASSUME NEW p \in CnRequests, CompleteConnect(p) PROVE StoredCredentialLives'
  <2>1. PICK s \in CnRequests, u \in CnUsers :
          /\ ConsumePending(s)
          /\ Came(p, "callback", u, IF OwnsPending(s, u) THEN "exchange" ELSE "done")
          /\ cnIn'[p].state = s /\ cnIn'[p].cred = CnNone
    BY <1>2, CallbackComes
  <2> QED BY <1>2, <2>1 DEF CompleteConnect, Came
<1>3. ASSUME NEW p \in CnRequests, HandleCallback(p) PROVE StoredCredentialLives'
  <2>1. /\ cnAt[p] = "exchange" /\ UNCHANGED <<cnGrant, cnLost>> /\ cnUp \subseteq cnUp'
        /\ \A q \in CnRequests \ {p} : cnIn'[q] = cnIn[q] /\ cnAt'[q] = cnAt[q]
    BY <1>3, CallbackEffect
  <2> QED BY <2>1
<1>4. ASSUME NEW p \in CnRequests, StoreConnection(p) PROVE StoredCredentialLives'
  <2> DEFINE u == cnIn[p].user
  <2>1. /\ u \in CnUsers /\ cnIn[p].cred = p /\ cnIn[p].granted \in SUBSET Fine
        /\ cnAt[p] = "upsert" /\ p \in cnUp /\ UNCHANGED <<cnIn, cnUp, cnLost>>
        /\ \A q \in CnRequests \ {p} : cnAt'[q] = cnAt[q]
    BY <1>4 DEF StoreConnection, CnPhase, CnInput
  <2>2. CASE UNCHANGED cnGrant
    BY <2>1, <2>2
  <2>3. CASE UpsertBroker(u, p, cnIn[p].granted)
    <3>1. cnGrant'[u].cred = p /\ \A v \in CnUsers \ {u} : cnGrant'[v] = cnGrant[v]
      BY <2>1, <2>3, RowUpserted
    <3> QED BY <2>1, <3>1
  <2> QED BY <1>4, <2>1, <2>2, <2>3 DEF StoreConnection
<1>5. ASSUME NEW p \in CnRequests, Disconnect(p) PROVE StoredCredentialLives'
  <2>1. PICK u \in CnUsers :
          /\ ActiveGrant(u) /\ Came(p, "disconnect", u, "revoke")
          /\ cnGrant[u] \in GrantRow /\ cnIn'[p].cred = cnGrant[u].cred
    BY <1>5, DisconnectComes
  <2> QED BY <1>5, <2>1 DEF Disconnect, Came
<1>6. ASSUME NEW p \in CnRequests, DisconnectRevoke(p) PROVE StoredCredentialLives'
  <2> DEFINE u == cnIn[p].user
  <2>1. u \in CnUsers /\ cnGrant[u] # CnNone /\ RevokeBrokerRow(u)
    BY <1>6 DEF DisconnectRevoke, CnPhase, CnReads, CnRead, CnReading
  <2>2. /\ cnGrant'[u].cred = cnGrant[u].cred /\ cnGrant'[u].version = cnGrant[u].version
        /\ cnGrant'[u].scopes = cnGrant[u].scopes /\ cnGrant'[u].revoked
        /\ cnGrant'[u] \in GrantRow
        /\ \A v \in CnUsers \ {u} : cnGrant'[v] = cnGrant[v]
        /\ cnGrant' \in [CnUsers -> GrantRow \cup {CnNone}]
    BY <2>1, RowRevoked
  <2> QED BY <1>6, <2>1, <2>2 DEF DisconnectRevoke
<1>7. ASSUME NEW p \in CnRequests, UpstreamRevoke(p) PROVE StoredCredentialLives'
  <2> DEFINE c == cnIn[p].cred
  <2>1. cnAt[p] = "upRevoke" /\ cnIn[p].user \in CnUsers /\ cnOwner[c] = cnIn[p].user
    BY <1>7 DEF UpstreamRevoke, CnPhase, CnReads, CnRead, CnReading
  <2>2. \A u \in CnUsers : ActiveGrant(u) => cnGrant[u].cred # c
    BY <2>1 DEF CnReads, CnRead, CredentialFollowsItsUser
  <2> QED BY <1>7, <2>2 DEF UpstreamRevoke
<1>8. ASSUME NEW p \in CnRequests, BrokerExchange(p) PROVE StoredCredentialLives'
  <2>1. PICK u \in CnUsers :
          /\ Came(p, "vend", u, "issue")
          /\ cnIn'[p].scopes # {} /\ cnIn'[p].cred = CnNone
    BY <1>8, VendComes
  <2> QED BY <1>8, <2>1 DEF BrokerExchange, Came
<1>9. ASSUME NEW p \in CnRequests, IssueBroker(p) PROVE StoredCredentialLives'
  <2>1. /\ cnAt[p] = "issue" /\ UNCHANGED <<cnGrant, cnLost, cnUp>>
        /\ \A q \in CnRequests \ {p} : cnIn'[q] = cnIn[q] /\ cnAt'[q] = cnAt[q]
    BY <1>9 DEF IssueBroker
  <2> QED BY <2>1
<1>10. ASSUME NEW p \in CnRequests, VendRefresh(p) PROVE StoredCredentialLives'
  <2> DEFINE c == cnIn[p].cred
  <2>1. cnAt[p] = "refresh" /\ UNCHANGED <<cnGrant, cnIn>> /\ cnLost \subseteq cnLost'
    BY <1>10 DEF VendRefresh
  <2>2. \A q \in CnRequests : cnAt[q] = "persist" => cnAt'[q] = "persist"
    BY <1>10 DEF VendRefresh
  <2>3. \/ cnUp \subseteq cnUp'
        \/ /\ cnUp \ {c} \subseteq cnUp'
           /\ cnAt'[p] = "persist" \/ c \in cnLost'
    BY <1>10 DEF VendRefresh, Rotate
  <2> QED BY <2>1, <2>2, <2>3
<1>11. ASSUME NEW p \in CnRequests, PersistRotated(p) PROVE StoredCredentialLives'
  <2> DEFINE u == cnIn[p].user
             g == cnGrant[u]
             c == cnIn[p].cred
  <2>1. /\ u \in CnUsers /\ g # CnNone /\ cnAt[p] = "persist" /\ p \in cnUp /\ cnOwner[c] = u
        /\ (cnIn[p].version = g.version) = (c = g.cred)
        /\ UNCHANGED <<cnIn, cnUp>> /\ cnLost \subseteq cnLost'
        /\ \A q \in CnRequests \ {p} : cnAt'[q] = cnAt[q]
    BY <1>11 DEF PersistRotated, CnPhase, CnReads, CnRead, CnReading
  <2>2. CASE UNCHANGED cnGrant /\ c \in cnLost'
    BY <2>1, <2>2
  <2>3. CASE UpdateWithVersion(u, cnIn[p], p)
    <3>1. /\ \A v \in CnUsers \ {u} : cnGrant'[v] = cnGrant[v]
          /\ g.version # cnIn[p].version => cnGrant'[u] = g
          /\ g.version = cnIn[p].version => cnGrant'[u].cred = p
      BY <2>1, <2>3, VersionedWrite
    <3>2. \A v \in CnUsers \ {u} : cnGrant[v] # CnNone => cnGrant[v].cred # c
      BY <2>1 DEF CredentialFollowsItsUser
    <3> QED BY <2>1, <3>1, <3>2
  <2> QED BY <1>11, <2>2, <2>3 DEF PersistRotated
<1>12. ASSUME NEW p \in CnRequests, RecordVend(p) PROVE StoredCredentialLives'
  BY <1>12 DEF RecordVend
<1>13. ASSUME NEW p \in CnRequests, ExpirePending(p) PROVE StoredCredentialLives'
  BY <1>13 DEF ExpirePending
<1>14. ASSUME PurgePending PROVE StoredCredentialLives'
  BY <1>14 DEF PurgePending
<1>15. ASSUME NEW u \in CnUsers, AdminRevokeBroker(u) PROVE StoredCredentialLives'
  <2>1. cnGrant[u] # CnNone /\ RevokeBrokerRow(u)
    BY <1>15 DEF AdminRevokeBroker, ActiveGrant
  <2>2. /\ cnGrant'[u].cred = cnGrant[u].cred /\ cnGrant'[u].version = cnGrant[u].version
        /\ cnGrant'[u].scopes = cnGrant[u].scopes /\ cnGrant'[u].revoked
        /\ cnGrant'[u] \in GrantRow
        /\ \A v \in CnUsers \ {u} : cnGrant'[v] = cnGrant[v]
        /\ cnGrant' \in [CnUsers -> GrantRow \cup {CnNone}]
    BY <2>1, RowRevoked
  <2> QED BY <1>15, <2>1, <2>2 DEF AdminRevokeBroker
<1>16. CASE UNCHANGED cnVars
  BY <1>16 DEF cnVars
<1> QED BY <1>1, <1>2, <1>3, <1>4, <1>5, <1>6, <1>7, <1>8, <1>9, <1>10, <1>11, <1>12, <1>13,
       <1>14, <1>15, <1>16
        DEF ConnNext, ConnStep

\* A vend goes on with scopes that were checked against the grant it read.
LEMMA RefreshScopesStep ==
    ASSUME ConnTypeOK, CnStates, CnPhase, CnFresh, CnReads, RefreshNamesGrantedScopes,
           [ConnNext]_cnVars
    PROVE  RefreshNamesGrantedScopes'
<1> USE CnNoneAssumption DEF ConnTypeOK, CnGoto, RefreshNamesGrantedScopes
<1>1. ASSUME NEW p \in CnRequests, StartConnect(p) PROVE RefreshNamesGrantedScopes'
  <2>1. PICK u \in CnUsers :
          Came(p, "start", u, "redirected") /\ cnIn'[p].cred = CnNone
    BY <1>1, StartComes
  <2> QED BY <1>1, <2>1 DEF StartConnect, Came
<1>2. ASSUME NEW p \in CnRequests, CompleteConnect(p) PROVE RefreshNamesGrantedScopes'
  <2>1. PICK s \in CnRequests, u \in CnUsers :
          /\ ConsumePending(s)
          /\ Came(p, "callback", u, IF OwnsPending(s, u) THEN "exchange" ELSE "done")
          /\ cnIn'[p].state = s /\ cnIn'[p].cred = CnNone
    BY <1>2, CallbackComes
  <2> QED BY <1>2, <2>1 DEF CompleteConnect, Came
<1>3. ASSUME NEW p \in CnRequests, HandleCallback(p) PROVE RefreshNamesGrantedScopes'
  BY <1>3, CallbackEffect
<1>4. ASSUME NEW p \in CnRequests, StoreConnection(p) PROVE RefreshNamesGrantedScopes'
  BY <1>4 DEF StoreConnection
<1>5. ASSUME NEW p \in CnRequests, Disconnect(p) PROVE RefreshNamesGrantedScopes'
  <2>1. PICK u \in CnUsers :
          /\ ActiveGrant(u) /\ Came(p, "disconnect", u, "revoke")
          /\ cnGrant[u] \in GrantRow /\ cnIn'[p].cred = cnGrant[u].cred
    BY <1>5, DisconnectComes
  <2> QED BY <1>5, <2>1 DEF Disconnect, Came
<1>6. ASSUME NEW p \in CnRequests, DisconnectRevoke(p) PROVE RefreshNamesGrantedScopes'
  BY <1>6 DEF DisconnectRevoke
<1>7. ASSUME NEW p \in CnRequests, UpstreamRevoke(p) PROVE RefreshNamesGrantedScopes'
  BY <1>7 DEF UpstreamRevoke
<1>8. ASSUME NEW p \in CnRequests, BrokerExchange(p) PROVE RefreshNamesGrantedScopes'
  <2>1. PICK u \in CnUsers :
          /\ Came(p, "vend", u, "issue")
          /\ cnIn'[p].scopes # {} /\ cnIn'[p].cred = CnNone
    BY <1>8, VendComes
  <2> QED BY <1>8, <2>1 DEF BrokerExchange, Came
<1>9. ASSUME NEW p \in CnRequests, IssueBroker(p) PROVE RefreshNamesGrantedScopes'
  <2> DEFINE i == cnIn[p]
             g == cnGrant[i.user]
  <2>1. cnAt[p] = "issue" /\ i.user \in CnUsers /\ i.scopes # {}
    BY <1>9 DEF IssueBroker, CnPhase
  <2>2. CASE cnAt' = [cnAt EXCEPT ![p] = "done"] /\ UNCHANGED cnIn
    BY <2>1, <2>2
  <2>3. CASE /\ g # CnNone /\ i.scopes \subseteq BrokerCatalog
             /\ UpstreamScopes(i.scopes) \subseteq g.scopes /\ IssueReads(p)
             /\ cnAt' = [cnAt EXCEPT ![p] = "refresh"]
    <3>1. /\ cnIn'[p].granted = g.scopes /\ cnIn'[p].scopes = i.scopes
          /\ \A q \in CnRequests \ {p} : cnIn'[q] = cnIn[q]
      BY <2>1, <2>3, GrantRead
    <3>2. WireScopes(i.scopes) # {}
      <4>1. PICK s \in i.scopes : s \in i.scopes \cap BrokerCatalog
        BY <2>1, <2>3
      <4>2. (IF WireName[s] = CnNone THEN s ELSE WireName[s]) \in WireScopes(i.scopes)
        BY <4>1 DEF WireScopes
      <4> QED BY <4>2
    <3> QED BY <2>1, <2>3, <3>1, <3>2
  <2> QED BY <1>9, <2>2, <2>3 DEF IssueBroker, IssueReads, ActiveGrant
<1>10. ASSUME NEW p \in CnRequests, VendRefresh(p) PROVE RefreshNamesGrantedScopes'
  BY <1>10 DEF VendRefresh
<1>11. ASSUME NEW p \in CnRequests, PersistRotated(p) PROVE RefreshNamesGrantedScopes'
  BY <1>11 DEF PersistRotated
<1>12. ASSUME NEW p \in CnRequests, RecordVend(p) PROVE RefreshNamesGrantedScopes'
  BY <1>12 DEF RecordVend
<1>13. ASSUME NEW p \in CnRequests, ExpirePending(p) PROVE RefreshNamesGrantedScopes'
  BY <1>13 DEF ExpirePending
<1>14. ASSUME PurgePending PROVE RefreshNamesGrantedScopes'
  BY <1>14 DEF PurgePending
<1>15. ASSUME NEW u \in CnUsers, AdminRevokeBroker(u) PROVE RefreshNamesGrantedScopes'
  BY <1>15 DEF AdminRevokeBroker
<1>16. CASE UNCHANGED cnVars
  BY <1>16 DEF cnVars
<1> QED BY <1>1, <1>2, <1>3, <1>4, <1>5, <1>6, <1>7, <1>8, <1>9, <1>10, <1>11, <1>12, <1>13,
       <1>14, <1>15, <1>16
        DEF ConnNext, ConnStep

\* What an omitted scope stands for is the most that an explicit request is granted.
DefaultIsMost(m, subject, attested) ==
    LET Grant(asked) == DecideBroker(m, subject, attested, asked)
        most == UNION UNION {Grant(asked) : asked \in (SUBSET Fine) \ {{}}}
    IN Grant({}) = IF most = {} THEN {} ELSE {most}

\* token_exchange.go:2450, 2533: for every subject token, attestation and link.
LEMMA OmittedScopes ==
    ASSUME NEW m \in BrokerLinks, NEW subject \in SUBSET Fine, NEW attested \in SUBSET Fine
    PROVE  DefaultIsMost(m, subject, attested)
<1> DEFINE Grant(asked) == DecideBroker(m, subject, attested, asked)
           most == UNION UNION {Grant(asked) : asked \in (SUBSET Fine) \ {{}}}
<1>1. \E D \in SUBSET Fine :
         /\ Grant({}) = IF D = {} THEN {} ELSE {D}
         /\ \A asked \in SUBSET Fine :
               asked # {} => Grant(asked) = IF asked \subseteq D THEN {asked} ELSE {}
  <2>1. CASE m = CnNone
    <3> DEFINE D == DirectBrokerDefaultScopes(attested, subject)
    <3>1. Grant({}) = IF D = {} THEN {} ELSE {D}
      BY <2>1 DEF DecideBroker, DirectBroker, DirectBrokerDefaultScopes
    <3>2. ASSUME NEW asked \in SUBSET Fine, asked # {}
          PROVE  Grant(asked) = IF asked \subseteq D THEN {asked} ELSE {}
      <4>1. asked \subseteq D <=> /\ asked \subseteq BrokerCatalog
                                  /\ subject = {} \/ asked \subseteq subject
                                  /\ asked \subseteq attested
        BY DEF DirectBrokerDefaultScopes
      <4> HIDE DEF D
      <4> QED BY <2>1, <3>2, <4>1 DEF DecideBroker, DirectBroker
    <3>3. D \in SUBSET Fine
      BY DEF DirectBrokerDefaultScopes
    <3> HIDE DEF Grant, D
    <3> QED BY <3>1, <3>2, <3>3
  <2>2. CASE m # CnNone
    <3> DEFINE D == FrontedBrokerTargetsFor(m, subject)
    <3>1. m \in [Fine -> SUBSET Fine]
      BY <2>2, WireAssumption
    <3>2. \A asked \in SUBSET Fine : ValidateBrokerTargets(m, asked, subject) <=> asked \subseteq D
      BY <3>1 DEF FrontedBrokerTargetsFor, ValidateBrokerTargets
    <3>3. D \in SUBSET Fine
      BY <3>1 DEF FrontedBrokerTargetsFor
    <3>4. Grant({}) = IF D = {} THEN {} ELSE {D}
      BY <2>2, <3>2, <3>3 DEF DecideBroker, FrontedBroker
    <3>5. ASSUME NEW asked \in SUBSET Fine, asked # {}
          PROVE  Grant(asked) = IF asked \subseteq D THEN {asked} ELSE {}
      BY <2>2, <3>2, <3>5 DEF DecideBroker, FrontedBroker
    <3> HIDE DEF Grant, D
    <3> QED BY <3>3, <3>4, <3>5
  <2> QED BY <2>1, <2>2
<1>2. PICK D \in SUBSET Fine :
         /\ Grant({}) = IF D = {} THEN {} ELSE {D}
         /\ \A asked \in SUBSET Fine :
               asked # {} => Grant(asked) = IF asked \subseteq D THEN {asked} ELSE {}
  BY <1>1
<1> HIDE DEF Grant
<1>3. most \subseteq D
  <2> SUFFICES ASSUME NEW x \in most PROVE x \in D
    OBVIOUS
  <2>1. PICK asked \in (SUBSET Fine) \ {{}} : x \in UNION Grant(asked)
    OBVIOUS
  <2>2. asked # {}
    OBVIOUS
  <2> QED BY <1>2, <2>1, <2>2
<1>4. D \subseteq most
  <2> SUFFICES ASSUME NEW d \in D PROVE d \in most
    OBVIOUS
  <2> DEFINE asked == {d}
  <2>1. asked \in SUBSET Fine /\ asked # {} /\ asked \subseteq D /\ d \in asked
    OBVIOUS
  <2> HIDE DEF asked
  <2>2. asked \in Grant(asked)
    BY <1>2, <2>1
  <2>3. asked \in (SUBSET Fine) \ {{}}
    BY <2>1
  <2> QED BY <2>1, <2>2, <2>3
<1>5. most = D
  BY <1>3, <1>4
<1>6. Grant({}) = IF most = {} THEN {} ELSE {most}
  BY <1>2, <1>5
<1> QED BY <1>6 DEF DefaultIsMost, Grant

\* The inductive invariant holds in every reachable state.
LEMMA ConnInvHolds == ConnSpec => []ConnInv
<1>1. ConnInit => ConnInv
  <2> SUFFICES ASSUME ConnInit PROVE ConnInv
    OBVIOUS
  <2> USE CnNoneAssumption, CnRowAssumption DEF ConnInit
  <2>1. NoConnection \in CnInput
    BY DEF NoConnection, CnInput
  <2>2. ConnTypeOK
    BY <2>1, WireAssumption DEF ConnTypeOK, CnLabels
  <2>3. CnStates /\ CnPhase /\ CnFresh
    BY DEF CnStates, CnPhase, CnFresh, NoConnection
  <2>4. CnReads
    BY DEF CnReads, CnRead, CnReading
  <2>5. CredentialFollowsItsUser /\ StoredCredentialLives /\ RefreshNamesGrantedScopes
    BY DEF CredentialFollowsItsUser, StoredCredentialLives, ActiveGrant, RefreshNamesGrantedScopes
  <2> QED BY <2>2, <2>3, <2>4, <2>5 DEF ConnInv
<1>2. ConnInv /\ [ConnNext]_cnVars => ConnInv'
  BY ConnTypeStep, CnStatesStep, CnPhaseStep, CnFreshStep, CnReadsStep, CredentialsStep,
     StoredCredentialsStep, RefreshScopesStep, Zenon DEF ConnInv
<1> QED BY <1>1, <1>2, PTL DEF ConnSpec

\* connect.go, broker_issuer.go: a stored credential descends from a connect of its
\* user and works upstream unless a fault lost its successor; a pending state buys one
\* credential; and a refresh asks for scopes that were granted.
THEOREM ConnectionsStaySound == ConnSpec => []ConnectionsSound
<1>1. ConnInv => ConnectionsSound
  <2> SUFFICES ASSUME ConnInv PROVE ConnectionsSound
    OBVIOUS
  <2>1. StateBuysOneCredential
    BY DEF ConnInv, CnStates, StateBuysOneCredential
  <2>2. BrokerDefaultsAreRequestable
    <3> SUFFICES ASSUME NEW p \in CnRequests, cnAt[p] = "issue",
                        NEW subject \in SUBSET Fine, NEW m \in BrokerLinks
                 PROVE  DefaultIsMost(m, subject, cnAttest[cnIn[p].user])
      BY Zenon DEF BrokerDefaultsAreRequestable, DefaultIsMost
    <3>1. cnAttest[cnIn[p].user] \in SUBSET Fine
      BY DEF ConnInv, ConnTypeOK, CnPhase
    <3> QED BY <3>1, OmittedScopes
  <2> QED BY <2>1, <2>2 DEF ConnInv, ConnectionsSound
<1> QED BY <1>1, ConnInvHolds, PTL

\* broker_issuer.go:290: of two writers of a grant the vend gives way.  It replaces the
\* credential it refreshed or none, and leaves a revoked grant revoked.
THEOREM VendGivesWay == ConnSpec => VendReplacesWhatItRead
<1> DEFINE Step == \A p \in CnRequests, u \in CnUsers :
                      cnAt[p] = "persist" /\ cnAt'[p] = "record" /\ cnGrant[u] # cnGrant'[u] =>
                          /\ cnGrant[u].cred = cnIn[p].cred
                          /\ cnGrant[u].revoked = cnGrant'[u].revoked
<1>1. ConnInv /\ [ConnNext]_cnVars => [Step]_cnVars
  <2> SUFFICES ASSUME ConnInv, ConnNext, NEW p \in CnRequests, NEW u \in CnUsers,
                      cnAt[p] = "persist", cnAt'[p] = "record", cnGrant[u] # cnGrant'[u]
               PROVE  /\ cnGrant[u].cred = cnIn[p].cred
                      /\ cnGrant[u].revoked = cnGrant'[u].revoked
    OBVIOUS
  <2>1. PersistRotated(p) /\ UpdateWithVersion(cnIn[p].user, cnIn[p], p)
    <3>1. ASSUME NEW q \in CnRequests, ConnStep(q) PROVE PersistRotated(p)
      <4> USE <3>1 DEF ConnInv, ConnTypeOK, CnGoto, CnArrive, CnMayAsk
      <4>1. StartConnect(q) \/ CompleteConnect(q) \/ Disconnect(q) \/ BrokerExchange(q) => FALSE
        <5>1. StartConnect(q) \/ CompleteConnect(q) \/ Disconnect(q) \/ BrokerExchange(q)
              => \E label \in {"redirected", "exchange", "done", "revoke", "issue"} :
                    cnAt' = [cnAt EXCEPT ![q] = label]
          BY DEF StartConnect, CompleteConnect, Disconnect, BrokerExchange
        <5> QED BY <5>1
      <4>2. HandleCallback(q) \/ StoreConnection(q) \/ DisconnectRevoke(q) \/ UpstreamRevoke(q)
            => FALSE
        BY DEF HandleCallback, StoreConnection, DisconnectRevoke, UpstreamRevoke
      <4>3. IssueBroker(q) \/ VendRefresh(q) \/ RecordVend(q) => FALSE
        BY DEF IssueBroker, VendRefresh, RecordVend
      <4>4. PersistRotated(q) => p = q
        BY DEF PersistRotated
      <4> QED BY <4>1, <4>2, <4>3, <4>4 DEF ConnStep
    <3>2. ~ \E q \in CnRequests : ExpirePending(q)
      BY DEF ExpirePending
    <3>3. ~ PurgePending /\ ~ \E v \in CnUsers : AdminRevokeBroker(v)
      BY DEF PurgePending, AdminRevokeBroker
    <3>4. PersistRotated(p)
      BY <3>1, <3>2, <3>3 DEF ConnNext
    <3> QED BY <3>4 DEF PersistRotated, CnGoto, ConnInv, ConnTypeOK
  <2>2. cnIn[p].user \in CnUsers /\ cnGrant[cnIn[p].user] # CnNone
    BY DEF ConnInv, CnPhase, CnReads, CnRead, CnReading
  <2>3. LET g == cnGrant[cnIn[p].user] IN
        /\ \A v \in CnUsers \ {cnIn[p].user} : cnGrant'[v] = cnGrant[v]
        /\ g.version # cnIn[p].version => cnGrant'[cnIn[p].user] = g
        /\ g.version = cnIn[p].version => cnGrant'[cnIn[p].user].revoked = g.revoked
    BY <2>1, <2>2, VersionedWrite DEF ConnInv
  <2>4. u = cnIn[p].user /\ cnGrant[u].version = cnIn[p].version
    BY <2>2, <2>3
  <2> QED BY <2>2, <2>3, <2>4 DEF ConnInv, CnReads, CnRead
<1> QED BY <1>1, ConnInvHolds, PTL DEF ConnSpec, VendReplacesWhatItRead
=============================================================================
