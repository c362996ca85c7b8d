---------------------------- MODULE SignInProofs ----------------------------
(***************************************************************************)
(* The sign-in of a browser (SignIn) and the upstream's documents that it  *)
(* rests on (OidcKeys), for every number of browsers, users, requests and  *)
(* keys, and for every lifetime, grace period and timeout.                 *)
(*                                                                         *)
(* SignIn: the invariant follows each of the three cookies (session,       *)
(* state, login nonce) from the answer that sets it to the requests that   *)
(* bring it: wherever a cookie is, it is of the browser it was made for.   *)
(* SiNoncesOwn says this of the nonces by an assignment of nonces to       *)
(* browsers, which a step extends.                                         *)
(*                                                                         *)
(* OidcKeys: a set of keys, wherever it is held, is true of the upstream   *)
(* but for keys that changed after the instant it was read at, less a      *)
(* slack that each hand-over adds to (OkTrue). The bounds of the           *)
(* properties are the sums of these slacks.                                *)
(***************************************************************************)
EXTENDS SignIn, OidcKeys, TLAPS

-----------------------------------------------------------------------------
(* SignIn: who a browser is signed in as *)

\* The requests that are on their way, and the ones whose answer is made.
SiFlight == {"sent", "exchange", "user", "answered"}
SiAnswered == {"answered", "done"}

SiForms == [nonce : SiRequests, by : Browsers]

SiJars ==
    [session : SiSessions \cup {SiNone}, state : SiRequests \cup {SiNone}, nonce : Nonces]

SiSets ==
    [session : SiSessions \cup {SiNone, SiKeep}, state : SiRequests \cup {SiNone, SiKeep},
     nonce : SiRequests \cup {SiNone, SiKeep}]

\* A request with what its kind carries.
SiRequest(r) ==
    /\ r \in [kind : {"start", "callback", "getLogin", "postLogin", "page", "logout"},
              b : Browsers, jar : SiJars, with : {r.with}, set : SiSets,
              form : SiForms \cup {SiNone}]
    /\ r.kind = "start" => r.with \in BOOLEAN
    /\ r.kind = "callback" => r.with \in [state : SiRequests, flow : SiRequests, user : SiUsers]
    /\ r.kind = "postLogin" => r.with \in [form : SiForms, user : SiUsers]

SiTypes ==
    /\ SiTypeOK
    /\ jar \in [Browsers -> SiJars]
    /\ DOMAIN siIn = SiRequests
    /\ \A p \in SiRequests : siAt[p] \in SiFlight => SiRequest(siIn[p])

\* An answer sets cookies only when it is made; an exchange is that of a callback.
SiPhase ==
    \A p \in SiRequests :
        /\ siAt[p] \in {"exchange", "user"} => siIn[p].kind = "callback"
        /\ siAt[p] \in {"sent", "exchange", "user"} =>
              /\ siIn[p].set.session = SiKeep /\ siIn[p].set.nonce = SiKeep
              /\ siIn[p].set.state \in {SiKeep, SiNone}
              /\ siIn[p].form = SiNone

\* A session cookie of browser b, wherever it is, was opened in b and lasts its time.
SiOpenedIn(c, b) == c.by = b /\ c.exp = c.born + SessionMaxAge

SiSessionsOwn ==
    /\ \A b \in Browsers : jar[b].session # SiNone => SiOpenedIn(jar[b].session, b)
    /\ \A p \in SiRequests : siAt[p] \in SiFlight =>
          /\ siIn[p].jar.session # SiNone => SiOpenedIn(siIn[p].jar.session, siIn[p].b)
          /\ siIn[p].set.session \notin {SiNone, SiKeep} =>
                SiOpenedIn(siIn[p].set.session, siIn[p].b)

\* A state cookie of browser b is that of a flow that b started.
SiStateOf(f, b) == f \in SiRequests => siAt[f] \in SiAnswered /\ flows[f].by \in {b, SiNone}

SiStatesOwn ==
    /\ \A f \in SiRequests : flows[f].by # SiNone => siAt[f] \in SiAnswered
    /\ \A b \in Browsers : SiStateOf(jar[b].state, b)
    /\ \A p \in SiRequests : siAt[p] \in SiFlight =>
          /\ SiStateOf(siIn[p].jar.state, siIn[p].b)
          /\ SiStateOf(siIn[p].set.state, siIn[p].b)

\* A callback past the state check belongs to the browser that started the flow of
\* the state, and past the ID token check its code is that of this flow.
SiFlowsOwn ==
    \A p \in SiRequests :
        /\ siAt[p] \in SiFlight /\ siIn[p].kind = "callback" =>
              \E c \in codes : c.flow = siIn[p].with.flow /\ c.user = siIn[p].with.user
        /\ siAt[p] \in {"exchange", "user"} =>
              /\ flows[siIn[p].with.state].by # SiNone
              /\ flows[siIn[p].with.state].by = siIn[p].b
        /\ siAt[p] = "user" => siIn[p].with.flow = siIn[p].with.state

\* Every login nonce of this server has one browser: every cookie and every form with
\* the nonce is of that browser.
SiNonceOf(own, n, b) == n \in SiRequests => siAt[n] \in SiAnswered /\ own[n] = b

SiOwned(own) ==
    /\ \A b \in Browsers : SiNonceOf(own, jar[b].nonce, b)
    /\ \A f \in forms : SiNonceOf(own, f.nonce, f.by)
    /\ \A p \in SiRequests : siAt[p] \in SiFlight =>
          /\ SiNonceOf(own, siIn[p].jar.nonce, siIn[p].b)
          /\ SiNonceOf(own, siIn[p].set.nonce, siIn[p].b)
          /\ siIn[p].form # SiNone => SiNonceOf(own, siIn[p].form.nonce, siIn[p].form.by)
          /\ siIn[p].kind = "postLogin" =>
                SiNonceOf(own, siIn[p].with.form.nonce, siIn[p].with.form.by)

SiNoncesOwn == \E own \in [SiRequests -> Browsers \cup {SiNone}] : SiOwned(own)

\* The nonce a request brought is still that of its browser, and its answer either
\* keeps the nonce the form was made for or brings it.
SiNoncesKept ==
    \A p \in SiRequests : siAt[p] \in SiFlight =>
        /\ siIn[p].jar.nonce \in SiRequests =>
              siIn[p].b \in upset \/ jar[siIn[p].b].nonce = siIn[p].jar.nonce
        /\ siIn[p].set.nonce \in SiRequests => siIn[p].jar.nonce \notin SiRequests
        /\ siIn[p].set.nonce \notin SiRequests \cup {SiKeep} => siIn[p].kind = "logout"
        /\ siIn[p].form # SiNone =>
              /\ siIn[p].kind # "logout"
              /\ siIn[p].form.by = siIn[p].b
              /\ siIn[p].form.nonce =
                    IF siIn[p].set.nonce = SiKeep THEN siIn[p].jar.nonce ELSE siIn[p].set.nonce

SiInv ==
    /\ SiTypes
    /\ SiPhase
    /\ SiSessionsOwn
    /\ SiStatesOwn
    /\ SiFlowsOwn
    /\ SiNoncesOwn
    /\ SiNoncesKept
    /\ FormsStayGood
    /\ AdmittedHasStanding

-----------------------------------------------------------------------------
\* Request p, and only p, goes on to `at`.
SiMoves(p, at) ==
    /\ siAt' \in [SiRequests -> {"idle", "sent", "exchange", "user", "answered", "done"}]
    /\ siAt'[p] = at
    /\ DOMAIN siIn' = SiRequests
    /\ \A q \in SiRequests \ {p} : siAt'[q] = siAt[q] /\ siIn'[q] = siIn[q]

\* Request p is answered with these cookies and this form.
SiAnswer(p, session, state, nonce, form) ==
    /\ siAt[p] \in SiFlight
    /\ SiMoves(p, "answered")
    /\ SiRequest(siIn'[p])
    /\ siIn'[p].kind = siIn[p].kind /\ siIn'[p].b = siIn[p].b
    /\ siIn'[p].jar = siIn[p].jar /\ siIn'[p].with = siIn[p].with
    /\ siIn'[p].set.session = session /\ siIn'[p].set.state = state
    /\ siIn'[p].set.nonce = nonce /\ siIn'[p].form = form

\* Request p leaves browser b.
SiArrival(p, b) ==
    /\ siAt[p] = "idle"
    /\ SiMoves(p, "sent")
    /\ SiRequest(siIn'[p])
    /\ siIn'[p].b = b
    /\ siIn'[p].jar.session \in {jar[b].session, SiNone}
    /\ siIn'[p].jar.state \in {jar[b].state, SiNone}
    /\ siIn'[p].jar.nonce \in {jar[b].nonce, SiNone}
    /\ siIn'[p].set.session = SiKeep /\ siIn'[p].set.state = SiKeep
    /\ siIn'[p].set.nonce = SiKeep /\ siIn'[p].form = SiNone
    /\ siIn'[p].kind = "callback" =>
          \E c \in codes : c.flow = siIn'[p].with.flow /\ c.user = siIn'[p].with.user
    /\ siIn'[p].kind = "postLogin" => siIn'[p].with.form \in forms

\* An answer changes no other request, and of its own the cookies and the form only.
LEMMA AnswersOne ==
    ASSUME SiTypes, NEW p \in SiRequests, siAt[p] \in SiFlight, NEW set \in SiSets,
           NEW form \in SiForms \cup {SiNone}, Answers(p, set, form)
    PROVE  SiAnswer(p, set.session, set.state, set.nonce, form)
<1> DEFINE new == [siIn[p] EXCEPT !.set = set, !.form = form]
<1>1. SiRequest(siIn[p])
  BY DEF SiTypes
<1>2. siIn' = [siIn EXCEPT ![p] = new]
  BY DEF Answers
<1>3. /\ new.kind = siIn[p].kind /\ new.b = siIn[p].b /\ new.jar = siIn[p].jar
      /\ new.with = siIn[p].with /\ new.set = set /\ new.form = form
  BY <1>1 DEF SiRequest
<1>4. new \in [kind : {"start", "callback", "getLogin", "postLogin", "page", "logout"},
               b : Browsers, jar : SiJars, with : {new.with}, set : SiSets,
               form : SiForms \cup {SiNone}]
  BY <1>1, <1>3 DEF SiRequest
<1>5. SiRequest(new)
  <2> HIDE DEF new
  <2> QED BY <1>1, <1>3, <1>4 DEF SiRequest
<1> HIDE DEF new
<1>6. siIn'[p] = new /\ DOMAIN siIn' = SiRequests
      /\ \A q \in SiRequests \ {p} : siIn'[q] = siIn[q]
  BY <1>2 DEF SiTypes
<1>7. SiMoves(p, "answered")
  BY <1>6 DEF SiMoves, SiTypes, SiTypeOK, Answers
<1> QED BY <1>3, <1>5, <1>6, <1>7 DEF SiAnswer

\* Browse sends one request with the cookies of its browser.
LEMMA BrowseSends ==
    ASSUME SiTypes, NEW p \in SiRequests, NEW b \in Browsers, Browse(p, b)
    PROVE  SiArrival(p, b)
<1> DEFINE keep == [session |-> SiKeep, state |-> SiKeep, nonce |-> SiKeep]
           new(kind, with, sent) == [kind |-> kind, b |-> b, jar |-> sent, with |-> with,
                                     set |-> keep, form |-> SiNone]
           Kinds == {"start", "callback", "getLogin", "postLogin", "page", "logout"}
<1>1. keep \in SiSets /\ keep.session = SiKeep /\ keep.state = SiKeep /\ keep.nonce = SiKeep
  BY DEF SiSets
<1>2. jar[b] \in SiJars /\ NoJar \in SiJars
  BY DEF SiTypes, SiJars, NoJar, Nonces
<1>3. ASSUME NEW kind \in Kinds, NEW with, Sends(p, kind, b, with),
             kind = "start" => with \in BOOLEAN,
             kind = "callback" =>
                 /\ with \in [state : SiRequests, flow : SiRequests, user : SiUsers]
                 /\ \E c \in codes : c.flow = with.flow /\ c.user = with.user,
             kind = "postLogin" =>
                 with \in [form : SiForms, user : SiUsers] /\ with.form \in forms
      PROVE  SiArrival(p, b)
  <2>1. PICK sent \in {jar[b], NoJar} : siIn' = [siIn EXCEPT ![p] = new(kind, with, sent)]
    BY <1>3 DEF Sends
  <2> HIDE DEF keep
  <2>2. /\ new(kind, with, sent).kind = kind /\ new(kind, with, sent).b = b
        /\ new(kind, with, sent).jar = sent
        /\ new(kind, with, sent).with = with /\ new(kind, with, sent).set = keep
        /\ new(kind, with, sent).form = SiNone
    OBVIOUS
  <2>3. new(kind, with, sent) \in
           [kind : Kinds, b : Browsers, jar : SiJars, with : {new(kind, with, sent).with},
            set : SiSets, form : SiForms \cup {SiNone}]
    BY <1>1, <1>2, <2>2
  <2> HIDE DEF new
  <2>4. SiRequest(new(kind, with, sent))
    BY <1>3, <2>2, <2>3 DEF SiRequest
  <2>5. /\ siIn'[p] = new(kind, with, sent) /\ DOMAIN siIn' = SiRequests
        /\ \A q \in SiRequests \ {p} : siIn'[q] = siIn[q]
    BY <2>1 DEF SiTypes
  <2>6. SiMoves(p, "sent") /\ siAt[p] = "idle"
    BY <1>3, <2>5 DEF SiMoves, SiTypes, SiTypeOK, Sends
  <2>7. kind = "callback" => \E c \in codes : c.flow = with.flow /\ c.user = with.user
    BY <1>3
  <2>8. /\ sent.session \in {jar[b].session, SiNone} /\ sent.state \in {jar[b].state, SiNone}
        /\ sent.nonce \in {jar[b].nonce, SiNone}
    BY DEF NoJar
  <2> QED BY <1>1, <1>3, <2>2, <2>4, <2>5, <2>6, <2>7, <2>8 DEF SiArrival
<1> HIDE DEF new, keep
<1>4. CASE \E plain \in BOOLEAN : Sends(p, "start", b, plain)
  <2>1. PICK plain \in BOOLEAN : Sends(p, "start", b, plain)
    BY <1>4
  <2> QED BY <2>1, <1>3
<1>5. CASE \E c \in codes, f \in SiRequests :
              Sends(p, "callback", b, [state |-> f, flow |-> c.flow, user |-> c.user])
  <2>1. PICK c \in codes, f \in SiRequests :
              Sends(p, "callback", b, [state |-> f, flow |-> c.flow, user |-> c.user])
    BY <1>5
  <2> DEFINE w == [state |-> f, flow |-> c.flow, user |-> c.user]
  <2>2. c.flow \in SiRequests /\ c.user \in SiUsers
    BY DEF SiTypes, SiTypeOK
  <2>3. w \in [state : SiRequests, flow : SiRequests, user : SiUsers]
        /\ w.flow = c.flow /\ w.user = c.user
    BY <2>2
  <2>4. Sends(p, "callback", b, w)
    BY <2>1
  <2> HIDE DEF w
  <2> QED BY <2>3, <2>4, <1>3
<1>6. CASE \E form \in forms, u \in SiUsers :
              Sends(p, "postLogin", b, [form |-> form, user |-> u])
  <2>1. PICK form \in forms, u \in SiUsers :
              Sends(p, "postLogin", b, [form |-> form, user |-> u])
    BY <1>6
  <2> DEFINE w == [form |-> form, user |-> u]
  <2>2. form \in SiForms
    BY DEF SiTypes, SiTypeOK, SiForms
  <2>3. w \in [form : SiForms, user : SiUsers] /\ w.form = form
    BY <2>2
  <2>4. Sends(p, "postLogin", b, w)
    BY <2>1
  <2> HIDE DEF w
  <2> QED BY <2>3, <2>4, <1>3
<1>7. CASE Sends(p, "getLogin", b, SiNone) \/ Sends(p, "page", b, SiNone)
           \/ Sends(p, "logout", b, SiNone)
  BY <1>7, <1>3
<1> QED BY <1>4, <1>5, <1>6, <1>7 DEF Browse

\* Wrap at most clears the session.
LEMMA WrapAnswers ==
    ASSUME SiTypes, SiPhase, NEW p \in SiRequests, NEW row, Wrap(p, row)
    PROVE  \E session \in {SiNone, SiKeep} :
               SiAnswer(p, session, siIn[p].set.state, SiKeep, SiNone)
<1>1. siAt[p] = "sent"
  BY DEF Wrap
<1>2. siIn[p].set \in SiSets /\ siIn[p].set.nonce = SiKeep
  BY <1>1 DEF SiTypes, SiRequest, SiFlight, SiPhase
<1>3. PICK s \in {SiNone, SiKeep} : Answers(p, [siIn[p].set EXCEPT !.session = s], SiNone)
  BY Zenon DEF Wrap, Same
<1> DEFINE set == [siIn[p].set EXCEPT !.session = s]
<1>4. /\ set \in SiSets /\ set.session = s /\ set.state = siIn[p].set.state
      /\ set.nonce = SiKeep
  BY <1>2 DEF SiSets
<1>5. Answers(p, set, SiNone)
  BY <1>3
<1> HIDE DEF set
<1> QED BY <1>1, <1>4, <1>5, AnswersOne DEF SiFlight

\* handleOIDCStart answers with a state cookie of its own.
LEMMA StartAnswers ==
    ASSUME SiTypes, SiPhase, NEW p \in SiRequests, NEW fails \in BOOLEAN,
           HandleOIDCStart(p, fails)
    PROVE  SiAnswer(p, SiKeep, p, SiKeep, SiNone)
<1>1. siAt[p] = "sent"
  BY DEF HandleOIDCStart
<1>2. siIn[p].set \in SiSets /\ siIn[p].set.nonce = SiKeep /\ siIn[p].set.session = SiKeep
  BY <1>1 DEF SiTypes, SiRequest, SiFlight, SiPhase
<1> DEFINE set == [siIn[p].set EXCEPT !.state = p]
<1>3. Answers(p, set, SiNone)
  BY DEF HandleOIDCStart, Same
<1>4. set \in SiSets /\ set.session = SiKeep /\ set.state = p /\ set.nonce = SiKeep
  BY <1>2 DEF SiSets
<1> HIDE DEF set
<1> QED BY <1>1, <1>3, <1>4, AnswersOne DEF SiFlight

\* An exchange goes on, or is answered without a cookie.
LEMMA ExchangeMoves ==
    ASSUME SiTypes, SiPhase, NEW p \in SiRequests, NEW fails \in BOOLEAN,
           ExchangeCode(p, fails)
    PROVE  \/ SiAnswer(p, SiKeep, siIn[p].set.state, SiKeep, SiNone)
           \/ SiMoves(p, "user") /\ siIn' = siIn /\ siAt[p] = "exchange"
<1>1. siAt[p] = "exchange"
  BY DEF ExchangeCode
<1>2. siIn[p].set \in SiSets /\ siIn[p].set.nonce = SiKeep /\ siIn[p].set.session = SiKeep
  BY <1>1 DEF SiTypes, SiRequest, SiFlight, SiPhase
<1>3. CASE Answers(p, Same(p), SiNone)
  BY <1>1, <1>2, <1>3, AnswersOne DEF SiFlight, Same
<1>4. CASE siAt' = [siAt EXCEPT ![p] = "user"] /\ UNCHANGED siIn
  BY <1>1, <1>4 DEF SiMoves, SiTypes, SiTypeOK
<1> QED BY <1>3, <1>4 DEF ExchangeCode

\* handleOIDCCallback goes on, or is answered without a cookie.
LEMMA CallbackMoves ==
    ASSUME SiTypes, SiPhase, NEW p \in SiRequests, HandleOIDCCallback(p)
    PROVE  /\ siAt[p] = "sent" /\ siIn[p].kind = "callback"
           /\ \/ SiAnswer(p, SiKeep, siIn[p].set.state, SiKeep, SiNone)
              \/ /\ SiMoves(p, "exchange") /\ SiRequest(siIn'[p])
                 /\ siIn'[p].kind = siIn[p].kind /\ siIn'[p].b = siIn[p].b
                 /\ siIn'[p].jar = siIn[p].jar /\ siIn'[p].with = siIn[p].with
                 /\ siIn'[p].set.session = SiKeep /\ siIn'[p].set.nonce = SiKeep
                 /\ siIn'[p].set.state = SiNone /\ siIn'[p].form = SiNone
                 /\ Decode(siIn[p].with.state)
                 /\ Pinned(p, siIn[p].with.state)
<1> DEFINE set == [siIn[p].set EXCEPT !.state = SiNone]
           new == [siIn[p] EXCEPT !.set = set]
<1>1. siAt[p] = "sent" /\ siIn[p].kind = "callback"
  BY DEF HandleOIDCCallback
<1>2. /\ siIn[p].set \in SiSets /\ siIn[p].set.nonce = SiKeep
      /\ siIn[p].set.session = SiKeep /\ siIn[p].form = SiNone
      /\ SiRequest(siIn[p])
  BY <1>1 DEF SiTypes, SiRequest, SiFlight, SiPhase
<1>3. CASE Answers(p, Same(p), SiNone)
  BY <1>1, <1>2, <1>3, AnswersOne DEF SiFlight, Same
<1>4. CASE /\ Decode(siIn[p].with.state) /\ Pinned(p, siIn[p].with.state)
           /\ siAt' = [siAt EXCEPT ![p] = "exchange"]
           /\ siIn' = [siIn EXCEPT ![p].set.state = SiNone]
  <2>1. set \in SiSets /\ set.session = SiKeep /\ set.nonce = SiKeep /\ set.state = SiNone
    BY <1>2 DEF SiSets
  <2>2. siIn' = [siIn EXCEPT ![p] = new]
    BY <1>4
  <2> HIDE DEF set
  <2>3. /\ new.kind = siIn[p].kind /\ new.b = siIn[p].b /\ new.jar = siIn[p].jar
        /\ new.with = siIn[p].with /\ new.set = set /\ new.form = siIn[p].form
    BY <1>2 DEF SiRequest
  <2>4. new \in [kind : {"start", "callback", "getLogin", "postLogin", "page", "logout"},
                 b : Browsers, jar : SiJars, with : {new.with}, set : SiSets,
                 form : SiForms \cup {SiNone}]
    BY <1>2, <2>1, <2>3 DEF SiRequest
  <2>5. SiRequest(new)
    <3> HIDE DEF new
    <3> QED BY <1>2, <2>3, <2>4 DEF SiRequest
  <2> HIDE DEF new
  <2>6. siIn'[p] = new /\ DOMAIN siIn' = SiRequests
        /\ \A q \in SiRequests \ {p} : siIn'[q] = siIn[q]
    BY <2>2 DEF SiTypes
  <2>7. SiMoves(p, "exchange")
    BY <1>4, <2>6 DEF SiMoves, SiTypes, SiTypeOK
  <2> QED BY <1>1, <1>2, <1>4, <2>1, <2>3, <2>5, <2>6, <2>7
<1> QED BY <1>1, <1>3, <1>4 DEF HandleOIDCCallback

\* A new session cookie.
LEMMA NewSession ==
    ASSUME SiTypes, NEW u \in SiUsers, NEW b \in Browsers
    PROVE  /\ SetSessionCookie(u, b) \in SiSessions
           /\ SiOpenedIn(SetSessionCookie(u, b), b)
  BY SiAssumption DEF SiTypes, SiTypeOK, SetSessionCookie, SiSessions, SiOpenedIn

\* The end of a callback: the session is that of the browser of the callback.
LEMMA FinishAnswers ==
    ASSUME SiTypes, SiPhase, SiFlowsOwn, NEW p \in SiRequests, NEW fails \in BOOLEAN,
           FinishCallback(p, fails)
    PROVE  \E session : /\ session # SiKeep => SiOpenedIn(session, siIn[p].b)
                        /\ SiAnswer(p, session, siIn[p].set.state, SiKeep, SiNone)
<1> DEFINE u == siIn[p].with.user
<1>1. siAt[p] = "user" /\ siIn[p].kind = "callback"
  BY DEF FinishCallback, SiPhase
<1>2. /\ siIn[p].set \in SiSets /\ siIn[p].set.nonce = SiKeep
      /\ siIn[p].set.session = SiKeep /\ u \in SiUsers /\ siIn[p].b \in Browsers
  BY <1>1 DEF SiTypes, SiRequest, SiFlight, SiPhase
<1>3. flows[siIn[p].with.flow].by = siIn[p].b
  BY <1>1 DEF SiFlowsOwn
<1>4. CASE Answers(p, Same(p), SiNone)
  BY <1>1, <1>2, <1>4, AnswersOne DEF SiFlight, Same
<1>5. CASE Answers(p, [Same(p) EXCEPT !.session = SetSessionCookie(u, siIn[p].b)], SiNone)
  <2>1. /\ SetSessionCookie(u, siIn[p].b) \in SiSessions
        /\ SiOpenedIn(SetSessionCookie(u, siIn[p].b), siIn[p].b)
    BY <1>2, NewSession
  <2>2. SiAnswer(p, SetSessionCookie(u, siIn[p].b), siIn[p].set.state, SiKeep, SiNone)
    <3> DEFINE c == SetSessionCookie(u, siIn[p].b)
               set == [siIn[p].set EXCEPT !.session = c]
    <3>1. Answers(p, set, SiNone)
      BY <1>5 DEF Same
    <3>2. c \in SiSessions
      BY <2>1
    <3> HIDE DEF c
    <3>3. /\ set \in SiSets /\ set.session = c /\ set.state = siIn[p].set.state
          /\ set.nonce = SiKeep
      BY <1>2, <3>2 DEF SiSets
    <3> HIDE DEF set
    <3>4. SiAnswer(p, c, siIn[p].set.state, SiKeep, SiNone)
      BY <1>1, <3>1, <3>3, AnswersOne DEF SiFlight
    <3> QED BY <3>4 DEF c
  <2> QED BY <2>1, <2>2
<1> QED BY <1>3, <1>4, <1>5 DEF FinishCallback

\* What a page with the login form answers.
SiPage(p) ==
    \E nonce, form :
        /\ form \in SiForms /\ form.by = siIn[p].b
        /\ SiAnswer(p, SiKeep, siIn[p].set.state, nonce, form)
        /\ \/ nonce = p /\ form.nonce = p /\ siIn[p].jar.nonce \notin SiRequests
           \/ nonce = SiKeep /\ form.nonce = siIn[p].jar.nonce

\* ensureLoginNonce keeps the nonce the browser brought, else mints one.
LEMMA PageAnswers ==
    ASSUME SiTypes, SiPhase, SiNoncesOwn, NEW p \in SiRequests, siAt[p] = "sent",
           LoginPage(p)
    PROVE  SiPage(p)
<1> DEFINE n == EnsureLoginNonce(p)
           form == [nonce |-> n, by |-> siIn[p].b]
           nonce == IF n = p THEN p ELSE SiKeep
<1>1. /\ siIn[p].set \in SiSets /\ siIn[p].set.nonce = SiKeep
      /\ siIn[p].set.session = SiKeep /\ siIn[p].b \in Browsers
  BY DEF SiTypes, SiRequest, SiFlight, SiPhase
<1>2. siIn[p].jar.nonce # p
  BY DEF SiNoncesOwn, SiOwned, SiNonceOf, SiFlight, SiAnswered
<1>3. /\ n \in SiRequests /\ nonce \in SiRequests \cup {SiNone, SiKeep}
      /\ \/ nonce = p /\ n = p /\ siIn[p].jar.nonce \notin SiRequests
         \/ nonce = SiKeep /\ n = siIn[p].jar.nonce
  BY <1>2 DEF EnsureLoginNonce, ParseLoginNonce
<1>4. Answers(p, [siIn[p].set EXCEPT !.nonce = nonce], form)
  BY DEF LoginPage, Same
<1> HIDE DEF n, nonce
<1>5. form \in SiForms /\ form.nonce = n /\ form.by = siIn[p].b
  BY <1>1, <1>3 DEF SiForms
<1> HIDE DEF form
<1>6. SiAnswer(p, SiKeep, siIn[p].set.state, nonce, form)
  <2> DEFINE set == [siIn[p].set EXCEPT !.nonce = nonce]
  <2>1. /\ set \in SiSets /\ set.session = SiKeep /\ set.state = siIn[p].set.state
        /\ set.nonce = nonce
    BY <1>1, <1>3 DEF SiSets
  <2>2. Answers(p, set, form)
    BY <1>4
  <2> HIDE DEF set
  <2> QED BY <1>5, <2>1, <2>2, AnswersOne DEF SiFlight
<1> QED BY <1>3, <1>5, <1>6 DEF SiPage

\* handlePostLogin opens a session in the browser of the form, which is its own, or
\* shows the form again.
LEMMA PostAnswers ==
    ASSUME SiTypes, SiPhase, SiNoncesOwn, NEW p \in SiRequests, NEW fails \in BOOLEAN,
           HandlePostLogin(p, fails)
    PROVE  \/ SiPage(p)
           \/ \E session : /\ SiOpenedIn(session, siIn[p].b)
                           /\ SiAnswer(p, session, siIn[p].set.state, SiKeep, SiNone)
<1> DEFINE u == siIn[p].with.user
           form == siIn[p].with.form
<1>1. siAt[p] = "sent" /\ siIn[p].kind = "postLogin"
  BY DEF HandlePostLogin
<1>2. /\ siIn[p].set \in SiSets /\ siIn[p].set.nonce = SiKeep
      /\ siIn[p].set.session = SiKeep /\ u \in SiUsers /\ siIn[p].b \in Browsers
      /\ form \in SiForms
  BY <1>1 DEF SiTypes, SiRequest, SiFlight, SiPhase
<1>3. CASE LoginPage(p)
  BY <1>1, <1>3, PageAnswers
<1>4. CASE /\ ParseLoginNonce(siIn[p].jar.nonce) /\ ValidateCSRF(siIn[p].jar.nonce, form)
           /\ Answers(p, [Same(p) EXCEPT !.session = SetSessionCookie(u, form.by)], SiNone)
  <2>1. form.by = siIn[p].b
    <3>1. PICK own \in [SiRequests -> Browsers \cup {SiNone}] : SiOwned(own)
      BY DEF SiNoncesOwn
    <3> QED BY <1>1, <1>4, <3>1 DEF SiOwned, SiNonceOf, ParseLoginNonce, ValidateCSRF, SiFlight
  <2>2. /\ SetSessionCookie(u, siIn[p].b) \in SiSessions
        /\ SiOpenedIn(SetSessionCookie(u, siIn[p].b), siIn[p].b)
    BY <1>2, NewSession
  <2>3. SiAnswer(p, SetSessionCookie(u, siIn[p].b), siIn[p].set.state, SiKeep, SiNone)
    <3> DEFINE c == SetSessionCookie(u, siIn[p].b)
               set == [siIn[p].set EXCEPT !.session = c]
    <3>1. Answers(p, set, SiNone)
      BY <1>4, <2>1 DEF Same
    <3>2. c \in SiSessions
      BY <2>2
    <3> HIDE DEF c
    <3>3. /\ set \in SiSets /\ set.session = c /\ set.state = siIn[p].set.state
          /\ set.nonce = SiKeep
      BY <1>2, <3>2 DEF SiSets
    <3> HIDE DEF set
    <3>4. SiAnswer(p, c, siIn[p].set.state, SiKeep, SiNone)
      BY <1>1, <3>1, <3>3, AnswersOne DEF SiFlight
    <3> QED BY <3>4 DEF c
  <2> QED BY <2>2, <2>3
<1> QED BY <1>3, <1>4 DEF HandlePostLogin

\* handlePostLogout clears the session and the nonce.
LEMMA LogoutAnswers ==
    ASSUME SiTypes, SiPhase, NEW p \in SiRequests, HandlePostLogout(p)
    PROVE  /\ SiAnswer(p, SiNone, siIn[p].set.state, SiNone, SiNone)
           /\ siIn[p].kind = "logout"
<1> DEFINE set == [siIn[p].set EXCEPT !.session = SiNone, !.nonce = SiNone]
<1>1. siAt[p] = "sent" /\ siIn[p].kind = "logout"
  BY DEF HandlePostLogout
<1>2. siIn[p].set \in SiSets
  BY <1>1 DEF SiTypes, SiRequest, SiFlight
<1>3. /\ set \in SiSets /\ set.session = SiNone /\ set.nonce = SiNone
      /\ set.state = siIn[p].set.state
  BY <1>2 DEF SiSets
<1>4. Answers(p, set, SiNone)
  BY DEF HandlePostLogout, Same
<1> HIDE DEF set
<1> QED BY <1>1, <1>3, <1>4, AnswersOne DEF SiFlight

\* Deliver gives browser b the cookies of the answer.
LEMMA DeliverMoves ==
    ASSUME SiTypes, NEW p \in SiRequests, Deliver(p)
    PROVE  LET b == siIn[p].b
               set == siIn[p].set
           IN /\ siAt[p] = "answered" /\ SiMoves(p, "done")
              /\ b \in Browsers /\ set \in SiSets /\ siIn[p].form \in SiForms \cup {SiNone}
              /\ jar' \in [Browsers -> SiJars]
              /\ \A c \in Browsers \ {b} : jar'[c] = jar[c]
              /\ jar'[b].session = IF set.session = SiKeep THEN jar[b].session ELSE set.session
              /\ jar'[b].state = IF set.state = SiKeep THEN jar[b].state ELSE set.state
              /\ jar'[b].nonce = IF set.nonce = SiKeep THEN jar[b].nonce ELSE set.nonce
<1> DEFINE b == siIn[p].b
           set == siIn[p].set
           new == [session |-> IF set.session = SiKeep THEN jar[b].session ELSE set.session,
                   state |-> IF set.state = SiKeep THEN jar[b].state ELSE set.state,
                   nonce |-> IF set.nonce = SiKeep THEN jar[b].nonce ELSE set.nonce]
<1>1. siAt[p] = "answered"
  BY DEF Deliver
<1>2. b \in Browsers /\ set \in SiSets /\ siIn[p].form \in SiForms \cup {SiNone}
  BY <1>1 DEF SiTypes, SiRequest, SiFlight
<1>3. jar[b] \in SiJars
  BY <1>2 DEF SiTypes
<1>4. new \in SiJars
  BY <1>2, <1>3 DEF SiJars, SiSets, Nonces
<1>5. jar' = [jar EXCEPT ![b] = new]
  BY DEF Deliver
<1>6. /\ new.session = IF set.session = SiKeep THEN jar[b].session ELSE set.session
      /\ new.state = IF set.state = SiKeep THEN jar[b].state ELSE set.state
      /\ new.nonce = IF set.nonce = SiKeep THEN jar[b].nonce ELSE set.nonce
  OBVIOUS
<1>7. SiMoves(p, "done")
  BY <1>1 DEF Deliver, SiMoves, SiTypes, SiTypeOK
<1> HIDE DEF new
<1>8. /\ jar' \in [Browsers -> SiJars] /\ jar'[b] = new
      /\ \A c \in Browsers \ {b} : jar'[c] = jar[c]
  BY <1>2, <1>4, <1>5 DEF SiTypes
<1> QED BY <1>1, <1>2, <1>6, <1>7, <1>8

\* The nonce of one browser lapses, and nothing else happens.
LEMMA LapseMoves ==
    ASSUME SiTypes, NEW b \in Browsers, LoginNonceLapses(b)
    PROVE  /\ jar' \in [Browsers -> SiJars]
           /\ \A c \in Browsers \ {b} : jar'[c] = jar[c]
           /\ jar'[b].session = jar[b].session /\ jar'[b].state = jar[b].state
           /\ jar'[b].nonce = SiNone
           /\ upset' = upset \cup {b}
           /\ UNCHANGED <<siClock, siAt, siIn, flows, codes, forms, siStatus, siFormer, siSeen>>
<1> DEFINE new == [jar[b] EXCEPT !.nonce = SiNone]
<1>1. jar[b] \in SiJars
  BY DEF SiTypes
<1>2. /\ new \in SiJars /\ new.session = jar[b].session /\ new.state = jar[b].state
      /\ new.nonce = SiNone
  BY <1>1 DEF SiJars, Nonces
<1>3. jar' = [jar EXCEPT ![b] = new]
  BY DEF LoginNonceLapses
<1> HIDE DEF new
<1>4. /\ jar' \in [Browsers -> SiJars] /\ jar'[b] = new
      /\ \A c \in Browsers \ {b} : jar'[c] = jar[c]
  BY <1>2, <1>3 DEF SiTypes
<1> QED BY <1>2, <1>4 DEF LoginNonceLapses

\* ExchangeCode: the code it redeems is one the upstream issued for what the callback
\* names, and the codes stay as they are but for their use.
LEMMA ExchangedCode ==
    ASSUME SiInv, NEW p \in SiRequests, NEW fails \in BOOLEAN, ExchangeCode(p, fails)
    PROVE  LET c == CHOOSE x \in codes : x.flow = siIn[p].with.flow /\ x.user = siIn[p].with.user
           IN /\ c \in codes /\ c.flow = siIn[p].with.flow
              /\ codes' \subseteq [flow : SiRequests, user : SiUsers, used : BOOLEAN]
              /\ \A x \in codes : \E y \in codes' : y.flow = x.flow /\ y.user = x.user
<1> DEFINE c == CHOOSE x \in codes : x.flow = siIn[p].with.flow /\ x.user = siIn[p].with.user
           d == [c EXCEPT !.used = TRUE]
<1>1. siAt[p] = "exchange" /\ siIn[p].kind = "callback"
  BY DEF ExchangeCode, SiInv, SiPhase
<1>2. \E x \in codes : x.flow = siIn[p].with.flow /\ x.user = siIn[p].with.user
  BY <1>1 DEF SiInv, SiFlowsOwn, SiFlight
<1>3. c \in codes /\ c.flow = siIn[p].with.flow
  BY <1>2
<1>4. codes' = codes \/ codes' = (codes \ {c}) \cup {d}
  BY DEF ExchangeCode
<1> HIDE DEF c
<1>5. c \in [flow : SiRequests, user : SiUsers, used : BOOLEAN]
  BY <1>3 DEF SiInv, SiTypes, SiTypeOK
<1>6. /\ d \in [flow : SiRequests, user : SiUsers, used : BOOLEAN]
      /\ d.flow = c.flow /\ d.user = c.user
  BY <1>5
<1> HIDE DEF d
<1>7. codes' \subseteq [flow : SiRequests, user : SiUsers, used : BOOLEAN]
  BY <1>4, <1>6 DEF SiInv, SiTypes, SiTypeOK
<1>8. \A x \in codes : \E y \in codes' : y.flow = x.flow /\ y.user = x.user
  BY <1>4, <1>6
<1> QED BY <1>3, <1>7, <1>8 DEF c

\* The types.
LEMMA SiTypesStep ==
    ASSUME SiInv, [SiNext]_siVars
    PROVE  SiTypes'
<1>1. ASSUME NEW p \in SiRequests, NEW b \in Browsers, Browse(p, b) PROVE SiTypes'
  <2>1. UNCHANGED <<siClock, jar, flows, codes, forms, siStatus, siFormer, siSeen, upset>>
    BY <1>1 DEF Browse
  <2>2. SiArrival(p, b)
    BY <1>1, BrowseSends DEF SiInv
  <2> QED BY <2>1, <2>2 DEF SiInv, SiTypes, SiTypeOK, SiFlight, SiArrival, SiMoves
<1>2. ASSUME NEW p \in SiRequests, NEW row, Wrap(p, row) PROVE SiTypes'
  <2>1. UNCHANGED <<siClock, jar, flows, codes, forms, siStatus, siFormer, upset>>
    BY <1>2 DEF Wrap
  <2>2. \E session \in {SiNone, SiKeep} :
               SiAnswer(p, session, siIn[p].set.state, SiKeep, SiNone)
    BY <1>2, WrapAnswers DEF SiInv
  <2> QED BY <2>1, <2>2 DEF SiInv, SiTypes, SiTypeOK, SiFlight, SiAnswer, SiMoves
<1>3. ASSUME NEW p \in SiRequests, NEW fails \in BOOLEAN, HandleOIDCStart(p, fails) PROVE SiTypes'
  <2>1. UNCHANGED <<siClock, jar, codes, forms, siStatus, siFormer, siSeen, upset>>
    BY <1>3 DEF HandleOIDCStart
  <2>2. SiAnswer(p, SiKeep, p, SiKeep, SiNone)
    BY <1>3, StartAnswers DEF SiInv
  <2>3. flows' \in [SiRequests -> [by : Browsers \cup {SiNone}, at : 0 .. SiLast, plain : BOOLEAN]]
    <3>1. siAt[p] = "sent" /\ siIn[p].kind = "start"
      BY <1>3 DEF HandleOIDCStart
    <3>2. siIn[p].b \in Browsers /\ siIn[p].with \in BOOLEAN
      BY <3>1 DEF SiInv, SiTypes, SiRequest, SiFlight
    <3> DEFINE row == [by |-> siIn[p].b, at |-> siClock, plain |-> siIn[p].with]
    <3>3. row \in [by : Browsers \cup {SiNone}, at : 0 .. SiLast, plain : BOOLEAN]
      BY <3>2 DEF SiInv, SiTypes, SiTypeOK
    <3>4. flows' = flows \/ flows' = [flows EXCEPT ![p] = row]
      BY <1>3 DEF HandleOIDCStart
    <3> HIDE DEF row
    <3> QED BY <3>3, <3>4 DEF SiInv, SiTypes, SiTypeOK
  <2> QED BY <2>1, <2>2, <2>3 DEF SiInv, SiTypes, SiTypeOK, SiFlight, SiAnswer, SiMoves
<1>4. ASSUME NEW p \in SiRequests, NEW fails \in BOOLEAN, ExchangeCode(p, fails) PROVE SiTypes'
  <2>1. UNCHANGED <<siClock, jar, flows, forms, siStatus, siFormer, siSeen, upset>>
    BY <1>4 DEF ExchangeCode
  <2>2. \/ SiAnswer(p, SiKeep, siIn[p].set.state, SiKeep, SiNone)
        \/ SiMoves(p, "user") /\ siIn' = siIn /\ siAt[p] = "exchange"
    BY <1>4, ExchangeMoves DEF SiInv
  <2>3. codes' \subseteq [flow : SiRequests, user : SiUsers, used : BOOLEAN]
    BY <1>4, ExchangedCode DEF SiInv, SiTypes, SiTypeOK
  <2> QED BY <2>1, <2>2, <2>3 DEF SiInv, SiTypes, SiTypeOK, SiFlight, SiAnswer, SiMoves
<1>5. ASSUME NEW p \in SiRequests, NEW fails \in BOOLEAN, FinishCallback(p, fails) PROVE SiTypes'
  <2>1. UNCHANGED <<siClock, jar, flows, codes, forms, siStatus, siFormer, siSeen, upset>>
    BY <1>5 DEF FinishCallback
  <2>2. \E session : /\ session # SiKeep => SiOpenedIn(session, siIn[p].b)
                     /\ SiAnswer(p, session, siIn[p].set.state, SiKeep, SiNone)
    BY <1>5, FinishAnswers DEF SiInv
  <2> QED BY <2>1, <2>2 DEF SiInv, SiTypes, SiTypeOK, SiFlight, SiAnswer, SiMoves
<1>6. ASSUME NEW p \in SiRequests, NEW fails \in BOOLEAN, HandlePostLogin(p, fails) PROVE SiTypes'
  <2>1. UNCHANGED <<siClock, jar, flows, codes, forms, siStatus, siFormer, siSeen, upset>>
    BY <1>6 DEF HandlePostLogin
  <2>2. \/ SiPage(p)
        \/ \E session : /\ SiOpenedIn(session, siIn[p].b)
                        /\ SiAnswer(p, session, siIn[p].set.state, SiKeep, SiNone)
    BY <1>6, PostAnswers DEF SiInv
  <2> QED BY <2>1, <2>2 DEF SiInv, SiTypes, SiTypeOK, SiFlight, SiAnswer, SiMoves, SiPage
<1>7. ASSUME NEW p \in SiRequests, HandleOIDCCallback(p) PROVE SiTypes'
  <2>1. UNCHANGED <<siClock, jar, flows, codes, forms, siStatus, siFormer, siSeen, upset>>
    BY <1>7 DEF HandleOIDCCallback
  <2> QED BY <2>1, <1>7, CallbackMoves DEF SiInv, SiTypes, SiTypeOK, SiFlight, SiAnswer, SiMoves
<1>8. ASSUME NEW p \in SiRequests, HandleGetLogin(p) PROVE SiTypes'
  <2>1. UNCHANGED <<siClock, jar, flows, codes, forms, siStatus, siFormer, siSeen, upset>>
    BY <1>8 DEF HandleGetLogin
  <2>2. SiPage(p)
    BY <1>8, PageAnswers DEF SiInv, HandleGetLogin
  <2> QED BY <2>1, <2>2 DEF SiInv, SiTypes, SiTypeOK, SiFlight, SiAnswer, SiMoves, SiPage
<1>9. ASSUME NEW p \in SiRequests, HandlePostLogout(p) PROVE SiTypes'
  <2>1. UNCHANGED <<siClock, jar, flows, codes, forms, siStatus, siFormer, siSeen, upset>>
    BY <1>9 DEF HandlePostLogout
  <2>2. SiAnswer(p, SiNone, siIn[p].set.state, SiNone, SiNone) /\ siIn[p].kind = "logout"
    BY <1>9, LogoutAnswers DEF SiInv
  <2> QED BY <2>1, <2>2 DEF SiInv, SiTypes, SiTypeOK, SiFlight, SiAnswer, SiMoves
<1>10. ASSUME NEW p \in SiRequests, Deliver(p) PROVE SiTypes'
  <2>1. UNCHANGED <<siClock, flows, codes, siStatus, siFormer, siSeen>>
    BY <1>10 DEF Deliver
  <2>2. forms' \subseteq [nonce : SiRequests, by : Browsers]
    <3>1. siIn[p].form \in SiForms \cup {SiNone}
      BY <1>10, DeliverMoves DEF SiInv
    <3>2. forms' = IF siIn[p].form = SiNone THEN forms ELSE forms \cup {siIn[p].form}
      BY <1>10 DEF Deliver
    <3> QED BY <3>1, <3>2 DEF SiInv, SiTypes, SiTypeOK, SiForms
  <2>3. jar' \in [Browsers -> SiJars] /\ SiMoves(p, "done")
    BY <1>10, DeliverMoves DEF SiInv
  <2>4. \A b \in Browsers : /\ jar'[b].session \in SiSessions \cup {SiNone}
                            /\ jar'[b].state \in SiRequests \cup {SiNone}
                            /\ jar'[b].nonce \in Nonces
    BY <2>3 DEF SiJars
  <2> QED BY <2>1, <2>2, <2>3, <2>4 DEF SiInv, SiTypes, SiTypeOK, SiFlight, SiMoves
<1>11. ASSUME NEW p \in SiRequests, NEW u \in SiUsers, UpstreamCode(p, u) PROVE SiTypes'
  <2>1. UNCHANGED <<siClock, siAt, siIn, jar, flows, forms, siStatus, siFormer, siSeen, upset>>
    BY <1>11 DEF UpstreamCode
  <2>2. codes' \subseteq [flow : SiRequests, user : SiUsers, used : BOOLEAN]
    <3> DEFINE c == [flow |-> p, user |-> u, used |-> FALSE]
    <3>1. c \in [flow : SiRequests, user : SiUsers, used : BOOLEAN]
      OBVIOUS
    <3>2. codes' = codes \cup {c}
      BY <1>11 DEF UpstreamCode
    <3> HIDE DEF c
    <3> QED BY <3>1, <3>2 DEF SiInv, SiTypes, SiTypeOK
  <2> QED BY <2>1, <1>11, <2>2 DEF SiInv, SiTypes, SiTypeOK, SiFlight
<1>12. ASSUME NEW u \in SiUsers, NEW to \in SiStatuses, ChangeStatus(u, to) PROVE SiTypes'
  <2>1. UNCHANGED <<siClock, siAt, siIn, jar, flows, codes, forms, siSeen, upset>>
    BY <1>12 DEF ChangeStatus
  <2> QED BY <2>1, <1>12, <1>12 DEF SiInv, SiTypes, SiTypeOK, SiFlight, ChangeStatus
<1>13. ASSUME SiTick PROVE SiTypes'
  <2>1. UNCHANGED <<siAt, siIn, jar, flows, codes, forms, siStatus, siFormer, siSeen, upset>>
    BY <1>13 DEF SiTick
  <2>2. siClock' \in 0 .. SiLast
    BY <1>13, SiAssumption DEF SiTick, SiInv, SiTypes, SiTypeOK
  <2> QED BY <2>1, <1>13, <2>2 DEF SiInv, SiTypes, SiTypeOK, SiFlight
<1>15. ASSUME NEW b \in Browsers, LoginNonceLapses(b) PROVE SiTypes'
  BY <1>15, LapseMoves DEF SiInv, SiTypes, SiTypeOK, SiJars
<1>14. CASE UNCHANGED siVars
  BY <1>14 DEF siVars, SiInv, SiTypes, SiTypeOK
<1> QED BY <1>1, <1>2, <1>3, <1>4, <1>5, <1>6, <1>7, <1>8, <1>9, <1>10, <1>11, <1>12, <1>13,
       <1>14, <1>15
        DEF SiNext

\* What a request is doing.
LEMMA SiPhaseStep ==
    ASSUME SiInv, SiTypes', [SiNext]_siVars
    PROVE  SiPhase'
<1>1. ASSUME NEW p \in SiRequests, NEW b \in Browsers, Browse(p, b) PROVE SiPhase'
  <2>1. UNCHANGED <<siClock, jar, flows, codes, forms, siStatus, siFormer, siSeen, upset>>
    BY <1>1 DEF Browse
  <2>2. SiArrival(p, b)
    BY <1>1, BrowseSends DEF SiInv
  <2> QED BY <2>1, <2>2 DEF SiInv, SiPhase, SiTypes, SiTypeOK, SiFlight, SiArrival, SiMoves
<1>2. ASSUME NEW p \in SiRequests, NEW row, Wrap(p, row) PROVE SiPhase'
  <2>1. UNCHANGED <<siClock, jar, flows, codes, forms, siStatus, siFormer, upset>>
    BY <1>2 DEF Wrap
  <2>2. \E session \in {SiNone, SiKeep} :
               SiAnswer(p, session, siIn[p].set.state, SiKeep, SiNone)
    BY <1>2, WrapAnswers DEF SiInv
  <2> QED BY <2>1, <2>2 DEF SiInv, SiPhase, SiTypes, SiTypeOK, SiFlight, SiAnswer, SiMoves
<1>3. ASSUME NEW p \in SiRequests, NEW fails \in BOOLEAN, HandleOIDCStart(p, fails) PROVE SiPhase'
  <2>1. UNCHANGED <<siClock, jar, codes, forms, siStatus, siFormer, siSeen, upset>>
    BY <1>3 DEF HandleOIDCStart
  <2>2. SiAnswer(p, SiKeep, p, SiKeep, SiNone)
    BY <1>3, StartAnswers DEF SiInv
  <2> QED BY <2>1, <2>2 DEF SiInv, SiPhase, SiTypes, SiTypeOK, SiFlight, SiAnswer, SiMoves
<1>4. ASSUME NEW p \in SiRequests, NEW fails \in BOOLEAN, ExchangeCode(p, fails) PROVE SiPhase'
  <2>1. UNCHANGED <<siClock, jar, flows, forms, siStatus, siFormer, siSeen, upset>>
    BY <1>4 DEF ExchangeCode
  <2>2. \/ SiAnswer(p, SiKeep, siIn[p].set.state, SiKeep, SiNone)
        \/ SiMoves(p, "user") /\ siIn' = siIn /\ siAt[p] = "exchange"
    BY <1>4, ExchangeMoves DEF SiInv
  <2> QED BY <2>1, <2>2 DEF SiInv, SiPhase, SiTypes, SiTypeOK, SiFlight, SiAnswer, SiMoves
<1>5. ASSUME NEW p \in SiRequests, NEW fails \in BOOLEAN, FinishCallback(p, fails) PROVE SiPhase'
  <2>1. UNCHANGED <<siClock, jar, flows, codes, forms, siStatus, siFormer, siSeen, upset>>
    BY <1>5 DEF FinishCallback
  <2>2. \E session : /\ session # SiKeep => SiOpenedIn(session, siIn[p].b)
                     /\ SiAnswer(p, session, siIn[p].set.state, SiKeep, SiNone)
    BY <1>5, FinishAnswers DEF SiInv
  <2> QED BY <2>1, <2>2 DEF SiInv, SiPhase, SiTypes, SiTypeOK, SiFlight, SiAnswer, SiMoves
<1>6. ASSUME NEW p \in SiRequests, NEW fails \in BOOLEAN, HandlePostLogin(p, fails) PROVE SiPhase'
  <2>1. UNCHANGED <<siClock, jar, flows, codes, forms, siStatus, siFormer, siSeen, upset>>
    BY <1>6 DEF HandlePostLogin
  <2>2. \/ SiPage(p)
        \/ \E session : /\ SiOpenedIn(session, siIn[p].b)
                        /\ SiAnswer(p, session, siIn[p].set.state, SiKeep, SiNone)
    BY <1>6, PostAnswers DEF SiInv
  <2> QED BY <2>1, <2>2 DEF SiInv, SiPhase, SiTypes, SiTypeOK, SiFlight, SiAnswer, SiMoves, SiPage
<1>7. ASSUME NEW p \in SiRequests, HandleOIDCCallback(p) PROVE SiPhase'
  <2>1. UNCHANGED <<siClock, jar, flows, codes, forms, siStatus, siFormer, siSeen, upset>>
    BY <1>7 DEF HandleOIDCCallback
  <2> QED BY <2>1, <1>7, CallbackMoves
      DEF SiInv, SiPhase, SiTypes, SiTypeOK, SiFlight, SiAnswer, SiMoves
<1>8. ASSUME NEW p \in SiRequests, HandleGetLogin(p) PROVE SiPhase'
  <2>1. UNCHANGED <<siClock, jar, flows, codes, forms, siStatus, siFormer, siSeen, upset>>
    BY <1>8 DEF HandleGetLogin
  <2>2. SiPage(p)
    BY <1>8, PageAnswers DEF SiInv, HandleGetLogin
  <2> QED BY <2>1, <2>2 DEF SiInv, SiPhase, SiTypes, SiTypeOK, SiFlight, SiAnswer, SiMoves, SiPage
<1>9. ASSUME NEW p \in SiRequests, HandlePostLogout(p) PROVE SiPhase'
  <2>1. UNCHANGED <<siClock, jar, flows, codes, forms, siStatus, siFormer, siSeen, upset>>
    BY <1>9 DEF HandlePostLogout
  <2>2. SiAnswer(p, SiNone, siIn[p].set.state, SiNone, SiNone) /\ siIn[p].kind = "logout"
    BY <1>9, LogoutAnswers DEF SiInv
  <2> QED BY <2>1, <2>2 DEF SiInv, SiPhase, SiTypes, SiTypeOK, SiFlight, SiAnswer, SiMoves
<1>10. ASSUME NEW p \in SiRequests, Deliver(p) PROVE SiPhase'
  <2>1. UNCHANGED <<siClock, flows, codes, siStatus, siFormer, siSeen>>
    BY <1>10 DEF Deliver
  <2> QED BY <2>1, <1>10, DeliverMoves DEF SiInv, SiPhase, SiTypes, SiTypeOK, SiFlight, SiMoves
<1>11. ASSUME NEW p \in SiRequests, NEW u \in SiUsers, UpstreamCode(p, u) PROVE SiPhase'
  <2>1. UNCHANGED <<siClock, siAt, siIn, jar, flows, forms, siStatus, siFormer, siSeen, upset>>
    BY <1>11 DEF UpstreamCode
  <2> QED BY <2>1, <1>11 DEF SiInv, SiPhase, SiTypes, SiTypeOK, SiFlight
<1>12. ASSUME NEW u \in SiUsers, NEW to \in SiStatuses, ChangeStatus(u, to) PROVE SiPhase'
  <2>1. UNCHANGED <<siClock, siAt, siIn, jar, flows, codes, forms, siSeen, upset>>
    BY <1>12 DEF ChangeStatus
  <2> QED BY <2>1, <1>12 DEF SiInv, SiPhase, SiTypes, SiTypeOK, SiFlight
<1>13. ASSUME SiTick PROVE SiPhase'
  <2>1. UNCHANGED <<siAt, siIn, jar, flows, codes, forms, siStatus, siFormer, siSeen, upset>>
    BY <1>13 DEF SiTick
  <2> QED BY <2>1, <1>13 DEF SiInv, SiPhase, SiTypes, SiTypeOK, SiFlight
<1>15. ASSUME NEW b \in Browsers, LoginNonceLapses(b) PROVE SiPhase'
  BY <1>15, LapseMoves DEF SiInv, SiPhase, SiTypes
<1>14. CASE UNCHANGED siVars
  BY <1>14 DEF siVars, SiInv, SiPhase
<1> QED BY <1>1, <1>2, <1>3, <1>4, <1>5, <1>6, <1>7, <1>8, <1>9, <1>10, <1>11, <1>12, <1>13,
       <1>14, <1>15
        DEF SiNext

\* No session cookie reaches another browser than the one it was opened in.
LEMMA SiSessionsStep ==
    ASSUME SiInv, SiTypes', [SiNext]_siVars
    PROVE  SiSessionsOwn'
<1>1. ASSUME NEW p \in SiRequests, NEW b \in Browsers, Browse(p, b) PROVE SiSessionsOwn'
  <2>1. UNCHANGED <<siClock, jar, flows, codes, forms, siStatus, siFormer, siSeen, upset>>
    BY <1>1 DEF Browse
  <2>2. SiArrival(p, b)
    BY <1>1, BrowseSends DEF SiInv
  <2> QED BY <2>1, <2>2 DEF SiInv, SiSessionsOwn, SiFlight, SiArrival, SiMoves
<1>2. ASSUME NEW p \in SiRequests, NEW row, Wrap(p, row) PROVE SiSessionsOwn'
  <2>1. UNCHANGED <<siClock, jar, flows, codes, forms, siStatus, siFormer, upset>>
    BY <1>2 DEF Wrap
  <2>2. \E session \in {SiNone, SiKeep} :
               SiAnswer(p, session, siIn[p].set.state, SiKeep, SiNone)
    BY <1>2, WrapAnswers DEF SiInv
  <2> QED BY <2>1, <2>2
      DEF SiInv, SiSessionsOwn, SiPhase, SiTypes, SiTypeOK, SiFlight, SiAnswer, SiMoves
<1>3. ASSUME NEW p \in SiRequests, NEW fails \in BOOLEAN, HandleOIDCStart(p, fails)
      PROVE  SiSessionsOwn'
  <2>1. UNCHANGED <<siClock, jar, codes, forms, siStatus, siFormer, siSeen, upset>>
    BY <1>3 DEF HandleOIDCStart
  <2>2. SiAnswer(p, SiKeep, p, SiKeep, SiNone)
    BY <1>3, StartAnswers DEF SiInv
  <2> QED BY <2>1, <2>2
      DEF SiInv, SiSessionsOwn, SiPhase, SiTypes, SiTypeOK, SiFlight, SiAnswer, SiMoves
<1>4. ASSUME NEW p \in SiRequests, NEW fails \in BOOLEAN, ExchangeCode(p, fails)
      PROVE  SiSessionsOwn'
  <2>1. UNCHANGED <<siClock, jar, flows, forms, siStatus, siFormer, siSeen, upset>>
    BY <1>4 DEF ExchangeCode
  <2>2. \/ SiAnswer(p, SiKeep, siIn[p].set.state, SiKeep, SiNone)
        \/ SiMoves(p, "user") /\ siIn' = siIn /\ siAt[p] = "exchange"
    BY <1>4, ExchangeMoves DEF SiInv
  <2> QED BY <2>1, <2>2
      DEF SiInv, SiSessionsOwn, SiPhase, SiTypes, SiTypeOK, SiFlight, SiAnswer, SiMoves
<1>5. ASSUME NEW p \in SiRequests, NEW fails \in BOOLEAN, FinishCallback(p, fails)
      PROVE  SiSessionsOwn'
  <2>1. UNCHANGED <<siClock, jar, flows, codes, forms, siStatus, siFormer, siSeen, upset>>
    BY <1>5 DEF FinishCallback
  <2>2. \E session : /\ session # SiKeep => SiOpenedIn(session, siIn[p].b)
                     /\ SiAnswer(p, session, siIn[p].set.state, SiKeep, SiNone)
    BY <1>5, FinishAnswers DEF SiInv
  <2> QED BY <2>1, <2>2
      DEF SiInv, SiSessionsOwn, SiPhase, SiTypes, SiTypeOK, SiFlight, SiAnswer, SiMoves
<1>6. ASSUME NEW p \in SiRequests, NEW fails \in BOOLEAN, HandlePostLogin(p, fails)
      PROVE  SiSessionsOwn'
  <2>1. UNCHANGED <<siClock, jar, flows, codes, forms, siStatus, siFormer, siSeen, upset>>
    BY <1>6 DEF HandlePostLogin
  <2>2. \/ SiPage(p)
        \/ \E session : /\ SiOpenedIn(session, siIn[p].b)
                        /\ SiAnswer(p, session, siIn[p].set.state, SiKeep, SiNone)
    BY <1>6, PostAnswers DEF SiInv
  <2> QED BY <2>1, <2>2
      DEF SiInv, SiSessionsOwn, SiPhase, SiTypes, SiTypeOK, SiFlight, SiAnswer, SiMoves, SiPage
<1>7. ASSUME NEW p \in SiRequests, HandleOIDCCallback(p) PROVE SiSessionsOwn'
  <2>1. UNCHANGED <<siClock, jar, flows, codes, forms, siStatus, siFormer, siSeen, upset>>
    BY <1>7 DEF HandleOIDCCallback
  <2> QED BY <2>1, <1>7, CallbackMoves
      DEF SiInv, SiSessionsOwn, SiPhase, SiTypes, SiTypeOK, SiFlight, SiAnswer, SiMoves
<1>8. ASSUME NEW p \in SiRequests, HandleGetLogin(p) PROVE SiSessionsOwn'
  <2>1. UNCHANGED <<siClock, jar, flows, codes, forms, siStatus, siFormer, siSeen, upset>>
    BY <1>8 DEF HandleGetLogin
  <2>2. SiPage(p)
    BY <1>8, PageAnswers DEF SiInv, HandleGetLogin
  <2> QED BY <2>1, <2>2
      DEF SiInv, SiSessionsOwn, SiPhase, SiTypes, SiTypeOK, SiFlight, SiAnswer, SiMoves, SiPage
<1>9. ASSUME NEW p \in SiRequests, HandlePostLogout(p) PROVE SiSessionsOwn'
  <2>1. UNCHANGED <<siClock, jar, flows, codes, forms, siStatus, siFormer, siSeen, upset>>
    BY <1>9 DEF HandlePostLogout
  <2>2. SiAnswer(p, SiNone, siIn[p].set.state, SiNone, SiNone) /\ siIn[p].kind = "logout"
    BY <1>9, LogoutAnswers DEF SiInv
  <2> QED BY <2>1, <2>2
      DEF SiInv, SiSessionsOwn, SiPhase, SiTypes, SiTypeOK, SiFlight, SiAnswer, SiMoves
<1>10. ASSUME NEW p \in SiRequests, Deliver(p) PROVE SiSessionsOwn'
  <2>1. UNCHANGED <<siClock, flows, codes, siStatus, siFormer, siSeen>>
    BY <1>10 DEF Deliver
  <2> QED BY <2>1, <1>10, DeliverMoves DEF SiInv, SiSessionsOwn, SiTypes, SiFlight, SiMoves
<1>11. ASSUME NEW p \in SiRequests, NEW u \in SiUsers, UpstreamCode(p, u) PROVE SiSessionsOwn'
  <2>1. UNCHANGED <<siClock, siAt, siIn, jar, flows, forms, siStatus, siFormer, siSeen, upset>>
    BY <1>11 DEF UpstreamCode
  <2> QED BY <2>1, <1>11 DEF SiInv, SiSessionsOwn, SiPhase, SiTypes, SiTypeOK, SiFlight
<1>12. ASSUME NEW u \in SiUsers, NEW to \in SiStatuses, ChangeStatus(u, to) PROVE SiSessionsOwn'
  <2>1. UNCHANGED <<siClock, siAt, siIn, jar, flows, codes, forms, siSeen, upset>>
    BY <1>12 DEF ChangeStatus
  <2> QED BY <2>1, <1>12 DEF SiInv, SiSessionsOwn, SiPhase, SiTypes, SiTypeOK, SiFlight
<1>13. ASSUME SiTick PROVE SiSessionsOwn'
  <2>1. UNCHANGED <<siAt, siIn, jar, flows, codes, forms, siStatus, siFormer, siSeen, upset>>
    BY <1>13 DEF SiTick
  <2> QED BY <2>1, <1>13 DEF SiInv, SiSessionsOwn, SiPhase, SiTypes, SiTypeOK, SiFlight
<1>15. ASSUME NEW b \in Browsers, LoginNonceLapses(b) PROVE SiSessionsOwn'
  BY <1>15, LapseMoves DEF SiInv, SiSessionsOwn, SiTypes, SiFlight
<1>14. CASE UNCHANGED siVars
  BY <1>14 DEF siVars, SiInv, SiSessionsOwn, SiOpenedIn
<1> QED BY <1>1, <1>2, <1>3, <1>4, <1>5, <1>6, <1>7, <1>8, <1>9, <1>10, <1>11, <1>12, <1>13,
       <1>14, <1>15
        DEF SiNext

\* An answer that leaves the state cookie as the request had it keeps every state
\* cookie where it belongs.
LEMMA AnswerKeepsStates ==
    ASSUME SiInv, NEW p \in SiRequests, NEW session, NEW nonce, NEW form,
           SiAnswer(p, session, siIn[p].set.state, nonce, form), UNCHANGED <<jar, flows>>
    PROVE  SiStatesOwn'
<1>1. \A f \in SiRequests : siAt[f] \in SiAnswered => siAt'[f] \in SiAnswered
  BY DEF SiAnswer, SiMoves, SiAnswered
<1>2. \A f, b : SiStateOf(f, b) => SiStateOf(f, b)'
  BY <1>1 DEF SiStateOf
<1>3. \A f \in SiRequests : flows'[f].by # SiNone => siAt'[f] \in SiAnswered
  BY <1>1 DEF SiInv, SiStatesOwn
<1>4. \A b \in Browsers : SiStateOf(jar[b].state, b)'
  BY <1>2 DEF SiInv, SiStatesOwn
<1>5. ASSUME NEW q \in SiRequests, siAt'[q] \in SiFlight
      PROVE  SiStateOf(siIn[q].jar.state, siIn[q].b)' /\ SiStateOf(siIn[q].set.state, siIn[q].b)'
  <2>1. CASE q = p
    BY <2>1, <1>2 DEF SiInv, SiStatesOwn, SiAnswer, SiFlight
  <2>2. CASE q # p
    BY <2>2, <1>2, <1>5 DEF SiInv, SiStatesOwn, SiAnswer, SiMoves
  <2> QED BY <2>1, <2>2
<1> QED BY <1>3, <1>4, <1>5 DEF SiStatesOwn

\* An answer leaves the callbacks that are under way as they are: no flow that has
\* been started changes, and no code disappears.
LEMMA AnswerKeepsFlows ==
    ASSUME SiInv, NEW p \in SiRequests, NEW session, NEW state, NEW nonce, NEW form,
           SiAnswer(p, session, state, nonce, form),
           \A f \in SiRequests : flows[f].by # SiNone => flows'[f] = flows[f],
           \A x \in codes : \E y \in codes' : y.flow = x.flow /\ y.user = x.user
    PROVE  SiFlowsOwn'
<1> SUFFICES ASSUME NEW q \in SiRequests
             PROVE  /\ siAt'[q] \in SiFlight /\ siIn'[q].kind = "callback" =>
                          \E c \in codes' : c.flow = siIn'[q].with.flow
                                            /\ c.user = siIn'[q].with.user
                    /\ siAt'[q] \in {"exchange", "user"} =>
                          /\ flows'[siIn'[q].with.state].by # SiNone
                          /\ flows'[siIn'[q].with.state].by = siIn'[q].b
                    /\ siAt'[q] = "user" => siIn'[q].with.flow = siIn'[q].with.state
  BY DEF SiFlowsOwn
<1>1. CASE q = p
  <2>1. /\ siAt'[p] = "answered" /\ siAt[p] \in SiFlight
        /\ siIn'[p].kind = siIn[p].kind /\ siIn'[p].with = siIn[p].with
    BY DEF SiAnswer, SiMoves
  <2>2. ASSUME siIn[p].kind = "callback"
        PROVE  \E c \in codes' : c.flow = siIn[p].with.flow /\ c.user = siIn[p].with.user
    BY <2>1, <2>2 DEF SiInv, SiFlowsOwn
  <2> QED BY <1>1, <2>1, <2>2
<1>2. CASE q # p
  <2>1. siAt'[q] = siAt[q] /\ siIn'[q] = siIn[q]
    BY <1>2 DEF SiAnswer, SiMoves
  <2>2. ASSUME siAt[q] \in SiFlight, siIn[q].kind = "callback"
        PROVE  \E c \in codes' : c.flow = siIn[q].with.flow /\ c.user = siIn[q].with.user
    BY <2>2 DEF SiInv, SiFlowsOwn
  <2>3. ASSUME siAt[q] \in {"exchange", "user"}
        PROVE  /\ flows'[siIn[q].with.state].by # SiNone
               /\ flows'[siIn[q].with.state].by = siIn[q].b
    <3>1. siIn[q].with.state \in SiRequests
      BY <2>3 DEF SiInv, SiTypes, SiPhase, SiRequest, SiFlight
    <3> QED BY <2>3, <3>1 DEF SiInv, SiFlowsOwn
  <2> QED BY <2>1, <2>2, <2>3 DEF SiInv, SiFlowsOwn
<1> QED BY <1>1, <1>2

\* An answer without a nonce of its own keeps the nonces.
LEMMA AnswerKeepsNonces ==
    ASSUME SiInv, NEW p \in SiRequests, NEW session, NEW state,
           SiAnswer(p, session, state, SiKeep, SiNone), UNCHANGED <<jar, upset>>
    PROVE  SiNoncesKept'
<1> USE SiAssumption
<1> QED BY DEF SiInv, SiNoncesKept, SiAnswer, SiMoves

\* A page with the login form has a form that its nonce cookie goes with.
LEMMA PageKeepsNonces ==
    ASSUME SiInv, NEW p \in SiRequests, SiPage(p), siIn[p].kind # "logout",
           UNCHANGED <<jar, upset>>
    PROVE  SiNoncesKept'
<1>1. PICK nonce, form :
        /\ form \in SiForms /\ form.by = siIn[p].b
        /\ SiAnswer(p, SiKeep, siIn[p].set.state, nonce, form)
        /\ \/ nonce = p /\ form.nonce = p /\ siIn[p].jar.nonce \notin SiRequests
           \/ nonce = SiKeep /\ form.nonce = siIn[p].jar.nonce
  BY DEF SiPage
<1>2. /\ siIn'[p].set.nonce = nonce /\ siIn'[p].form = form /\ siIn'[p].b = siIn[p].b
      /\ siIn'[p].jar = siIn[p].jar /\ siIn'[p].kind = siIn[p].kind
      /\ siAt[p] \in SiFlight
      /\ \A q \in SiRequests \ {p} : siAt'[q] = siAt[q] /\ siIn'[q] = siIn[q]
  BY <1>1 DEF SiAnswer, SiMoves
<1>3. siIn[p].jar.nonce \in SiRequests =>
          siIn[p].b \in upset \/ jar[siIn[p].b].nonce = siIn[p].jar.nonce
  BY <1>2 DEF SiInv, SiNoncesKept
<1> QED BY <1>1, <1>2, <1>3, SiAssumption DEF SiInv, SiNoncesKept

\* A state cookie stays with the browser that started the flow.
LEMMA SiStatesStep ==
    ASSUME SiInv, SiTypes', [SiNext]_siVars
    PROVE  SiStatesOwn'
<1>1. ASSUME NEW p \in SiRequests, NEW b \in Browsers, Browse(p, b) PROVE SiStatesOwn'
  <2>1. UNCHANGED <<siClock, jar, flows, codes, forms, siStatus, siFormer, siSeen, upset>>
    BY <1>1 DEF Browse
  <2>2. SiArrival(p, b)
    BY <1>1, BrowseSends DEF SiInv
  <2>3. /\ siAt[p] = "idle" /\ siAt'[p] = "sent"
        /\ siIn'[p].b = b /\ siIn'[p].jar.state \in {jar[b].state, SiNone}
        /\ siIn'[p].set.state = SiKeep
        /\ \A q \in SiRequests \ {p} : siAt'[q] = siAt[q] /\ siIn'[q] = siIn[q]
    BY <2>2 DEF SiArrival, SiMoves
  <2>4. \A f, c : SiStateOf(f, c) => SiStateOf(f, c)'
    BY <2>1, <2>3 DEF SiStateOf, SiAnswered
  <2>5. \A f \in SiRequests : flows'[f].by # SiNone => siAt'[f] \in SiAnswered
    BY <2>1, <2>3 DEF SiInv, SiStatesOwn, SiAnswered
  <2>6. \A c \in Browsers : SiStateOf(jar[c].state, c)'
    BY <2>1, <2>4 DEF SiInv, SiStatesOwn
  <2>7. ASSUME NEW q \in SiRequests, siAt'[q] \in SiFlight
        PROVE  SiStateOf(siIn[q].jar.state, siIn[q].b)' /\ SiStateOf(siIn[q].set.state, siIn[q].b)'
    <3>1. CASE q = p
      BY <2>1, <2>3, <2>6, <3>1, SiAssumption DEF SiStateOf
    <3>2. CASE q # p
      BY <2>3, <2>4, <2>7, <3>2 DEF SiInv, SiStatesOwn
    <3> QED BY <3>1, <3>2
  <2> QED BY <2>5, <2>6, <2>7 DEF SiStatesOwn
<1>2. ASSUME NEW p \in SiRequests, NEW row, Wrap(p, row) PROVE SiStatesOwn'
  <2>1. UNCHANGED <<siClock, jar, flows, codes, forms, siStatus, siFormer, upset>>
    BY <1>2 DEF Wrap
  <2>2. \E session \in {SiNone, SiKeep} :
               SiAnswer(p, session, siIn[p].set.state, SiKeep, SiNone)
    BY <1>2, WrapAnswers DEF SiInv
  <2> QED BY <2>1, <2>2, AnswerKeepsStates
<1>3. ASSUME NEW p \in SiRequests, NEW fails \in BOOLEAN, HandleOIDCStart(p, fails)
      PROVE  SiStatesOwn'
  <2>1. UNCHANGED <<siClock, jar, codes, forms, siStatus, siFormer, siSeen, upset>>
    BY <1>3 DEF HandleOIDCStart
  <2>2. SiAnswer(p, SiKeep, p, SiKeep, SiNone)
    BY <1>3, StartAnswers DEF SiInv
  <2> QED BY <2>1, <2>2, <1>3, SiAssumption
      DEF SiInv, SiStatesOwn, SiStateOf, SiPhase, SiTypes, SiTypeOK, SiFlight, SiAnswered, SiAnswer,
          SiMoves, HandleOIDCStart
<1>4. ASSUME NEW p \in SiRequests, NEW fails \in BOOLEAN, ExchangeCode(p, fails) PROVE SiStatesOwn'
  <2>1. UNCHANGED <<siClock, jar, flows, forms, siStatus, siFormer, siSeen, upset>>
    BY <1>4 DEF ExchangeCode
  <2>2. \/ SiAnswer(p, SiKeep, siIn[p].set.state, SiKeep, SiNone)
        \/ SiMoves(p, "user") /\ siIn' = siIn /\ siAt[p] = "exchange"
    BY <1>4, ExchangeMoves DEF SiInv
  <2>3. CASE SiAnswer(p, SiKeep, siIn[p].set.state, SiKeep, SiNone)
    BY <2>1, <2>3, AnswerKeepsStates
  <2>4. CASE SiMoves(p, "user") /\ siIn' = siIn /\ siAt[p] = "exchange"
    <3>1. \A q \in SiRequests :
            /\ siAt'[q] \in SiAnswered <=> siAt[q] \in SiAnswered
            /\ siAt'[q] \in SiFlight <=> siAt[q] \in SiFlight
      BY <2>4 DEF SiMoves, SiAnswered, SiFlight
    <3>2. \A f, c : SiStateOf(f, c) => SiStateOf(f, c)'
      BY <2>1, <3>1 DEF SiStateOf
    <3> QED BY <2>1, <2>4, <3>1, <3>2 DEF SiInv, SiStatesOwn
  <2> QED BY <2>2, <2>3, <2>4
<1>5. ASSUME NEW p \in SiRequests, NEW fails \in BOOLEAN, FinishCallback(p, fails)
      PROVE  SiStatesOwn'
  <2>1. UNCHANGED <<siClock, jar, flows, codes, forms, siStatus, siFormer, siSeen, upset>>
    BY <1>5 DEF FinishCallback
  <2>2. \E session : /\ session # SiKeep => SiOpenedIn(session, siIn[p].b)
                     /\ SiAnswer(p, session, siIn[p].set.state, SiKeep, SiNone)
    BY <1>5, FinishAnswers DEF SiInv
  <2> QED BY <2>1, <2>2, AnswerKeepsStates
<1>6. ASSUME NEW p \in SiRequests, NEW fails \in BOOLEAN, HandlePostLogin(p, fails)
      PROVE  SiStatesOwn'
  <2>1. UNCHANGED <<siClock, jar, flows, codes, forms, siStatus, siFormer, siSeen, upset>>
    BY <1>6 DEF HandlePostLogin
  <2>2. \/ SiPage(p)
        \/ \E session : /\ SiOpenedIn(session, siIn[p].b)
                        /\ SiAnswer(p, session, siIn[p].set.state, SiKeep, SiNone)
    BY <1>6, PostAnswers DEF SiInv
  <2> QED BY <2>1, <2>2, AnswerKeepsStates DEF SiPage
<1>7. ASSUME NEW p \in SiRequests, HandleOIDCCallback(p) PROVE SiStatesOwn'
  <2>1. UNCHANGED <<jar, flows>>
    BY <1>7 DEF HandleOIDCCallback
  <2>2. CASE SiAnswer(p, SiKeep, siIn[p].set.state, SiKeep, SiNone)
    BY <2>1, <2>2, AnswerKeepsStates
  <2>3. CASE /\ SiMoves(p, "exchange") /\ siAt[p] = "sent"
             /\ siIn'[p].b = siIn[p].b /\ siIn'[p].jar = siIn[p].jar
             /\ siIn'[p].set.state = SiNone
    BY <2>1, <2>3, SiAssumption
       DEF SiInv, SiStatesOwn, SiStateOf, SiTypes, SiFlight, SiAnswered, SiMoves
  <2> QED BY <1>7, <2>2, <2>3, CallbackMoves DEF SiInv
<1>8. ASSUME NEW p \in SiRequests, HandleGetLogin(p) PROVE SiStatesOwn'
  <2>1. UNCHANGED <<siClock, jar, flows, codes, forms, siStatus, siFormer, siSeen, upset>>
    BY <1>8 DEF HandleGetLogin
  <2>2. SiPage(p)
    BY <1>8, PageAnswers DEF SiInv, HandleGetLogin
  <2> QED BY <2>1, <2>2, AnswerKeepsStates DEF SiPage
<1>9. ASSUME NEW p \in SiRequests, HandlePostLogout(p) PROVE SiStatesOwn'
  <2>1. UNCHANGED <<siClock, jar, flows, codes, forms, siStatus, siFormer, siSeen, upset>>
    BY <1>9 DEF HandlePostLogout
  <2>2. SiAnswer(p, SiNone, siIn[p].set.state, SiNone, SiNone) /\ siIn[p].kind = "logout"
    BY <1>9, LogoutAnswers DEF SiInv
  <2> QED BY <2>1, <2>2, AnswerKeepsStates
<1>10. ASSUME NEW p \in SiRequests, Deliver(p) PROVE SiStatesOwn'
  <2>1. UNCHANGED flows
    BY <1>10 DEF Deliver
  <2>2. /\ siAt[p] = "answered" /\ SiMoves(p, "done") /\ siIn[p].b \in Browsers
        /\ \A c \in Browsers \ {siIn[p].b} : jar'[c] = jar[c]
        /\ jar'[siIn[p].b].state = IF siIn[p].set.state = SiKeep THEN jar[siIn[p].b].state
                                   ELSE siIn[p].set.state
    BY <1>10, DeliverMoves DEF SiInv
  <2>3. \A f, b : SiStateOf(f, b) => SiStateOf(f, b)'
    BY <2>1, <2>2 DEF SiStateOf, SiMoves, SiAnswered
  <2>4. \A f \in SiRequests : flows'[f].by # SiNone => siAt'[f] \in SiAnswered
    BY <2>1, <2>2 DEF SiInv, SiStatesOwn, SiMoves, SiAnswered
  <2>5. ASSUME NEW b \in Browsers PROVE SiStateOf(jar[b].state, b)'
    <3>1. SiStateOf(siIn[p].set.state, siIn[p].b)
      BY <2>2 DEF SiInv, SiStatesOwn, SiFlight
    <3> QED BY <2>2, <2>3, <3>1 DEF SiInv, SiStatesOwn
  <2>6. ASSUME NEW q \in SiRequests, siAt'[q] \in SiFlight
        PROVE  /\ SiStateOf(siIn[q].jar.state, siIn[q].b)'
               /\ SiStateOf(siIn[q].set.state, siIn[q].b)'
    <3>1. q # p /\ siAt'[q] = siAt[q] /\ siIn'[q] = siIn[q]
      BY <2>2, <2>6 DEF SiMoves, SiFlight
    <3> QED BY <2>3, <2>6, <3>1 DEF SiInv, SiStatesOwn
  <2> QED BY <2>4, <2>5, <2>6 DEF SiStatesOwn
<1>11. ASSUME NEW p \in SiRequests, NEW u \in SiUsers, UpstreamCode(p, u) PROVE SiStatesOwn'
  <2>1. UNCHANGED <<siClock, siAt, siIn, jar, flows, forms, siStatus, siFormer, siSeen, upset>>
    BY <1>11 DEF UpstreamCode
  <2> QED BY <2>1, <1>11, SiAssumption
      DEF SiInv, SiStatesOwn, SiStateOf, SiPhase, SiTypes, SiTypeOK, SiFlight, SiAnswered
<1>12. ASSUME NEW u \in SiUsers, NEW to \in SiStatuses, ChangeStatus(u, to) PROVE SiStatesOwn'
  <2>1. UNCHANGED <<siClock, siAt, siIn, jar, flows, codes, forms, siSeen, upset>>
    BY <1>12 DEF ChangeStatus
  <2> QED BY <2>1, <1>12, SiAssumption
      DEF SiInv, SiStatesOwn, SiStateOf, SiPhase, SiTypes, SiTypeOK, SiFlight, SiAnswered
<1>13. ASSUME SiTick PROVE SiStatesOwn'
  <2>1. UNCHANGED <<siAt, siIn, jar, flows, codes, forms, siStatus, siFormer, siSeen, upset>>
    BY <1>13 DEF SiTick
  <2> QED BY <2>1, <1>13, SiAssumption
      DEF SiInv, SiStatesOwn, SiStateOf, SiPhase, SiTypes, SiTypeOK, SiFlight, SiAnswered
<1>15. ASSUME NEW b \in Browsers, LoginNonceLapses(b) PROVE SiStatesOwn'
  <2>1. /\ UNCHANGED <<siAt, siIn, flows>>
        /\ \A c \in Browsers : jar'[c].state = jar[c].state
    BY <1>15, LapseMoves DEF SiInv
  <2> QED BY <2>1 DEF SiInv, SiStatesOwn, SiStateOf
<1>14. CASE UNCHANGED siVars
  BY <1>14 DEF siVars, SiInv, SiStatesOwn, SiStateOf, SiFlight, SiAnswered
<1> QED BY <1>1, <1>2, <1>3, <1>4, <1>5, <1>6, <1>7, <1>8, <1>9, <1>10, <1>11, <1>12, <1>13,
       <1>14, <1>15
        DEF SiNext

\* A callback goes on only in the browser of its flow, and for its own code.
LEMMA SiFlowsStep ==
    ASSUME SiInv, SiTypes', [SiNext]_siVars
    PROVE  SiFlowsOwn'
<1>1. ASSUME NEW p \in SiRequests, NEW b \in Browsers, Browse(p, b) PROVE SiFlowsOwn'
  <2>1. UNCHANGED <<siClock, jar, flows, codes, forms, siStatus, siFormer, siSeen, upset>>
    BY <1>1 DEF Browse
  <2>2. SiArrival(p, b)
    BY <1>1, BrowseSends DEF SiInv
  <2> QED BY <2>1, <2>2 DEF SiInv, SiFlowsOwn, SiFlight, SiArrival, SiMoves
<1>2. ASSUME NEW p \in SiRequests, NEW row, Wrap(p, row) PROVE SiFlowsOwn'
  <2>1. UNCHANGED <<siClock, jar, flows, codes, forms, siStatus, siFormer, upset>>
    BY <1>2 DEF Wrap
  <2>2. \E session \in {SiNone, SiKeep} :
               SiAnswer(p, session, siIn[p].set.state, SiKeep, SiNone)
    BY <1>2, WrapAnswers DEF SiInv
  <2> QED BY <2>1, <2>2, AnswerKeepsFlows
<1>3. ASSUME NEW p \in SiRequests, NEW fails \in BOOLEAN, HandleOIDCStart(p, fails)
      PROVE  SiFlowsOwn'
  <2>1. UNCHANGED <<siClock, jar, codes, forms, siStatus, siFormer, siSeen, upset>>
    BY <1>3 DEF HandleOIDCStart
  <2>2. SiAnswer(p, SiKeep, p, SiKeep, SiNone)
    BY <1>3, StartAnswers DEF SiInv
  <2>3. \A f \in SiRequests : flows[f].by # SiNone => flows'[f] = flows[f]
    BY <1>3 DEF HandleOIDCStart, SiInv, SiStatesOwn, SiAnswered, SiTypes, SiTypeOK
  <2> QED BY <2>1, <2>2, <2>3, AnswerKeepsFlows
<1>4. ASSUME NEW p \in SiRequests, NEW fails \in BOOLEAN, ExchangeCode(p, fails) PROVE SiFlowsOwn'
  <2>1. UNCHANGED <<siClock, jar, flows, forms, siStatus, siFormer, siSeen, upset>>
    BY <1>4 DEF ExchangeCode
  <2>2. \/ SiAnswer(p, SiKeep, siIn[p].set.state, SiKeep, SiNone)
        \/ SiMoves(p, "user") /\ siIn' = siIn /\ siAt[p] = "exchange"
    BY <1>4, ExchangeMoves DEF SiInv
  <2>3. \A x \in codes : \E y \in codes' : y.flow = x.flow /\ y.user = x.user
    BY <1>4, ExchangedCode
  <2>4. CASE SiAnswer(p, SiKeep, siIn[p].set.state, SiKeep, SiNone)
    BY <2>1, <2>3, <2>4, AnswerKeepsFlows
  <2>5. CASE siIn' = siIn /\ SiMoves(p, "user") /\ siAt[p] = "exchange"
    <3>1. siIn[p].with.flow = siIn[p].with.state
      <4>1. siAt'[p] # "answered"
        BY <2>5 DEF SiMoves
      <4> DEFINE c == CHOOSE x \in codes : x.flow = siIn[p].with.flow
                                           /\ x.user = siIn[p].with.user
      <4>2. VerifyIDToken(c, siIn[p].with.state)
        BY <1>4, <4>1 DEF ExchangeCode, Answers, SiInv, SiTypes, SiTypeOK
      <4>3. c.flow = siIn[p].with.flow
        BY <1>4, ExchangedCode
      <4> HIDE DEF c
      <4> QED BY <4>2, <4>3 DEF VerifyIDToken
    <3>2. ASSUME NEW q \in SiRequests, siAt[q] \in SiFlight, siIn[q].kind = "callback"
          PROVE  \E y \in codes' : y.flow = siIn[q].with.flow /\ y.user = siIn[q].with.user
      BY <2>3, <3>2 DEF SiInv, SiFlowsOwn
    <3>3. \A q \in SiRequests : siAt'[q] \in SiFlight => siAt[q] \in SiFlight
      BY <2>5 DEF SiMoves, SiFlight
    <3>4. \A q \in SiRequests : siAt'[q] \in {"exchange", "user"} => siAt[q] \in {"exchange", "user"}
      BY <2>5 DEF SiMoves
    <3>5. \A q \in SiRequests : siAt'[q] = "user" => q = p \/ siAt[q] = "user"
      BY <2>5 DEF SiMoves
    <3> QED BY <2>1, <2>5, <3>1, <3>2, <3>3, <3>4, <3>5 DEF SiInv, SiFlowsOwn
  <2> QED BY <2>2, <2>4, <2>5
<1>5. ASSUME NEW p \in SiRequests, NEW fails \in BOOLEAN, FinishCallback(p, fails) PROVE SiFlowsOwn'
  <2>1. UNCHANGED <<siClock, jar, flows, codes, forms, siStatus, siFormer, siSeen, upset>>
    BY <1>5 DEF FinishCallback
  <2>2. \E session : /\ session # SiKeep => SiOpenedIn(session, siIn[p].b)
                     /\ SiAnswer(p, session, siIn[p].set.state, SiKeep, SiNone)
    BY <1>5, FinishAnswers DEF SiInv
  <2> QED BY <2>1, <2>2, AnswerKeepsFlows
<1>6. ASSUME NEW p \in SiRequests, NEW fails \in BOOLEAN, HandlePostLogin(p, fails)
      PROVE  SiFlowsOwn'
  <2>1. UNCHANGED <<siClock, jar, flows, codes, forms, siStatus, siFormer, siSeen, upset>>
    BY <1>6 DEF HandlePostLogin
  <2>2. \/ SiPage(p)
        \/ \E session : /\ SiOpenedIn(session, siIn[p].b)
                        /\ SiAnswer(p, session, siIn[p].set.state, SiKeep, SiNone)
    BY <1>6, PostAnswers DEF SiInv
  <2> QED BY <2>1, <2>2, AnswerKeepsFlows DEF SiPage
<1>7. ASSUME NEW p \in SiRequests, HandleOIDCCallback(p) PROVE SiFlowsOwn'
  <2>1. UNCHANGED <<flows, codes>>
    BY <1>7 DEF HandleOIDCCallback
  <2>2. CASE SiAnswer(p, SiKeep, siIn[p].set.state, SiKeep, SiNone)
    BY <2>1, <2>2, AnswerKeepsFlows
  <2>3. CASE /\ SiMoves(p, "exchange") /\ siAt[p] = "sent" /\ siIn[p].kind = "callback"
             /\ siIn'[p].kind = siIn[p].kind /\ siIn'[p].b = siIn[p].b
             /\ siIn'[p].with = siIn[p].with
             /\ Decode(siIn[p].with.state) /\ Pinned(p, siIn[p].with.state)
    <3>1. siIn[p].with.state \in SiRequests
      BY <2>3 DEF SiInv, SiTypes, SiRequest, SiFlight
    <3>2. flows[siIn[p].with.state].by # SiNone /\ flows[siIn[p].with.state].by = siIn[p].b
      BY <2>3, <3>1 DEF SiInv, SiStatesOwn, SiStateOf, Decode, Pinned, SiFlight
    <3>3. \E c \in codes : c.flow = siIn[p].with.flow /\ c.user = siIn[p].with.user
      BY <2>3 DEF SiInv, SiFlowsOwn, SiFlight
    <3> QED BY <2>1, <2>3, <3>2, <3>3 DEF SiInv, SiFlowsOwn, SiMoves
  <2> QED BY <1>7, <2>2, <2>3, CallbackMoves DEF SiInv
<1>8. ASSUME NEW p \in SiRequests, HandleGetLogin(p) PROVE SiFlowsOwn'
  <2>1. UNCHANGED <<siClock, jar, flows, codes, forms, siStatus, siFormer, siSeen, upset>>
    BY <1>8 DEF HandleGetLogin
  <2>2. SiPage(p)
    BY <1>8, PageAnswers DEF SiInv, HandleGetLogin
  <2> QED BY <2>1, <2>2, AnswerKeepsFlows DEF SiPage
<1>9. ASSUME NEW p \in SiRequests, HandlePostLogout(p) PROVE SiFlowsOwn'
  <2>1. UNCHANGED <<siClock, jar, flows, codes, forms, siStatus, siFormer, siSeen, upset>>
    BY <1>9 DEF HandlePostLogout
  <2>2. SiAnswer(p, SiNone, siIn[p].set.state, SiNone, SiNone) /\ siIn[p].kind = "logout"
    BY <1>9, LogoutAnswers DEF SiInv
  <2> QED BY <2>1, <2>2, AnswerKeepsFlows
<1>10. ASSUME NEW p \in SiRequests, Deliver(p) PROVE SiFlowsOwn'
  <2>1. UNCHANGED <<siClock, flows, codes, siStatus, siFormer, siSeen>>
    BY <1>10 DEF Deliver
  <2> QED BY <2>1, <1>10, DeliverMoves DEF SiInv, SiFlowsOwn, SiFlight, SiMoves
<1>11. ASSUME NEW p \in SiRequests, NEW u \in SiUsers, UpstreamCode(p, u) PROVE SiFlowsOwn'
  <2>1. UNCHANGED <<siAt, siIn, flows>> /\ codes \subseteq codes'
    BY <1>11 DEF UpstreamCode
  <2> QED BY <2>1 DEF SiInv, SiFlowsOwn
<1>12. ASSUME NEW u \in SiUsers, NEW to \in SiStatuses, ChangeStatus(u, to) PROVE SiFlowsOwn'
  <2>1. UNCHANGED <<siClock, siAt, siIn, jar, flows, codes, forms, siSeen, upset>>
    BY <1>12 DEF ChangeStatus
  <2> QED BY <2>1, <1>12 DEF SiInv, SiFlowsOwn, SiPhase, SiTypes, SiTypeOK, SiFlight, SiAnswered
<1>13. ASSUME SiTick PROVE SiFlowsOwn'
  <2>1. UNCHANGED <<siAt, siIn, jar, flows, codes, forms, siStatus, siFormer, siSeen, upset>>
    BY <1>13 DEF SiTick
  <2> QED BY <2>1, <1>13 DEF SiInv, SiFlowsOwn, SiPhase, SiTypes, SiTypeOK, SiFlight, SiAnswered
<1>15. ASSUME NEW b \in Browsers, LoginNonceLapses(b) PROVE SiFlowsOwn'
  BY <1>15, LapseMoves DEF SiInv, SiFlowsOwn, SiTypes, SiFlight
<1>14. CASE UNCHANGED siVars
  BY <1>14 DEF siVars, SiInv, SiFlowsOwn, SiFlight
<1> QED BY <1>1, <1>2, <1>3, <1>4, <1>5, <1>6, <1>7, <1>8, <1>9, <1>10, <1>11, <1>12, <1>13,
       <1>14, <1>15
        DEF SiNext

\* An answer keeps the nonce its form was made for.
LEMMA SiNoncesKeptStep ==
    ASSUME SiInv, SiTypes', [SiNext]_siVars
    PROVE  SiNoncesKept'
<1>1. ASSUME NEW p \in SiRequests, NEW b \in Browsers, Browse(p, b) PROVE SiNoncesKept'
  <2>1. UNCHANGED <<siClock, jar, flows, codes, forms, siStatus, siFormer, siSeen, upset>>
    BY <1>1 DEF Browse
  <2>2. SiArrival(p, b)
    BY <1>1, BrowseSends DEF SiInv
  <2> QED BY <2>1, <2>2, SiAssumption DEF SiInv, SiNoncesKept, SiFlight, SiArrival, SiMoves
<1>2. ASSUME NEW p \in SiRequests, NEW row, Wrap(p, row) PROVE SiNoncesKept'
  <2>1. UNCHANGED <<siClock, jar, flows, codes, forms, siStatus, siFormer, upset>>
    BY <1>2 DEF Wrap
  <2>2. \E session \in {SiNone, SiKeep} :
               SiAnswer(p, session, siIn[p].set.state, SiKeep, SiNone)
    BY <1>2, WrapAnswers DEF SiInv
  <2> QED BY <2>1, <2>2, SiAssumption
      DEF SiInv, SiNoncesKept, SiPhase, SiTypes, SiTypeOK, SiFlight, SiAnswered, SiAnswer, SiMoves
<1>3. ASSUME NEW p \in SiRequests, NEW fails \in BOOLEAN, HandleOIDCStart(p, fails)
      PROVE  SiNoncesKept'
  <2>1. UNCHANGED <<siClock, jar, codes, forms, siStatus, siFormer, siSeen, upset>>
    BY <1>3 DEF HandleOIDCStart
  <2>2. SiAnswer(p, SiKeep, p, SiKeep, SiNone)
    BY <1>3, StartAnswers DEF SiInv
  <2> QED BY <2>1, <2>2, SiAssumption
      DEF SiInv, SiNoncesKept, SiPhase, SiTypes, SiTypeOK, SiFlight, SiAnswered, SiAnswer, SiMoves
<1>4. ASSUME NEW p \in SiRequests, NEW fails \in BOOLEAN, ExchangeCode(p, fails) PROVE SiNoncesKept'
  <2>1. UNCHANGED <<siClock, jar, flows, forms, siStatus, siFormer, siSeen, upset>>
    BY <1>4 DEF ExchangeCode
  <2>2. \/ SiAnswer(p, SiKeep, siIn[p].set.state, SiKeep, SiNone)
        \/ SiMoves(p, "user") /\ siIn' = siIn /\ siAt[p] = "exchange"
    BY <1>4, ExchangeMoves DEF SiInv
  <2> QED BY <2>1, <2>2, SiAssumption
      DEF SiInv, SiNoncesKept, SiPhase, SiTypes, SiTypeOK, SiFlight, SiAnswered, SiAnswer, SiMoves
<1>5. ASSUME NEW p \in SiRequests, NEW fails \in BOOLEAN, FinishCallback(p, fails)
      PROVE  SiNoncesKept'
  <2>1. UNCHANGED <<siClock, jar, flows, codes, forms, siStatus, siFormer, siSeen, upset>>
    BY <1>5 DEF FinishCallback
  <2>2. \E session : /\ session # SiKeep => SiOpenedIn(session, siIn[p].b)
                     /\ SiAnswer(p, session, siIn[p].set.state, SiKeep, SiNone)
    BY <1>5, FinishAnswers DEF SiInv
  <2> QED BY <2>1, <2>2, SiAssumption
      DEF SiInv, SiNoncesKept, SiPhase, SiTypes, SiTypeOK, SiFlight, SiAnswered, SiAnswer, SiMoves
<1>6. ASSUME NEW p \in SiRequests, NEW fails \in BOOLEAN, HandlePostLogin(p, fails)
      PROVE  SiNoncesKept'
  <2>1. UNCHANGED <<siClock, jar, flows, codes, forms, siStatus, siFormer, siSeen, upset>>
    BY <1>6 DEF HandlePostLogin
  <2>2. \/ SiPage(p)
        \/ \E session : /\ SiOpenedIn(session, siIn[p].b)
                        /\ SiAnswer(p, session, siIn[p].set.state, SiKeep, SiNone)
    BY <1>6, PostAnswers DEF SiInv
  <2>3. siIn[p].kind # "logout"
    BY <1>6 DEF HandlePostLogin
  <2> QED BY <2>1, <2>2, <2>3, PageKeepsNonces, AnswerKeepsNonces
<1>7. ASSUME NEW p \in SiRequests, HandleOIDCCallback(p) PROVE SiNoncesKept'
  <2>1. UNCHANGED <<siClock, jar, flows, codes, forms, siStatus, siFormer, siSeen, upset>>
    BY <1>7 DEF HandleOIDCCallback
  <2>2. CASE SiAnswer(p, SiKeep, siIn[p].set.state, SiKeep, SiNone)
    BY <2>1, <2>2, AnswerKeepsNonces
  <2>3. CASE ~SiAnswer(p, SiKeep, siIn[p].set.state, SiKeep, SiNone)
    <3>1. /\ siAt[p] = "sent" /\ SiMoves(p, "exchange")
          /\ siIn'[p].b = siIn[p].b /\ siIn'[p].jar = siIn[p].jar
          /\ siIn'[p].set.nonce = SiKeep /\ siIn'[p].form = SiNone
      BY <1>7, <2>3, CallbackMoves DEF SiInv
    <3>2. siAt[p] \in SiFlight /\ \A q \in SiRequests \ {p} : siAt'[q] = siAt[q] /\ siIn'[q] = siIn[q]
      BY <3>1 DEF SiMoves, SiFlight
    <3> QED BY <2>1, <3>1, <3>2, SiAssumption DEF SiInv, SiNoncesKept
  <2> QED BY <2>2, <2>3
<1>8. ASSUME NEW p \in SiRequests, HandleGetLogin(p) PROVE SiNoncesKept'
  <2>1. UNCHANGED <<siClock, jar, flows, codes, forms, siStatus, siFormer, siSeen, upset>>
    BY <1>8 DEF HandleGetLogin
  <2>2. SiPage(p)
    BY <1>8, PageAnswers DEF SiInv, HandleGetLogin
  <2> QED BY <1>8, <2>1, <2>2, PageKeepsNonces DEF HandleGetLogin
<1>9. ASSUME NEW p \in SiRequests, HandlePostLogout(p) PROVE SiNoncesKept'
  <2>1. UNCHANGED <<siClock, jar, flows, codes, forms, siStatus, siFormer, siSeen, upset>>
    BY <1>9 DEF HandlePostLogout
  <2>2. SiAnswer(p, SiNone, siIn[p].set.state, SiNone, SiNone) /\ siIn[p].kind = "logout"
    BY <1>9, LogoutAnswers DEF SiInv
  <2> QED BY <2>1, <2>2, SiAssumption
      DEF SiInv, SiNoncesKept, SiPhase, SiTypes, SiTypeOK, SiFlight, SiAnswered, SiAnswer, SiMoves
<1>10. ASSUME NEW p \in SiRequests, Deliver(p) PROVE SiNoncesKept'
  <2> DEFINE b == siIn[p].b
  <2>1. /\ siAt[p] = "answered" /\ SiMoves(p, "done") /\ b \in Browsers
        /\ \A c \in Browsers \ {b} : jar'[c] = jar[c]
        /\ jar'[b].nonce = IF siIn[p].set.nonce = SiKeep THEN jar[b].nonce
                           ELSE siIn[p].set.nonce
        /\ siIn[p].set \in SiSets
    BY <1>10, DeliverMoves DEF SiInv
  <2>2. /\ upset \subseteq upset'
        /\ siIn[p].kind = "logout" => b \in upset'
        /\ siIn[p].set.nonce # SiKeep /\ jar[b].nonce \in SiRequests
              /\ siIn[p].jar.nonce \notin SiRequests => b \in upset'
    BY <1>10 DEF Deliver, ParseLoginNonce
  <2>3. jar'[b].nonce # jar[b].nonce /\ jar[b].nonce \in SiRequests => b \in upset'
    <3>1. SUFFICES ASSUME siIn[p].set.nonce # SiKeep, jar[b].nonce \in SiRequests
                   PROVE  b \in upset'
      BY <2>1
    <3>2. CASE siIn[p].set.nonce \in SiRequests
      BY <2>1, <2>2, <3>1, <3>2 DEF SiInv, SiNoncesKept, SiFlight
    <3>3. CASE siIn[p].set.nonce \notin SiRequests
      BY <2>1, <2>2, <3>1, <3>3 DEF SiInv, SiNoncesKept, SiFlight
    <3> QED BY <3>2, <3>3
  <2>4. ASSUME NEW q \in SiRequests, siAt'[q] \in SiFlight
        PROVE  /\ q # p /\ siAt[q] \in SiFlight /\ siIn'[q] = siIn[q]
               /\ siIn[q].jar.nonce \in SiRequests =>
                     siIn[q].b \in upset' \/ jar'[siIn[q].b].nonce = siIn[q].jar.nonce
    <3>1. q # p /\ siAt[q] \in SiFlight /\ siIn'[q] = siIn[q]
      BY <2>1, <2>4 DEF SiMoves, SiFlight
    <3>2. siIn[q].b \in Browsers
      BY <3>1 DEF SiInv, SiTypes, SiRequest
    <3>3. siIn[q].jar.nonce \in SiRequests =>
              siIn[q].b \in upset \/ jar[siIn[q].b].nonce = siIn[q].jar.nonce
      BY <3>1 DEF SiInv, SiNoncesKept
    <3> HIDE DEF b
    <3> QED BY <2>1, <2>2, <2>3, <3>1, <3>2, <3>3
  <2> QED BY <2>4 DEF SiInv, SiNoncesKept
<1>11. ASSUME NEW p \in SiRequests, NEW u \in SiUsers, UpstreamCode(p, u) PROVE SiNoncesKept'
  <2>1. UNCHANGED <<siClock, siAt, siIn, jar, flows, forms, siStatus, siFormer, siSeen, upset>>
    BY <1>11 DEF UpstreamCode
  <2> QED BY <2>1, <1>11, SiAssumption
      DEF SiInv, SiNoncesKept, SiPhase, SiTypes, SiTypeOK, SiFlight, SiAnswered
<1>12. ASSUME NEW u \in SiUsers, NEW to \in SiStatuses, ChangeStatus(u, to) PROVE SiNoncesKept'
  <2>1. UNCHANGED <<siClock, siAt, siIn, jar, flows, codes, forms, siSeen, upset>>
    BY <1>12 DEF ChangeStatus
  <2> QED BY <2>1, <1>12, SiAssumption
      DEF SiInv, SiNoncesKept, SiPhase, SiTypes, SiTypeOK, SiFlight, SiAnswered
<1>13. ASSUME SiTick PROVE SiNoncesKept'
  <2>1. UNCHANGED <<siAt, siIn, jar, flows, codes, forms, siStatus, siFormer, siSeen, upset>>
    BY <1>13 DEF SiTick
  <2> QED BY <2>1, <1>13, SiAssumption
      DEF SiInv, SiNoncesKept, SiPhase, SiTypes, SiTypeOK, SiFlight, SiAnswered
<1>15. ASSUME NEW b \in Browsers, LoginNonceLapses(b) PROVE SiNoncesKept'
  <2>1. /\ UNCHANGED <<siAt, siIn>> /\ upset' = upset \cup {b}
        /\ \A c \in Browsers \ {b} : jar'[c] = jar[c]
    BY <1>15, LapseMoves DEF SiInv
  <2>2. \A p \in SiRequests : siAt[p] \in SiFlight => siIn[p].b \in Browsers
    BY DEF SiInv, SiTypes, SiRequest
  <2> QED BY <2>1, <2>2 DEF SiInv, SiNoncesKept
<1>14. CASE UNCHANGED siVars
  BY <1>14 DEF siVars, SiInv, SiNoncesKept, SiFlight
<1> QED BY <1>1, <1>2, <1>3, <1>4, <1>5, <1>6, <1>7, <1>8, <1>9, <1>10, <1>11, <1>12, <1>13,
       <1>14, <1>15
        DEF SiNext

\* Forms stay good.
LEMMA SiFormsStep ==
    ASSUME SiInv, SiTypes', [SiNext]_siVars
    PROVE  FormsStayGood'
<1>1. ASSUME NEW p \in SiRequests, NEW b \in Browsers, Browse(p, b) PROVE FormsStayGood'
  BY <1>1 DEF SiInv, FormsStayGood, Browse
<1>2. ASSUME NEW p \in SiRequests, NEW row, Wrap(p, row) PROVE FormsStayGood'
  BY <1>2 DEF SiInv, FormsStayGood, Wrap
<1>3. ASSUME NEW p \in SiRequests, NEW fails \in BOOLEAN, HandleOIDCStart(p, fails)
      PROVE  FormsStayGood'
  BY <1>3 DEF SiInv, FormsStayGood, HandleOIDCStart
<1>4. ASSUME NEW p \in SiRequests, NEW fails \in BOOLEAN, ExchangeCode(p, fails)
      PROVE  FormsStayGood'
  BY <1>4 DEF SiInv, FormsStayGood, ExchangeCode
<1>5. ASSUME NEW p \in SiRequests, NEW fails \in BOOLEAN, FinishCallback(p, fails)
      PROVE  FormsStayGood'
  BY <1>5 DEF SiInv, FormsStayGood, FinishCallback
<1>6. ASSUME NEW p \in SiRequests, NEW fails \in BOOLEAN, HandlePostLogin(p, fails)
      PROVE  FormsStayGood'
  BY <1>6 DEF SiInv, FormsStayGood, HandlePostLogin
<1>7. ASSUME NEW p \in SiRequests, HandleOIDCCallback(p) PROVE FormsStayGood'
  BY <1>7 DEF SiInv, FormsStayGood, HandleOIDCCallback
<1>8. ASSUME NEW p \in SiRequests, HandleGetLogin(p) PROVE FormsStayGood'
  BY <1>8 DEF SiInv, FormsStayGood, HandleGetLogin
<1>9. ASSUME NEW p \in SiRequests, HandlePostLogout(p) PROVE FormsStayGood'
  BY <1>9 DEF SiInv, FormsStayGood, HandlePostLogout
<1>10. ASSUME NEW p \in SiRequests, Deliver(p) PROVE FormsStayGood'
  <2> DEFINE b == siIn[p].b
  <2>1. /\ siAt[p] = "answered" /\ SiMoves(p, "done") /\ b \in Browsers
        /\ \A c \in Browsers \ {b} : jar'[c] = jar[c]
        /\ jar'[b].nonce = IF siIn[p].set.nonce = SiKeep THEN jar[b].nonce
                           ELSE siIn[p].set.nonce
        /\ siIn[p].set \in SiSets
    BY <1>10, DeliverMoves DEF SiInv
  <2>2. /\ upset \subseteq upset'
        /\ siIn[p].kind = "logout" => b \in upset'
        /\ siIn[p].set.nonce # SiKeep /\ jar[b].nonce \in SiRequests
              /\ siIn[p].jar.nonce \notin SiRequests => b \in upset'
    BY <1>10 DEF Deliver, ParseLoginNonce
  <2>3. jar'[b].nonce # jar[b].nonce /\ jar[b].nonce \in SiRequests => b \in upset'
    <3>1. SUFFICES ASSUME siIn[p].set.nonce # SiKeep, jar[b].nonce \in SiRequests
                   PROVE  b \in upset'
      BY <2>1
    <3>2. CASE siIn[p].set.nonce \in SiRequests
      BY <2>1, <2>2, <3>1, <3>2 DEF SiInv, SiNoncesKept, SiFlight
    <3>3. CASE siIn[p].set.nonce \notin SiRequests
      BY <2>1, <2>2, <3>1, <3>3 DEF SiInv, SiNoncesKept, SiFlight
    <3> QED BY <3>2, <3>3
  <2>4. ASSUME NEW form \in forms PROVE form.by \in upset' \/ jar'[form.by].nonce = form.nonce
    <3>1. form.by \in Browsers /\ form.nonce \in SiRequests
      BY DEF SiInv, SiTypes, SiTypeOK
    <3>2. form.by \in upset \/ jar[form.by].nonce = form.nonce
      BY DEF SiInv, FormsStayGood
    <3> HIDE DEF b
    <3> QED BY <2>1, <2>2, <2>3, <3>1, <3>2
  <2>5. ASSUME siIn[p].form # SiNone
        PROVE  siIn[p].form.by \in upset' \/ jar'[siIn[p].form.by].nonce = siIn[p].form.nonce
    <3>1. /\ siIn[p].form.by = b
          /\ siIn[p].form.nonce = IF siIn[p].set.nonce = SiKeep THEN siIn[p].jar.nonce
                                  ELSE siIn[p].set.nonce
      BY <2>1, <2>5 DEF SiInv, SiNoncesKept, SiFlight
    <3>2. siIn[p].form.nonce \in SiRequests
      BY <2>1, <2>5 DEF SiInv, SiTypes, SiRequest, SiForms, SiFlight
    <3>3. siIn[p].set.nonce = SiKeep => b \in upset \/ jar[b].nonce = siIn[p].jar.nonce
      BY <2>1, <3>1, <3>2 DEF SiInv, SiNoncesKept, SiFlight
    <3> HIDE DEF b
    <3> QED BY <2>1, <2>2, <3>1, <3>3
  <2>6. forms' = IF siIn[p].form = SiNone THEN forms ELSE forms \cup {siIn[p].form}
    BY <1>10 DEF Deliver
  <2> QED BY <2>4, <2>5, <2>6 DEF FormsStayGood
<1>11. ASSUME NEW p \in SiRequests, NEW u \in SiUsers, UpstreamCode(p, u) PROVE FormsStayGood'
  BY <1>11 DEF SiInv, FormsStayGood, UpstreamCode
<1>12. ASSUME NEW u \in SiUsers, NEW to \in SiStatuses, ChangeStatus(u, to) PROVE FormsStayGood'
  BY <1>12 DEF SiInv, FormsStayGood, ChangeStatus
<1>13. ASSUME SiTick PROVE FormsStayGood'
  BY <1>13 DEF SiInv, FormsStayGood, SiTick
<1>15. ASSUME NEW b \in Browsers, LoginNonceLapses(b) PROVE FormsStayGood'
  <2>1. /\ UNCHANGED forms /\ upset' = upset \cup {b}
        /\ \A c \in Browsers \ {b} : jar'[c] = jar[c]
    BY <1>15, LapseMoves DEF SiInv
  <2>2. \A form \in forms : form.by \in Browsers
    BY DEF SiInv, SiTypes, SiTypeOK
  <2> QED BY <2>1, <2>2 DEF SiInv, FormsStayGood
<1>14. CASE UNCHANGED siVars
  BY <1>14 DEF siVars, SiInv, FormsStayGood
<1> QED BY <1>1, <1>2, <1>3, <1>4, <1>5, <1>6, <1>7, <1>8, <1>9, <1>10, <1>11, <1>12, <1>13,
       <1>14, <1>15
        DEF SiNext

\* Only Wrap admits, and only with standing.
LEMMA SiStandingStep ==
    ASSUME SiInv, SiTypes', [SiNext]_siVars
    PROVE  AdmittedHasStanding'
<1>1. ASSUME NEW p \in SiRequests, NEW b \in Browsers, Browse(p, b) PROVE AdmittedHasStanding'
  BY <1>1 DEF SiInv, AdmittedHasStanding, Browse
<1>2. ASSUME NEW p \in SiRequests, NEW row, Wrap(p, row) PROVE AdmittedHasStanding'
  <2> DEFINE c == siIn[p].jar.session
             s == [user |-> c.user, at |-> siClock, by |-> c.by, born |-> c.born, row |-> row,
                   status |-> siStatus[c.user]]
  <2>1. siAt[p] = "sent" /\ UNCHANGED siFormer
    BY <1>2 DEF Wrap
  <2>2. c # SiNone => c.exp = c.born + SessionMaxAge
    BY <2>1 DEF SiInv, SiSessionsOwn, SiOpenedIn, SiFlight
  <2>3. CASE siSeen' = siSeen
    BY <2>1, <2>3 DEF SiInv, AdmittedHasStanding
  <2>4. CASE /\ siSeen' = siSeen \cup {s} /\ ValidateCookie(c)
             /\ row = "active" \/ (row \in {"nil", "error"} /\ ~FailClosed)
    <3>1. s.at <= s.born + SessionMaxAge
      BY <2>2, <2>4 DEF ValidateCookie
    <3>2. ASSUME row = "active" PROVE row \in CachedRows(c.user)
      BY <1>2, <2>4, <3>2 DEF Wrap, ValidateCookie
    <3>3. s.row = row /\ s.user = c.user /\ s.at = siClock /\ s.status = siStatus[c.user]
      OBVIOUS
    <3> HIDE DEF s
    <3>4. ASSUME row = "active", s.status # "active"
          PROVE  \E o \in siFormer[s.user] : o.row = "active" /\ s.at <= o.until + UserCacheTTL
      BY <3>2, <3>3, <3>4 DEF CachedRows
    <3> QED BY <2>1, <2>4, <3>1, <3>3, <3>4 DEF SiInv, AdmittedHasStanding
  <2> QED BY <1>2, <2>3, <2>4 DEF Wrap
<1>3. ASSUME NEW p \in SiRequests, NEW fails \in BOOLEAN, HandleOIDCStart(p, fails)
      PROVE  AdmittedHasStanding'
  BY <1>3 DEF SiInv, AdmittedHasStanding, HandleOIDCStart
<1>4. ASSUME NEW p \in SiRequests, NEW fails \in BOOLEAN, ExchangeCode(p, fails)
      PROVE  AdmittedHasStanding'
  BY <1>4 DEF SiInv, AdmittedHasStanding, ExchangeCode
<1>5. ASSUME NEW p \in SiRequests, NEW fails \in BOOLEAN, FinishCallback(p, fails)
      PROVE  AdmittedHasStanding'
  BY <1>5 DEF SiInv, AdmittedHasStanding, FinishCallback
<1>6. ASSUME NEW p \in SiRequests, NEW fails \in BOOLEAN, HandlePostLogin(p, fails)
      PROVE  AdmittedHasStanding'
  BY <1>6 DEF SiInv, AdmittedHasStanding, HandlePostLogin
<1>7. ASSUME NEW p \in SiRequests, HandleOIDCCallback(p) PROVE AdmittedHasStanding'
  BY <1>7 DEF SiInv, AdmittedHasStanding, HandleOIDCCallback
<1>8. ASSUME NEW p \in SiRequests, HandleGetLogin(p) PROVE AdmittedHasStanding'
  BY <1>8 DEF SiInv, AdmittedHasStanding, HandleGetLogin
<1>9. ASSUME NEW p \in SiRequests, HandlePostLogout(p) PROVE AdmittedHasStanding'
  BY <1>9 DEF SiInv, AdmittedHasStanding, HandlePostLogout
<1>10. ASSUME NEW p \in SiRequests, Deliver(p) PROVE AdmittedHasStanding'
  BY <1>10 DEF SiInv, AdmittedHasStanding, Deliver
<1>11. ASSUME NEW p \in SiRequests, NEW u \in SiUsers, UpstreamCode(p, u) PROVE AdmittedHasStanding'
  BY <1>11 DEF SiInv, AdmittedHasStanding, UpstreamCode
<1>12. ASSUME NEW u \in SiUsers, NEW to \in SiStatuses, ChangeStatus(u, to)
       PROVE  AdmittedHasStanding'
  BY <1>12 DEF SiInv, AdmittedHasStanding, ChangeStatus
<1>13. ASSUME SiTick PROVE AdmittedHasStanding'
  BY <1>13 DEF SiInv, AdmittedHasStanding, SiTick
<1>15. ASSUME NEW b \in Browsers, LoginNonceLapses(b) PROVE AdmittedHasStanding'
  BY <1>15, LapseMoves DEF SiInv, AdmittedHasStanding, SiTypes, SiFlight
<1>14. CASE UNCHANGED siVars
  BY <1>14 DEF siVars, SiInv, AdmittedHasStanding
<1> QED BY <1>1, <1>2, <1>3, <1>4, <1>5, <1>6, <1>7, <1>8, <1>9, <1>10, <1>11, <1>12, <1>13,
       <1>14, <1>15
        DEF SiNext

SiOwners == [SiRequests -> Browsers \cup {SiNone}]

\* An answer without a nonce and without a form keeps every nonce with its browser.
LEMMA AnswerKeepsOwners ==
    ASSUME SiInv, NEW own \in SiOwners, SiOwned(own), NEW p \in SiRequests, NEW session,
           NEW state, NEW nonce, nonce \notin SiRequests,
           SiAnswer(p, session, state, nonce, SiNone), UNCHANGED <<jar, forms>>
    PROVE  SiNoncesOwn'
<1>1. \A n, b : SiNonceOf(own, n, b) => SiNonceOf(own, n, b)'
  BY DEF SiNonceOf, SiAnswer, SiMoves, SiAnswered
<1>2. ASSUME NEW q \in SiRequests, siAt'[q] \in SiFlight
      PROVE  /\ SiNonceOf(own, siIn[q].jar.nonce, siIn[q].b)'
             /\ SiNonceOf(own, siIn[q].set.nonce, siIn[q].b)'
             /\ siIn'[q].form # SiNone =>
                   SiNonceOf(own, siIn[q].form.nonce, siIn[q].form.by)'
             /\ siIn'[q].kind = "postLogin" =>
                   SiNonceOf(own, siIn[q].with.form.nonce, siIn[q].with.form.by)'
  <2>1. CASE q = p
    <3>1. /\ siAt[p] \in SiFlight /\ siIn'[p].jar = siIn[p].jar /\ siIn'[p].b = siIn[p].b
          /\ siIn'[p].set.nonce = nonce /\ siIn'[p].form = SiNone
          /\ siIn'[p].kind = siIn[p].kind /\ siIn'[p].with = siIn[p].with
      BY DEF SiAnswer
    <3>2. SiNonceOf(own, nonce, siIn[p].b)'
      BY DEF SiNonceOf
    <3>3. /\ SiNonceOf(own, siIn[p].jar.nonce, siIn[p].b)
          /\ siIn[p].kind = "postLogin" =>
                SiNonceOf(own, siIn[p].with.form.nonce, siIn[p].with.form.by)
      BY <3>1 DEF SiOwned
    <3> QED BY <2>1, <3>1, <3>2, <3>3, <1>1
  <2>2. CASE q # p
    <3>1. siAt[q] \in SiFlight /\ siIn'[q] = siIn[q]
      BY <1>2, <2>2 DEF SiAnswer, SiMoves
    <3> QED BY <3>1, <1>1 DEF SiOwned
  <2> QED BY <2>1, <2>2
<1>3. \A b \in Browsers : SiNonceOf(own, jar[b].nonce, b)'
  BY <1>1 DEF SiOwned
<1>4. \A f \in forms' : SiNonceOf(own, f.nonce, f.by)'
  BY <1>1 DEF SiOwned
<1>5. SiOwned(own)'
  BY <1>2, <1>3, <1>4 DEF SiOwned
<1> QED BY <1>5 DEF SiNoncesOwn, SiOwners

\* A page with the login form has a nonce of its browser: the one the browser brought,
\* or one that nobody has.
LEMMA PageKeepsOwners ==
    ASSUME SiInv, NEW own \in SiOwners, SiOwned(own), NEW p \in SiRequests,
           siAt[p] = "sent", SiPage(p), UNCHANGED <<jar, forms>>
    PROVE  SiNoncesOwn'
<1>1. PICK nonce, form :
        /\ form \in SiForms /\ form.by = siIn[p].b
        /\ SiAnswer(p, SiKeep, siIn[p].set.state, nonce, form)
        /\ \/ nonce = p /\ form.nonce = p /\ siIn[p].jar.nonce \notin SiRequests
           \/ nonce = SiKeep /\ form.nonce = siIn[p].jar.nonce
  BY DEF SiPage
<1>2. siIn[p].b \in Browsers
  BY DEF SiInv, SiTypes, SiRequest, SiFlight
<1>3. PICK new \in SiOwners : /\ nonce = p => new[p] = siIn[p].b
                              /\ nonce # p => new = own
                              /\ \A q \in SiRequests \ {p} : new[q] = own[q]
  <2>1. /\ [own EXCEPT ![p] = siIn[p].b] \in SiOwners
        /\ [own EXCEPT ![p] = siIn[p].b][p] = siIn[p].b
        /\ \A q \in SiRequests \ {p} : [own EXCEPT ![p] = siIn[p].b][q] = own[q]
    BY <1>2 DEF SiOwners
  <2> QED BY <2>1
<1>4. siAt'[p] = "answered" /\ \A q \in SiRequests \ {p} : siAt'[q] = siAt[q]
  BY <1>1 DEF SiAnswer, SiMoves
<1>5. \A n, b : SiNonceOf(own, n, b) => SiNonceOf(new, n, b)'
  BY <1>3, <1>4 DEF SiNonceOf, SiAnswered
<1>6. /\ SiNonceOf(own, siIn[p].jar.nonce, siIn[p].b)
      /\ siIn[p].kind = "postLogin" =>
            SiNonceOf(own, siIn[p].with.form.nonce, siIn[p].with.form.by)
  BY DEF SiOwned, SiFlight
<1>7. SiNonceOf(new, nonce, siIn[p].b)' /\ SiNonceOf(new, form.nonce, form.by)'
  <2>1. CASE nonce = p /\ form.nonce = p
    <3>1. siIn'[p].b = siIn[p].b
      BY <1>1 DEF SiAnswer
    <3> QED BY <1>1, <1>3, <1>4, <2>1, <3>1 DEF SiNonceOf, SiAnswered
  <2>2. CASE nonce = SiKeep /\ form.nonce = siIn[p].jar.nonce
    <3>1. SiNonceOf(new, nonce, siIn[p].b)'
      BY <2>2, SiAssumption DEF SiNonceOf
    <3> QED BY <1>1, <1>5, <1>6, <2>2, <3>1
  <2> QED BY <1>1, <2>1, <2>2
<1>8. ASSUME NEW q \in SiRequests, siAt'[q] \in SiFlight
      PROVE  /\ SiNonceOf(new, siIn[q].jar.nonce, siIn[q].b)'
             /\ SiNonceOf(new, siIn[q].set.nonce, siIn[q].b)'
             /\ siIn'[q].form # SiNone =>
                   SiNonceOf(new, siIn[q].form.nonce, siIn[q].form.by)'
             /\ siIn'[q].kind = "postLogin" =>
                   SiNonceOf(new, siIn[q].with.form.nonce, siIn[q].with.form.by)'
  <2>1. CASE q = p
    <3>1. /\ siIn'[p].jar = siIn[p].jar /\ siIn'[p].b = siIn[p].b
          /\ siIn'[p].set.nonce = nonce /\ siIn'[p].form = form
          /\ siIn'[p].kind = siIn[p].kind /\ siIn'[p].with = siIn[p].with
      BY <1>1 DEF SiAnswer
    <3> QED BY <2>1, <3>1, <1>5, <1>6, <1>7
  <2>2. CASE q # p
    <3>1. siAt[q] \in SiFlight /\ siIn'[q] = siIn[q]
      BY <1>1, <1>8, <2>2 DEF SiAnswer, SiMoves
    <3> QED BY <3>1, <1>5 DEF SiOwned
  <2> QED BY <2>1, <2>2
<1>9. \A b \in Browsers : SiNonceOf(new, jar[b].nonce, b)'
  BY <1>5 DEF SiOwned
<1>10. \A f \in forms' : SiNonceOf(new, f.nonce, f.by)'
  BY <1>5 DEF SiOwned
<1>11. SiOwned(new)'
  BY <1>8, <1>9, <1>10 DEF SiOwned
<1> QED BY <1>3, <1>11 DEF SiNoncesOwn, SiOwners

\* A login nonce stays with one browser.
LEMMA SiOwnersStep ==
    ASSUME SiInv, SiTypes', [SiNext]_siVars
    PROVE  SiNoncesOwn'
<1>1. ASSUME NEW p \in SiRequests, NEW b \in Browsers, Browse(p, b) PROVE SiNoncesOwn'
  <2>0. PICK own \in SiOwners : SiOwned(own)
    BY DEF SiInv, SiNoncesOwn, SiOwners
  <2>1. UNCHANGED <<siClock, jar, flows, codes, forms, siStatus, siFormer, siSeen, upset>>
    BY <1>1 DEF Browse
  <2>2. SiArrival(p, b)
    BY <1>1, BrowseSends DEF SiInv
  <2>3. \A n, c : SiNonceOf(own, n, c) => SiNonceOf(own, n, c)'
    BY <2>2 DEF SiNonceOf, SiArrival, SiMoves, SiAnswered
  <2>4. ASSUME NEW q \in SiRequests, siAt'[q] \in SiFlight
        PROVE  /\ SiNonceOf(own, siIn[q].jar.nonce, siIn[q].b)'
               /\ SiNonceOf(own, siIn[q].set.nonce, siIn[q].b)'
               /\ siIn'[q].form # SiNone =>
                     SiNonceOf(own, siIn[q].form.nonce, siIn[q].form.by)'
               /\ siIn'[q].kind = "postLogin" =>
                     SiNonceOf(own, siIn[q].with.form.nonce, siIn[q].with.form.by)'
    <3>1. CASE q = p
      <4>1. SiNonceOf(own, SiKeep, b)' /\ SiNonceOf(own, SiNone, b)'
        BY SiAssumption DEF SiNonceOf
      <4> QED BY <1>1, <2>0, <2>2, <2>3, <3>1, <4>1 DEF SiArrival, SiOwned
    <3>2. CASE q # p
      <4>1. siAt[q] \in SiFlight /\ siIn'[q] = siIn[q]
        BY <2>2, <2>4, <3>2 DEF SiArrival, SiMoves
      <4> QED BY <4>1, <2>0, <2>3 DEF SiOwned
    <3> QED BY <3>1, <3>2
  <2>5. \A c \in Browsers : SiNonceOf(own, jar[c].nonce, c)'
    BY <2>0, <2>1, <2>3 DEF SiOwned
  <2>6. \A f \in forms' : SiNonceOf(own, f.nonce, f.by)'
    BY <2>0, <2>1, <2>3 DEF SiOwned
  <2>7. SiOwned(own)'
    BY <2>4, <2>5, <2>6 DEF SiOwned
  <2> QED BY <2>0, <2>7 DEF SiNoncesOwn, SiOwners
<1>2. ASSUME NEW p \in SiRequests, NEW row, Wrap(p, row) PROVE SiNoncesOwn'
  <2>0. PICK own \in SiOwners : SiOwned(own)
    BY DEF SiInv, SiNoncesOwn, SiOwners
  <2>1. UNCHANGED <<siClock, jar, flows, codes, forms, siStatus, siFormer, upset>>
    BY <1>2 DEF Wrap
  <2>2. \E session \in {SiNone, SiKeep} :
               SiAnswer(p, session, siIn[p].set.state, SiKeep, SiNone)
    BY <1>2, WrapAnswers DEF SiInv
  <2> QED BY <2>0, <2>1, <2>2, AnswerKeepsOwners, SiAssumption
<1>3. ASSUME NEW p \in SiRequests, NEW fails \in BOOLEAN, HandleOIDCStart(p, fails)
      PROVE  SiNoncesOwn'
  <2>0. PICK own \in SiOwners : SiOwned(own)
    BY DEF SiInv, SiNoncesOwn, SiOwners
  <2>1. UNCHANGED <<siClock, jar, codes, forms, siStatus, siFormer, siSeen, upset>>
    BY <1>3 DEF HandleOIDCStart
  <2>2. SiAnswer(p, SiKeep, p, SiKeep, SiNone)
    BY <1>3, StartAnswers DEF SiInv
  <2> QED BY <2>0, <2>1, <2>2, AnswerKeepsOwners, SiAssumption
<1>4. ASSUME NEW p \in SiRequests, NEW fails \in BOOLEAN, ExchangeCode(p, fails) PROVE SiNoncesOwn'
  <2>0. PICK own \in SiOwners : SiOwned(own)
    BY DEF SiInv, SiNoncesOwn, SiOwners
  <2>1. UNCHANGED <<siClock, jar, flows, forms, siStatus, siFormer, siSeen, upset>>
    BY <1>4 DEF ExchangeCode
  <2>2. \/ SiAnswer(p, SiKeep, siIn[p].set.state, SiKeep, SiNone)
        \/ SiMoves(p, "user") /\ siIn' = siIn /\ siAt[p] = "exchange"
    BY <1>4, ExchangeMoves DEF SiInv
  <2>3. CASE SiAnswer(p, SiKeep, siIn[p].set.state, SiKeep, SiNone)
    BY <2>0, <2>1, <2>3, AnswerKeepsOwners, SiAssumption
  <2>4. CASE SiMoves(p, "user") /\ siIn' = siIn /\ siAt[p] = "exchange"
    <3>1. \A n, b : SiNonceOf(own, n, b) => SiNonceOf(own, n, b)'
      BY <2>4 DEF SiNonceOf, SiMoves, SiAnswered
    <3>2. \A q \in SiRequests : siAt'[q] \in SiFlight => siAt[q] \in SiFlight
      BY <2>4 DEF SiMoves, SiFlight
    <3>3. SiOwned(own)'
      BY <2>0, <2>1, <2>4, <3>1, <3>2 DEF SiOwned
    <3> QED BY <2>0, <3>3 DEF SiNoncesOwn, SiOwners
  <2> QED BY <2>2, <2>3, <2>4
<1>5. ASSUME NEW p \in SiRequests, NEW fails \in BOOLEAN, FinishCallback(p, fails)
      PROVE  SiNoncesOwn'
  <2>0. PICK own \in SiOwners : SiOwned(own)
    BY DEF SiInv, SiNoncesOwn, SiOwners
  <2>1. UNCHANGED <<siClock, jar, flows, codes, forms, siStatus, siFormer, siSeen, upset>>
    BY <1>5 DEF FinishCallback
  <2>2. \E session : /\ session # SiKeep => SiOpenedIn(session, siIn[p].b)
                     /\ SiAnswer(p, session, siIn[p].set.state, SiKeep, SiNone)
    BY <1>5, FinishAnswers DEF SiInv
  <2> QED BY <2>0, <2>1, <2>2, AnswerKeepsOwners, SiAssumption
<1>6. ASSUME NEW p \in SiRequests, NEW fails \in BOOLEAN, HandlePostLogin(p, fails)
      PROVE  SiNoncesOwn'
  <2>0. PICK own \in SiOwners : SiOwned(own)
    BY DEF SiInv, SiNoncesOwn, SiOwners
  <2>1. UNCHANGED <<siClock, jar, flows, codes, forms, siStatus, siFormer, siSeen, upset>>
    BY <1>6 DEF HandlePostLogin
  <2>2. \/ SiPage(p)
        \/ \E session : /\ SiOpenedIn(session, siIn[p].b)
                        /\ SiAnswer(p, session, siIn[p].set.state, SiKeep, SiNone)
    BY <1>6, PostAnswers DEF SiInv
  <2>3. siAt[p] = "sent"
    BY <1>6 DEF HandlePostLogin
  <2> QED BY <2>0, <2>1, <2>2, <2>3, PageKeepsOwners, AnswerKeepsOwners, SiAssumption
<1>7. ASSUME NEW p \in SiRequests, HandleOIDCCallback(p) PROVE SiNoncesOwn'
  <2>0. PICK own \in SiOwners : SiOwned(own)
    BY DEF SiInv, SiNoncesOwn, SiOwners
  <2>1. UNCHANGED <<jar, forms>>
    BY <1>7 DEF HandleOIDCCallback
  <2>2. CASE SiAnswer(p, SiKeep, siIn[p].set.state, SiKeep, SiNone)
    BY <2>0, <2>1, <2>2, AnswerKeepsOwners, SiAssumption
  <2>3. CASE /\ SiMoves(p, "exchange") /\ siAt[p] = "sent"
             /\ siIn'[p].kind = siIn[p].kind /\ siIn'[p].b = siIn[p].b
             /\ siIn'[p].jar = siIn[p].jar /\ siIn'[p].with = siIn[p].with
             /\ siIn'[p].set.nonce = SiKeep /\ siIn'[p].form = SiNone
    <3>1. \A n, b : SiNonceOf(own, n, b) => SiNonceOf(own, n, b)'
      BY <2>3 DEF SiNonceOf, SiMoves, SiAnswered
    <3>2. \A q \in SiRequests : siAt'[q] \in SiFlight => siAt[q] \in SiFlight
      BY <2>3 DEF SiMoves, SiFlight
    <3>3. \A b : SiNonceOf(own, SiKeep, b)'
      BY SiAssumption DEF SiNonceOf
    <3>4. SiOwned(own)'
      BY <2>0, <2>1, <2>3, <3>1, <3>2, <3>3 DEF SiOwned, SiMoves
    <3> QED BY <2>0, <3>4 DEF SiNoncesOwn, SiOwners
  <2> QED BY <1>7, <2>2, <2>3, CallbackMoves DEF SiInv
<1>8. ASSUME NEW p \in SiRequests, HandleGetLogin(p) PROVE SiNoncesOwn'
  <2>0. PICK own \in SiOwners : SiOwned(own)
    BY DEF SiInv, SiNoncesOwn, SiOwners
  <2>1. UNCHANGED <<siClock, jar, flows, codes, forms, siStatus, siFormer, siSeen, upset>>
    BY <1>8 DEF HandleGetLogin
  <2>2. SiPage(p)
    BY <1>8, PageAnswers DEF SiInv, HandleGetLogin
  <2> QED BY <1>8, <2>0, <2>1, <2>2, PageKeepsOwners DEF HandleGetLogin
<1>9. ASSUME NEW p \in SiRequests, HandlePostLogout(p) PROVE SiNoncesOwn'
  <2>0. PICK own \in SiOwners : SiOwned(own)
    BY DEF SiInv, SiNoncesOwn, SiOwners
  <2>1. UNCHANGED <<siClock, jar, flows, codes, forms, siStatus, siFormer, siSeen, upset>>
    BY <1>9 DEF HandlePostLogout
  <2>2. SiAnswer(p, SiNone, siIn[p].set.state, SiNone, SiNone) /\ siIn[p].kind = "logout"
    BY <1>9, LogoutAnswers DEF SiInv
  <2> QED BY <2>0, <2>1, <2>2, AnswerKeepsOwners, SiAssumption
<1>10. ASSUME NEW p \in SiRequests, Deliver(p) PROVE SiNoncesOwn'
  <2>0. PICK own \in SiOwners : SiOwned(own)
    BY DEF SiInv, SiNoncesOwn, SiOwners
  <2> DEFINE b == siIn[p].b
  <2>1. /\ siAt[p] = "answered" /\ SiMoves(p, "done") /\ b \in Browsers
        /\ \A c \in Browsers \ {b} : jar'[c] = jar[c]
        /\ jar'[b].nonce = IF siIn[p].set.nonce = SiKeep THEN jar[b].nonce
                           ELSE siIn[p].set.nonce
    BY <1>10, DeliverMoves DEF SiInv
  <2>2. \A n, c : SiNonceOf(own, n, c) => SiNonceOf(own, n, c)'
    BY <2>1 DEF SiNonceOf, SiMoves, SiAnswered
  <2>3. /\ SiNonceOf(own, siIn[p].set.nonce, b)
        /\ siIn[p].form # SiNone => SiNonceOf(own, siIn[p].form.nonce, siIn[p].form.by)
    BY <2>0, <2>1 DEF SiOwned, SiFlight
  <2>4. ASSUME NEW q \in SiRequests, siAt'[q] \in SiFlight
        PROVE  siAt[q] \in SiFlight /\ siIn'[q] = siIn[q]
    BY <2>1, <2>4 DEF SiMoves, SiFlight
  <2>5. ASSUME NEW c \in Browsers PROVE SiNonceOf(own, jar[c].nonce, c)'
    <3>1. SiNonceOf(own, jar[c].nonce, c)
      BY <2>0 DEF SiOwned
    <3> QED BY <2>1, <2>2, <2>3, <3>1
  <2>6. \A f \in forms' : SiNonceOf(own, f.nonce, f.by)'
    <3>1. forms' = IF siIn[p].form = SiNone THEN forms ELSE forms \cup {siIn[p].form}
      BY <1>10 DEF Deliver
    <3> QED BY <2>0, <2>2, <2>3, <3>1 DEF SiOwned
  <2>7. SiOwned(own)'
    BY <2>0, <2>2, <2>4, <2>5, <2>6 DEF SiOwned
  <2> QED BY <2>0, <2>7 DEF SiNoncesOwn, SiOwners
<1>11. ASSUME NEW p \in SiRequests, NEW u \in SiUsers, UpstreamCode(p, u) PROVE SiNoncesOwn'
  BY <1>11 DEF SiInv, SiNoncesOwn, SiOwned, SiNonceOf, UpstreamCode
<1>12. ASSUME NEW u \in SiUsers, NEW to \in SiStatuses, ChangeStatus(u, to) PROVE SiNoncesOwn'
  BY <1>12 DEF SiInv, SiNoncesOwn, SiOwned, SiNonceOf, ChangeStatus
<1>13. ASSUME SiTick PROVE SiNoncesOwn'
  BY <1>13 DEF SiInv, SiNoncesOwn, SiOwned, SiNonceOf, SiTick
<1>15. ASSUME NEW b \in Browsers, LoginNonceLapses(b) PROVE SiNoncesOwn'
  <2>1. PICK own \in [SiRequests -> Browsers \cup {SiNone}] : SiOwned(own)
    BY DEF SiInv, SiNoncesOwn
  <2>2. /\ UNCHANGED <<siAt, siIn, forms>>
        /\ \A c \in Browsers : jar'[c].nonce \in {jar[c].nonce, SiNone}
    BY <1>15, LapseMoves DEF SiInv
  <2>3. \A n, c : SiNonceOf(own, n, c)' <=> SiNonceOf(own, n, c)
    BY <2>2 DEF SiNonceOf
  <2>4. \A c \in Browsers : SiNonceOf(own, SiNone, c)
    BY SiAssumption DEF SiNonceOf
  <2>5. SiOwned(own)'
    BY <2>1, <2>2, <2>3, <2>4 DEF SiOwned
  <2> QED BY <2>5 DEF SiNoncesOwn
<1>14. CASE UNCHANGED siVars
  BY <1>14 DEF siVars, SiInv, SiNoncesOwn, SiOwned, SiNonceOf
<1> QED BY <1>1, <1>2, <1>3, <1>4, <1>5, <1>6, <1>7, <1>8, <1>9, <1>10, <1>11, <1>12, <1>13,
       <1>14, <1>15
        DEF SiNext

\* No browser has a cookie at first.
LEMMA SiInvInit == SiInit => SiInv
<1> SUFFICES ASSUME SiInit PROVE SiInv
  OBVIOUS
<1> USE SiAssumption
<1>1. \A p \in SiRequests : siAt[p] = "idle" /\ flows[p] = NoFlow
  BY DEF SiInit
<1>2. \A b \in Browsers : /\ jar[b].session = SiNone /\ jar[b].state = SiNone
                          /\ jar[b].nonce \in {SiNone, Invented}
                          /\ jar[b] \in SiJars
  BY DEF SiInit, NoJar, SiJars, Nonces
<1>3. jar \in [Browsers -> SiJars]
  BY <1>2, Zenon DEF SiInit
<1>4. NoFlow \in [by : Browsers \cup {SiNone}, at : 0 .. SiLast, plain : BOOLEAN]
      /\ NoFlow.by = SiNone
  BY DEF NoFlow
<1>5. SiTypeOK
  BY <1>2, <1>4 DEF SiInit, SiTypeOK, Nonces, SiStatuses
<1>6. SiTypes
  BY <1>1, <1>3, <1>5 DEF SiTypes, SiFlight, SiInit
<1>7. SiPhase /\ SiSessionsOwn /\ SiStatesOwn /\ SiFlowsOwn /\ SiNoncesKept
  BY <1>1, <1>2, <1>4 DEF SiPhase, SiSessionsOwn, SiStatesOwn, SiStateOf, SiFlowsOwn, SiNoncesKept,
     SiFlight
<1>8. FormsStayGood /\ AdmittedHasStanding
  BY DEF SiInit, FormsStayGood, AdmittedHasStanding
<1>9. SiNoncesOwn
  <2> DEFINE own == [p \in SiRequests |-> SiNone]
  <2>1. SiOwned(own)
    BY <1>1, <1>2 DEF SiOwned, SiNonceOf, SiFlight, SiInit
  <2>2. own \in [SiRequests -> Browsers \cup {SiNone}]
    OBVIOUS
  <2> QED BY <2>1, <2>2 DEF SiNoncesOwn
<1> QED BY <1>6, <1>7, <1>8, <1>9 DEF SiInv

\* Every step keeps the invariant.
LEMMA SiInvHolds == SiSpec => []SiInv
<1>1. SiInv /\ [SiNext]_siVars => SiInv'
  BY SiTypesStep, SiPhaseStep, SiSessionsStep, SiStatesStep, SiFlowsStep, SiOwnersStep,
     SiNoncesKeptStep, SiFormsStep, SiStandingStep DEF SiInv
<1> QED BY <1>1, SiInvInit, PTL DEF SiSpec

\* browser_oidc.go, login.go, session.go: in every reachable state a session cookie is in
\* the browser whose sign-in opened it and ends with its time, a form that is open posts
\* with the nonce that it was made for, unless that nonce lapsed or a post without cookies
\* replaced it, and a request that Wrap lets through is of a user who had standing within
\* the TTL of the user cache.  For any number of browsers, users and requests.
THEOREM SignInStaysSound == SiSpec => []SignInSound
<1>1. SiInv => SignInSound
  BY DEF SiInv, SiTypes, SignInSound, SiSessionsOwn, SessionIsOwn, SiOpenedIn
<1> QED BY <1>1, SiInvHolds, PTL

-----------------------------------------------------------------------------
(* OidcKeys: the discovery document and the key set *)

\* A set of keys that was the upstream's at an instant no further than `slack`
\* before `at`: it differs from what is published in keys that changed since.
OkTrue(keys, at, slack) ==
    \A k \in OkKeys : (k \in keys <=> k \in published) \/ at <= since[k] + slack

OkEntry == [keys : SUBSET OkKeys, exp : Nat, at : Nat]

OkTypes ==
    /\ okClock \in 0 .. OkLast /\ published \in SUBSET OkKeys
    /\ since \in [OkKeys -> 0 .. okClock]
    /\ entries \in [Documents -> OkEntry \cup {OkNone}]
    /\ flights \in [Flights -> OkFlight \cup {OkNone}]
    /\ okAt \in [OkCalls -> {"idle", "discovery", "jwks", "noDiscovery", "noKeys", "wait",
                             "exchange", "refresh", "done"}]
    /\ okHas \in [OkCalls -> SUBSET OkKeys]
    /\ okFrom \in [OkCalls -> 0 .. okClock]
    /\ okEnded \in SUBSET [key : OkKeys, at : 0 .. okClock, ok : BOOLEAN, named : BOOLEAN]

\* A call waits in one flight, and in one only.
OkWaits ==
    \A c \in OkCalls :
        /\ okAt[c] = "wait" <=> \E g \in Flights : flights[g] # OkNone /\ c \in flights[g].calls
        /\ \A g, h \in Flights :
              flights[g] # OkNone /\ flights[h] # OkNone
                 /\ c \in flights[g].calls /\ c \in flights[h].calls => g = h

\* A fetch is no older than its timeout, and what it read no older than the fetch.
OkFetches ==
    \A g \in Flights : flights[g] # OkNone =>
        /\ flights[g].at <= okClock /\ okClock <= flights[g].at + HttpTimeout
        /\ DocOf(g) = "jwks" /\ flights[g].keys # OkNone => OkTrue(flights[g].keys, flights[g].at, 0)

\* An entry expires its lifetime after it was stored, at most one fetch after the
\* upstream was as it says.
OkCopies ==
    \A d \in Documents : entries[d] # OkNone =>
        /\ entries[d].at <= okClock /\ entries[d].exp = entries[d].at + Ttl[d]
        /\ d = "jwks" => OkTrue(entries[d].keys, entries[d].at, HttpTimeout)

\* The set a call works with was in the cache, at worst stale, when the call took it.
OkWorks ==
    \A c \in OkCalls : okAt[c] = "exchange" =>
        /\ okClock <= okFrom[c] + HttpTimeout
        /\ OkTrue(okHas[c], okFrom[c], HttpTimeout + Ttl["jwks"] + StaleFor["jwks"])

OkInv ==
    /\ OkTypes
    /\ OkWaits
    /\ OkFetches
    /\ OkCopies
    /\ OkWorks
    /\ UpstreamKeyDies
    /\ NewKeyIsFound
    /\ NoRefetchWhileFresh

\* Call c waits in flight g, which it joins or begins.
OkJoins(c, g) ==
    /\ flights' \in [Flights -> OkFlight \cup {OkNone}]
    /\ \A h \in Flights \ {g} : flights'[h] = flights[h]
    /\ flights'[g] # OkNone
    /\ flights'[g].calls = IF flights[g] # OkNone THEN flights[g].calls \cup {c} ELSE {c}
    /\ flights'[g].keys = IF flights[g] # OkNone THEN flights[g].keys ELSE OkNone
    /\ flights'[g].at = IF flights[g] # OkNone THEN flights[g].at ELSE okClock
    /\ okAt' = [okAt EXCEPT ![c] = "wait"]
    /\ okHas' = okHas /\ okFrom' = okFrom

\* Joining the fetch under way.
LEMMA JoinsFlight ==
    ASSUME OkTypes, NEW c \in OkCalls, NEW g \in Flights, flights[g] # OkNone,
           flights' = [flights EXCEPT ![g] = [flights[g] EXCEPT !.calls = flights[g].calls \cup {c}]],
           okAt' = [okAt EXCEPT ![c] = "wait"], UNCHANGED <<okHas, okFrom>>
    PROVE  OkJoins(c, g)
<1> DEFINE new == [flights[g] EXCEPT !.calls = flights[g].calls \cup {c}]
<1>1. flights[g] \in OkFlight
  BY DEF OkTypes
<1>2. /\ new \in OkFlight /\ new.calls = flights[g].calls \cup {c}
      /\ new.keys = flights[g].keys /\ new.at = flights[g].at
  BY <1>1 DEF OkFlight
<1>3. flights' = [flights EXCEPT ![g] = new]
  OBVIOUS
<1> HIDE DEF new
<1>4. /\ flights' \in [Flights -> OkFlight \cup {OkNone}] /\ flights'[g] = new
      /\ \A h \in Flights \ {g} : flights'[h] = flights[h]
  BY <1>2, <1>3 DEF OkTypes
<1>5. new # OkNone
  BY <1>2, OkFlightAssumption
<1> QED BY <1>2, <1>4, <1>5 DEF OkJoins

\* Beginning a fetch.
LEMMA BeginsFlight ==
    ASSUME OkTypes, NEW c \in OkCalls, NEW g \in Flights, flights[g] = OkNone,
           flights' = [flights EXCEPT ![g] = [calls |-> {c}, keys |-> OkNone, at |-> okClock]],
           okAt' = [okAt EXCEPT ![c] = "wait"], UNCHANGED <<okHas, okFrom>>
    PROVE  OkJoins(c, g)
<1> DEFINE new == [calls |-> {c}, keys |-> OkNone, at |-> okClock]
<1>2. new \in OkFlight /\ new.calls = {c} /\ new.keys = OkNone /\ new.at = okClock
  BY OkAssumption DEF OkFlight, OkTypes
<1>3. flights' = [flights EXCEPT ![g] = new]
  OBVIOUS
<1> HIDE DEF new
<1>4. /\ flights' \in [Flights -> OkFlight \cup {OkNone}] /\ flights'[g] = new
      /\ \A h \in Flights \ {g} : flights'[h] = flights[h]
  BY <1>2, <1>3 DEF OkTypes
<1>5. new # OkNone
  BY <1>2, OkFlightAssumption
<1> QED BY <1>2, <1>4, <1>5 DEF OkJoins

\* refreshJWKS waits in the group of its own.
LEMMA RefreshJoins ==
    ASSUME OkTypes, NEW c \in OkCalls, RefreshJoin(c)
    PROVE  OkJoins(c, "refresh") /\ "refresh" \in Flights
<1>0. "refresh" \in Flights
  BY DEF Flights
<1>1. CASE flights["refresh"] # OkNone
  <2>1. flights' = [flights EXCEPT !["refresh"] =
                      [flights["refresh"] EXCEPT !.calls = flights["refresh"].calls \cup {c}]]
    BY <1>0, <1>1 DEF RefreshJoin, OkTypes
  <2> QED BY <1>0, <1>1, <2>1, JoinsFlight DEF RefreshJoin
<1>2. CASE flights["refresh"] = OkNone
  <2> DEFINE new == [NewFlight(c) EXCEPT !.keys = RefreshAnswer]
  <2>1. flights' = [flights EXCEPT !["refresh"] = new]
    BY <1>0, <1>2 DEF RefreshJoin, OkTypes
  <2>2. new = [calls |-> {c}, keys |-> OkNone, at |-> okClock]
    BY DEF NewFlight, RefreshAnswer
  <2> QED BY <1>0, <1>2, <2>1, <2>2, BeginsFlight DEF RefreshJoin
<1> QED BY <1>0, <1>1, <1>2

\* A Load waits in the group of its document, unless a fresh copy came meanwhile.
LEMMA LoadJoins ==
    ASSUME OkTypes, NEW c \in OkCalls, NEW d \in Documents, LoadJoin(c, d)
    PROVE  \/ OkJoins(c, d) /\ (flights[d] # OkNone \/ ~OkFresh(d))
           \/ OkFresh(d) /\ Resolved({c}, d, entries[d].keys) /\ UNCHANGED flights
<1>0. d \in Flights
  BY DEF Flights
<1>1. CASE flights[d] # OkNone
  <2>1. flights' = [flights EXCEPT ![d] = [flights[d] EXCEPT !.calls = flights[d].calls \cup {c}]]
    BY <1>0, <1>1 DEF LoadJoin, OkTypes
  <2> QED BY <1>0, <1>1, <2>1, JoinsFlight DEF LoadJoin
<1>2. CASE flights[d] = OkNone /\ ~OkFresh(d)
  BY <1>0, <1>2, BeginsFlight DEF LoadJoin, LoadRecheck, NewFlight
<1>3. CASE flights[d] = OkNone /\ OkFresh(d)
  BY <1>3 DEF LoadJoin, LoadRecheck
<1> QED BY <1>1, <1>2, <1>3

\* A fetch has read the upstream.
LEMMA ReadsUpstream ==
    ASSUME OkTypes, NEW g \in Flights, FetchReads(g)
    PROVE  /\ flights' \in [Flights -> OkFlight \cup {OkNone}]
           /\ flights[g] # OkNone /\ flights'[g] # OkNone
           /\ \A h \in Flights \ {g} : flights'[h] = flights[h]
           /\ flights'[g].calls = flights[g].calls /\ flights'[g].at = flights[g].at
           /\ flights'[g].keys = IF DocOf(g) = "jwks" THEN published ELSE {}
<1> DEFINE keys == IF DocOf(g) = "jwks" THEN published ELSE {}
           new == [flights[g] EXCEPT !.keys = keys]
<1>1. flights[g] \in OkFlight /\ flights[g] # OkNone
  BY DEF OkTypes, FetchReads
<1>2. keys \in SUBSET OkKeys
  BY DEF OkTypes
<1>3. flights' = [flights EXCEPT ![g] = new]
  BY DEF FetchReads
<1>4. keys = IF DocOf(g) = "jwks" THEN published ELSE {}
  OBVIOUS
<1> HIDE DEF keys
<1>5. /\ new \in OkFlight /\ new.calls = flights[g].calls
      /\ new.keys = keys /\ new.at = flights[g].at
  BY <1>1, <1>2 DEF OkFlight
<1> HIDE DEF new
<1>6. /\ flights' \in [Flights -> OkFlight \cup {OkNone}] /\ flights'[g] = new
      /\ \A h \in Flights \ {g} : flights'[h] = flights[h]
  BY <1>3, <1>5 DEF OkTypes
<1>7. new # OkNone
  BY <1>5, OkFlightAssumption
<1> QED BY <1>1, <1>4, <1>5, <1>6, <1>7

\* Store replaces the entry of its document.
LEMMA StoresEntry ==
    ASSUME OkTypes, NEW d \in Documents, NEW keys \in SUBSET OkKeys,
           entries' = Stored(d, keys)
    PROVE  /\ entries' \in [Documents -> OkEntry \cup {OkNone}]
           /\ entries'[d].keys = keys /\ entries'[d].exp = okClock + Ttl[d]
           /\ entries'[d].at = okClock
           /\ \A e \in Documents \ {d} : entries'[e] = entries[e]
<1> DEFINE new == [keys |-> keys, exp |-> okClock + Ttl[d], at |-> okClock]
<1>1. /\ new \in OkEntry /\ new.keys = keys /\ new.exp = okClock + Ttl[d] /\ new.at = okClock
  BY OkAssumption DEF OkEntry, OkTypes
<1>2. entries' = [entries EXCEPT ![d] = new]
  BY DEF Stored
<1> HIDE DEF new
<1> QED BY <1>1, <1>2 DEF OkTypes

\* What a fetch that has read brings.
LEMMA FetchedKeys ==
    ASSUME OkTypes, NEW g \in Flights, flights[g] # OkNone
    PROVE  /\ flights[g].calls \in SUBSET OkCalls /\ flights[g].at \in Nat
           /\ flights[g].keys # OkNone => flights[g].keys \in SUBSET OkKeys
  BY DEF OkTypes, OkFlight

\* The flight g is over.
LEMMA LandsFlight ==
    ASSUME OkTypes, NEW g \in Flights, flights' = [flights EXCEPT ![g] = OkNone]
    PROVE  /\ flights' \in [Flights -> OkFlight \cup {OkNone}] /\ flights'[g] = OkNone
           /\ \A h \in Flights \ {g} : flights'[h] = flights[h]
  BY DEF OkTypes

\* The copy of a document.
LEMMA CopyKeys ==
    ASSUME OkTypes, NEW d \in Documents, entries[d] # OkNone
    PROVE  entries[d].keys \in SUBSET OkKeys /\ entries[d].exp \in Nat /\ entries[d].at \in Nat
  BY DEF OkTypes, OkEntry

-----------------------------------------------------------------------------
\* A copy that is true of an instant is true of the ones before, and later with more
\* slack.
LEMMA TrueLater ==
    ASSUME OkTypes, NEW keys, NEW at \in Nat, NEW slack \in Nat, NEW later \in Nat,
           NEW more \in Nat, OkTrue(keys, at, slack), later + slack <= at + more
    PROVE  OkTrue(keys, later, more)
  BY DEF OkTrue, OkTypes

\* While the upstream stays as it is, so does what a copy says of it.
LEMMA TrueStays ==
    ASSUME UNCHANGED <<published, since>>, NEW keys, NEW at, NEW slack,
           OkTrue(keys, at, slack)
    PROVE  OkTrue(keys, at, slack)'
  BY DEF OkTrue

\* A rotation changes a key now: no copy of before becomes untrue of its instant.
LEMMA TrueRotates ==
    ASSUME OkTypes, NEW k \in OkKeys, OkRotate(k), NEW keys, NEW at \in Nat,
           NEW slack \in Nat, at <= okClock, OkTrue(keys, at, slack)
    PROVE  OkTrue(keys, at, slack)'
<1>1. okClock \in Nat
  BY OkAssumption DEF OkTypes
<1>2. \A j \in OkKeys : (j # k => since'[j] = since[j] /\ (j \in published' <=> j \in published))
                        /\ since'[k] = okClock
  BY DEF OkRotate, OkTypes
<1> QED BY <1>1, <1>2 DEF OkTrue

\* What the caches serve, fresh or stale, is true but for the lifetime, the cap and the
\* fetch that brought it.
LEMMA CopyIsTrue ==
    ASSUME OkInv, Peek("jwks") \/ OkFresh("jwks")
    PROVE  /\ OkTrue(entries["jwks"].keys, okClock, HttpTimeout + Ttl["jwks"] + StaleFor["jwks"])
           /\ entries["jwks"] # OkNone
<1>1. "jwks" \in Documents
  BY DEF Documents
<1>2. /\ Ttl["jwks"] \in Nat /\ StaleFor["jwks"] \in Nat /\ HttpTimeout \in Nat /\ okClock \in Nat
  BY <1>1, OkAssumption DEF OkInv, OkTypes
<1>3. entries["jwks"] # OkNone /\ okClock <= entries["jwks"].exp + StaleFor["jwks"]
      /\ entries["jwks"].exp \in Nat /\ entries["jwks"].at \in Nat
  BY <1>1, <1>2, CopyKeys DEF Peek, OkFresh, OkInv
<1>4. /\ entries["jwks"].exp = entries["jwks"].at + Ttl["jwks"]
      /\ OkTrue(entries["jwks"].keys, entries["jwks"].at, HttpTimeout)
  BY <1>1, <1>3 DEF OkInv, OkCopies
<1>5. okClock + HttpTimeout <= entries["jwks"].at + (HttpTimeout + Ttl["jwks"] + StaleFor["jwks"])
  BY <1>2, <1>3, <1>4
<1>6. HttpTimeout + Ttl["jwks"] + StaleFor["jwks"] \in Nat
  BY <1>2
<1> QED BY <1>2, <1>3, <1>4, <1>5, <1>6, TrueLater DEF OkInv

\* What a fetch brings is true but for the fetch.
LEMMA FetchIsTrue ==
    ASSUME OkInv, NEW g \in {"jwks", "refresh"}, flights[g] # OkNone, flights[g].keys # OkNone
    PROVE  /\ OkTrue(flights[g].keys, okClock, HttpTimeout)
           /\ OkTrue(flights[g].keys, okClock, HttpTimeout + Ttl["jwks"] + StaleFor["jwks"])
<1>1. g \in Flights /\ DocOf(g) = "jwks" /\ "jwks" \in Documents
  BY DEF Flights, DocOf, Documents
<1>2. /\ Ttl["jwks"] \in Nat /\ StaleFor["jwks"] \in Nat /\ HttpTimeout \in Nat /\ okClock \in Nat
  BY <1>1, OkAssumption DEF OkInv, OkTypes
<1>3. /\ flights[g].at \in Nat /\ okClock <= flights[g].at + HttpTimeout
      /\ OkTrue(flights[g].keys, flights[g].at, 0)
  BY <1>1, FetchedKeys DEF OkInv, OkFetches
<1> QED BY <1>2, <1>3, TrueLater DEF OkInv

\* Joining a flight keeps everyone in one.
LEMMA JoinKeepsWaits ==
    ASSUME OkInv, NEW c \in OkCalls, NEW g \in Flights, OkJoins(c, g), okAt[c] # "wait"
    PROVE  OkWaits'
<1>1. \A h \in Flights : flights[h] # OkNone => c \notin flights[h].calls
  BY DEF OkInv, OkWaits
<1>2. ASSUME NEW b \in OkCalls, NEW h \in Flights
      PROVE  (flights'[h] # OkNone /\ b \in flights'[h].calls) <=>
                \/ flights[h] # OkNone /\ b \in flights[h].calls
                \/ b = c /\ h = g
  BY DEF OkJoins
<1>3. ASSUME NEW b \in OkCalls PROVE okAt'[b] = IF b = c THEN "wait" ELSE okAt[b]
  BY DEF OkJoins, OkInv, OkTypes
<1>4. ASSUME NEW b \in OkCalls
      PROVE  okAt'[b] = "wait" <=> \E h \in Flights : flights'[h] # OkNone /\ b \in flights'[h].calls
  <2>1. okAt[b] = "wait" <=> \E h \in Flights : flights[h] # OkNone /\ b \in flights[h].calls
    BY DEF OkInv, OkWaits
  <2> QED BY <1>2, <1>3, <2>1
<1>5. ASSUME NEW b \in OkCalls, NEW h \in Flights, NEW i \in Flights,
             flights'[h] # OkNone, flights'[i] # OkNone,
             b \in flights'[h].calls, b \in flights'[i].calls
      PROVE  h = i
  BY <1>1, <1>2, <1>5 DEF OkInv, OkWaits
<1> QED BY <1>4, <1>5 DEF OkWaits

\* A call that does not wait may go anywhere but into the wait.
LEMMA MoveKeepsWaits ==
    ASSUME OkInv, UNCHANGED flights,
           \A c \in OkCalls : okAt'[c] = "wait" <=> okAt[c] = "wait"
    PROVE  OkWaits'
  BY DEF OkInv, OkWaits

\* Everyone in a flight that is over leaves the wait.
LEMMA LandKeepsWaits ==
    ASSUME OkInv, NEW g \in Flights, flights[g] # OkNone,
           flights' = [flights EXCEPT ![g] = OkNone],
           \A c \in OkCalls : okAt'[c] = IF c \in flights[g].calls THEN okAt'[c] ELSE okAt[c],
           \A c \in OkCalls : c \in flights[g].calls => okAt'[c] # "wait"
    PROVE  OkWaits'
<1>1. /\ flights'[g] = OkNone /\ \A h \in Flights \ {g} : flights'[h] = flights[h]
  BY LandsFlight DEF OkInv
<1>2. ASSUME NEW c \in OkCalls
      PROVE  okAt'[c] = "wait" <=> \E h \in Flights : flights'[h] # OkNone /\ c \in flights'[h].calls
  <2>1. okAt[c] = "wait" <=> \E h \in Flights : flights[h] # OkNone /\ c \in flights[h].calls
    BY DEF OkInv, OkWaits
  <2>2. \A h \in Flights : flights[h] # OkNone /\ c \in flights[h].calls
                              /\ c \in flights[g].calls => g = h
    BY DEF OkInv, OkWaits
  <2> QED BY <1>1, <2>1, <2>2
<1>3. ASSUME NEW c \in OkCalls, NEW h \in Flights, NEW i \in Flights,
             flights'[h] # OkNone, flights'[i] # OkNone,
             c \in flights'[h].calls, c \in flights'[i].calls
      PROVE  h = i
  BY <1>1, <1>3 DEF OkInv, OkWaits
<1> QED BY <1>2, <1>3 DEF OkWaits

\* Joining a flight leaves what it reads, or begins now.
LEMMA JoinKeepsFetches ==
    ASSUME OkInv, NEW c \in OkCalls, NEW g \in Flights, OkJoins(c, g),
           UNCHANGED <<okClock, published, since>>
    PROVE  OkFetches'
<1>1. okClock \in Nat /\ HttpTimeout \in Nat
  BY OkAssumption DEF OkInv, OkTypes
<1> SUFFICES ASSUME NEW h \in Flights, flights'[h] # OkNone
             PROVE  /\ flights'[h].at <= okClock /\ okClock <= flights'[h].at + HttpTimeout
                    /\ DocOf(h) = "jwks" /\ flights'[h].keys # OkNone =>
                          OkTrue(flights[h].keys, flights[h].at, 0)'
  BY DEF OkFetches
<1>2. CASE h = g /\ flights[g] = OkNone
  BY <1>1, <1>2 DEF OkJoins
<1>3. CASE flights[h] # OkNone
  <2>1. flights'[h].at = flights[h].at /\ flights'[h].keys = flights[h].keys
    BY <1>3 DEF OkJoins
  <2> QED BY <1>3, <2>1, TrueStays DEF OkInv, OkFetches
<1>4. CASE h # g /\ flights[h] = OkNone
  BY <1>4 DEF OkJoins
<1> QED BY <1>2, <1>3, <1>4

\* A call that takes a copy which is true but for its age may work with it.
LEMMA ResolveKeepsWorks ==
    ASSUME OkInv, OkTypes', NEW cs, NEW d \in Documents, NEW keys, Resolved(cs, d, keys),
           UNCHANGED <<okClock, published, since>>,
           d = "jwks" => OkTrue(keys, okClock, HttpTimeout + Ttl["jwks"] + StaleFor["jwks"])
    PROVE  OkWorks'
<1>1. okClock \in Nat /\ HttpTimeout \in Nat
  BY OkAssumption DEF OkInv, OkTypes
<1> SUFFICES ASSUME NEW c \in OkCalls, okAt'[c] = "exchange"
             PROVE  /\ okClock <= okFrom'[c] + HttpTimeout
                    /\ OkTrue(okHas[c], okFrom[c],
                              HttpTimeout + Ttl["jwks"] + StaleFor["jwks"])'
  BY DEF OkWorks
<1>2. CASE c \in cs
  <2>1. okHas'[c] = keys /\ okFrom'[c] = okClock /\ d = "jwks"
    BY <1>2 DEF Resolved, After, Documents
  <2> QED BY <1>1, <2>1, TrueStays
<1>3. CASE c \notin cs
  <2>1. okAt[c] = "exchange" /\ okHas'[c] = okHas[c] /\ okFrom'[c] = okFrom[c]
    BY <1>3 DEF Resolved
  <2> QED BY <2>1, TrueStays DEF OkInv, OkWorks
<1> QED BY <1>2, <1>3

\* The verdict on a token that names its key.
LEMMA NamedVerdict ==
    ASSUME OkTypes, NEW k \in OkKeys, NEW keys
    PROVE  /\ Named(k, keys) \in [key : OkKeys, at : 0 .. okClock, ok : BOOLEAN, named : BOOLEAN]
           /\ Named(k, keys).key = k /\ Named(k, keys).at = okClock /\ Named(k, keys).named
           /\ Named(k, keys).ok <=> k \in keys
<1>1. okClock \in 0 .. okClock
  BY OkAssumption DEF OkTypes
<1>2. PICK v \in BOOLEAN : v <=> k \in keys
  OBVIOUS
<1>3. Named(k, keys) = [key |-> k, at |-> okClock, ok |-> v, named |-> TRUE]
  BY <1>2, Zenon DEF Named
<1> QED BY <1>1, <1>2, <1>3

\* The verdict on a token without a kid.
LEMMA UnnamedVerdict ==
    ASSUME OkTypes, NEW k \in OkKeys, NEW first
    PROVE  /\ Unnamed(k, first) \in [key : OkKeys, at : 0 .. okClock, ok : BOOLEAN, named : BOOLEAN]
           /\ Unnamed(k, first).key = k /\ Unnamed(k, first).at = okClock /\ ~Unnamed(k, first).named
           /\ Unnamed(k, first).ok <=> k = first
<1>1. okClock \in 0 .. okClock
  BY OkAssumption DEF OkTypes
<1>2. PICK v \in BOOLEAN : v <=> k = first
  OBVIOUS
<1>3. Unnamed(k, first) = [key |-> k, at |-> okClock, ok |-> v, named |-> FALSE]
  BY <1>2, Zenon DEF Unnamed
<1> QED BY <1>1, <1>2, <1>3

\* A refreshed set verifies only under its keys, and refuses a token that names one of
\* them in no case.
LEMMA RefreshVerdicts ==
    ASSUME OkInv, RefreshStores
    PROVE  \A e \in okEnded' :
             /\ e \in [key : OkKeys, at : 0 .. okClock, ok : BOOLEAN, named : BOOLEAN]
             /\ e.at = okClock
             /\ e.ok => e.key \in flights["refresh"].keys
             /\ e.named /\ ~e.ok => e.key \notin flights["refresh"].keys
<1>1. PICK keys : keys = flights["refresh"].keys
  OBVIOUS
<1>2. /\ flights["refresh"] # OkNone /\ flights["refresh"].keys # OkNone /\ "refresh" \in Flights
  BY DEF RefreshStores, Flights
<1>3. keys \in SUBSET OkKeys /\ flights["refresh"].calls \in SUBSET OkCalls
  BY <1>1, <1>2, FetchedKeys DEF OkInv
<1>4. PICK first \in Firsts(keys) :
        okEnded' = UNION {Verdicts(c, keys, first) : c \in flights["refresh"].calls}
  BY <1>1 DEF RefreshStores
<1> TAKE e \in okEnded'
<1>5. PICK c \in flights["refresh"].calls : e \in Verdicts(c, keys, first)
  BY <1>4
<1>6. okHas[c] \in SUBSET OkKeys /\ OkTypes
  BY <1>3, <1>5 DEF OkInv, OkTypes
<1>7. CASE okHas[c] # {}
  <2>1. PICK k \in OkKeys : e = Named(k, keys)
    BY <1>5, <1>6, <1>7 DEF Verdicts
  <2> QED BY <1>1, <1>6, <2>1, NamedVerdict
<1>8. CASE okHas[c] = {}
  <2>1. PICK k \in OkKeys : e = Unnamed(k, first)
    BY <1>5, <1>8 DEF Verdicts
  <2>2. k = first => k \in keys
    BY <1>4, OkAssumption DEF Firsts
  <2> QED BY <1>1, <1>6, <2>1, <2>2, UnnamedVerdict
<1> QED BY <1>7, <1>8

\* The types.
LEMMA OkTypesStep ==
    ASSUME OkInv, [OkNext]_okVars
    PROVE  OkTypes'
<1>1. ASSUME NEW c \in OkCalls, BeginExchange(c) PROVE OkTypes'
  <2>1. UNCHANGED <<okClock, published, since, entries, flights, okHas, okFrom, okEnded>>
    BY <1>1 DEF BeginExchange
  <2> QED BY <1>1, <2>1, OkAssumption DEF OkInv, OkTypes, BeginExchange
<1>2. ASSUME NEW c \in OkCalls, RefreshJoin(c) PROVE OkTypes'
  <2>1. UNCHANGED <<okClock, published, since, entries, okHas, okFrom, okEnded>>
    BY <1>2 DEF RefreshJoin
  <2> QED BY <1>2, <2>1, RefreshJoins, OkAssumption DEF OkInv, OkTypes, OkJoins
<1>3. ASSUME NEW c \in OkCalls, NEW d \in Documents, LoadLook(c, d) PROVE OkTypes'
  <2>1. UNCHANGED <<okClock, published, since, entries, flights, okEnded>>
    BY <1>3 DEF LoadLook
  <2> QED BY <1>3, <2>1, CopyKeys, OkAssumption
      DEF OkInv, OkTypes, LoadLook, OkFresh, Resolved, After, Missed
<1>4. ASSUME NEW c \in OkCalls, NEW d \in Documents, LoadJoin(c, d) PROVE OkTypes'
  <2>1. UNCHANGED <<okClock, published, since, entries, okEnded>>
    BY <1>4 DEF LoadJoin
  <2>2. CASE OkJoins(c, d) /\ (flights[d] # OkNone \/ ~OkFresh(d))
    BY <2>1, <2>2 DEF OkInv, OkTypes, OkJoins
  <2>3. CASE OkFresh(d) /\ Resolved({c}, d, entries[d].keys) /\ UNCHANGED flights
    BY <2>1, <2>3, CopyKeys DEF OkInv, OkTypes, OkFresh, Resolved, After
  <2> QED BY <1>4, <2>2, <2>3, LoadJoins DEF OkInv
<1>5. ASSUME NEW c \in OkCalls, NEW k \in OkKeys, OkVerifyIDToken(c, k) PROVE OkTypes'
  <2>1. okEnded' = okEnded \/ okEnded' = {Named(k, okHas[c])}
    BY <1>5 DEF OkVerifyIDToken
  <2>2. Named(k, okHas[c]) \in [key : OkKeys, at : 0 .. okClock, ok : BOOLEAN, named : BOOLEAN]
    BY NamedVerdict DEF OkInv
  <2>3. okEnded' \in SUBSET [key : OkKeys, at : 0 .. okClock, ok : BOOLEAN, named : BOOLEAN]
    BY <2>1, <2>2 DEF OkInv, OkTypes
  <2> QED BY <1>5, <2>3 DEF OkVerifyIDToken, OkInv, OkTypes
<1>6. ASSUME NEW g \in Flights, FetchReads(g) PROVE OkTypes'
  <2>1. UNCHANGED <<okClock, published, since, entries, okAt, okHas, okFrom, okEnded>>
    BY <1>6 DEF FetchReads
  <2> QED BY <1>6, <2>1, ReadsUpstream, OkAssumption DEF OkInv, OkTypes
<1>7. ASSUME NEW d \in Documents, LoadStores(d) PROVE OkTypes'
  <2>1. UNCHANGED <<okClock, published, since, okEnded>>
    BY <1>7 DEF LoadStores
  <2> QED BY <1>7, <2>1, FetchedKeys, StoresEntry, LandsFlight, OkAssumption
      DEF OkInv, OkTypes, LoadStores, Resolved, After, Flights
<1>8. ASSUME NEW d \in Documents, LoadFails(d) PROVE OkTypes'
  <2>1. UNCHANGED <<okClock, published, since, entries, okEnded>>
    BY <1>8 DEF LoadFails
  <2> QED BY <1>8, <2>1, FetchedKeys, CopyKeys, LandsFlight, OkAssumption
      DEF OkInv, OkTypes, LoadFails, Resolved, After, Ends, Peek, Flights
<1>9. ASSUME RefreshStores PROVE OkTypes'
  <2>1. /\ flights["refresh"] # OkNone /\ flights["refresh"].keys # OkNone /\ "refresh" \in Flights
    BY <1>9 DEF RefreshStores, Flights
  <2>2. /\ flights["refresh"].keys \in SUBSET OkKeys
        /\ flights["refresh"].calls \in SUBSET OkCalls
    BY <2>1, FetchedKeys DEF OkInv
  <2>4. \A e \in okEnded' :
            /\ e \in [key : OkKeys, at : 0 .. okClock, ok : BOOLEAN, named : BOOLEAN]
            /\ e.at = okClock
            /\ e.ok => e.key \in flights["refresh"].keys
            /\ e.named /\ ~e.ok => e.key \notin flights["refresh"].keys
    BY <1>9, RefreshVerdicts
  <2>5. entries' \in [Documents -> OkEntry \cup {OkNone}]
    BY <1>9, <2>2, StoresEntry DEF RefreshStores, Documents, OkInv
  <2>6. flights' \in [Flights -> OkFlight \cup {OkNone}]
    BY <1>9, <2>1, LandsFlight DEF RefreshStores, OkInv
  <2> QED BY <1>9, <2>4, <2>5, <2>6 DEF RefreshStores, Ends, OkInv, OkTypes
<1>10. ASSUME RefreshFails PROVE OkTypes'
  <2>1. UNCHANGED <<okClock, published, since, entries, okHas, okFrom, okEnded>>
    BY <1>10 DEF RefreshFails
  <2> QED BY <1>10, <2>1, FetchedKeys, LandsFlight, OkAssumption
      DEF OkInv, OkTypes, RefreshFails, Ends, Flights
<1>11. ASSUME NEW k \in OkKeys, OkRotate(k) PROVE OkTypes'
  <2>1. UNCHANGED <<okClock, entries, flights, okAt, okHas, okFrom, okEnded>>
    BY <1>11 DEF OkRotate
  <2> QED BY <1>11, <2>1, OkAssumption DEF OkInv, OkTypes, OkRotate
<1>12. ASSUME OkTick PROVE OkTypes'
  <2>1. UNCHANGED <<published, since, entries, flights, okAt, okHas, okFrom, okEnded>>
    BY <1>12 DEF OkTick
  <2> QED BY <1>12, <2>1, OkAssumption DEF OkInv, OkTypes, OkTick
<1>13. CASE UNCHANGED okVars
  BY <1>13 DEF okVars, OkInv, OkTypes
<1>14. ASSUME NEW c \in OkCalls, NEW k \in OkKeys, OkVerifyUnnamed(c, k)
       PROVE  OkTypes'
  <2>1. okEnded' = okEnded \/ \E first \in okHas[c] : okEnded' = {Unnamed(k, first)}
    BY <1>14 DEF OkVerifyUnnamed
  <2>2. \A first : Unnamed(k, first) \in [key : OkKeys, at : 0 .. okClock, ok : BOOLEAN, named : BOOLEAN]
    BY UnnamedVerdict DEF OkInv
  <2>3. okEnded' \in SUBSET [key : OkKeys, at : 0 .. okClock, ok : BOOLEAN, named : BOOLEAN]
    BY <2>1, <2>2 DEF OkInv, OkTypes
  <2> QED BY <1>14, <2>3 DEF OkVerifyUnnamed, OkInv, OkTypes
<1> QED BY <1>1, <1>2, <1>3, <1>4, <1>5, <1>6, <1>7, <1>8, <1>9, <1>10, <1>11, <1>12, <1>13,
           <1>14
        DEF OkNext

\* Whoever waits is in one flight.
LEMMA OkWaitsStep ==
    ASSUME OkInv, OkTypes', [OkNext]_okVars
    PROVE  OkWaits'
<1>1. ASSUME NEW c \in OkCalls, BeginExchange(c) PROVE OkWaits'
  <2>1. \A b \in OkCalls : okAt'[b] = "wait" <=> okAt[b] = "wait"
    BY <1>1 DEF BeginExchange, OkInv, OkTypes, Resolved, After, Missed, Documents
  <2> QED BY <1>1, <2>1, MoveKeepsWaits DEF BeginExchange
<1>2. ASSUME NEW c \in OkCalls, RefreshJoin(c) PROVE OkWaits'
  BY <1>2, RefreshJoins, JoinKeepsWaits DEF OkInv, RefreshJoin
<1>3. ASSUME NEW c \in OkCalls, NEW d \in Documents, LoadLook(c, d) PROVE OkWaits'
  <2>1. \A b \in OkCalls : okAt'[b] = "wait" <=> okAt[b] = "wait"
    BY <1>3 DEF LoadLook, OkInv, OkTypes, Resolved, After, Missed, Documents
  <2> QED BY <1>3, <2>1, MoveKeepsWaits DEF LoadLook
<1>4. ASSUME NEW c \in OkCalls, NEW d \in Documents, LoadJoin(c, d) PROVE OkWaits'
  <2>1. okAt[c] # "wait" /\ d \in Flights
    BY <1>4 DEF LoadJoin, Missed, Flights
  <2>2. CASE OkJoins(c, d)
    BY <2>1, <2>2, JoinKeepsWaits
  <2>3. CASE Resolved({c}, d, entries[d].keys) /\ UNCHANGED flights
    <3>1. \A b \in OkCalls : okAt'[b] = "wait" <=> okAt[b] = "wait"
      BY <2>1, <2>3 DEF Resolved, After
    <3> QED BY <2>3, <3>1, MoveKeepsWaits
  <2> QED BY <1>4, <2>2, <2>3, LoadJoins DEF OkInv
<1>5. ASSUME NEW c \in OkCalls, NEW k \in OkKeys, OkVerifyIDToken(c, k) PROVE OkWaits'
  <2>1. \A b \in OkCalls : okAt'[b] = "wait" <=> okAt[b] = "wait"
    BY <1>5 DEF OkVerifyIDToken, OkInv, OkTypes, Resolved, After, Missed, Documents
  <2> QED BY <1>5, <2>1, MoveKeepsWaits DEF OkVerifyIDToken
<1>6. ASSUME NEW g \in Flights, FetchReads(g) PROVE OkWaits'
  <2>1. UNCHANGED <<okClock, published, since, entries, okAt, okHas, okFrom, okEnded>>
    BY <1>6 DEF FetchReads
  <2> QED BY <1>6, <2>1, ReadsUpstream DEF OkInv, OkWaits, OkTypes
<1>7. ASSUME NEW d \in Documents, LoadStores(d) PROVE OkWaits'
  <2>1. /\ d \in Flights /\ flights[d] # OkNone
        /\ flights' = [flights EXCEPT ![d] = OkNone]
    BY <1>7 DEF LoadStores, Flights
  <2>2. \A c \in OkCalls : IF c \in flights[d].calls THEN okAt'[c] # "wait" ELSE okAt'[c] = okAt[c]
    BY <1>7 DEF LoadStores, Resolved, After, Ends
  <2> QED BY <2>1, <2>2, LandKeepsWaits
<1>8. ASSUME NEW d \in Documents, LoadFails(d) PROVE OkWaits'
  <2>1. /\ d \in Flights /\ flights[d] # OkNone
        /\ flights' = [flights EXCEPT ![d] = OkNone]
    BY <1>8 DEF LoadFails, Flights
  <2>2. \A c \in OkCalls : IF c \in flights[d].calls THEN okAt'[c] # "wait" ELSE okAt'[c] = okAt[c]
    BY <1>8 DEF LoadFails, Resolved, After, Ends
  <2> QED BY <2>1, <2>2, LandKeepsWaits
<1>9. ASSUME RefreshStores PROVE OkWaits'
  <2>1. /\ "refresh" \in Flights /\ flights["refresh"] # OkNone
        /\ flights' = [flights EXCEPT !["refresh"] = OkNone]
    BY <1>9 DEF RefreshStores, Flights
  <2>2. \A c \in OkCalls : IF c \in flights["refresh"].calls THEN okAt'[c] # "wait" ELSE okAt'[c] = okAt[c]
    BY <1>9 DEF RefreshStores, Resolved, After, Ends
  <2> QED BY <2>1, <2>2, LandKeepsWaits
<1>10. ASSUME RefreshFails PROVE OkWaits'
  <2>1. /\ "refresh" \in Flights /\ flights["refresh"] # OkNone
        /\ flights' = [flights EXCEPT !["refresh"] = OkNone]
    BY <1>10 DEF RefreshFails, Flights
  <2>2. \A c \in OkCalls : IF c \in flights["refresh"].calls THEN okAt'[c] # "wait" ELSE okAt'[c] = okAt[c]
    BY <1>10 DEF RefreshFails, Resolved, After, Ends
  <2> QED BY <2>1, <2>2, LandKeepsWaits
<1>11. ASSUME NEW k \in OkKeys, OkRotate(k) PROVE OkWaits'
  <2>1. UNCHANGED <<okClock, entries, flights, okAt, okHas, okFrom, okEnded>>
    BY <1>11 DEF OkRotate
  <2> QED BY <1>11, <2>1 DEF OkInv, OkWaits, OkTypes, OkRotate
<1>12. ASSUME OkTick PROVE OkWaits'
  <2>1. UNCHANGED <<published, since, entries, flights, okAt, okHas, okFrom, okEnded>>
    BY <1>12 DEF OkTick
  <2> QED BY <1>12, <2>1 DEF OkInv, OkWaits, OkTypes, OkTick
<1>13. CASE UNCHANGED okVars
  BY <1>13 DEF okVars, OkInv, OkWaits, OkTypes
<1>14. ASSUME NEW c \in OkCalls, NEW k \in OkKeys, OkVerifyUnnamed(c, k)
       PROVE  OkWaits'
  <2>1. \A b \in OkCalls : okAt'[b] = "wait" <=> okAt[b] = "wait"
    BY <1>14 DEF OkVerifyUnnamed, OkInv, OkTypes, Resolved, After, Missed, Documents
  <2> QED BY <1>14, <2>1, MoveKeepsWaits DEF OkVerifyUnnamed
<1> QED BY <1>1, <1>2, <1>3, <1>4, <1>5, <1>6, <1>7, <1>8, <1>9, <1>10, <1>11, <1>12, <1>13,
           <1>14
        DEF OkNext

\* A fetch is as young as its timeout, and what it read is true of its start.
LEMMA OkFetchesStep ==
    ASSUME OkInv, OkTypes', [OkNext]_okVars
    PROVE  OkFetches'
<1>1. ASSUME NEW c \in OkCalls, BeginExchange(c) PROVE OkFetches'
  <2>1. UNCHANGED <<okClock, published, since, entries, flights, okHas, okFrom, okEnded>>
    BY <1>1 DEF BeginExchange
  <2> QED BY <1>1, <2>1, OkAssumption DEF OkInv, OkFetches, OkTypes, OkTrue, BeginExchange
<1>2. ASSUME NEW c \in OkCalls, RefreshJoin(c) PROVE OkFetches'
  BY <1>2, RefreshJoins, JoinKeepsFetches DEF OkInv, RefreshJoin
<1>3. ASSUME NEW c \in OkCalls, NEW d \in Documents, LoadLook(c, d) PROVE OkFetches'
  <2>1. UNCHANGED <<okClock, published, since, entries, flights, okEnded>>
    BY <1>3 DEF LoadLook
  <2> QED BY <1>3, <2>1, CopyKeys, OkAssumption
      DEF OkInv, OkFetches, OkTypes, OkTrue, LoadLook, OkFresh, Resolved, After, Missed
<1>4. ASSUME NEW c \in OkCalls, NEW d \in Documents, LoadJoin(c, d) PROVE OkFetches'
  <2>1. UNCHANGED <<okClock, published, since, entries, okEnded>>
    BY <1>4 DEF LoadJoin
  <2>2. CASE OkJoins(c, d) /\ (flights[d] # OkNone \/ ~OkFresh(d))
    BY <2>1, <2>2, JoinKeepsFetches DEF Flights
  <2>3. CASE OkFresh(d) /\ Resolved({c}, d, entries[d].keys) /\ UNCHANGED flights
    BY <2>1, <2>3 DEF OkInv, OkFetches, OkTrue
  <2> QED BY <1>4, <2>2, <2>3, LoadJoins DEF OkInv
<1>5. ASSUME NEW c \in OkCalls, NEW k \in OkKeys, OkVerifyIDToken(c, k) PROVE OkFetches'
  <2>1. UNCHANGED <<okClock, published, since, entries, flights, okFrom>>
    BY <1>5 DEF OkVerifyIDToken
  <2> QED BY <1>5, <2>1, OkAssumption DEF OkInv, OkFetches, OkTypes, OkTrue, OkVerifyIDToken
<1>6. ASSUME NEW g \in Flights, FetchReads(g) PROVE OkFetches'
  <2>1. UNCHANGED <<okClock, published, since, entries, okAt, okHas, okFrom, okEnded>>
    BY <1>6 DEF FetchReads
  <2> QED BY <1>6, <2>1, ReadsUpstream, OkAssumption DEF OkInv, OkFetches, OkTypes, OkTrue
<1>7. ASSUME NEW d \in Documents, LoadStores(d) PROVE OkFetches'
  <2>1. UNCHANGED <<okClock, published, since, okEnded>>
    BY <1>7 DEF LoadStores
  <2> QED BY <1>7, <2>1, FetchedKeys, StoresEntry, LandsFlight, OkAssumption
      DEF OkInv, OkFetches, OkTypes, OkTrue, LoadStores, Resolved, After, Flights
<1>8. ASSUME NEW d \in Documents, LoadFails(d) PROVE OkFetches'
  <2>1. UNCHANGED <<okClock, published, since, entries, okEnded>>
    BY <1>8 DEF LoadFails
  <2> QED BY <1>8, <2>1, FetchedKeys, CopyKeys, LandsFlight, OkAssumption
      DEF OkInv, OkFetches, OkTypes, OkTrue, LoadFails, Resolved, After, Ends, Peek, Flights
<1>9. ASSUME RefreshStores PROVE OkFetches'
  <2>1. UNCHANGED <<okClock, published, since, okHas, okFrom>>
    BY <1>9 DEF RefreshStores
  <2> QED BY <1>9, <2>1, FetchedKeys, StoresEntry, LandsFlight, OkAssumption
      DEF OkInv, OkFetches, OkTypes, OkTrue, RefreshStores, Ends, Flights, Documents
<1>10. ASSUME RefreshFails PROVE OkFetches'
  <2>1. UNCHANGED <<okClock, published, since, entries, okHas, okFrom, okEnded>>
    BY <1>10 DEF RefreshFails
  <2> QED BY <1>10, <2>1, FetchedKeys, LandsFlight, OkAssumption
      DEF OkInv, OkFetches, OkTypes, OkTrue, RefreshFails, Ends, Flights
<1>11. ASSUME NEW k \in OkKeys, OkRotate(k) PROVE OkFetches'
  <2>1. UNCHANGED <<okClock, entries, flights, okAt, okHas, okFrom, okEnded>>
    BY <1>11 DEF OkRotate
  <2> QED BY <1>11, <2>1, OkAssumption DEF OkInv, OkFetches, OkTypes, OkTrue, OkRotate
<1>12. ASSUME OkTick PROVE OkFetches'
  <2>1. UNCHANGED <<published, since, flights>> /\ okClock' = okClock + 1
    BY <1>12 DEF OkTick
  <2>2. okClock \in Nat /\ HttpTimeout \in Nat
    BY OkAssumption DEF OkInv, OkTypes
  <2>3. ASSUME NEW g \in Flights, flights[g] # OkNone
        PROVE  flights[g].at <= okClock + 1 /\ okClock + 1 <= flights[g].at + HttpTimeout
    BY <1>12, <2>2, <2>3, FetchedKeys DEF OkInv, OkFetches, OkTick
  <2> QED BY <2>1, <2>3, TrueStays DEF OkInv, OkFetches
<1>13. CASE UNCHANGED okVars
  BY <1>13 DEF okVars, OkInv, OkFetches, OkTypes, OkTrue
<1>14. ASSUME NEW c \in OkCalls, NEW k \in OkKeys, OkVerifyUnnamed(c, k)
       PROVE  OkFetches'
  <2>1. UNCHANGED <<okClock, published, since, entries, flights, okFrom>>
    BY <1>14 DEF OkVerifyUnnamed
  <2> QED BY <1>14, <2>1, OkAssumption DEF OkInv, OkFetches, OkTypes, OkTrue, OkVerifyUnnamed
<1> QED BY <1>1, <1>2, <1>3, <1>4, <1>5, <1>6, <1>7, <1>8, <1>9, <1>10, <1>11, <1>12, <1>13,
           <1>14
        DEF OkNext

\* A copy is true but for the fetch that brought it.
LEMMA OkCopiesStep ==
    ASSUME OkInv, OkTypes', [OkNext]_okVars
    PROVE  OkCopies'
<1>1. ASSUME NEW c \in OkCalls, BeginExchange(c) PROVE OkCopies'
  <2>1. UNCHANGED <<okClock, published, since, entries, flights, okHas, okFrom, okEnded>>
    BY <1>1 DEF BeginExchange
  <2> QED BY <1>1, <2>1, OkAssumption DEF OkInv, OkCopies, OkTypes, OkTrue, BeginExchange
<1>2. ASSUME NEW c \in OkCalls, RefreshJoin(c) PROVE OkCopies'
  <2>1. UNCHANGED <<okClock, published, since, entries, okHas, okFrom, okEnded>>
    BY <1>2 DEF RefreshJoin
  <2> QED BY <1>2, <2>1, RefreshJoins, OkAssumption DEF OkInv, OkCopies, OkTypes, OkTrue, OkJoins
<1>3. ASSUME NEW c \in OkCalls, NEW d \in Documents, LoadLook(c, d) PROVE OkCopies'
  <2>1. UNCHANGED <<okClock, published, since, entries, flights, okEnded>>
    BY <1>3 DEF LoadLook
  <2> QED BY <1>3, <2>1, CopyKeys, OkAssumption
      DEF OkInv, OkCopies, OkTypes, OkTrue, LoadLook, OkFresh, Resolved, After, Missed
<1>4. ASSUME NEW c \in OkCalls, NEW d \in Documents, LoadJoin(c, d) PROVE OkCopies'
  <2>1. UNCHANGED <<okClock, published, since, entries, okEnded>>
    BY <1>4 DEF LoadJoin
  <2> QED BY <1>4, <2>1, LoadJoins, OkAssumption
      DEF OkInv, OkCopies, OkTypes, OkTrue, OkJoins, OkFresh, Resolved, After
<1>5. ASSUME NEW c \in OkCalls, NEW k \in OkKeys, OkVerifyIDToken(c, k) PROVE OkCopies'
  <2>1. UNCHANGED <<okClock, published, since, entries, flights, okFrom>>
    BY <1>5 DEF OkVerifyIDToken
  <2> QED BY <1>5, <2>1, OkAssumption DEF OkInv, OkCopies, OkTypes, OkTrue, OkVerifyIDToken
<1>6. ASSUME NEW g \in Flights, FetchReads(g) PROVE OkCopies'
  <2>1. UNCHANGED <<okClock, published, since, entries, okAt, okHas, okFrom, okEnded>>
    BY <1>6 DEF FetchReads
  <2> QED BY <1>6, <2>1, ReadsUpstream, OkAssumption DEF OkInv, OkCopies, OkTypes, OkTrue
<1>7. ASSUME NEW d \in Documents, LoadStores(d) PROVE OkCopies'
  <2>1. /\ d \in Flights /\ d \in Documents /\ flights[d] # OkNone
        /\ flights[d].keys # OkNone
        /\ entries' = Stored(d, flights[d].keys) /\ UNCHANGED <<okClock, published, since>>
    BY <1>7 DEF LoadStores, Flights, Documents
  <2>2. /\ flights[d].keys \in SUBSET OkKeys /\ okClock \in Nat
    BY <2>1, FetchedKeys, OkAssumption DEF OkInv, OkTypes
  <2>3. /\ entries'[d].keys = flights[d].keys /\ entries'[d].exp = okClock + Ttl[d]
        /\ entries'[d].at = okClock
        /\ \A e \in Documents \ {d} : entries'[e] = entries[e]
    BY <2>1, <2>2, StoresEntry DEF OkInv
  <2>4. d = "jwks" => OkTrue(flights[d].keys, okClock, HttpTimeout)
    BY <2>1, FetchIsTrue
  <2>5. ASSUME NEW e \in Documents, entries'[e] # OkNone
        PROVE  /\ entries'[e].at <= okClock /\ entries'[e].exp = entries'[e].at + Ttl[e]
               /\ e = "jwks" => OkTrue(entries[e].keys, entries[e].at, HttpTimeout)'
    <3>1. CASE e = d
      BY <2>1, <2>2, <2>3, <2>4, <3>1, TrueStays
    <3>2. CASE e # d
      BY <2>1, <2>3, <2>5, <3>2, TrueStays DEF OkInv, OkCopies
    <3> QED BY <3>1, <3>2
  <2> QED BY <2>1, <2>5 DEF OkCopies
<1>8. ASSUME NEW d \in Documents, LoadFails(d) PROVE OkCopies'
  <2>1. UNCHANGED <<okClock, published, since, entries, okEnded>>
    BY <1>8 DEF LoadFails
  <2> QED BY <1>8, <2>1, FetchedKeys, CopyKeys, LandsFlight, OkAssumption
      DEF OkInv, OkCopies, OkTypes, OkTrue, LoadFails, Resolved, After, Ends, Peek, Flights
<1>9. ASSUME RefreshStores PROVE OkCopies'
  <2>1. /\ "refresh" \in Flights /\ "jwks" \in Documents /\ flights["refresh"] # OkNone
        /\ flights["refresh"].keys # OkNone
        /\ entries' = Stored("jwks", flights["refresh"].keys) /\ UNCHANGED <<okClock, published, since>>
    BY <1>9 DEF RefreshStores, Flights, Documents
  <2>2. /\ flights["refresh"].keys \in SUBSET OkKeys /\ okClock \in Nat
    BY <2>1, FetchedKeys, OkAssumption DEF OkInv, OkTypes
  <2>3. /\ entries'["jwks"].keys = flights["refresh"].keys /\ entries'["jwks"].exp = okClock + Ttl["jwks"]
        /\ entries'["jwks"].at = okClock
        /\ \A e \in Documents \ {"jwks"} : entries'[e] = entries[e]
    BY <2>1, <2>2, StoresEntry DEF OkInv
  <2>4. "jwks" = "jwks" => OkTrue(flights["refresh"].keys, okClock, HttpTimeout)
    BY <2>1, FetchIsTrue
  <2>5. ASSUME NEW e \in Documents, entries'[e] # OkNone
        PROVE  /\ entries'[e].at <= okClock /\ entries'[e].exp = entries'[e].at + Ttl[e]
               /\ e = "jwks" => OkTrue(entries[e].keys, entries[e].at, HttpTimeout)'
    <3>1. CASE e = "jwks"
      BY <2>1, <2>2, <2>3, <2>4, <3>1, TrueStays
    <3>2. CASE e # "jwks"
      BY <2>1, <2>3, <2>5, <3>2, TrueStays DEF OkInv, OkCopies
    <3> QED BY <3>1, <3>2
  <2> QED BY <2>1, <2>5 DEF OkCopies
<1>10. ASSUME RefreshFails PROVE OkCopies'
  <2>1. UNCHANGED <<okClock, published, since, entries, okHas, okFrom, okEnded>>
    BY <1>10 DEF RefreshFails
  <2> QED BY <1>10, <2>1, FetchedKeys, LandsFlight, OkAssumption
      DEF OkInv, OkCopies, OkTypes, OkTrue, RefreshFails, Ends, Flights
<1>11. ASSUME NEW k \in OkKeys, OkRotate(k) PROVE OkCopies'
  <2>1. UNCHANGED <<okClock, entries>>
    BY <1>11 DEF OkRotate
  <2>2. HttpTimeout \in Nat
    BY OkAssumption
  <2>3. \A d \in Documents : entries[d] # OkNone /\ d = "jwks" =>
            OkTrue(entries[d].keys, entries[d].at, HttpTimeout)'
    BY <1>11, <2>1, <2>2, CopyKeys, TrueRotates DEF OkInv, OkCopies
  <2> QED BY <2>1, <2>3 DEF OkInv, OkCopies
<1>12. ASSUME OkTick PROVE OkCopies'
  <2>1. UNCHANGED <<published, since, entries>> /\ okClock' = okClock + 1 /\ okClock \in Nat
    BY <1>12, OkAssumption DEF OkTick, OkInv, OkTypes
  <2>2. \A d \in Documents : entries[d] # OkNone /\ d = "jwks" =>
            OkTrue(entries[d].keys, entries[d].at, HttpTimeout)'
    BY <2>1, TrueStays DEF OkInv, OkCopies
  <2> QED BY <2>1, <2>2, CopyKeys DEF OkInv, OkCopies
<1>13. CASE UNCHANGED okVars
  BY <1>13 DEF okVars, OkInv, OkCopies, OkTypes, OkTrue
<1>14. ASSUME NEW c \in OkCalls, NEW k \in OkKeys, OkVerifyUnnamed(c, k)
       PROVE  OkCopies'
  <2>1. UNCHANGED <<okClock, published, since, entries, flights, okFrom>>
    BY <1>14 DEF OkVerifyUnnamed
  <2> QED BY <1>14, <2>1, OkAssumption DEF OkInv, OkCopies, OkTypes, OkTrue, OkVerifyUnnamed
<1> QED BY <1>1, <1>2, <1>3, <1>4, <1>5, <1>6, <1>7, <1>8, <1>9, <1>10, <1>11, <1>12, <1>13,
           <1>14
        DEF OkNext

\* A call works with a set that is no older than the bounds add up to.
LEMMA OkWorksStep ==
    ASSUME OkInv, OkTypes', [OkNext]_okVars
    PROVE  OkWorks'
<1>1. ASSUME NEW c \in OkCalls, BeginExchange(c) PROVE OkWorks'
  <2>1. UNCHANGED <<okClock, published, since, entries, flights, okHas, okFrom, okEnded>>
    BY <1>1 DEF BeginExchange
  <2> QED BY <1>1, <2>1, OkAssumption DEF OkInv, OkWorks, OkTypes, OkTrue, BeginExchange
<1>2. ASSUME NEW c \in OkCalls, RefreshJoin(c) PROVE OkWorks'
  <2>1. UNCHANGED <<okClock, published, since, entries, okHas, okFrom, okEnded>>
    BY <1>2 DEF RefreshJoin
  <2> QED BY <1>2, <2>1, RefreshJoins, OkAssumption DEF OkInv, OkWorks, OkTypes, OkTrue, OkJoins
<1>3. ASSUME NEW c \in OkCalls, NEW d \in Documents, LoadLook(c, d) PROVE OkWorks'
  <2>1. UNCHANGED <<okClock, published, since>>
    BY <1>3 DEF LoadLook
  <2>2. CASE OkFresh(d) /\ Resolved({c}, d, entries[d].keys)
    BY <2>1, <2>2, CopyIsTrue, ResolveKeepsWorks
  <2>3. CASE okAt' = [okAt EXCEPT ![c] = Missed(d)] /\ UNCHANGED <<okHas, okFrom>>
    BY <2>1, <2>3 DEF OkInv, OkWorks, OkTypes, OkTrue, Missed
  <2> QED BY <1>3, <2>2, <2>3 DEF LoadLook
<1>4. ASSUME NEW c \in OkCalls, NEW d \in Documents, LoadJoin(c, d) PROVE OkWorks'
  <2>1. UNCHANGED <<okClock, published, since, entries, okEnded>>
    BY <1>4 DEF LoadJoin
  <2>2. CASE OkJoins(c, d) /\ (flights[d] # OkNone \/ ~OkFresh(d))
    BY <2>1, <2>2 DEF OkInv, OkWorks, OkTypes, OkTrue, OkJoins
  <2>3. CASE OkFresh(d) /\ Resolved({c}, d, entries[d].keys) /\ UNCHANGED flights
    BY <2>1, <2>3, CopyIsTrue, ResolveKeepsWorks
  <2> QED BY <1>4, <2>2, <2>3, LoadJoins DEF OkInv
<1>5. ASSUME NEW c \in OkCalls, NEW k \in OkKeys, OkVerifyIDToken(c, k) PROVE OkWorks'
  <2>1. UNCHANGED <<okClock, published, since, entries, flights, okFrom>>
    BY <1>5 DEF OkVerifyIDToken
  <2> QED BY <1>5, <2>1, OkAssumption DEF OkInv, OkWorks, OkTypes, OkTrue, OkVerifyIDToken
<1>6. ASSUME NEW g \in Flights, FetchReads(g) PROVE OkWorks'
  <2>1. UNCHANGED <<okClock, published, since, entries, okAt, okHas, okFrom, okEnded>>
    BY <1>6 DEF FetchReads
  <2> QED BY <1>6, <2>1, ReadsUpstream, OkAssumption DEF OkInv, OkWorks, OkTypes, OkTrue
<1>7. ASSUME NEW d \in Documents, LoadStores(d) PROVE OkWorks'
  <2>1. /\ UNCHANGED <<okClock, published, since>> /\ flights[d] # OkNone
        /\ flights[d].keys # OkNone
        /\ Resolved(flights[d].calls, d, flights[d].keys)
    BY <1>7 DEF LoadStores
  <2>2. d = "jwks" => OkTrue(flights[d].keys, okClock, HttpTimeout + Ttl["jwks"] + StaleFor["jwks"])
    BY <2>1, FetchIsTrue
  <2> QED BY <2>1, <2>2, ResolveKeepsWorks
<1>8. ASSUME NEW d \in Documents, LoadFails(d) PROVE OkWorks'
  <2>1. UNCHANGED <<okClock, published, since>>
    BY <1>8 DEF LoadFails
  <2>2. CASE Peek(d) /\ Resolved(flights[d].calls, d, entries[d].keys)
    BY <2>1, <2>2, CopyIsTrue, ResolveKeepsWorks
  <2>3. CASE Ends(flights[d].calls, "done") /\ UNCHANGED <<okHas, okFrom>>
    BY <2>1, <2>3 DEF OkInv, OkWorks, OkTypes, OkTrue, Ends
  <2> QED BY <1>8, <2>2, <2>3 DEF LoadFails
<1>9. ASSUME RefreshStores PROVE OkWorks'
  <2>1. UNCHANGED <<okClock, published, since, okHas, okFrom>>
    BY <1>9 DEF RefreshStores
  <2> QED BY <1>9, <2>1, FetchedKeys, StoresEntry, LandsFlight, OkAssumption
      DEF OkInv, OkWorks, OkTypes, OkTrue, RefreshStores, Ends, Flights, Documents
<1>10. ASSUME RefreshFails PROVE OkWorks'
  <2>1. UNCHANGED <<okClock, published, since, entries, okHas, okFrom, okEnded>>
    BY <1>10 DEF RefreshFails
  <2> QED BY <1>10, <2>1, FetchedKeys, LandsFlight, OkAssumption
      DEF OkInv, OkWorks, OkTypes, OkTrue, RefreshFails, Ends, Flights
<1>11. ASSUME NEW k \in OkKeys, OkRotate(k) PROVE OkWorks'
  <2>1. UNCHANGED <<okClock, okAt, okHas, okFrom>>
    BY <1>11 DEF OkRotate
  <2>2. HttpTimeout + Ttl["jwks"] + StaleFor["jwks"] \in Nat
    BY OkAssumption DEF Documents
  <2>3. \A c \in OkCalls : okFrom[c] \in Nat /\ okFrom[c] <= okClock
    BY OkAssumption DEF OkInv, OkTypes
  <2>4. \A c \in OkCalls : okAt[c] = "exchange" =>
            OkTrue(okHas[c], okFrom[c], HttpTimeout + Ttl["jwks"] + StaleFor["jwks"])'
    BY <1>11, <2>1, <2>2, <2>3, TrueRotates DEF OkInv, OkWorks
  <2> QED BY <2>1, <2>4 DEF OkInv, OkWorks
<1>12. ASSUME OkTick PROVE OkWorks'
  <2>1. UNCHANGED <<published, since, entries, flights, okAt, okHas, okFrom, okEnded>>
    BY <1>12 DEF OkTick
  <2> QED BY <1>12, <2>1, OkAssumption DEF OkInv, OkWorks, OkTypes, OkTrue, OkTick
<1>13. CASE UNCHANGED okVars
  BY <1>13 DEF okVars, OkInv, OkWorks, OkTypes, OkTrue
<1>14. ASSUME NEW c \in OkCalls, NEW k \in OkKeys, OkVerifyUnnamed(c, k)
       PROVE  OkWorks'
  <2>1. UNCHANGED <<okClock, published, since, entries, flights, okFrom>>
    BY <1>14 DEF OkVerifyUnnamed
  <2> QED BY <1>14, <2>1, OkAssumption DEF OkInv, OkWorks, OkTypes, OkTrue, OkVerifyUnnamed
<1> QED BY <1>1, <1>2, <1>3, <1>4, <1>5, <1>6, <1>7, <1>8, <1>9, <1>10, <1>11, <1>12, <1>13,
           <1>14
        DEF OkNext

\* A withdrawn key dies.
LEMMA OkDiesStep ==
    ASSUME OkInv, OkTypes', [OkNext]_okVars
    PROVE  UpstreamKeyDies'
<1>1. ASSUME NEW c \in OkCalls, BeginExchange(c) PROVE UpstreamKeyDies'
  <2>1. UNCHANGED <<okClock, published, since, entries, flights, okHas, okFrom, okEnded>>
    BY <1>1 DEF BeginExchange
  <2> QED BY <1>1, <2>1, OkAssumption DEF OkInv, OkTypes, UpstreamKeyDies, BeginExchange
<1>2. ASSUME NEW c \in OkCalls, RefreshJoin(c) PROVE UpstreamKeyDies'
  <2>1. UNCHANGED <<okClock, published, since, entries, okHas, okFrom, okEnded>>
    BY <1>2 DEF RefreshJoin
  <2> QED BY <1>2, <2>1, RefreshJoins, OkAssumption DEF OkInv, OkTypes, UpstreamKeyDies, OkJoins
<1>3. ASSUME NEW c \in OkCalls, NEW d \in Documents, LoadLook(c, d) PROVE UpstreamKeyDies'
  <2>1. UNCHANGED <<okClock, published, since, entries, flights, okEnded>>
    BY <1>3 DEF LoadLook
  <2> QED BY <1>3, <2>1, CopyKeys, OkAssumption
      DEF OkInv, OkTypes, UpstreamKeyDies, LoadLook, OkFresh, Resolved, After, Missed
<1>4. ASSUME NEW c \in OkCalls, NEW d \in Documents, LoadJoin(c, d) PROVE UpstreamKeyDies'
  <2>1. UNCHANGED <<okClock, published, since, entries, okEnded>>
    BY <1>4 DEF LoadJoin
  <2> QED BY <1>4, <2>1, LoadJoins, OkAssumption
      DEF OkInv, OkTypes, UpstreamKeyDies, OkJoins, OkFresh, Resolved, After
<1>5. ASSUME NEW c \in OkCalls, NEW k \in OkKeys, OkVerifyIDToken(c, k) PROVE UpstreamKeyDies'
  <2>1. UNCHANGED <<okClock, published, since>> /\ okAt[c] = "exchange"
    BY <1>5 DEF OkVerifyIDToken
  <2>2. CASE okEnded' = okEnded
    BY <2>1, <2>2 DEF OkInv, UpstreamKeyDies
  <2>3. CASE okEnded' = {Named(k, okHas[c])} /\ k \in okHas[c]
    <3>1. /\ okClock \in Nat /\ okFrom[c] \in Nat /\ since[k] \in Nat /\ HttpTimeout \in Nat
          /\ Ttl["jwks"] \in Nat /\ StaleFor["jwks"] \in Nat
      BY OkAssumption DEF OkInv, OkTypes, Documents
    <3>2. okClock <= okFrom[c] + HttpTimeout
      BY <2>1 DEF OkInv, OkWorks
    <3>3. k \notin published => okFrom[c] <= since[k] + (HttpTimeout + Ttl["jwks"] + StaleFor["jwks"])
      BY <2>1, <2>3 DEF OkInv, OkWorks, OkTrue
    <3>4. k \notin published => okClock <= since[k] + Ttl["jwks"] + StaleFor["jwks"] + 2 * HttpTimeout
      BY <3>1, <3>2, <3>3
    <3>5. Named(k, okHas[c]).key = k /\ Named(k, okHas[c]).at = okClock
      BY DEF Named
    <3> QED BY <2>1, <2>3, <3>4, <3>5 DEF UpstreamKeyDies
  <2> QED BY <1>5, <2>2, <2>3 DEF OkVerifyIDToken
<1>6. ASSUME NEW g \in Flights, FetchReads(g) PROVE UpstreamKeyDies'
  <2>1. UNCHANGED <<okClock, published, since, entries, okAt, okHas, okFrom, okEnded>>
    BY <1>6 DEF FetchReads
  <2> QED BY <1>6, <2>1, ReadsUpstream, OkAssumption DEF OkInv, OkTypes, UpstreamKeyDies
<1>7. ASSUME NEW d \in Documents, LoadStores(d) PROVE UpstreamKeyDies'
  <2>1. UNCHANGED <<okClock, published, since, okEnded>>
    BY <1>7 DEF LoadStores
  <2> QED BY <1>7, <2>1, FetchedKeys, StoresEntry, LandsFlight, OkAssumption
      DEF OkInv, OkTypes, UpstreamKeyDies, LoadStores, Resolved, After, Flights
<1>8. ASSUME NEW d \in Documents, LoadFails(d) PROVE UpstreamKeyDies'
  <2>1. UNCHANGED <<okClock, published, since, entries, okEnded>>
    BY <1>8 DEF LoadFails
  <2> QED BY <1>8, <2>1, FetchedKeys, CopyKeys, LandsFlight, OkAssumption
      DEF OkInv, OkTypes, UpstreamKeyDies, LoadFails, Resolved, After, Ends, Peek, Flights
<1>9. ASSUME RefreshStores PROVE UpstreamKeyDies'
  <2>1. /\ flights["refresh"] # OkNone /\ flights["refresh"].keys # OkNone /\ "refresh" \in Flights
    BY <1>9 DEF RefreshStores, Flights
  <2>2. /\ flights["refresh"].keys \in SUBSET OkKeys
        /\ flights["refresh"].calls \in SUBSET OkCalls
    BY <2>1, FetchedKeys DEF OkInv
  <2>4. \A e \in okEnded' :
            /\ e \in [key : OkKeys, at : 0 .. okClock, ok : BOOLEAN, named : BOOLEAN]
            /\ e.at = okClock
            /\ e.ok => e.key \in flights["refresh"].keys
            /\ e.named /\ ~e.ok => e.key \notin flights["refresh"].keys
    BY <1>9, RefreshVerdicts
  <2>5. UNCHANGED <<okClock, published, since>>
    BY <1>9 DEF RefreshStores
  <2>6. OkTrue(flights["refresh"].keys, okClock, HttpTimeout)
    BY <2>1, FetchIsTrue
  <2>7. /\ okClock \in Nat /\ HttpTimeout \in Nat /\ Ttl["jwks"] \in Nat /\ StaleFor["jwks"] \in Nat
        /\ \A k \in OkKeys : since[k] \in Nat
    BY OkAssumption DEF OkInv, OkTypes, Documents
  <2>8. ASSUME NEW e \in okEnded', e.ok, e.key \notin published
        PROVE  e.at <= since[e.key] + Ttl["jwks"] + StaleFor["jwks"] + 2 * HttpTimeout
    <3>1. e.key \in OkKeys /\ e.at = okClock /\ e.key \in flights["refresh"].keys
      BY <2>4, <2>8
    <3>2. okClock <= since[e.key] + HttpTimeout
      BY <2>6, <2>8, <3>1 DEF OkTrue
    <3> QED BY <2>7, <3>1, <3>2
  <2> QED BY <2>5, <2>8 DEF UpstreamKeyDies
<1>10. ASSUME RefreshFails PROVE UpstreamKeyDies'
  <2>1. UNCHANGED <<okClock, published, since, entries, okHas, okFrom, okEnded>>
    BY <1>10 DEF RefreshFails
  <2> QED BY <1>10, <2>1, FetchedKeys, LandsFlight, OkAssumption
      DEF OkInv, OkTypes, UpstreamKeyDies, RefreshFails, Ends, Flights
<1>11. ASSUME NEW k \in OkKeys, OkRotate(k) PROVE UpstreamKeyDies'
  <2>1. UNCHANGED <<okClock, entries, flights, okAt, okHas, okFrom, okEnded>>
    BY <1>11 DEF OkRotate
  <2> QED BY <1>11, <2>1, OkAssumption DEF OkInv, OkTypes, UpstreamKeyDies, OkRotate
<1>12. ASSUME OkTick PROVE UpstreamKeyDies'
  <2>1. UNCHANGED <<published, since, entries, flights, okAt, okHas, okFrom, okEnded>>
    BY <1>12 DEF OkTick
  <2> QED BY <1>12, <2>1, OkAssumption DEF OkInv, OkTypes, UpstreamKeyDies, OkTick
<1>13. CASE UNCHANGED okVars
  BY <1>13 DEF okVars, OkInv, OkTypes, UpstreamKeyDies
<1>14. ASSUME NEW c \in OkCalls, NEW k \in OkKeys, OkVerifyUnnamed(c, k)
       PROVE  UpstreamKeyDies'
  <2>1. UNCHANGED <<okClock, published, since>> /\ okAt[c] = "exchange"
    BY <1>14 DEF OkVerifyUnnamed
  <2>2. CASE okEnded' = okEnded
    BY <2>1, <2>2 DEF OkInv, UpstreamKeyDies
  <2>3. ASSUME NEW first \in okHas[c], okEnded' = {Unnamed(k, first)} PROVE UpstreamKeyDies'
    <3>1. /\ okClock \in Nat /\ okFrom[c] \in Nat /\ since[k] \in Nat /\ HttpTimeout \in Nat
          /\ Ttl["jwks"] \in Nat /\ StaleFor["jwks"] \in Nat
      BY OkAssumption DEF OkInv, OkTypes, Documents
    <3>2. okClock <= okFrom[c] + HttpTimeout
      BY <2>1 DEF OkInv, OkWorks
    <3>3. k = first /\ k \notin published
             => okFrom[c] <= since[k] + (HttpTimeout + Ttl["jwks"] + StaleFor["jwks"])
      BY <2>1, <2>3 DEF OkInv, OkWorks, OkTrue
    <3>4. k = first /\ k \notin published
             => okClock <= since[k] + Ttl["jwks"] + StaleFor["jwks"] + 2 * HttpTimeout
      BY <3>1, <3>2, <3>3
    <3>5. /\ Unnamed(k, first).key = k /\ Unnamed(k, first).at = okClock
          /\ Unnamed(k, first).ok <=> k = first
      BY DEF Unnamed
    <3> QED BY <2>1, <2>3, <3>4, <3>5 DEF UpstreamKeyDies
  <2> QED BY <1>14, <2>2, <2>3 DEF OkVerifyUnnamed
<1> QED BY <1>1, <1>2, <1>3, <1>4, <1>5, <1>6, <1>7, <1>8, <1>9, <1>10, <1>11, <1>12, <1>13,
           <1>14
        DEF OkNext

\* A new key is found.
LEMMA OkFoundStep ==
    ASSUME OkInv, OkTypes', [OkNext]_okVars
    PROVE  NewKeyIsFound'
<1>1. ASSUME NEW c \in OkCalls, BeginExchange(c) PROVE NewKeyIsFound'
  <2>1. UNCHANGED <<okClock, published, since, entries, flights, okHas, okFrom, okEnded>>
    BY <1>1 DEF BeginExchange
  <2> QED BY <1>1, <2>1, OkAssumption DEF OkInv, OkTypes, NewKeyIsFound, BeginExchange
<1>2. ASSUME NEW c \in OkCalls, RefreshJoin(c) PROVE NewKeyIsFound'
  <2>1. UNCHANGED <<okClock, published, since, entries, okHas, okFrom, okEnded>>
    BY <1>2 DEF RefreshJoin
  <2> QED BY <1>2, <2>1, RefreshJoins, OkAssumption DEF OkInv, OkTypes, NewKeyIsFound, OkJoins
<1>3. ASSUME NEW c \in OkCalls, NEW d \in Documents, LoadLook(c, d) PROVE NewKeyIsFound'
  <2>1. UNCHANGED <<okClock, published, since, entries, flights, okEnded>>
    BY <1>3 DEF LoadLook
  <2> QED BY <1>3, <2>1, CopyKeys, OkAssumption
      DEF OkInv, OkTypes, NewKeyIsFound, LoadLook, OkFresh, Resolved, After, Missed
<1>4. ASSUME NEW c \in OkCalls, NEW d \in Documents, LoadJoin(c, d) PROVE NewKeyIsFound'
  <2>1. UNCHANGED <<okClock, published, since, entries, okEnded>>
    BY <1>4 DEF LoadJoin
  <2> QED BY <1>4, <2>1, LoadJoins, OkAssumption
      DEF OkInv, OkTypes, NewKeyIsFound, OkJoins, OkFresh, Resolved, After
<1>5. ASSUME NEW c \in OkCalls, NEW k \in OkKeys, OkVerifyIDToken(c, k) PROVE NewKeyIsFound'
  <2>1. UNCHANGED <<okClock, published, since>>
    BY <1>5 DEF OkVerifyIDToken
  <2>2. CASE okEnded' = okEnded
    BY <2>1, <2>2 DEF OkInv, NewKeyIsFound
  <2>3. CASE okEnded' = {Named(k, okHas[c])} /\ k \in okHas[c]
    <3>1. Named(k, okHas[c]).ok
      BY <2>3 DEF Named
    <3> QED BY <2>3, <3>1 DEF NewKeyIsFound
  <2> QED BY <1>5, <2>2, <2>3 DEF OkVerifyIDToken
<1>6. ASSUME NEW g \in Flights, FetchReads(g) PROVE NewKeyIsFound'
  <2>1. UNCHANGED <<okClock, published, since, entries, okAt, okHas, okFrom, okEnded>>
    BY <1>6 DEF FetchReads
  <2> QED BY <1>6, <2>1, ReadsUpstream, OkAssumption DEF OkInv, OkTypes, NewKeyIsFound
<1>7. ASSUME NEW d \in Documents, LoadStores(d) PROVE NewKeyIsFound'
  <2>1. UNCHANGED <<okClock, published, since, okEnded>>
    BY <1>7 DEF LoadStores
  <2> QED BY <1>7, <2>1, FetchedKeys, StoresEntry, LandsFlight, OkAssumption
      DEF OkInv, OkTypes, NewKeyIsFound, LoadStores, Resolved, After, Flights
<1>8. ASSUME NEW d \in Documents, LoadFails(d) PROVE NewKeyIsFound'
  <2>1. UNCHANGED <<okClock, published, since, entries, okEnded>>
    BY <1>8 DEF LoadFails
  <2> QED BY <1>8, <2>1, FetchedKeys, CopyKeys, LandsFlight, OkAssumption
      DEF OkInv, OkTypes, NewKeyIsFound, LoadFails, Resolved, After, Ends, Peek, Flights
<1>9. ASSUME RefreshStores PROVE NewKeyIsFound'
  <2>1. /\ flights["refresh"] # OkNone /\ flights["refresh"].keys # OkNone /\ "refresh" \in Flights
    BY <1>9 DEF RefreshStores, Flights
  <2>2. /\ flights["refresh"].keys \in SUBSET OkKeys
        /\ flights["refresh"].calls \in SUBSET OkCalls
    BY <2>1, FetchedKeys DEF OkInv
  <2>4. \A e \in okEnded' :
            /\ e \in [key : OkKeys, at : 0 .. okClock, ok : BOOLEAN, named : BOOLEAN]
            /\ e.at = okClock
            /\ e.ok => e.key \in flights["refresh"].keys
            /\ e.named /\ ~e.ok => e.key \notin flights["refresh"].keys
    BY <1>9, RefreshVerdicts
  <2>5. UNCHANGED <<okClock, published, since>>
    BY <1>9 DEF RefreshStores
  <2>6. OkTrue(flights["refresh"].keys, okClock, HttpTimeout)
    BY <2>1, FetchIsTrue
  <2>7. /\ okClock \in Nat /\ HttpTimeout \in Nat /\ Ttl["jwks"] \in Nat /\ StaleFor["jwks"] \in Nat
        /\ \A k \in OkKeys : since[k] \in Nat
    BY OkAssumption DEF OkInv, OkTypes, Documents
  <2>8. ASSUME NEW e \in okEnded', e.named, ~e.ok, e.key \in published
        PROVE  e.at <= since[e.key] + HttpTimeout
    <3>1. e.key \in OkKeys /\ e.at = okClock /\ e.key \notin flights["refresh"].keys
      BY <2>4, <2>8
    <3> QED BY <2>6, <2>8, <3>1 DEF OkTrue
  <2> QED BY <2>5, <2>8 DEF NewKeyIsFound
<1>10. ASSUME RefreshFails PROVE NewKeyIsFound'
  <2>1. UNCHANGED <<okClock, published, since, entries, okHas, okFrom, okEnded>>
    BY <1>10 DEF RefreshFails
  <2> QED BY <1>10, <2>1, FetchedKeys, LandsFlight, OkAssumption
      DEF OkInv, OkTypes, NewKeyIsFound, RefreshFails, Ends, Flights
<1>11. ASSUME NEW k \in OkKeys, OkRotate(k) PROVE NewKeyIsFound'
  <2>1. UNCHANGED <<okClock, entries, flights, okAt, okHas, okFrom, okEnded>>
    BY <1>11 DEF OkRotate
  <2> QED BY <1>11, <2>1, OkAssumption DEF OkInv, OkTypes, NewKeyIsFound, OkRotate
<1>12. ASSUME OkTick PROVE NewKeyIsFound'
  <2>1. UNCHANGED <<published, since, entries, flights, okAt, okHas, okFrom, okEnded>>
    BY <1>12 DEF OkTick
  <2> QED BY <1>12, <2>1, OkAssumption DEF OkInv, OkTypes, NewKeyIsFound, OkTick
<1>13. CASE UNCHANGED okVars
  BY <1>13 DEF okVars, OkInv, OkTypes, NewKeyIsFound
<1>14. ASSUME NEW c \in OkCalls, NEW k \in OkKeys, OkVerifyUnnamed(c, k)
       PROVE  NewKeyIsFound'
  <2>1. UNCHANGED <<okClock, published, since>>
    BY <1>14 DEF OkVerifyUnnamed
  <2>2. CASE okEnded' = okEnded
    BY <2>1, <2>2 DEF OkInv, NewKeyIsFound
  <2>3. ASSUME NEW first \in okHas[c], okEnded' = {Unnamed(k, first)} PROVE NewKeyIsFound'
    <3>1. ~Unnamed(k, first).named
      BY DEF Unnamed
    <3> QED BY <2>3, <3>1 DEF NewKeyIsFound
  <2> QED BY <1>14, <2>2, <2>3 DEF OkVerifyUnnamed
<1> QED BY <1>1, <1>2, <1>3, <1>4, <1>5, <1>6, <1>7, <1>8, <1>9, <1>10, <1>11, <1>12, <1>13,
           <1>14
        DEF OkNext

\* No fetch while a copy is fresh.
LEMMA OkRefetchStep ==
    ASSUME OkInv, OkTypes', [OkNext]_okVars
    PROVE  NoRefetchWhileFresh'
<1>1. ASSUME NEW c \in OkCalls, BeginExchange(c) PROVE NoRefetchWhileFresh'
  <2>1. UNCHANGED <<okClock, published, since, entries, flights, okHas, okFrom, okEnded>>
    BY <1>1 DEF BeginExchange
  <2> QED BY <1>1, <2>1, OkAssumption
      DEF OkInv, OkTypes, OkFetches, NoRefetchWhileFresh, BeginExchange
<1>2. ASSUME NEW c \in OkCalls, RefreshJoin(c) PROVE NoRefetchWhileFresh'
  <2>1. OkJoins(c, "refresh") /\ UNCHANGED <<entries, okClock>>
    BY <1>2, RefreshJoins DEF OkInv, RefreshJoin
  <2>2. \A d \in Documents : flights'[d] = flights[d]
    BY <2>1 DEF OkJoins, Documents, Flights
  <2> QED BY <2>1, <2>2 DEF OkInv, NoRefetchWhileFresh
<1>3. ASSUME NEW c \in OkCalls, NEW d \in Documents, LoadLook(c, d) PROVE NoRefetchWhileFresh'
  <2>1. UNCHANGED <<okClock, published, since, entries, flights, okEnded>>
    BY <1>3 DEF LoadLook
  <2> QED BY <1>3, <2>1, CopyKeys, OkAssumption
      DEF OkInv, OkTypes, OkFetches, NoRefetchWhileFresh, LoadLook, OkFresh, Resolved, After, Missed
<1>4. ASSUME NEW c \in OkCalls, NEW d \in Documents, LoadJoin(c, d) PROVE NoRefetchWhileFresh'
  <2>1. UNCHANGED <<okClock, published, since, entries, okEnded>>
    BY <1>4 DEF LoadJoin
  <2>2. CASE OkJoins(c, d) /\ (flights[d] # OkNone \/ ~OkFresh(d))
    <3>1. \A e \in Documents \ {d} : flights'[e] = flights[e]
      BY <2>2 DEF OkJoins, Flights
    <3>2. CASE flights[d] # OkNone
      <4>1. flights'[d].at = flights[d].at
        BY <2>2, <3>2 DEF OkJoins
      <4> QED BY <2>1, <3>1, <3>2, <4>1 DEF OkInv, NoRefetchWhileFresh
    <3>3. CASE flights[d] = OkNone /\ ~OkFresh(d)
      <4>1. flights'[d].at = okClock
        BY <2>2, <3>3 DEF OkJoins
      <4>2. entries[d] # OkNone => okClock > entries[d].exp
        <5>1. okClock \in Nat
          BY OkAssumption DEF OkInv, OkTypes
        <5> QED BY <3>3, <5>1, CopyKeys DEF OkFresh, OkInv
      <4> QED BY <2>1, <3>1, <4>1, <4>2 DEF OkInv, NoRefetchWhileFresh
    <3> QED BY <2>2, <3>2, <3>3
  <2>3. CASE OkFresh(d) /\ Resolved({c}, d, entries[d].keys) /\ UNCHANGED flights
    BY <2>1, <2>3 DEF OkInv, NoRefetchWhileFresh
  <2> QED BY <1>4, <2>2, <2>3, LoadJoins DEF OkInv
<1>5. ASSUME NEW c \in OkCalls, NEW k \in OkKeys, OkVerifyIDToken(c, k) PROVE NoRefetchWhileFresh'
  <2>1. UNCHANGED <<okClock, published, since, entries, flights, okFrom>>
    BY <1>5 DEF OkVerifyIDToken
  <2> QED BY <1>5, <2>1, OkAssumption
      DEF OkInv, OkTypes, OkFetches, NoRefetchWhileFresh, OkVerifyIDToken
<1>6. ASSUME NEW g \in Flights, FetchReads(g) PROVE NoRefetchWhileFresh'
  <2>1. UNCHANGED entries
    BY <1>6 DEF FetchReads
  <2>2. \A d \in Documents : flights'[d] # OkNone => flights[d] # OkNone /\ flights'[d].at = flights[d].at
    BY <1>6, ReadsUpstream DEF OkInv, Flights
  <2> QED BY <2>1, <2>2 DEF OkInv, NoRefetchWhileFresh
<1>7. ASSUME NEW d \in Documents, LoadStores(d) PROVE NoRefetchWhileFresh'
  <2>1. /\ d \in Flights /\ d \in Documents /\ flights[d] # OkNone
        /\ flights[d].keys # OkNone
        /\ entries' = Stored(d, flights[d].keys) /\ UNCHANGED <<okClock, published, since>>
    BY <1>7 DEF LoadStores, Flights, Documents
  <2>2. /\ flights[d].keys \in SUBSET OkKeys /\ okClock \in Nat
    BY <2>1, FetchedKeys, OkAssumption DEF OkInv, OkTypes
  <2>3. /\ entries'[d].keys = flights[d].keys /\ entries'[d].exp = okClock + Ttl[d]
        /\ entries'[d].at = okClock
        /\ \A e \in Documents \ {d} : entries'[e] = entries[e]
    BY <2>1, <2>2, StoresEntry DEF OkInv
  <2>4. /\ flights'[d] = OkNone /\ \A h \in Flights \ {d} : flights'[h] = flights[h]
    BY <1>7, <2>1, LandsFlight DEF LoadStores, OkInv
  <2>5. ASSUME NEW e \in Documents, flights'[e] # OkNone, entries'[e] # OkNone
        PROVE  entries'[e].at >= flights'[e].at \/ flights'[e].at > entries'[e].exp
    <3>1. e \in Flights /\ flights'[e] = flights[e] /\ flights[e] # OkNone
      BY <2>4, <2>5 DEF Flights
    <3>2. CASE e = d
      <4>1. flights[e].at <= okClock /\ flights[e].at \in Nat
        BY <3>1, FetchedKeys DEF OkInv, OkFetches
      <4> QED BY <2>2, <2>3, <3>1, <3>2, <4>1
    <3>3. CASE e # d
      BY <2>3, <2>5, <3>1, <3>3 DEF OkInv, NoRefetchWhileFresh
    <3> QED BY <3>2, <3>3
  <2> QED BY <2>5 DEF NoRefetchWhileFresh
<1>8. ASSUME NEW d \in Documents, LoadFails(d) PROVE NoRefetchWhileFresh'
  <2>1. UNCHANGED <<okClock, published, since, entries, okEnded>>
    BY <1>8 DEF LoadFails
  <2> QED BY <1>8, <2>1, FetchedKeys, CopyKeys, LandsFlight, OkAssumption
      DEF OkInv, OkTypes, OkFetches, NoRefetchWhileFresh, LoadFails, Resolved, After, Ends, Peek,
          Flights
<1>9. ASSUME RefreshStores PROVE NoRefetchWhileFresh'
  <2>1. /\ "refresh" \in Flights /\ "jwks" \in Documents /\ flights["refresh"] # OkNone
        /\ flights["refresh"].keys # OkNone
        /\ entries' = Stored("jwks", flights["refresh"].keys) /\ UNCHANGED <<okClock, published, since>>
    BY <1>9 DEF RefreshStores, Flights, Documents
  <2>2. /\ flights["refresh"].keys \in SUBSET OkKeys /\ okClock \in Nat
    BY <2>1, FetchedKeys, OkAssumption DEF OkInv, OkTypes
  <2>3. /\ entries'["jwks"].keys = flights["refresh"].keys /\ entries'["jwks"].exp = okClock + Ttl["jwks"]
        /\ entries'["jwks"].at = okClock
        /\ \A e \in Documents \ {"jwks"} : entries'[e] = entries[e]
    BY <2>1, <2>2, StoresEntry DEF OkInv
  <2>4. /\ flights'["refresh"] = OkNone /\ \A h \in Flights \ {"refresh"} : flights'[h] = flights[h]
    BY <1>9, <2>1, LandsFlight DEF RefreshStores, OkInv
  <2>5. ASSUME NEW e \in Documents, flights'[e] # OkNone, entries'[e] # OkNone
        PROVE  entries'[e].at >= flights'[e].at \/ flights'[e].at > entries'[e].exp
    <3>1. e \in Flights /\ flights'[e] = flights[e] /\ flights[e] # OkNone
      BY <2>4, <2>5 DEF Flights
    <3>2. CASE e = "jwks"
      <4>1. flights[e].at <= okClock /\ flights[e].at \in Nat
        BY <3>1, FetchedKeys DEF OkInv, OkFetches
      <4> QED BY <2>2, <2>3, <3>1, <3>2, <4>1
    <3>3. CASE e # "jwks"
      BY <2>3, <2>5, <3>1, <3>3 DEF OkInv, NoRefetchWhileFresh
    <3> QED BY <3>2, <3>3
  <2> QED BY <2>5 DEF NoRefetchWhileFresh
<1>10. ASSUME RefreshFails PROVE NoRefetchWhileFresh'
  <2>1. UNCHANGED <<okClock, published, since, entries, okHas, okFrom, okEnded>>
    BY <1>10 DEF RefreshFails
  <2> QED BY <1>10, <2>1, FetchedKeys, LandsFlight, OkAssumption
      DEF OkInv, OkTypes, OkFetches, NoRefetchWhileFresh, RefreshFails, Ends, Flights
<1>11. ASSUME NEW k \in OkKeys, OkRotate(k) PROVE NoRefetchWhileFresh'
  <2>1. UNCHANGED <<okClock, entries, flights, okAt, okHas, okFrom, okEnded>>
    BY <1>11 DEF OkRotate
  <2> QED BY <1>11, <2>1, OkAssumption DEF OkInv, OkTypes, OkFetches, NoRefetchWhileFresh, OkRotate
<1>12. ASSUME OkTick PROVE NoRefetchWhileFresh'
  <2>1. UNCHANGED <<published, since, entries, flights, okAt, okHas, okFrom, okEnded>>
    BY <1>12 DEF OkTick
  <2> QED BY <1>12, <2>1, OkAssumption DEF OkInv, OkTypes, OkFetches, NoRefetchWhileFresh, OkTick
<1>13. CASE UNCHANGED okVars
  BY <1>13 DEF okVars, OkInv, OkTypes, OkFetches, NoRefetchWhileFresh
<1>14. ASSUME NEW c \in OkCalls, NEW k \in OkKeys, OkVerifyUnnamed(c, k)
       PROVE  NoRefetchWhileFresh'
  <2>1. UNCHANGED <<okClock, published, since, entries, flights, okFrom>>
    BY <1>14 DEF OkVerifyUnnamed
  <2> QED BY <1>14, <2>1, OkAssumption
      DEF OkInv, OkTypes, OkFetches, NoRefetchWhileFresh, OkVerifyUnnamed
<1> QED BY <1>1, <1>2, <1>3, <1>4, <1>5, <1>6, <1>7, <1>8, <1>9, <1>10, <1>11, <1>12, <1>13,
           <1>14
        DEF OkNext

\* Nothing is cached or under way at first.
LEMMA OkInvInit == OkInit => OkInv
<1> SUFFICES ASSUME OkInit PROVE OkInv
  OBVIOUS
<1>1. OkTypes
  BY OkAssumption DEF OkInit, OkTypes
<1>2. /\ \A g \in Flights : flights[g] = OkNone
      /\ \A d \in Documents : entries[d] = OkNone
      /\ \A c \in OkCalls : okAt[c] = "idle"
      /\ okEnded = {}
  BY DEF OkInit
<1>3. \A d \in Documents : d \in Flights
  BY DEF Flights
<1> QED BY <1>1, <1>2, <1>3 DEF OkInv, OkWaits, OkFetches, OkCopies, OkWorks, UpstreamKeyDies,
        NewKeyIsFound, NoRefetchWhileFresh

\* Every step keeps the invariant.
LEMMA OkInvHolds == OkSpec => []OkInv
<1>1. OkInv /\ [OkNext]_okVars => OkInv'
  BY OkTypesStep, OkWaitsStep, OkFetchesStep, OkCopiesStep, OkWorksStep, OkDiesStep,
     OkFoundStep, OkRefetchStep DEF OkInv
<1> QED BY <1>1, OkInvInit, PTL DEF OkSpec

\* cache.go, verify.go: a key that the upstream has withdrawn verifies no token after the
\* lifetime, the grace period and two timeouts, a key it has added is found by the tokens
\* that name it, and no fetch begins beside a fresh copy.  For any number of sign-ins and
\* keys.
THEOREM UpstreamKeysStaySound == OkSpec => []UpstreamKeysSound
<1>1. OkInv => UpstreamKeysSound
  <2> SUFFICES ASSUME OkInv PROVE OkTypeOK
    BY DEF OkInv, UpstreamKeysSound
  <2>1. ASSUME NEW d \in Documents, entries[d] # OkNone
        PROVE  entries[d].keys \subseteq OkKeys /\ entries[d].exp <= okClock + Ttl[d]
    <3>1. /\ entries[d].exp = entries[d].at + Ttl[d] /\ entries[d].at <= okClock
      BY <2>1 DEF OkInv, OkCopies
    <3>2. okClock \in Nat /\ Ttl[d] \in Nat
      BY OkAssumption DEF OkInv, OkTypes
    <3> QED BY <2>1, <3>1, <3>2, CopyKeys DEF OkInv
  <2> QED BY <2>1 DEF OkInv, OkTypes, OkTypeOK, OkWaits
<1> QED BY <1>1, OkInvHolds, PTL
=============================================================================
