------------------------------- MODULE SignIn -------------------------------
(***************************************************************************)
(* Browsers, their cookies, and the ways to a session: the OIDC flow       *)
(* (api/public/oauth/oidc.go), the login form (api/public/oauth/login.go)  *)
(* and the session cookie itself (api/shared/session.go).  The server keeps*)
(* no row of any of it: everything it knows later is what a cookie, a state*)
(* or a form brings back, and any of those can be brought back by another  *)
(* browser, late, twice, or beside one of another flow.                    *)
(*                                                                         *)
(* A request carries the cookies its browser had when it was sent, or none *)
(* of them when it comes from another site; the answer's cookies arrive in *)
(* a later step.  A value the server makes is named after the request that *)
(* made it.  The upstream IdP is external: it redeems a code once, checks  *)
(* PKCE when UpstreamPkce says so, and puts the nonce of the authorization *)
(* request into the ID token.                                              *)
(*                                                                         *)
(* The middleware reads users through the cache of WithUserCache, the      *)
(* sign-in does not.  Of the cache this module has what UserDirectory      *)
(* shows of it: a read answers with a status that the row has, or had      *)
(* within the last UserCacheTTL.                                           *)
(***************************************************************************)
EXTENDS Naturals, FiniteSets

CONSTANTS Browsers, SiUsers, SiRequests, SiNone,
          SiKeep,         \* in an answer: the cookie stays as it is
          SiWorkloads,    \* [kinds: [request -> kinds], world]
          Invented,       \* a login nonce this server never minted
          StateMaxAge,    \* the lifetime of the state and of its cookie
          SessionMaxAge,  \* the lifetime of a session cookie
          UserCacheTTL,   \* how long the user cache serves a row that has changed
          FailClosed,     \* session.fail_closed
          UpstreamPkce,   \* the upstream checks the code verifier
          SiLast          \* bound: the last instant

ASSUME SiAssumption ==
  /\ StateMaxAge \in Nat /\ SessionMaxAge \in Nat /\ UserCacheTTL \in Nat /\ SiLast \in Nat
  /\ FailClosed \in BOOLEAN /\ UpstreamPkce \in BOOLEAN
  /\ SiNone \notin SiRequests /\ Invented \notin SiRequests /\ SiKeep \notin SiRequests

VARIABLES
  siWork,    \* the workload
  siClock,
  siAt,      \* [request -> where it is]
  siIn,      \* [request -> what it carries, and the cookies of its answer]
  jar,       \* [browser -> its cookies]
  flows,     \* [request -> the state an /oidc/start put into its redirect]
  codes,     \* {[flow, user, used]}: codes of the upstream (external)
  forms,     \* login forms on the screens: {[nonce, by]}
  siStatus,  \* [user -> status of its row]
  siFormer,  \* [user -> {[row, until]}]: the statuses its row had before (history)
  siSeen,    \* {[user, at, by, born, row, status]}: requests admitted with a session
             \* on the word `row` of the cache, and the status of the row then (history)
  upset      \* browsers that lost their login nonce to a logout, to its Max-Age or to
             \* the answer of a request that came without it (history)

siVars == <<siWork, siClock, siAt, siIn, jar, flows, codes, forms, siStatus, siFormer, siSeen,
            upset>>

NoJar == [session |-> SiNone, state |-> SiNone, nonce |-> SiNone]

NoFlow == [by |-> SiNone, at |-> 0, plain |-> TRUE]

SiIdle == [kind |-> "none"]

SiStatuses == {"active", "disabled", "gone"}

SiInit ==
  /\ siWork \in SiWorkloads
  /\ siClock = 0
  /\ siAt = [p \in SiRequests |-> "idle"]
  /\ siIn = [p \in SiRequests |-> SiIdle]
  /\ \E planted \in IF "planted" \in siWork.world THEN BOOLEAN ELSE {FALSE} :
        jar = [b \in Browsers |-> [NoJar EXCEPT !.nonce = IF planted THEN Invented ELSE SiNone]]
  /\ flows = [p \in SiRequests |-> NoFlow]
  /\ codes = {} /\ forms = {} /\ siSeen = {} /\ upset = {}
  /\ siStatus = [u \in SiUsers |-> "active"]
  /\ siFormer = [u \in SiUsers |-> {}]

SiHas(w) == w \in siWork.world

\* A request leaves the browser with the cookies of that moment.  SameSite strips
\* the cookies from a request that another site makes; its answer sets them.
Sends(p, kind, b, with) ==
  /\ siAt[p] = "idle" /\ kind \in siWork.kinds[p]
  /\ siAt' = [siAt EXCEPT ![p] = "sent"]
  /\ \E sent \in IF SiHas("crossSite") THEN {jar[b], NoJar} ELSE {jar[b]} :
        siIn' = [siIn EXCEPT ![p] = [kind |-> kind, b |-> b, jar |-> sent, with |-> with,
                                     set |-> [session |-> SiKeep, state |-> SiKeep,
                                              nonce |-> SiKeep],
                                     form |-> SiNone]]

\* The server has answered: `set` are the cookies of the answer, `form` the
\* login form on the page.
Answers(p, set, form) ==
  /\ siAt' = [siAt EXCEPT ![p] = "answered"]
  /\ siIn' = [siIn EXCEPT ![p].set = set, ![p].form = form]

Same(p) == siIn[p].set

----------------------------------------------------------------------------
\* The session cookie.

\* SetSessionCookie: the user and the second it expires.
SetSessionCookie(u, by) == [user |-> u, exp |-> siClock + SessionMaxAge, by |-> by, born |-> siClock]

\* validateCookie: a cookie of ours, up to and including its last second.
ValidateCookie(c) == c # SiNone /\ siClock <= c.exp

\* What GetByID of the cache-fronted store may answer (WrapUserStore).
CachedRows(u) ==
  {siStatus[u]} \cup {o.row : o \in {o \in siFormer[u] : siClock <= o.until + UserCacheTTL}}

\* Wrap: what becomes of a request with a session cookie. A user that is gone
\* or disabled is rejected; without an answer of the store the policy decides.
Wrap(p, row) ==
  LET c == siIn[p].jar.session
      admits == ValidateCookie(c) /\ (row = "active" \/ (row \in {"nil", "error"} /\ ~FailClosed))
      clears == ValidateCookie(c) /\ ~admits
  IN /\ siAt[p] = "sent" /\ siIn[p].kind = "page"
     /\ row \in IF SiHas("storeFails") /\ c # SiNone
                THEN CachedRows(c.user) \cup {"nil", "error"}
                ELSE IF c = SiNone THEN {"gone"} ELSE CachedRows(c.user)
     /\ siSeen' = IF admits
                  THEN siSeen \cup {[user |-> c.user, at |-> siClock, by |-> c.by,
                                     born |-> c.born, row |-> row, status |-> siStatus[c.user]]}
                  ELSE siSeen
     /\ Answers(p, [Same(p) EXCEPT !.session = IF clears THEN SiNone ELSE SiKeep], SiNone)
     /\ UNCHANGED <<siWork, siClock, jar, flows, codes, forms, siStatus, siFormer, upset>>

----------------------------------------------------------------------------
\* The OIDC flow.

\* handleOIDCStart sets the state cookie before it encodes the state and asks
\* for the URL: when either fails the browser has the cookie and no redirect.
HandleOIDCStart(p, fails) ==
  /\ siAt[p] = "sent" /\ siIn[p].kind = "start" /\ (fails => SiHas("fails"))
  /\ flows' = IF fails THEN flows
              ELSE [flows EXCEPT ![p] = [by |-> siIn[p].b, at |-> siClock, plain |-> siIn[p].with]]
  /\ Answers(p, [Same(p) EXCEPT !.state = p], SiNone)
  /\ UNCHANGED <<siWork, siClock, jar, codes, forms, siStatus, siFormer, siSeen,
                 upset>>

\* The upstream signs a user in for one flow (external).
UpstreamCode(f, u) ==
  /\ flows[f].by # SiNone /\ siAt[f] = "done"
  /\ ~\E c \in codes : c.flow = f /\ c.user = u
  /\ codes' = codes \cup {[flow |-> f, user |-> u, used |-> FALSE]}
  /\ UNCHANGED <<siWork, siClock, siAt, siIn, jar, flows, forms, siStatus, siFormer, siSeen,
                 upset>>

\* Decode: a state of ours whose fields the separator still tells apart. A
\* redirect that holds the separator shifts them, and the signature fails.
Decode(f) == flows[f].by # SiNone /\ flows[f].plain

\* Mutant: the signature of the state is enough.
Pinned_AnyBrowser(p, f) == TRUE

\* The browser that brings the state has the cookie of that state.
Pinned(p, f) == siIn[p].jar.state = f

\* handleOIDCCallback up to the exchange. A refusal leaves the cookie.
HandleOIDCCallback(p) ==
  LET f == siIn[p].with.state
      accepted == Decode(f) /\ siClock <= flows[f].at + StateMaxAge /\ Pinned(p, f)
  IN /\ siAt[p] = "sent" /\ siIn[p].kind = "callback"
     /\ IF accepted THEN /\ siAt' = [siAt EXCEPT ![p] = "exchange"]
                         /\ siIn' = [siIn EXCEPT ![p].set.state = SiNone]
                    ELSE Answers(p, Same(p), SiNone)
     /\ UNCHANGED <<siWork, siClock, jar, flows, codes, forms, siStatus, siFormer, siSeen,
                    upset>>

\* The token endpoint of the upstream (external).
Redeemable(c, f) == ~c.used /\ (UpstreamPkce => c.flow = f)

\* verifyIDToken: the ID token answers the authorization request of this state.
VerifyIDToken(c, f) == c.flow = f

\* ExchangeCode: the upstream may be away, refuse the code or redeem it; then
\* the ID token is checked.
ExchangeCode(p, away) ==
  LET f == siIn[p].with.state
      c == CHOOSE x \in codes : x.flow = siIn[p].with.flow /\ x.user = siIn[p].with.user
      redeemed == ~away /\ Redeemable(c, f)
  IN /\ siAt[p] = "exchange" /\ (away => SiHas("fails"))
     /\ codes' = IF redeemed THEN (codes \ {c}) \cup {[c EXCEPT !.used = TRUE]} ELSE codes
     /\ IF redeemed /\ VerifyIDToken(c, f)
        THEN siAt' = [siAt EXCEPT ![p] = "user"] /\ UNCHANGED siIn
        ELSE Answers(p, Same(p), SiNone)
     /\ UNCHANGED <<siWork, siClock, jar, flows, forms, siStatus, siFormer, siSeen,
                    upset>>

\* AuthenticateOIDC finds the account active, and the answer sets the session;
\* or it refuses (disabled, e-mail in use, a store or secret that fails).
FinishCallback(p, refused) ==
  LET u == siIn[p].with.user
  IN /\ siAt[p] = "user" /\ (refused => SiHas("fails"))
     /\ IF siStatus[u] = "active" /\ ~refused
        THEN Answers(p, [Same(p) EXCEPT !.session = SetSessionCookie(u, flows[siIn[p].with.flow].by)], SiNone)
        ELSE Answers(p, Same(p), SiNone)
     /\ UNCHANGED <<siWork, siClock, jar, flows, codes, forms, siStatus, siFormer, siSeen,
                    upset>>

----------------------------------------------------------------------------
\* The login form.

\* parseLoginNonce: the MAC tells a nonce of this server from an invented one.
ParseLoginNonce(raw) == raw \in SiRequests

\* ensureLoginNonce: the browser's own nonce when it has one, else a new one.
EnsureLoginNonce(p) ==
  IF ParseLoginNonce(siIn[p].jar.nonce) THEN siIn[p].jar.nonce ELSE p

\* The page with the form, and the cookie when the nonce is new.
LoginPage(p) ==
  LET n == EnsureLoginNonce(p)
  IN Answers(p, [Same(p) EXCEPT !.nonce = IF n = p THEN p ELSE SiKeep],
                [nonce |-> n, by |-> siIn[p].b])

\* handleGetLogin.
HandleGetLogin(p) ==
  /\ siAt[p] = "sent" /\ siIn[p].kind = "getLogin"
  /\ LoginPage(p)
  /\ UNCHANGED <<siWork, siClock, jar, flows, codes, forms, siStatus, siFormer, siSeen,
                 upset>>

\* ValidateCSRF: the token of the form was derived from the nonce of the cookie.
ValidateCSRF(n, form) == form.nonce = n

\* Authenticate: one uniform refusal for an unknown, disabled or foreign account
\* and for a wrong password.
Authenticate(u) == siStatus[u] = "active"

\* handlePostLogin: cookie, MAC and token before the credentials; a refusal
\* renders the form again. The lockout is AuthLockout's.
HandlePostLogin(p, wrong) ==
  LET form == siIn[p].with.form
      n == siIn[p].jar.nonce
      u == siIn[p].with.user
  IN /\ siAt[p] = "sent" /\ siIn[p].kind = "postLogin"
     /\ IF ParseLoginNonce(n) /\ ValidateCSRF(n, form) /\ Authenticate(u) /\ ~wrong
        THEN Answers(p, [Same(p) EXCEPT !.session = SetSessionCookie(u, form.by)], SiNone)
        ELSE LoginPage(p)
     /\ UNCHANGED <<siWork, siClock, jar, flows, codes, forms, siStatus, siFormer, siSeen,
                    upset>>

\* handlePostLogout clears the session and the login nonce.
HandlePostLogout(p) ==
  /\ siAt[p] = "sent" /\ siIn[p].kind = "logout"
  /\ Answers(p, [Same(p) EXCEPT !.session = SiNone, !.nonce = SiNone], SiNone)
  /\ UNCHANGED <<siWork, siClock, jar, flows, codes, forms, siStatus, siFormer, siSeen,
                 upset>>

----------------------------------------------------------------------------
\* Browsers, people and time.

\* The answer reaches its browser: cookies replace cookies of their name.
Deliver(p) ==
  LET b == siIn[p].b
      set == siIn[p].set
      New(name) == IF set[name] = SiKeep THEN jar[b][name] ELSE set[name]
      \* the request came without a nonce that its browser now has
      crossed == /\ set.nonce # SiKeep /\ jar[b].nonce \in SiRequests
                 /\ ~ParseLoginNonce(siIn[p].jar.nonce)
  IN /\ siAt[p] = "answered"
     /\ siAt' = [siAt EXCEPT ![p] = "done"]
     /\ siIn' = [siIn EXCEPT ![p] = SiIdle]
     /\ jar' = [jar EXCEPT ![b] = [session |-> New("session"), state |-> New("state"),
                                   nonce |-> New("nonce")]]
     /\ forms' = IF siIn[p].form = SiNone THEN forms ELSE forms \cup {siIn[p].form}
     /\ upset' = IF crossed \/ siIn[p].kind = "logout" THEN upset \cup {b} ELSE upset
     /\ UNCHANGED <<siWork, siClock, flows, codes, siStatus, siFormer, siSeen>>

\* Links and forms may be opened in another browser than their own.
Browse(p, b) ==
  /\ \/ \E plain \in BOOLEAN : (plain \/ SiHas("separator")) /\ Sends(p, "start", b, plain)
     \/ \E c \in codes, f \in SiRequests :
           /\ flows[f].by # SiNone
           /\ Sends(p, "callback", b, [state |-> f, flow |-> c.flow, user |-> c.user])
     \/ Sends(p, "getLogin", b, SiNone)
     \/ \E form \in forms, u \in SiUsers : Sends(p, "postLogin", b, [form |-> form, user |-> u])
     \/ Sends(p, "page", b, SiNone)
     \/ Sends(p, "logout", b, SiNone)
  /\ UNCHANGED <<siWork, siClock, jar, flows, codes, forms, siStatus, siFormer, siSeen,
                 upset>>

\* The Max-Age of the login nonce runs out.
LoginNonceLapses(b) ==
  /\ SiHas("lapses") /\ jar[b].nonce \in SiRequests
  /\ jar' = [jar EXCEPT ![b].nonce = SiNone]
  /\ upset' = upset \cup {b}
  /\ UNCHANGED <<siWork, siClock, siAt, siIn, flows, codes, forms, siStatus, siFormer, siSeen>>

\* An administrator disables, enables or deletes a user.
ChangeStatus(u, to) ==
  /\ SiHas("admin") /\ siStatus[u] # "gone" /\ to # siStatus[u]
  /\ siStatus' = [siStatus EXCEPT ![u] = to]
  /\ siFormer' = [siFormer EXCEPT ![u] = @ \cup {[row |-> siStatus[u], until |-> siClock]}]
  /\ UNCHANGED <<siWork, siClock, siAt, siIn, jar, flows, codes, forms, siSeen, upset>>

SiTick ==
  /\ SiHas("time") /\ siClock < SiLast
  /\ siClock' = siClock + 1
  /\ UNCHANGED <<siWork, siAt, siIn, jar, flows, codes, forms, siStatus, siFormer, siSeen,
                 upset>>

SiNext ==
  \/ \E p \in SiRequests, b \in Browsers : Browse(p, b)
  \/ \E p \in SiRequests :
       \/ \E row \in SiStatuses \cup {"nil", "error"} : Wrap(p, row)
       \/ \E fails \in BOOLEAN : HandleOIDCStart(p, fails) \/ ExchangeCode(p, fails)
                                   \/ FinishCallback(p, fails) \/ HandlePostLogin(p, fails)
       \/ HandleOIDCCallback(p) \/ HandleGetLogin(p) \/ HandlePostLogout(p) \/ Deliver(p)
       \/ \E u \in SiUsers : UpstreamCode(p, u)
  \/ \E b \in Browsers : LoginNonceLapses(b)
  \/ \E u \in SiUsers, to \in SiStatuses : ChangeStatus(u, to)
  \/ SiTick

SiSpec == SiInit /\ [][SiNext]_siVars

----------------------------------------------------------------------------
Nonces == SiRequests \cup {SiNone, Invented}

SiSessions == [user : SiUsers, exp : 0 .. SiLast + SessionMaxAge, by : Browsers, born : 0 .. SiLast]

\* Cookies, states and forms have their shape: a nonce on a form or a state in a
\* cookie was made by the server (handleOIDCStart, ensureLoginNonce), and a
\* session names an account.
SiTypeOK ==
  /\ siClock \in 0 .. SiLast
  /\ siAt \in [SiRequests -> {"idle", "sent", "exchange", "user", "answered", "done"}]
  /\ \A b \in Browsers : /\ jar[b].session \in SiSessions \cup {SiNone}
                         /\ jar[b].state \in SiRequests \cup {SiNone}
                         /\ jar[b].nonce \in Nonces
  /\ flows \in [SiRequests -> [by : Browsers \cup {SiNone}, at : 0 .. SiLast, plain : BOOLEAN]]
  /\ forms \subseteq [nonce : SiRequests, by : Browsers]
  /\ codes \subseteq [flow : SiRequests, user : SiUsers, used : BOOLEAN]
  /\ siStatus \in [SiUsers -> SiStatuses]
  /\ siFormer \in [SiUsers -> SUBSET [row : SiStatuses, until : 0 .. SiLast]]

\* The session of a browser was opened in that browser: it comes from a code the
\* upstream issued for a flow this browser started, or from a login form this
\* browser was shown, however states, codes and forms are carried between
\* browsers (oidc.go:149 and verify.go:83; login.go:136-155).
SessionIsOwn ==
  \A b \in Browsers : jar[b].session # SiNone => jar[b].session.by = b

\* A login form stays good while others of the same browser are opened and posted.
\* Three things may part it from the nonce cookie: a logout, the Max-Age of the
\* cookie, and the answer to a request that did not bring the nonce, because it
\* crossed the answer that set it or because another site made it
\* (ensureLoginNonce, login.go:455-465).
FormsStayGood ==
  \A form \in forms : form.by \in upset \/ jar[form.by].nonce = form.nonce

\* A request is admitted as a user no later than a session's lifetime after the
\* sign-in that opened it.  When the store could tell, the account was active then,
\* or had been within the TTL of the user cache: a disabled or deleted user is out
\* of the front channel after that, also when the disable fell into the sign-in;
\* when it could not, session.fail_closed decides (Wrap, session.go:190-203;
\* validateCookie, session.go:479).
AdmittedHasStanding ==
  \A s \in siSeen :
    /\ s.at <= s.born + SessionMaxAge
    /\ \/ s.row = "active" /\ s.status = "active"
       \/ /\ s.row = "active"
          /\ \E o \in siFormer[s.user] : o.row = "active" /\ s.at <= o.until + UserCacheTTL
       \/ s.row \in {"nil", "error"} /\ ~FailClosed

\* Sign-in as a whole: a browser is signed in as the user who answered in it, its open
\* forms stay good, and nobody is admitted without standing (handleOIDCCallback,
\* ensureLoginNonce, SessionMiddleware.Wrap).
SignInSound ==
  /\ SiTypeOK
  /\ SessionIsOwn
  /\ FormsStayGood
  /\ AdmittedHasStanding
=============================================================================
