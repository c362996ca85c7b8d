# A verification project for authserver

authserver is an OAuth 2.1 authorization server written in Go. It issues, rotates
and revokes tokens for users, machine clients and agents, from several server
processes over one SQLite or PostgreSQL database. This directory holds TLA+ models
of its services and stores, with the weight on what happens *between* two
statements: two requests on one code, a revocation beside an exchange, a rotation
beside a cached key, a crash between two files, two servers that boot at once. TLC
checks them on small instances, and TLAPS proves the central ones for every
instance.

Contents: [parts of the system](#1-the-system-and-its-parts) -
[modules](#2-modules) - [runs](#3-runs) -
[disagreements with the documentation](#4-where-the-code-and-the-documentation-disagree) -
[proofs](#5-proofs) - [limits](#6-what-is-not-covered) - [plan](#7-plan)

## 1. The system and its parts

The layout is hexagonal: `api/` (HTTP handlers) and `cmd/` (CLI) call
`internal/services`, which hold the logic and keep no state of their own, and
those call the stores of `internal/adapters`. Four kinds of state matter:

* **rows of the database**, shared by all processes. A store call is one SQL
  statement, or one transaction where the code opens one. Everything else a
  request does interleaves with every other request;
* **memory of one process**: the user cache, the cached signing key and JWKS
  document, the lockout map, the buckets of the limiter, fetched client documents,
  keys of upstream issuers, the registration mode;
* **files**: the key directory of the `keyfile` backend, shared with the CLI;
* **what browsers, clients, Vault and upstream providers hold** and bring back: late,
  twice, or mixed with something else.

| Part | State it keeps | What is hard | What makes it correct |
|---|---|---|---|
| Code and refresh grants (`services/token.go`) | `auth_sessions`, `token_families`, `refresh_tokens`, `access_token_jtis`, `issuances` | the code is consumed before it is validated; the token is signed before the family is read again; the two halves of a revocation are not one transaction | a code buys one family; a family has one live token; reuse ends it; nothing else is reported as reuse |
| Revocation (`revocation.go`, `admin.go`, `grant_admin.go`) | the same rows, `revoked_jtis`, `consent_grants` | lists read before they are acted on; requests in flight | a revoked family's access tokens are denied; only entitled callers end one |
| Authorization and consent (`authorize.go`, `consent.go`) | `auth_sessions`, `consent_grants` | forms answered twice, code hashes that overwrite each other, consent revoked meanwhile | a code speaks for the session's user with the session's scopes; a denial is final |
| Token exchange, client credentials, introspection | `issuances`, `machine_tokens` | check, mint, re-check, undo; several reads of a moving state | no exchange widens; a revoked consent reaches what was derived; a dead token is inactive |
| JWT bearer grant (`jwt_bearer.go`, `xaa_*.go`, `idpjwks`) | `trusted_idps`, policies, mappings, `assertion_jtis`, a key cache | an administrator's edit in the middle of a grant, stale keys, purges against clock tolerance | an assertion buys one token, within the ceilings, under a key not long withdrawn |
| DPoP (`crypto/dpop.go`, `dpop_nonce.go`) | `dpop_jtis`, `dpop_nonces` | purges, clocks that differ | a proof buys once |
| Connections (`connect.go`, `broker_issuer.go`) | `connect_pending_states`, `broker_grants` | an upstream that rotates credentials under two vends | a credential follows its user, a vend replaces only what it read |
| Sign-in and upstream keys (`oidc.go`, `login.go`, `session.go`, `adapters/oidc`) | cookies, a document cache | two flows in one browser, answers out of order, key rotation upstream | a browser is signed in as the user who answered in it |
| Lockout and rate limit (`authlockout.go`, `ratelimit.go`) | bounded maps | keys chosen by the caller; work outside the mutex; cleanup | bounded maps, lockouts that survive floods, a budget that holds |
| Clients (`admin.go`, `dcr.go`, `cimd.go`) | `clients`, `runtime_settings`, fetched documents | read-modify-write of whole rows; count-then-delete; a mode that changes | no lost update; admitted only under a mode in force; documents no staler than promised |
| Users (`admin.go`, `storage/user_cache.go`) | `users`, a cache per process | cached rows written back; invalidation before commit | no lost update; a deleted user is forgotten |
| Resources, fronting, providers | `resources`, `fronting_links`, `broker_providers` | check-then-insert on a graph; rows without a version | links stay sound, references resolve, the last secret wins |
| Signing keys in PostgreSQL, files, Vault | `signing_keys`, key files, Transit versions, caches | concurrent rotations, lost notifications, several files without a lock, outages | instances follow the table; the signing key is published; key and kid belong together; an outage makes no key |
| Field encryption | encrypted columns | rolling change of the master key, two formats | an instance reads what its two keys sealed for the owner, and nothing else |
| SQLite (`adapters/sqlite`) | all tables, one connection | transactions, table-rebuilding migrations, times stored as text | bodies are whole, references hold, look-ups are keyed |
| Configuration and boot (`config/`, `cmd/authserver`) | the process, migrations, seeded rows | two boots at once, a boot that dies, settings that contradict each other | a server that serves has what its settings promise; no boot takes an edit back |

`PROJECT.json` lists all components, also those left out, and the hazards each one is
exposed to, at their lines.

How they interact: `/oauth/token` reads the client row (`ClientAdmin`), the user row
through the cache (`UserDirectory`) and the signing key (`KeyRotation`, `KeyFile`,
`VaultKeys`); admin operations change them beside it. `TokenSystem` composes the token
endpoints with the *promises* of the account modules: an atomic change of the client's
status, and a user status that may be stale until the cache expires. `AuthorizeFlow`
creates the codes that `TokenService` redeems, `TokenExchange` starts from tokens that
either has issued, `Introspection` observes `TokenExchange`; `Federation` extends
`DPoP`, `ClientRegistration` extends `CimdFetcher`, `Boot` extends `Configuration`, and
`ResourceAdmin`, which also has the fronting links, extends `BrokerProviderAdmin`
over `Registry`.

## 2. Modules

A request is a process; a variable such as `pc[p]` names the store call it makes next,
so one action is one store call with the checks that follow it up to the next call.
Reads of one request that nothing separates are one step. The actions carry the names
of the functions or of their steps; the `map` of `PROJECT.json` gives the lines. Fresh
random values (codes, ids, jtis, nonces) are named by the request that drew them. The
names of a module begin with its own letters (`Az`, `Tx`, `Kf`, ...) so that modules can
be put together. Definitions named `X_Something` before a definition `X`, with a comment
that starts with "Mutant", are mutants: plausible mistakes in the code that the
properties must notice.

**Tokens.** `TokenStore` has the rows of one user at one client: `fam[p]` is the status
of the family that `p` created, `rt[p]` its refresh token, `tracked[p]` the family under
which `p`'s access token is recorded, `denied` the denylist, `sess` the sessions with
their codes. The operators whose `WHERE` clause decides a race (`ConsumeByCodeHash`,
`ConsumeRefreshToken`) have it as their guard. `TokenService` has `exchangeCode`,
`refreshToken` and the two halves of a family revocation. Inputs the properties do not
tell apart (redirect URI, scope, resource) become a refusal that may happen at the step
that checks them. What a caller can prove is a set: that it is the client of the grant,
that it authenticates as the client it names, that it holds the PKCE verifier. With
`FaultyStore`, any store call may fail and any request may die where it stands.
`TokenRevocation` has the RFC 7009 endpoint, the admin's `RevokeToken` and
`ForceLogoutUser`, and `RevokeConsent` with both cascades. `TokenSystem` adds the status of
client and user, time, the purge commands, the specification and the properties.

**Authorization.** `AuthorizeFlow` has sessions, prompts, the consent form, silent
completion, codes and their redemption beside a consent revocation; `azApproved` and
`azEpoch` record when a scope was approved and the consent last revoked. `AuthLockout` is
the lockout map and the login handler; times are relative to now, so the state space is
finite without a bound on time, and an eviction chooses any sample, as Go's map
iteration may. Its history counts, for each age, the failures up to that age.

**Grants.** `TokenExchange` has the exchange for Mint resources with subject and actor
checks, ceilings, fronted links, mint, re-check and undo, the client credentials grant,
and the revocations that race them; `txUser` is "lagging" while the user's row is off and the
cached one still answers, a look-up that the code passes over may fail, and so may a
cascade. `Introspection` has one action per store that
`/oauth/introspect` reads.

**Upstream.** `SignIn` has browsers with their cookies, the OIDC flow and the login form;
a request carries the cookies its browser had when it was sent, and the answer's cookies
arrive in a later step; a cross-site post carries none, the nonce cookie lapses, and
`Wrap` reads the user from the current row or one younger than the cache's TTL
(`CachedRows`). `OidcKeys` has the two upstream documents behind TTL caches with shared
fetches; a token that names no key is tried with the first of the set. `DPoP` has proofs,
nonces, the replay tables and their purges over one clock. `Federation` has the JWT bearer
grant step by step, the key cache of the issuer, and the administration of issuers,
policies and subject mappings beside it; the user row is read through the cache
(`UserAnswers`). `Connections` has pending states, broker grants, vends and disconnects
beside an upstream that rotates, downgrades or revokes; `CallerMayDispatch` has the gates
a broker exchange passes before its scopes. `RateLimiter` has the buckets of one address;
its history counts the requests let through up to each instant.

**Administration.** `AccountRegister` is the abstract specification of one row: every
operation acts on the current row, a status moves only along given pairs, a field write
keeps the rest, a removed row stays removed. `ClientAdmin` implements it with reads,
copies and versioned writes of the whole row, next to `DeleteClient` and token requests;
`Serial` chooses between the single connection of SQLite and READ COMMITTED.
`UserDirectory` implements it through a cache per instance, with both windows of the
invalidation (a fill after it; an invalidation before the commit) and the row lock of an
uncommitted delete. `Registry` has the three tables of the resource registry and their
store calls, `BrokerProviderAdmin` and `ResourceAdmin` the services over them (resources,
fronting links, providers).
`CimdFetcher` has the fetcher of client documents: flights, slots, positive and negative
cache. `ClientRegistration` has dynamic registration, registration by document, the mode
and its persistence, restarts and the administrator's patch.

**Stores.** `SQLiteDB` has the one connection, transaction bodies, raw statements, foreign
keys and migrations. `SQLiteTokens` has the tables whose rows expire, with times as the
texts the tables hold, and `SQLiteDirectory` those whose rows are configured.

**Keys.** `KeyRotation` has the `signing_keys` table (a key is its `created_at`), the
transaction of `HAKeyStore.Save` with its row lock, unique index, retries and prune, the
cached key and JWKS of each instance, and the listener with disconnects, backoff, poll and
reloads that fail. `KeyFile` has each move and write of a save as an action, reads of pem
and kid as two, the CLIs as processes of their own, and crashes. `VaultKeys` has the
versions of one Transit key, the two reads of `ListActive`, the pinned signer and requests
that fail with or without their effect, and the renewal loop of the AppRole token.
`FieldEncryption` has both wire formats, the binding to the owner and the fallback key.

**Boot.** `Configuration` computes what a process is configured with, from defaults, file
and environment, and what `Validate` and `SelfCheck` refuse. `Boot` has the processes that
start with it on one database: migrations, seeds, stores, keys, servers. A boot may also
end for want of somebody else: the upstream's discovery document, or ("others") the
AppRole login at Vault and the key directory.

**Proofs.** Eight modules, each of which extends the modules it proves about:
`TokenSystemProofs`, `LoginProofs` (authorization, lockout, limiter), `ExchangeProofs`
(exchange, introspection, connections), `SignInProofs` (sign-in, upstream keys),
`FederationProofs` (assertions, DPoP), `AdministrationProofs` (clients, registration,
documents, registry), `StoreProofs` (SQLite, users) and `KeyStoreProofs` (all keys).

## 3. Runs

`MCTokenSystem` instantiates the token system. The other MC modules put several components
together as a **sum**: a variable `part`, chosen in the initial state, says which of them
a behaviour is about, and the others keep an initial state. The components of a sum share
no variables, so interleaving them would show nothing more; each is explored as by itself.
A property such as `RegistrySound` or `ConnectionsSound` is the conjunction of a module's
type invariant and its safety invariants, each defined and explained in the module; one
mutant per run property changes the code model so that TLC must object.

| Run | Parts | Properties | What it shows |
|---|---|---|---|
| `token_races` | `TokenSystem` | `OneFamilyPerCode`, `OneLiveTokenPerFamily`, `ReuseReportsAreSound`, `RevokedFamilyIsDenied` | four requests of the client and the user on one code, beside expiry and purges |
| `token_faults` | `TokenSystem` | `NoCredentialFreeLogout` | two codes, callers with part of the credentials, failing calls, dying requests, admin revocation, force-logout, changing client and user: nobody without the credentials of a code ends what it bought |
| `token_liveness` | `TokenSystem` | `ReuseEndsFamily`, `ReplayEndsCommittedFamily`, `ConsentCascadeReachesListed` | what must end does end |
| `authorize` | `AuthorizeFlow`, `AuthLockout` | `CodesSound`, `DenialIsFinal`, `TrackedIsBounded`, `LockoutHolds`, `FailureBudget` | overlapping requests, answers and silent completions of two users beside a consent revocation; logins that fail, succeed and flood the map |
| `grants` | `TokenExchange` with `Introspection`, `SQLiteTokens`, `SQLiteDirectory` | `ExchangeSound`, `StoredRowsSound`, `DirectoryEditsSound` | chains of exchanges beside revocations and introspection; SQLite rows over expiry, purges and interleaved edits |
| `upstream` | `SignIn`, `OidcKeys`, `Federation` with `DPoP`, `Connections`, `RateLimiter` | `SignInSound`, `UpstreamKeysSound`, `FederationSound`, `ProofBuysOnce`, `ConnectionsSound`, `VendReplacesWhatItRead`, `PassedWithinBudget` | sign-ins in two browsers, rotating upstream keys, assertions and proofs presented twice around purges, credentials that rotate under two vends, a limiter that forgets buckets |
| `administration` | `ClientAdmin`, `ClientRegistration` with `CimdFetcher`, `ResourceAdmin` | `ClientRowIsARegister`, `UnforcedDeleteSparesTokens`, `RegistrationSound`, `DocumentCacheSound`, `RegistrySound` | concurrent administrators on all rows, registration in every mode, shared fetches, on SQLite |
| `stores` | `SQLiteDB`, `UserDirectory` | `SqSchemaSound`, `SqTransactionsEnd`, `UserRowIsARegister`, `DeletedUserIsForgotten` | whole transactions on the one connection, which comes back; a user row behind two caches |
| `operations` | `KeyRotation`, `KeyFile`, `VaultKeys`, `FieldEncryption`, `Boot` | `ListenersKeepUp`, `KeyFilesSound`, `VaultKeysSound`, `VlTokenLives`, `FieldsSound`, `BootSound` | rotations, lost notifications, failing reloads, crashes, outages, leases, rolling keys, and boots of every family of configurations, alone and raced |
| `token_forcelogout`, `xaa_denyall`, `client_delete` | | one sentence of the documentation each | a counterexample, see section 4 |

**Bounds.** Every bound is a constant of the cfg or a set of the MC module, named for what
it limits.

* *Tokens*: the conflicts need two parties and a history: redeem, rotate, then two racing
  requests. That is the four requests of `token_races`; the two codes of `token_faults` let
  families be mixed up.
* *Authorization*: two requests that share a session and a third that revokes, answers or
  redeems; two scopes, so that one may be approved and not the other. Three lockout keys
  over two places make an eviction necessary, and three failures can be split over two
  windows. `SampleSize` is 64 in the code and 1 in the run: smaller than the map in both.
* *Grants*: three requests make a chain of exchanges with a revocation beside it, on two
  resources of which one fronts the other; the chain depth is 2.
  Only a consent revocation overlaps the exchanges (`OnlyRevocationOverlaps`): the other
  requests write at most rows of their own token. SQLite clocks count quarters of a second,
  so that fractions of every length occur; one row at a time is enough as no statement
  relates two, except lineages (three, their ids drawn in order).
* *Upstream*: five workloads of sign-in (`MCSiWorkloads`) of up to four requests in two
  browsers: two crossed flows, a user whose standing changes, failing steps, two tabs, and
  posts without cookies. The session lasts two ticks and the cached user row one, over
  three (`SessionMaxAge`, `UserCacheTTL`, `SiLast`), `FewChanges` limits how often the
  administrator acts and `UntilStateLapses` the time of failing flows. Two upstream keys, of which one may be withdrawn and published again,
  with TTL, staleness and timeout of one or two ticks, and tokens with and without a kid; eight
  workloads of up to three requests for assertions, proofs and administrators; two users,
  two connects, two vends and a disconnect for connections.
* *Administration*: four calls on a client row give a read, two intervening writes and a
  late write. Three administrators on three resources are enough to close a cycle of links
  behind a check. Three fetches over one slot and one cache place shed and evict.
* *Stores*: three calls for a delete, an edit and a sign-in to meet; two instances for one
  cache to be older than another.
* *Operations*: three keys allow two concurrent rotations, the retry of the loser and a key
  that was overtaken; where connections break (`listening`), the command line rotates alone,
  each instance may lose its connection once and the reloads of one may fail. Four keys in
  files allow a save that crashes and complete ones around it. Three calls to Vault in every combination of kind
  and place, up to renaming, with one failure. Boots sweep eight families of configurations,
  each a full product of settings that belong together; three races have two servers (one
  of a newer version), a migration, an administrator and a crash.

Most sums stop when their counters are used up, which is why their cfgs do not check for
deadlock; the runs of `TokenSystem` do, and `Quiescent` stutters there only when no
request is in flight, so a stuck request would be reported. Symmetry is used in safety
runs only.

**Fairness.** `FairSpec` of `TokenSystem` and `StoresSpec` assume that a request in flight
takes its next step: `net/http` gives each request a goroutine, and statements carry
deadlines. `StoresSpec` adds that the TTL of a cache entry passes. Nothing is assumed of
arrivals, operators, disconnects, expiry or purges, nor that any fault happens or stops
happening.

## 4. Where the code and the documentation disagree

Each of these runs checks one sentence of the documentation or a comment, and TLC
finds a behaviour of the code that contradicts it. `PROJECT.json` quotes the lines.

| Run | The sentence | What the code does |
|---|---|---|
| `token_forcelogout` | the jtis of *each revoked family* are denied | families are listed, then revoked: one committed in between is not denied |
| `xaa_denyall` | a policy with an empty scope list denies all | both stores save an empty list as NULL and read NULL as no restriction |
| `client_delete` | the transaction of `DeleteClient` prevents *TOCTOU races where tokens are issued between the count and the delete* (`admin.go:433`) | on PostgreSQL it runs at READ COMMITTED: a token saved after the count goes with the client. On SQLite it cannot, which `administration` checks and `UnforcedDeleteSafe` proves |

The models also have the following behaviours, which contradict a sentence and which the
passing properties are worded to allow. They were met while modelling; some were runs of
their own once, and are described here so that each run asks a different question.

* A code issued before a consent revocation is redeemed after it: `exchangeCode` does
  not read the grant (`grant_admin.go`: "no NEW tokens can be minted").
* `admin client revoke` changes the client's status and leaves its families, and a
  suspended client cannot rotate (`token-design-internals.md`: "existing families
  revoked", "refresh tokens still rotate").
* A purge deletes a denylist row as soon as its token has expired
  (`sqlite/revocation.go:141`), while `VerifyAccessToken` accepts the token for 30 seconds
  more (`jwt.go:335`): in that window a denied token is active again
  (`compliance.md:123`: "a token answers `active: false` once its JTI is denylisted").
* `validateRateLimit` returns nil when `auth_fail_max` is off (`validate.go:527`) and drops
  the errors it has found: a limiter that never refills is served
  (`configuration.md:143`: "It must be greater than zero", "Validate rejects it").
* The failure window is fixed, not sliding, so the maximum can be reached within one
  window without a lockout (`threat-model.md`); `FailureBudget` is the bound that holds.
* A login that was verifying its password when the lockout engaged succeeds and clears
  it (`authlockout.go`: "a locked identity never reaches a success path");
  `LockoutHolds` allows just that.
* A sample of locked entries refuses a newcomer although others are not locked
  (`configuration.md`: "Only when every tracked identity is locked").
* Of two concurrent rotations the one with the older `created_at` may commit last; the
  next one then prunes the key it replaces (`key-rotation.md:36`: "the previous key
  remains in JWKS"). `TableIsWhole` therefore asks for the current key and *one* other.
* A request that read the key before a rotation stores it after the invalidation, and
  the instance signs with the replaced key until the next rotation
  (`kubernetes-raw.md`: "NOTIFY propagates within milliseconds").
* A lost connection is polled for once, before a wait of 30 seconds or more only
  (`hakeystore_listener.go:34` says *until the connection is restored*), and a reload that
  fails is logged and its notification spent (`hakeystore_listener.go:135`,
  `jwks.go:251`): the instance publishes what it had until the next notification.
  `missed` and `failed` mark such instances, and `ListenersKeepUp` says when they are well again.
* After a rotation by the CLI a server on key files serves its cached document
  (`jwks.go:113`; `key-rotation.md:55`: verifiers *pick up both keys*), and a request that
  reads `current.pem` before a rotation and `current.kid` after it signs with the old key
  under the new kid; hence `KfQuiet` in the run. The theorem is about the part
  that needs neither it nor a bound on crashes, `SigningKeyIsPublished`.
* With an empty Vault the first caller signs with a key of its own that nothing publishes
  (`threat-model.md:161`).
* A self-exchange of a token without a `scope` claim has no ceiling but the resource's
  catalog, as `token-exchange-grant.md:67` says; the comment at `token_exchange.go:1270`
  ("the subject-scope ceiling only lets scope narrow, so the exchange grants nothing the
  caller did not already have") speaks of a scoped one. A first version of the property
  left this case out; its proof failed there.
* A client document may name a grant type that does not exist: `VerifyCIMD` asks only
  whether the known ones among its grant types are enabled, and the comment at
  `validation.go:154` that others are reported elsewhere holds for dynamic registration.
  `RegistrationSound` therefore bounds the known grant types of such a client.
* A consent cascade that fails is logged and `RevokeConsent` returns nil. The comment at
  `grant_admin.go:140` ("no NEW tokens can be minted") then holds for exchanges that read
  the grant; a fronted exchange or a self-exchange from a subject token that the cascade
  did not reach goes on. `ExchangeSound` speaks of cascades that were carried out.
* A mapped user id without a row is refused (`checkLocalUserActive`, whose own comment says
  so), where the comment at `subject_mapping.go:164` says "A local_user_id that names no user
  row passes". The model follows the code, through the user cache.
* A login form can lose its nonce to a post that came without cookies, as the comment at
  `login.go:459` says against its own first sentence, and after the cookie's 12 hours.
* `encryption/open.go:48` never passes AppRole credentials to the Vault client
  (`configuration.md:252`: `"token" or "approle"`).

Observations that contradict no sentence but that a reader of the models will meet: the
look-ups of the machine token and of the denylist in `checkRevocation` are passed over
when they fail (`token_exchange.go:777`), as is the delete of a denied session
(`consent.go:318`), which then can still be approved; a start that cannot read the saved
registration mode goes on with the configured one (`serve.go:909`); an ID token without a
`kid` is tried with the first key of the cached set and forces no refresh
(`verify.go:103`), so it may be refused until the set's lifetime ends; the re-check after
an exchange does not look at the scopes of a consent granted anew, and the broker dispatch
has none; `/oauth/revoke` of a registry-exchanged token changes nothing; the depth of a
chain is not bounded when no actor is named; a `HandleCallback` without a scope stores
none, where a vend takes an omitted scope as unchanged; policy-list edits skip the check
of fronting links; disabling an issuer does not reach grants past its look-up; a deleted
CIMD client registers itself again; `RevokeJTI` gives a jti without a row an hour whatever
`dcr.default_token_expiry` is, though no service calls it; a mode change reaches the
instance that served it, and is restored at boot only when the admin server is on; a
failed OIDC start ends an older flow of the browser, and a late answer can set or clear a
session cookie after a logout; deleted seed rows return at the next boot; losers of a
migration or seed race exit and need a restart.

## 5. Proofs

Every theorem is checked by TLAPS to its last leaf. It holds for every set of requests,
sessions, users, keys, rows and instances and every bound that meet the named assumptions
of the modules, which TLC evaluates in the runs. The assumptions are of four kinds:

* *names*: "none" is no request, sets of threads are disjoint, a client's id is not the
  slug of a resource nor a registered client's id the URL of a document, the jtis of a
  request are its own;
* *types of the inputs*, and of the settings the loader has parsed;
* *bounds and lifetimes*: what counts something is a natural number, positive where the
  loader demands it, and what is summed or counted is finite (`RlSlots`, the calls of
  `VaultKeys`);
* *relations the code relies on*: the row of an assertion outlives the tolerance of its
  verifier and the time a request takes to reach the table (`FdBuffer`,
  `TkBufferAssumption`: 30 seconds against 60), `RevokeJTI`'s fallback of an hour is no
  shorter than a token lives (`TkLifeAssumption`; true of the default lifetimes), copies
  of an assertion expire together (`FdJtis`), a document with a refused redirect URI is
  not accepted (`CrBodiesAssumption`), the registry starts with rows that its services let
  in (`RgSeedsSound`).

| Module | Theorem | Property of a run |
|---|---|---|
| `TokenSystemProofs` | `TypeCorrect` | (`TypeOK`) |
| | `CodeSingleUse` | `OneFamilyPerCode` |
| | `RotationIsLinear` | `OneLiveTokenPerFamily` |
| | `ReuseDetectionSound` | `ReuseReportsAreSound` |
| | `RevocationReachesHeldTokens` | `RevokedFamilyIsDenied` |
| | `LogoutNeedsCredentials` | `NoCredentialFreeLogout` |
| `LoginProofs` | `CodesStaySound` | `CodesSound` |
| | `DenialStaysFinal` | `DenialIsFinal` |
| | `LockoutMapBounded` | `TrackedIsBounded` |
| | `LockoutNotEvictable` | `LockoutHolds` |
| | `FailuresStayWithinBudget` | `FailureBudget` |
| | `LimiterKeepsBudget` | `PassedWithinBudget` |
| `ExchangeProofs` | `ExchangeStaysSound` | `ExchangeSound` |
| | `ConnectionsStaySound` | `ConnectionsSound` |
| | `VendGivesWay` | `VendReplacesWhatItRead` |
| `SignInProofs` | `SignInStaysSound` | `SignInSound` |
| | `UpstreamKeysStaySound` | `UpstreamKeysSound` |
| `FederationProofs` | `FederationStaysSound` | `FederationSound` |
| | `ProofStaysSpent` | `ProofBuysOnce` |
| `AdministrationProofs` | `ClientRowRefinesRegister` | `ClientRowIsARegister` |
| | `UnforcedDeleteSafe` | `UnforcedDeleteSparesTokens` |
| | `RegistryStaysSound` | `RegistrySound` |
| | `DocumentCacheStaysSound` | `DocumentCacheSound` |
| | `RegistrationStaysSound` | `RegistrationSound` |
| | `EditsSurvive` | (`OnlyOverlapLosesEdits`) |
| `StoreProofs` | `SchemaStaysSound` | `SqSchemaSound` |
| | `UserRowRefinesRegister` | `UserRowIsARegister` |
| | `DirectoryEditsStaySound` | `DirectoryEditsSound` |
| | `TokenRowsAreKept` | four parts of `StoredRowsSound` |
| `KeyStoreProofs` | `ListenersFollowTable` | `ListenersKeepUp` |
| | `SigningKeyStaysPublished` | a part of `KeyFilesSound` |
| | `VaultKeysStaySound` | `VaultKeysSound` |
| | `VaultTokenLives` | `VlTokenLives` |
| | `FieldsStaySound` | `FieldsSound` |

**Codes and rotations.** "One family per code" is not inductive: between consume and
commit the family does not exist yet. `ChainInv` therefore says that a code being
redeemed is spent, has no family and has one redeemer (`CodeInv`), that ids are fresh
until their request is done (`FreshInv`), and that a family being rotated has no live
token and no second rotation (`RotationInv`). Failures, expiry and purges are all
included.

**Reuse and revocation.** `ReuseInv`: a token spent by no rotation belongs to a family
that is already revoked, so the revocation that follows changes no row and reports
nothing. `DenialInv`: between re-check and hand-out a new token is *covered*: its
family is active, or a denial is still to come and the token is tracked, or it is
denied. The hypotheses of `RevocationReachesHeldTokens` are those the code needs: the
store answers, and no force-logout runs (for which `token_forcelogout` shows the
opposite). `EntitledInv`: whoever is at a label from which a family can be revoked has
passed the gate of its endpoint; `FamiliesStand` says that no other statement ends an
active family.

**Authorization and consent.** `AuthorizeInv` ties four tables together. A session is
the row of the request that created it, a disclosed session belongs to a user and its
request has ended, a denied one is gone for good (`AzSessions`). A consent being
recorded is for its session's user, client and resource (`AzRecords`). A code was
written by a request on that very session, with that request's scopes, all approved
(`AzCode`). Approvals never exceed the epoch of their grant, and those of a standing
grant belong to the last epoch (`AzApprovals`), which is why a silent flow rests on an
approval younger than the last revocation it could see (`AzSilent`). The lemma
`ApprovalsStand` (no step takes an approval back) carries all of them from one state to
the next.

**Lockout and limiter.** `BoundInv` holds types, finiteness and the bound of the map;
lemmas say what `Counted`, `Count`, `Drop` and the choice of a victim leave alone.
`BudgetInv` says that the failures younger than an entry's window are counted in it, so
that a window that begins finds only those of the one before: hence twice
`AuthFailMax - 1`. For the limiter, `RlLedger` is an account per starting instant: what was
let through since, plus what is left in the bucket, is at most the burst, what dripped in,
and one for each request that holds a dropped bucket (`RlCounted`, `RlClosed`). Both
histories are cumulative counts, so that no step has to sum over instants.

**Exchange.** A consent may be revoked while a token that rests on it is being made.
`TxLineages`: such a token descends, by `parent_jti`, from a row minted under the consent,
so the cascade, where it is carried out, finds it. `TxCaught`: a token the cascade came
too early for has not been handed out, and `TxRestsOn`: the second look of its request, at
the subject's row and at the grant, covers every consent it rests on. `InFails` is the
same argument for introspection: what made the token dead is one of the checks still to
come (a user, once the cached row has lapsed: `UserReadsActive`).

**Connections.** A credential is named by the request that obtained it. Until that request
has written it no row has it (`CnFresh`), and a row that a request has read is still that
row or has the credential of a later writer (`CnReads`); the version in
`UpdateWithVersion` tells the two apart.

**Sign-in and upstream keys.** The invariant of `SignIn` follows the session, state and
nonce cookies from the answer that sets them to the requests that bring them: wherever a
cookie is, it is of the browser it was made for (`SiNoncesOwn` for the nonces, by an
assignment of nonces to browsers that each step extends). For `OidcKeys`, a set of keys,
wherever it is held, is true of the upstream but for keys that changed after the instant
it was read at, less a slack that each hand-over adds to (`OkTrue`). `OkInv` says so of
waiting callers, fetches, cached copies and work under way, and the bounds of the
properties are the sums of the slacks.

**Assertions and proofs of possession.** The invariant says of each request what the
checks it has passed have established and still holds at its next call. `FdProbed` and
`FdSpends` are the arithmetic of replay: the row of a jti or of a proof is there for as
long as the check would let the thing itself through. `FdCached` says when a key was last
published, so that a withdrawn one dies with its entry; `FdLinked` ties
policies and mappings to the row of their issuer.

**Rows as registers.** `CopyInv` (clients) and `ReadInv` (users): a copy with the current
version *is* the current row, so a write that passes the version check is an operation
on the current row, and every other step is a stutter of `AccountRegister`. For users
this covers the caches of all instances. `UnforcedDeleteSafe` needs `Serial`, the one
connection of SQLite: `TxInv` says that the transaction that counted tokens is the only
one open until it deletes.

**Registry.** `RgInv` says of each request what it carries to its next call, and that what
it has checked still holds unless `rgStale` has noted the write that overtook it. That
links close no cycle is shown with the sets of resources that links do not leave: a new
link joins or cuts two of them (`NewLinkClosesNoCycle`), so no induction over paths is
needed.

**Documents and registration.** A flight belongs to the key its waiters share, so what it
stores or answers fits each of them (`FtFlown`); a stored document is what its URL answered
(`FtStored`), and only a contact with the target bars the next (`FtBarred`). On top of it,
`CrCarried` says what each registration carries and that a mode in force since it began
admits it, `CrTable` that each row is what such a request wrote, and `CrModes` that the one
mode change under way, if any, has the saved value.

**SQLite.** `SqInv`: the pragma for foreign keys is on whenever a request may run a
statement, and the open transaction sees rows whose references resolve. `DrInv`: a held
copy with the current version of its row *is* that row, ids are never drawn twice, unique
keys and references hold. `TrInv`: a lemma (`TrText`) shows that the order of the texts is
exact to the second although fractions are cut off, so a row that records an end is there
until the second of its exp, and the row of an assertion outlives the verifier's tolerance.

**Keys.** `RotationInv`: what a rotation holds between its statements (`ThreadInv`),
the order of the table (`TableInv`) and, for every listener, that each change is served,
still queued for it, or noted as missed, failed, crossed or overtaken (`FollowInv`). `KfInv`
needs no lock and no bound on crashes: a document that a reload made holds the key of the
files unless a command changed them since (`KfFresh`), and the thread inside a save holds
the key it will publish (`KfHolds`). That key and kid belong together is not proved: it
needs the quiet of `KfQuiet`, which the code does not guarantee, and stays with TLC.
`VaultInv`
relates versions, kids and caches, and has a part of its own for outages. `FieldsInv`:
every stored value was sealed by some release, with a key of its time, for some owner.

**What the attempts showed about the models.** Each property was checked by TLC before it
was proved. Where a proof failed for a good reason, the model was at fault in one of three
ways. The case of a self-exchange without scopes made an earlier property of the exchange
false (section 4). Two definitions (the failure count of `AuthLockout`, the secret that
`Boot` resolves) had overlapping `CASE` guards, of which TLC takes the first and the logic
any; they are `IF` now. And rows of `SQLiteTokens`, `Registry` and `ClientRegistration`
rested on facts about the inputs that no assumption stated.

**Only model-checked.**

* Liveness (`ReuseEndsFamily`, `ReplayEndsCommittedFamily`,
  `ConsentCascadeReachesListed`, `SqTransactionsEnd`, `DeletedUserIsForgotten`): fairness
  and `ENABLED` are beyond the prover.
* The rest of `StoredRowsSound`: `RevocationReachesLineage` compares a recursive query with
  a transitive closure, which is an induction over data; `WindowsAreExactToTheSecond` and
  `LookupsAreKeyed` compare what whole listings count and return. The clock of the
  exchange chains is bounded by a constant of its own, so `TkTypeOK` stays with them.
* `BootSound` and the settings of `Configuration`: a product of finite tables that TLC
  enumerates, in which nothing is unbounded but the number of processes.
* `KeyFilesSound` but for `SigningKeyIsPublished`: it holds while no request overlaps a
  save and at most one save crashes, and those are bounds of the run.

## 6. What is not covered

* The components that `PROJECT.json` lists as `not_modelled`, with the reason for each:
  the HTTP servers, the admin API and UI and the CLI around the services, observability,
  the documentation generator. Those listed as `partly` say what they leave out.
* `TokenSystem` has one client, one user and one resource: rows of different owners are
  told apart by the keys of the statements, not by interleaving. The id of a family is
  never guessed, and hashes do not collide.
* The listing of a consent cascade is one step, as it is for fewer than 50 families.
* `KeyRotation` starts with one key: the race to generate the first key and a SIGHUP on
  this backend are left out. `KeyFile` reads its directory in one step on a reload and
  leaves out the `.alg` file, whose value is the configured algorithm.
* `AuthLockout` leaves out the latch that logs a refusal once, `VaultKeys` the retries
  inside the HTTP client of Vault.
* Code that no server constructs: the JWT middleware for resource servers and
  `ConfigChangeListener`. Settings that nothing but the loader reads.
* `OidcKeys` leaves out the pinned key set of `provider.go:441`, which no shipped
  configuration sets, and a deleted CIMD client that registers again (section 4) is not an
  action of `ClientRegistration`.
* Cryptography, rendering, logging, metrics and audit rows.

## 7. Plan

The modules, the runs and the theorems of the plan are done. What would come next:

1. a hand proof, or a prover with induction, for the lineage query of `SQLiteTokens`, and
   with the cardinalities of listings the rest of `StoredRowsSound`;
2. `BootSound` for any number of servers that start on one database;
3. `TokenSystem` with several users and clients, where the keys of the statements rather
   than the constants tell rows apart.
