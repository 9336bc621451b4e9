# A TLA+ model of ArcLore

ArcLore is a web front end and an authentication service for a Lore version
control server. The repository holds two Go programs:

* **arc-lore-auth** (`src/arc-lore-auth`): the authority on accounts. It keeps
  users, repositories and grants in SQLite, mints and verifies the JWTs that
  lore-server and the web tier trust, and serves a JSON API, two gRPC services,
  a login page and an admin page. An operator's command line opens the same
  database from a second process.
* **ArcLoreWeb** (`src/ArcLoreWeb`): the web site. It signs users in against
  arc-lore-auth, exchanges their identity token for repository tokens, and shows
  what lore-server stores.

This directory models the parts of them whose correctness depends on order: what
happens when requests, polls, sweeps, restarts, failures and operator commands
interleave. TLC checks the models on small instances; TLAPS proves the most
important properties for instances of any size.

## Inventory

| Component | State | Operations | What is hard | Module |
|---|---|---|---|---|
| Store (`store.go`, `migrations/`) | tables users, resources, grants, config | one SQL statement or one transaction per method | cascades, foreign keys, token_version | `AuthStore` |
| JSON API (`api.go`) | none of its own | setup, login, register, own password, users, resources, grants, registration | several statements per request, nothing held between them | `AuthService` |
| Minting and verification (`service.go`, `perms.go`, `mint.go`) | the tokens out there | MintFor, effectiveResources, VerifyAuthn | two reads of the row; revocation by version only | `AuthService` |
| gRPC (`grpc.go`, `rebac.go`) | none of its own | exchange, create and delete a repository, start and poll a login | partial failures of multi-statement writes | `AuthService`, `SessionStore` |
| Admin page (`web.go`) | unlock cookie, gate key of the process | unlock, create, delete, set password | same races as the API; cookies outlive the process | `AuthService` (forms), `Daemon` (gate) |
| Command line (`cli.go`) | a connection of its own | useradd, userdel, setpw, mint | commits inside the daemon's transaction | `AuthService` |
| Login sessions (`session.go`, login handlers of `web.go`) | an in-memory map with a TTL | Create, Get, Complete, Take, sweep | browsers, polls, sweeper and restart at once | `SessionStore`, `Handoff` |
| Rate limiter (`web.go`) | buckets per key | allow, trim | clock read outside the mutex | `RateLimiter` |
| Web login throttle (`internal/auth/throttle.go`) | buckets per client | allow, trim | lazy refill, trimming under load | `LoginThrottle`, `TokenBucket` |
| Exchange cache (`internal/lore/exchange.go`, `client.go`) | bearers by identity token, auth URL, auth connection | lookup, discovery, dial, exchange, prune, Close | staleness against grants and revocation; two dials at once | `Exchange` |
| Web session (`internal/auth`, `internal/handlers/auth.go`, `admin.go`, `internal/mgmt`) | identity token and admin flag per session token | sign-in, RequireAuth, RequireAdmin, account and admin pages, logout | what a session remembers outlives its revocation; a sign-in races a logout | `WebSession` |
| Startup (`main.go`, `keys.go`, `config.go`) | signing key, TLS pair, users.json, the two ports | load or create the key, import, load or create the pair, listen | killed between any two system calls; two daemons or a daemon and a tool at once | `Daemon` |
| Browse pages (`internal/handlers`: home, repo, tree, commits, commit, locks; `internal/lore`) | none shared; a worker pool per commit page | chains of calls, fan-out of lookups and diffs | the tip moves between two calls; workers end in any order; any call fails | `Browse` |
| Encodings, rendering and diff, templates, deployment scripts | none, or the host's | conversions, shell | see Not modelled | none |

Interactions. All of arc-lore-auth's handlers share one `Store`, and through it
**one** database connection (`SetMaxOpenConns(1)`), so a statement is atomic and
an open transaction excludes every other statement of the process, but not the
command line. The login page and the gRPC polls share one `SessionStore`. Tokens
leave the process and come back on later requests; `users.token_version` is the
only thing that tells an old one. ArcLoreWeb calls the JSON API to sign users in and
to administer them, keeps the identity token it gets in the session, and exchanges
it over gRPC for the bearer that its calls to lore-server carry. All its requests
share one token cache and one auth connection. It is never told that a password, a
flag or a grant changed.

What makes each part correct:

* the store: no grant without its user and its repository; the version of a row
  moves with every password or admin change;
* the service: each step is one store operation or none; revocation is complete;
  setup makes the first account, once; an administrator is never removed as the
  last one; every request is answered;
* login sessions: a one-shot handoff to the client that started it, nothing after
  expiry, nothing kept for ever;
* the two limiters: no client gets more than the burst and the refill;
* the token cache: nobody's bearer but the caller's, each good for the skew, and
  staleness that ends with a token's lifetime; no leaked connection;
* web sessions: a session that ended stays ended; a stale administrator flag is
  bounded in time;
* startup: one signing key for good, an import with exactly one administrator, no
  unlock that survives its secret, no lasting pair of half-served daemons;
* browse pages: one revision per page, stable paths found, complete and truthful
  commit pages, every request answered.

`PROJECT.json` lists the hazards, each at the line where it bites, with the
properties that cover it.

## Modules

**`AuthStore`** has a variable per table and an action per writing method. A users
row keeps is_admin, token_version and the password its hash was made from; display
names and timestamps are left out. `StoreSpec` (any method, any order) is also the
abstract specification that the service implements.

**`AuthService`** extends it. `req[c]` is where client c's request stands, with its
local variables; `tok[c]` is the last token c was given; `tx` is the transaction
of `CreateFirstAdmin`. A handler is a chain of actions with **one SQL statement
each**, named after the handler; hashing, decoding and signing belong to the step
they precede. `At(c, pc)` requires `tx = "none"`: this is the single connection.
`CliWrite` needs no connection, and makes an open transaction's snapshot stale, upon
which SQLite refuses its insert (`SetupInsert`'s second disjunct). `Abort` is a
failed statement or a lost answer at any step after the gate. A request's inputs are
chosen at the step at which the handler uses them. Requests refused without touching
state (wrong password, setup when users exist, closed registration) are stuttering
steps. `life` and `changes` observe the users table for the properties: how often a
name was created, and how often its password or flag changed in all its lives.

| Handler | Actions |
|---|---|
| `requireAPIAuth`, `verifiedCaller` / `requireAPIAdmin` | `VerifyAuthn` / `RequireAPIAdmin` |
| `handleAPISetup` | `SetupCount`, `SetupInsert`, then the mint |
| `handleAPILogin`, `/login` | `Login`, then the mint |
| `handleAPIRegister` | `Register`, `RegisterInsert`, then the mint |
| `handleAPIMePassword` | `MePassword`, `MePasswordWrite` |
| `handleAPIUsersDelete`, `handleAPIUsersSetAdmin`, page delete | `FindTarget`, `CountAdmins`, `DeleteCounted` or `DemoteCounted`; `UsersPromote` |
| `CreateResource`, `handleAPIResourceCreate` | `RegisterResource`, three times `GrantOwner` |
| `DeleteResource` | `RebacDelete`, `OwnerCheck`, `RebacDeleteRow` |
| `handleAPIGrantAdd` | `GrantFindUser`, `GrantFindResource`, `GrantWrite` |
| `MintFor` | `MintUser`, `MintList` or `MintGrants`, `MintStamp` |
| `runUserAddCmd`, `runSetPwCmd`, `runUserDelCmd`, `runMintCmd` | `UserAddCmd`, `SetPwCmd`, `UserDelCmd`, `CliMint` |

**`SessionStore`** models the map of login sessions. Each method is one step because
it holds the mutex; a POST of the form is three (`LoginPost`, `LoginVerify`,
`LoginComplete`) because the password is checked with the mutex free; a sweep is two
(`SweepRead`, `SweepEvict`) because its clock is read before the mutex is taken.
Sessions carry their age, and the ticker its phase, so time needs no absolute clock.
**`Handoff`** is what it promises, with no clock, map or sweeper: a deal per code
that is opened, answered, and closed by redemption or by giving up.

**`RateLimiter`** has two steps per call, the clock and the locked part, so that
calls reach the map in another order than their clocks. Tokens are counted in ticks of
refill and may be owed for as long as a clock may be old (`TypeOK`). `Watch` starts the window the bound is stated over at any time.
**`LoginThrottle`** reads its clock under the mutex and is one step per call.
**`TokenBucket`** is the bucket that exists from the start and fills with every tick.

**`Exchange`** cuts a request of ArcLoreWeb where it leaves the process or takes a
mutex. `cache` is `authzCache`; its key is the identity token, since the handlers ask
for one resource only. `authMu` is held across discovery (`Resolve`, `Discovered`,
`NotDiscovered`) and free during a dial (`FastPath`, `Dialed`, `Recheck`); a
configured auth URL (`SetAuthURL`) is the state after `Discovered`. `read[r]` is the
clock that `ResourceAuthzToken` reads once and uses for lookup and pruning. The
exchange is two steps (`ExchangeVerified`, `ExchangeMinted`): between them the account
may change. With its bearer a page makes any number of calls (`NextCall`), or asks for
one again at `repoCtx` (`AskAgain`). Each outgoing call ends within `Timeout`; nothing
bounds the page as a whole. `Pause` bounds the time between two calls (`InTime`).
`Supersede` and `Regrant` are what the auth service's other clients do to an account;
`ended` and `regranted` observe when. `Drain`, `Close` and `Restart` are `main`.

**`WebSession`** cuts a request where it calls the management API, and the call there
between its checks and its write. Accounts are created, deleted, promoted, demoted and
given passwords by the web tier's own calls and by others (`Elsewhere`). `LoadAndSave`
copies the session when a request arrives, so `id[r]` may be of a session that is gone
by the time the answer comes. `Renewed` is RenewToken and the commit that follows;
session tokens are random, hence numbered. Times are ages. In mode `"dev"` the bypass
of `dev.go` replaces the sign-in handlers.

| Code | Actions |
|---|---|
| `LoginSubmit`, `RegisterSubmit`, `SetupSubmit`, `StoreIdentity` | `Submit`; `MgmtCreates` (register, setup), `MgmtMints`, `MgmtSignsIn` (the later read of is_admin) or `MgmtRefuses`; `StoreIdentity` |
| `DevLoginHandler` | `DevLogin` |
| `RequireAuth` (expiry), `Logout` | `DestroySession` |
| `ChangePassword` | `ChangePassword`, `MgmtVerifies`, `MgmtChangesPassword` or `MgmtAnswers` |
| admin handlers behind `RequireAdmin` | `AdminPage`, `MgmtVerifies` (`requireAPIAuth`), `MgmtAdmits` (`requireAPIAdmin`), `MgmtAdministers` (the write) or `MgmtAnswers` |
| the session store, `main` | `ExpireSessions`, `Restart` |

**`Daemon`** has one action per system call or statement of a start: `StatKey`,
`CreateKey` (O_EXCL), `WriteKey`; `HasUsers`, `ImportRow` per row; `StatTLS`,
`OpenCert`, `WriteCert`, `OpenTLSKey`, `WriteTLSKey`; `Bind` per port. `Crash` may
come between any two. A created file is `Torn` until it is written. `mint` and
`print-jwks` are processes that load or create the same key. `Unlock`, `Valid` and
`AdminUserCreate` are the admin gate; its key is the number of the start, as it is
random and lives in memory. What an operator has to remove by hand (a torn key, a pair
that does not fit) are the actions `RemoveTornKey` and `RemovePair`.

**`Browse`** follows one request. A page is a chain of calls (`RepoHome`, `Tree`,
`Commits`, ...); `CallReturns`, `CallFails` and `NotFound` are the ways a call ends,
and the calls whose answer matters have actions of their own (`FindPath`, `ListDir`,
`ListRoot`, `FetchContent`, `ListRevisions`, `RevisionDiff`). Meanwhile `Push` moves the
tip. A fan-out is the loop (`Spawn`, `ListOnly`), the workers (`Enrich` or `Diff`,
`Release`, `Done`) and `Wait`; `slots` is the semaphore, `open` the WaitGroup.
`Kept` is what a loop that appends some elements to a new slice leaves in it: the
removal of repeated signatures and the selection of changed files are instances.
`resolveFileDiff` is the source's function on classes of contents (text, other text,
binary, too large, none), with each of its calls failing or not. `IsChange` is the
code's selection of files; the property has a notion of its own: `PathChanged`
(reported added, deleted, moved or copied) in `RowsHonest`; an entry that is reported as
KEEP with two different contents has no row (Findings). Requests share nothing but what `Exchange` models, so one at a time is all
there is.

`MCAuthService`, `MCExchange` and `MCWebSession` add symmetry; `MCDaemon` and `MCBrowse` give the
legacy files, histories and diffs that TLC tries; the other runs use their module
directly. The modules whose names end in `Proofs` hold the theorems. `Exchange` and
`WebSession` meet `AuthService` in what they take of it: a token verifies while its
version is current, which is what `LiveTokenIsCurrent` proves of the real handlers.

## Runs

| Run | Checks | Shows |
|---|---|---|
| `selfservice` | `LiveTokenIsCurrent`, `FirstRowIsAdmin` | no interleaving of mints, exchanges, password changes, promotions, demotions and deletions leaves a token alive that predates the row's last change, not even the one that asked for it; the first account a database ever has is setup's administrator |
| `operator` | `TypeOK`, `GrantsReferToRows`, `SetupIsolated`, `StoreSpec`, `RequestsFinish` | grants written in several statements, with the user and the repository vanishing between them, never dangle; setup's transaction against the command line: isolation, refinement of the atomic store, and no request stuck |
| `handoff` | `TypeOK`, `SingleDelivery`, `BoundedResidence`, `FirstLoginWins`, `NothingAfterExpiry`, `ImplementsHandoff`, `SessionsLeave` | login sessions are a one-shot handoff that ends in bounded time |
| `throttle` | `TypeOK`, `ImplementsBucket` | lazy refill and trimming are invisible |
| `limiter` | `TypeOK`, `WindowBound` | the limit holds in every window although clocks are old and out of order |
| `exchange` | `TypeOK`, `OwnGrants`, `CoveredForSkew`, `RevokedAccessEnds`, `StaleGrantsEnd`, `NoLeakedConn` | the shared cache never mixes callers, a bearer handed out is good for the skew, revocation and grant changes take effect within a token's lifetime and one exchange, the losing dial is closed |
| `websession` | `TypeOK`, `SessionsNeverReturn`, `StaleFlagLapses` | no session comes back or changes hands, with two users whose accounts come and go; the admin pages of a demoted or deleted administrator end with the token |
| `daemon` | `TypeOK`, `OneSigningKey`, `ImportIsPrefix`, `GateKnowsSecret`, `SplitBrainEnds` | starts, tools and kills in any order: one key, a prefix of users.json with its first name as administrator, unlocks bound to the secret, ports not shared out for good |
| `browse` | `TypeOK`, `OneRevision`, `StablePathServed`, `RowsHonest`, `Served` | pages under concurrent pushes and failing calls |
| `lastadmin` | `AdminSurvives`, violated | see Findings |
| `wildcard` | `WildcardIsAdmins`, violated | see Findings |
| `stalegrants` | `NoStaleGrantServed`, violated | see Findings |

Each property of a passing run has a mutant in `PROJECT.json`: a plausible mistake in
one definition under which TLC finds it violated.

### Bounds

* `Client` has two members where requests race. Each handler holds nothing between
  statements, and the properties relate one request to one writer; the command line is
  a third actor.
* `MaxVersion`, `MaxLife` cap token_version and the number of times a name is created.
  One change is enough to fall before, between or after two reads; two lives are what a
  recreated account needs. `userdel` only deletes a name that may be created again, so
  that the bound never keeps a request from ending. The theorems have no such bounds.
* `selfservice` has two names and two passwords, and no repositories. 2,759,360 states.
* `operator` has one name, one password, one repository and one permission as input of
  `/api/grants`: grants of different names and repositories do not interact, `GrantOwner`
  writes three permissions by itself, and what races is the row that vanishes with the
  request that uses it. It keeps the state space small enough for the liveness
  property; the theorems cover any set of names. 257,135 states.
* `handoff` has one code: entries of the map are independent of each other, and the
  proofs cover any number. `TTL = 8`, `MinPeriod = 3`, `MaxLag = 1` keep the proportions
  of the code (the interval is half the TTL and above its floor). `MaxAge` exceeds every
  age a session can reach, which `BoundedResidence` itself shows.
* `limiter` and `throttle` run for `MaxClock` ticks, which is several trims and full
  refills. `IdleAfter` is larger than `Full + 2 * MaxStale`, as in the code, where ten
  idle minutes refill the bucket four times over.
* `exchange`: two requests are enough for two dials, for a hit on what another request
  stored and for a store over a newer entry; two users for a mix-up; one change per
  account suffices for staleness. `TTL = 2`, `Skew = 1`, `Timeout = 1`: nothing is assumed
  of how they relate. Time runs past the end of the first tokens. `Pause = 1` is the one
  bound on time that is not the code's. 1,287,512 states.
* `websession`: two requests race on two sessions of two users whose accounts are created
  and deleted; one of them (`Changing`) also gets passwords and is promoted and demoted.
  The session lives longer than its token, so that it is the token that ends it. Ages are
  cut off where nothing distinguishes them. 1,895,131 states.
* `daemon`: two processes at once, two starts in all, two legacy files (a junk row
  first; an invalid name in the middle), two secrets. Deadlock is not checked because
  the number of starts is bounded. The theorems have no bound on any of these.
  311,172 states.
* `browse`: two pushes make the path a directory, a file or nothing in every order; two
  workers over three or four items fill the pool and leave some waiting; listings repeat
  the anchor and exceed `MaxRows`, diffs exceed `MaxInline`. 65,762 states.

### Fairness

* `AuthService`: strong fairness of each client's `Server` step. A goroutine that has a
  request keeps running, and `database/sql` hands a freed connection to the statements
  that wait for it. Weak fairness would not do: setups that start and are aborted for ever
  take the connection away in between. No client has to send anything.
* `SessionStore`: weak fairness of time, and of the sweeper's two steps. Nothing is assumed
  of browsers, polls or restarts.
* `Daemon`: weak fairness of each process's start-up: a process that is not killed goes on
  to its next system call. Kills, operators and browsers are not fair.
* `Browse`: weak fairness of the request: every gRPC call and the HTTP client have a
  timeout, so a call returns or fails. Pushes need not happen, nor stop.

## Theorems

All proofs are checked by TLAPS, for any sets of clients, users, passwords,
repositories, codes, keys and handlers, and any settings the named assumptions admit.

* **`AuthServiceProofs`**, the store first: `StoreTypeCorrect`, `GrantsCorrect` and
  `VersionsCorrect`, inductive as they stand. Then the service: `TypeCorrect`, `SetupCorrect`, `RevocationCorrect`,
  `Implements` and `ServiceGrantsCorrect`. The inductive invariant is
  `TypeOK /\ PresentsToken /\ SetupIsolated /\ TokenInv`. `TokenInv` strengthens
  `LiveTokenIsCurrent`, which is not inductive: it says nothing of tokens that do not
  verify now and might after the next bump. `TokenInv` adds that a token's version is
  never ahead of its row in the same life. `Implements` shows that every step of every
  handler is a store step or a stutter; the one hard case is `SetupInsert`, where
  `SetupIsolated` gives the empty table that `CreateFirstAdmin` promises. The
  integrity of grants is then inherited from the store.
  `FirstRowCorrect` proves `FirstRowIsAdmin` where neither `useradd` nor the admin page's
  create form is used (both make ordinary users, so the hypothesis is needed). Its
  invariant is `UntouchedStore`: until the first row registration is closed and no
  request is past a gate that reads a row. `LastAdminCorrect` proves `AdminSurvives`
  for any number of clients under `[]RemovalsApart`, that no two removals are between
  their look and their write at once, and without `userdel`, which has no guard. Its
  invariant is `OneRemains`: a removal that may write leaves another administrator
  behind. It says exactly what the guard lacks: the run `lastadmin` shows that without
  `RemovalsApart` the property fails. `LastAdminAlone` is the instance with requests
  one at a time, where the guard is enough. `ConnectionCorrect` (a
  transaction that holds the one connection has an owner at its insert) and
  `OnlyForwardCorrect` (each step of a request leaves fewer statements, and nobody takes
  it back) are what `RequestsFinish` rests on besides fairness.
* **`SessionStoreProofs`**: `SessionTypeCorrect`, `SingleDeliveryCorrect`, `FirstLoginWinsCorrect`,
  `NothingAfterExpiryCorrect`, `BoundedResidenceCorrect`, `HandoffCorrect`. The
  invariants are `MapUnredeemed` (a code in the map has not been redeemed) and
  `SweepOnTime` (ages follow the ticker's phase between two sweeps).
* **`LoginThrottleProofs`**: `ThrottleTypeCorrect` and `ThrottleCorrect`, that the lazy buckets implement
  `TokenBucket`: a bucket's level is its tokens plus the time since, capped, and a
  missing bucket is a full one.
* **`RateLimiterProofs`**: `LimiterTypeCorrect` (at most a full bucket, at most MaxStale owed, no stamp
  ahead of the clock) and `WindowBoundCorrect`. `LimiterInv` bounds the potential
  `tokens - last`, which a call leaves alone or lowers by what it spends, whatever its
  clock; that is why the order of calls does not matter.

* **`ExchangeProofs`**: `ExchangeTypeCorrect`, `NoLeakedConnCorrect`, `OwnGrantsCorrect`,
  `CoveredForSkewCorrect`, `RevokedAccessCorrect`, `StaleGrantsCorrect`, for any number of
  requests, users, calls and changes and for every TTL, skew, deadline and pause. None of
  the last three is inductive: what a call carries now was put into the cache by another
  request earlier. `CacheInv` says what an entry was made from: it expires within
  Timeout + TTL of the replacement of its grants and of the end of its identity token's
  version. `ReqInv` says what a request holds at each step: `Pending`, that an exchange in
  flight read its grants and verified its token after it began, and `Covered`, that the
  bearer in hand outlasts the skew, or its lifetime, from the clock read.
  What is not proved, because it does not hold, is that the skew covers a request
  (`NeverLapsesMidRequest`, see Findings).
* **`WebSessionProofs`**: `WebSessionTypeCorrect`, `SessionsNeverReturnCorrect`,
  `StaleFlagCorrect`. `FlagInv` says that wherever an administrator flag is kept, in a
  session or in a sign-in under way, its account has been without it, demoted or deleted,
  for no longer than the token it came with is old. The bound is the token's lifetime
  (168 h by default) for any session lifetime (8 h in the code).
* **`DaemonProofs`**: `DaemonInvariant`, `DaemonTypeCorrect`, `OneSigningKeyCorrect`,
  `ImportIsPrefixCorrect`, `GateKnowsSecretCorrect`, for any number of processes and
  starts and any legacy files. The invariant is
  `TypeOK /\ ListenInv /\ KeyInv /\ GateInv /\ ImportInv`. `KeyInv`: a process that
  has a key has the one on disk, and at most one process is between creating and writing
  it. `ImportInv`: an import that has inserted nothing has only skipped rows, and one
  that has inserted is alone, so the table is the prefix it has read. `GateInv`: start
  numbers are used once.

* **`BrowseProofs`**: `BrowseTypeCorrect`, `OneRevisionCorrect`, `StablePathCorrect`,
  `RowsHonestCorrect`, for any history, any answers of lore-server, any number of workers
  and any limits. The invariant has three parts. `Control` says which calls each handler
  can be at. `Reading` says what a handler goes on with: the node of a path was the tip's
  while the request was served and is what the path was there, it is a directory when it
  is to be listed and a file when it is to be fetched; this is what makes the two
  properties of a path inductive although the tip moves between calls. `PoolInv` says of
  the fan-out that a row the loop has passed and nobody has written has a worker with a
  slot, that every written row is honest, and that the items are the right ones in the
  right order (`Complete`), which is settled when the fan-out starts. The lemmas
  `KeptProperties`, `DedupProperties` and `ChangesProperties` say what the loops that
  build a slice from another return: order, completeness, no repetition. They rest on
  `RankExists` (a set of n positions has a k-th one for every k up to n) and on the least
  element of a set of naturals, as the prover cannot do induction over an operator.
  `FanOutNeverStuck` and `RequestEnds` are what `Served` rests on besides fairness: the
  loop and the workers never all wait, and every step of a request lowers the pair of
  `Left` (calls to make) and `Owed` (steps of the fan-out).

Only model-checked: the liveness properties (`RequestsFinish`, `SessionsLeave`,
`SplitBrainEnds`, `Served`), as the prover does not reason about fairness; and the
violations. Every invariant and every action property of a passing run has a theorem, and
for two of the liveness properties the counting argument under them is proved.

## Findings

Places where the code does something else than a document or comment of the repository
says. For the first three TLC finds a violation of what is said; for the others a passing
run shows what the code does instead.

| Run | What the code does | What it says |
|---|---|---|
| `lastadmin`, `AdminSurvives` violated | two administrators removed at once both pass the count, and none is left | "refusing to remove the last admin" (`api.go:630`) |
| `wildcard`, `WildcardIsAdmins` violated | an administrator demoted between MintFor's two reads (`service.go:53`) gets a token that verifies and carries the wildcard | "Non-admin: [...] NO urc-* wildcard" (`perms.go:37`), "only for an admin" (`exchange.go:87`) |
| `stalegrants`, `NoStaleGrantServed` violated | a changed grant changes no identity token and hence no cache key: the old bearer is served from the cache | "no stale-grant token can ever be served" (`exchange.go:291-293`) |
| `selfservice`, `LiveTokenIsCurrent` holds | `SetPassword` bumps the version (`store.go:229`), so a change of the own password revokes the session that asked for it | "The current session token remains valid after a password change." (`arc-lore-auth/README.md:236`), "intentionally left valid" (`api.go:477`) |
| `exchange`, `CoveredForSkew` holds | the skew is 60 s, each call of a page has 30 s, a page makes several on one bearer: it may lapse in the third | "so we never present a token that lapses mid-request" (`exchange.go:79-83`) |
| `browse`, `RowsHonest` holds | the commit page drops KEEP entries unseen (`commit.go:118`), also one with two different contents | "the full diff of one commit" (`commit.go:37`), "KEEP/MOVE/COPY [...] (a content modification)" (`commit.go:227`) |

* `AdminSurvives` does hold where removals do not overlap (`LastAdminCorrect`), and an old
  bearer is good for a bounded time (`StaleGrantsEnd`).
* `CoveredForSkew` is what `expirySkew` gives: the skew, counted from when the page asked.
  `NeverLapsesMidRequest` in `Exchange` is the comment's claim. TLC refutes it with the
  proportion of the code, two call deadlines in a skew, and in its best case, no time
  between calls: one user and one request, `TTL = 8`, `Skew = 2`, `Timeout = 1`, `Pause = 0`,
  `MaxChanges = 0`, `MaxClock = 8`. A page takes the bearer from the cache just outside
  the skew and makes three calls, each within its deadline; it lapses in the third.
* On KEEP the sources disagree with each other: `commit.go:116` and the proto call it
  "unchanged" and "No change at this path", but the Action enum has no other value for a
  file edited in place. What lore-server sends for one is outside this repository.
  `MCDiffs` has such an entry, and `RowsHonest` says which entries have rows: those
  reported added, deleted, moved or copied.

## Observations

Facts met while modelling that no run states: consequences of what the code does that no
document denies, or places a property had to be stated around.

arc-lore-auth:

* A name that is deleted and created again starts at token_version 0 (`store.go:149`), so
  a token from before a password change of the earlier account verifies again, where
  `mint.go:34` speaks of "every prior token". `ChangeRevokesAll` in `AuthService` states
  the comment. It fails in 27 states with two users, passwords and clients,
  `MaxVersion = 1`, `MaxLife = 2` and the operations setup, login, createUser, deleteUser
  and setPassword. `LiveTokenIsCurrent` speaks of the row a token was minted for.
* After a change of the own password ArcLoreWeb keeps admitting the session until its
  token lapses, while every call made with it is refused.
* `requireAPIAdmin` reads the flag (`api.go:123`) and the handler writes later: an
  administrator demoted or deleted in between still changes accounts with that one call.
* `POST /api/me/password` hashes between check and write (`api.go:499`): an
  administrator's reset that commits meanwhile is overwritten.
* `userdel` has no last-admin guard; `useradd` before the first start suppresses the
  import and leaves users without an administrator.
* A start killed between creating and writing the signing key leaves a file that every
  later start refuses until it is removed. Certificate and TLS key are written one after
  the other: a kill leaves half a pair, which is refused; two racing first starts may leave
  halves of different pairs on disk while one of them serves from memory.
* `update.sh:11` relies on the signing key not changing: this is `OneSigningKey`.

ArcLoreWeb:

* Two misses at once may store the older bearer over the newer one, which the bound of
  `StaleGrantsEnd` covers. A comment in `client.go:58` still describes a cache keyed by
  resource only.
* Close runs only after Shutdown succeeded; after a timeout the process ends with its
  connections open, which the end of the process closes.
* A tree page resolves the tip in several calls: a path that turns from a directory into
  a file between two of them answers 502 although no call failed.
* `resolveFileDiff` ignores fetch errors: the side that failed shows as empty, so a file may
  look wholly added or deleted. `RowsHonest` bounds this to the file's own text.
* A raw download that the 30 s client timeout cuts off after the status was sent looks
  complete when its length is unknown; a README of unknown size is truncated silently.
* Commits beyond the row limit of a page are skipped, as the next cursor is the server's.
* The locks page passes seconds where milliseconds are expected (`locks.go:22-28`).
* RepositoryCreate draws new ids on every call, so a caller's retry is not idempotent,
  although its comment names retry idempotency as the reason for client-made ids.

Deployment: `install.sh --overwrite` with another host rewrites `tls_san`, but the daemon
keeps a certificate that exists, so the summary's claim that the certificate's SAN is the
new host does not hold until the pair is removed.

## Not modelled

* Signatures, key identifiers, audiences and the encoding of tokens (the library's);
  password hashing and the semaphore of four around it, which only delays.
* Endpoints of arc-lore-auth that read and answer (status, listings, permission and name
  lookups): each is a read of what the modelled actions write. CSRF tokens are taken as
  checked.
* View models, templates, highlighting, markdown and the numbering of diff lines; id
  encodings, which the standard library does; parsing of flags, files and environment
  variables; the wording of errors.
* The deployment scripts: shell around systemd, the package tools and lore-server's
  configuration. Their effect depends on the host more than on the code.
* Generated code: protocol buffers and compiled templates. They are more than 60% of the
  repository's Go lines and have no logic of their own; `PROJECT.json` maps about half of
  the lines that were written by hand, and what is left of those is mostly the items above.

## What could come next

1. `AuthService` composed with `Exchange` in one state space instead of through the
   contract they share.
2. The deployment scripts as a state machine over the files, services and trust stores
   they touch, with a failure at any command.
3. The counting argument for `SplitBrainEnds`, as there is now for `RequestsFinish` and
   `Served`; `BoundedResidence` already is the one for `SessionsLeave`.
