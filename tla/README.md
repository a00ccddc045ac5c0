# TLA+ models of go-cloud-k8s-auth

This directory specifies the authentication service of this repository in TLA+, checks the
specifications with TLC on small instances and proves the most important results with TLAPS for
every instance. Paths below are relative to the repository's root; line numbers of every
modelled definition are in `PROJECT.json` (`map`).

## 1. The system

The service logs users in through OAuth providers, keeps them in PostgreSQL (schema `go_auth`),
and hands out credentials: short-lived JWTs, browser session cookies and personal access tokens
(PATs). Other services ("modules") verify the JWTs with a shared secret and ask the service
about PATs.

| Component | State | Operations | What makes it correct |
|---|---|---|---|
| OAuth state store (`pkg/auth/state_store.go`) | map of random states in memory, behind a mutex | `Generate`, `GenerateWithRedirect`, `Validate`, `ValidateAndConsume`; a cleanup goroutine; restart empties it | a state opens one login, for its provider, within its lifetime; abandoned states leave |
| OAuth login (`auth_service.go`, `auth_connect_server.go`, the callback part of `browser_handlers.go`, the page) | none of its own; the page keeps the provider's name in `localStorage` | `StartOAuth`, `HandleCallback`, `/auth/oauth/{p}/start` and `callback`, `AuthenticateOAuthUser`, `ensureBootstrapAdmin`, `IssueJwtForUser` | a code is exchanged once, with its provider and redirect URL; the browser lands where it may; only active accounts get in |
| OAuth providers (`oauth_providers.go`) | none | fetch a profile, choose the GitHub address | the verified flag belongs to the address returned |
| User directory (`sql.go`, `storage_postgres.go`, `user_service.go`, `user_connect_server.go`, migration 000001) | table `users`: e-mail, (provider, provider_id), roles, is_active | upsert by identity, `AddRole`, `Create`, `Update`, `Delete`, lookups, pages | unique keys; accounts are linked only by a verified e-mail; changes of roles and is_active come from an administrator or the configuration |
| Authorization of RPCs (`auth_interceptor.go`, the two generated handlers) | none: the claims of the JWT | bearer check, public procedures, `requireAdmin`, `requireSelfOrAdmin`, `ensureNotSelfDemotion`, codes of errors | data for the entitled only, within the lifetime of a JWT; answers that are true |
| Browser SSO (`browser_handlers.go`, `session_store.go`, migration 000002) | table `sessions`; one cookie per browser | `/auth/login`, `/auth/oauth/{p}/start` and `callback`, `/auth/token`, `/auth/logout` | no JWT outlives the session and the account's rights for long; nobody runs in circles |
| Personal access tokens (`pat_service.go`, `pat_store.go`, `pat_connect_server.go`, migration 000003) | table `personal_access_tokens` | create, list, revoke, introspect; a goroutine that sets `last_used_at` | verdicts are fresh, revocation is final |
| Start-up (`cmd/goCloudAuthServer/goCloudAuthServer.go`) | the database's schema version, golang-migrate's advisory lock | connect, migrate, open the stores, serve; ends the process at the first failure | replicas do not migrate together, nobody serves without the tables, the service comes back |
| Configuration, legacy `login` | environment variables | | |
| RBAC enforcer (`pkg/rbac`) | a fixed table | `Enforce` | not called by the server |

The components interact through the two tables' foreign keys (deleting a user deletes its
sessions and PATs), through reads of `users` in the middle of handlers of the other components,
and through JWTs, which carry a copy of the roles. The state store is shared by the RPC and the
browser login. Two replicas are deployed on one database
(`deployments/go-testing/deployment.yml:157`): they share the tables, not the state store.

**What is hard here.** Every request is a goroutine, and no transaction spans two statements:
between any two statements of a handler, any statement of any other may run. The upsert is one
statement with a stale part: under READ COMMITTED its CTE reads a snapshot, its UPDATE or INSERT
acts on newer rows. A login is a protocol of four parties over URLs that a browser may load
twice, and two flows of it share the server's configuration but not what they remember.
Credentials are copies of state that changes. Clocks decide: three kinds of expiry, with
different boundaries. Statements fail, answers get lost, the process restarts, and starts
together with others over a schema that may be half migrated. The list, with lines, is `hazards`
in `PROJECT.json`; the properties below answer it.

## 2. The modules

```
Tickets  <--extends--  OneTimeTickets  <--implements--  StateStore   StateStoreProofs
   ^
   +-- the ledger of --  LoginFlow (uses RedirectPolicy, ProviderProfiles)   LoginFlowProofs

Accounts        <--implements--  UserDirectory            UserDirectoryProofs
   ^  ^  ^
   |  |  +--- environment of, and implemented by, ---  RpcGateway    RpcGatewayProofs
   |  +------ environment of ---  BrowserSessions         BrowserSessionsProofs
   +--------- environment of ---  PersonalAccessTokens    PersonalAccessTokensProofs

Service = UserDirectory + BrowserSessions + PersonalAccessTokens
          --implements-->  each of the last two           ServiceProofs

ServerStartup                                             ServerStartupProofs
```

Each `MC...` module instantiates a specification for TLC; each `.cfg` is one run. A module
defines, next to the operations, mutated forms of some of them (`Operation_Slip`): plausible
slips of the code that no specification uses and that the properties are known to catch.

### Tickets, OneTimeTickets and StateStore

`Tickets` is a ledger of state tokens that forgets nothing: what was issued, for which provider
and return address, when, by which run of the process, and what became of it. `OneTimeTickets`
adds the answers, and is the promise: a ticket is issued once; its
first presentation settles it; the answer is yes exactly if the ticket was issued by the running
process, for the same provider, at most `TTL` ago. `LedgerSpec` is the ledger without answers:
what the store and the logins have in common.

`StateStore` is the code: `states` is the map, one entry per state or `NoEntry`. Every method
holds the mutex for its whole body, so it is one action. `Validate` is `ValidateAndConsume` with
one result dropped. `Cleanup` is one turn of the goroutine's loop; the ticker is `nextTick` and
`sweepPending` (its channel holds one tick; a tick that finds it full is dropped). `Restart` is
a new process: an empty map, a new ticker, an unchanged world outside. `now.After(expiresAt)` is
`now > expiresAt`: an entry is good at the instant it expires. The module extends
`OneTimeTickets` and moves its ledger as history, so the refinement mapping is the identity.

### LoginFlow, RedirectPolicy and ProviderProfiles

A login from the first click to the credential. `tab[t]` is what a tab (or a program) shows or
which call of its handler is next: `exchange`, `fetch`, `upsert`, `issue` are the calls of
`AuthenticateOAuthUser` and its callers, and anything may happen between two of them. Three
starts lead there: the browser's (`HandleOAuthStart`, with the return address the state store
keeps), the page's (`StartFromPage`, which notes the provider in `remembered`, the `localStorage`
all tabs share) and a program's (`StartFromProgram`, with a redirect URL of its own). `LoadAgain`
loads a callback URL in another tab, `Restart` is a new process with an empty map and possibly
another allowlist. A refused presentation of a state that was never issued to this replica is
the disjunct that fails without settling anything.

The state tokens are the ledger of `Tickets`, on which `StateStore` is shown to rest; the
provider's side (a code is used once, with the redirect URL it was issued for: `Accepts`) is
external. `codes[c]` records, besides the use, where and with what the code was presented
(`tries`, `at`, `with`): history the properties speak about.

`RedirectPolicy` is `isAllowedRedirect` on URLs cut into tokens, next to a reference that is not
written in prefixes but says where a browser goes (`AllowedSite`): to this origin, if the URL
begins with one slash that no second one follows (`StaysHere`), else to the scheme, host and port
that come before the first delimiter (`SameSite`). A browser takes a backslash for a slash and
skips tabs, url.Parse does neither, and the code's test of a path asks for `/` only; the
reference supposes of a path that both read the character after its first slash alike
(`ReadAlike`; section 6). `ProviderProfiles` is the three
fetchers as functions of the decoded answer, with `pickGitHubEmail`, next to the reference
`Honest`: a profile names an address of the answer, and calls it verified only if the answer
does.

### Accounts and UserDirectory

`UserDirectory` is the table and the handlers that write it or sign JWTs from it.

* `rows[u]` is a row, `NoRow` (id never used) or `Gone` (deleted): a BIGSERIAL and random UUIDs
  do not come back. A row keeps e-mail, identity, roles, is_active. No statement stores an empty
  array, so the empty role set stands for NULL.
* `handler[h]` is what handler `h` is about to do, with what it has read so far. Each SQL
  statement is one step; the upsert is two, `LoginSelect` (the CTE's snapshot) and `LoginWrite`
  (the UPDATE or INSERT and its unique indexes). `LoginGrant` is `ensureBootstrapAdmin` with
  `AddRole`; `Mint` is `IssueJwtForUser`; `ReadOwner` the read of `handleToken`, for any active
  account (whether it has a session is `BrowserSessions`' business). `SubmitUpdate`, `CheckSelf`,
  `CheckExist`, `UpdateRow` are the four steps of an update, and so on. `Fail` ends a handler
  anywhere: errors, cancelled requests, crashes.
* `adminTokens` says who holds an unexpired JWT with `is_admin`; the guards of the
  administrators' requests read that and nothing else, as the interceptor does.
* `Emails` are addresses as spelled by providers: the table compares them exactly, the list of
  bootstrap administrators ignores case, hence `BootstrapEmails` as a subset.
* History: `own` in a login says that the CTE picked the row for its identity.

`Accounts` is what the other components may rely on: existence, is_active, administrator or not,
and that power (an administrator's token, or a request one allowed) is behind every change but
enrolment and promotion at login. Power has an origin: the row of an active administrator that a
login or a request for a JWT has read, a promotion, or the administrator the configuration names,
if it names one (`RootAppears` asks for `Roots # {}`). `UserDirectory` implements it under
`acct <- acctView, power <- powerView`, where `powerView` holds while any administrator's request
runs: a request that got there on nobody's authority would be a step `Accounts` does not have.

### RpcGateway

One client, one call at a time, against accounts that change as `Accounts` allows between any
two statements (`Others`). `call` goes through dispatch by path (the generated handlers),
`Intercept` (the bearer token, the public procedures) and the handler, statement by statement;
the answer has a code and the rows it shows. Every procedure of `UserService` is there, and of
`AuthService` those that look a caller up. `Int32` cuts the caller's id as the interceptor
does; `Half` is 2^31 there and small in the runs: the configured administrator's id (16 with a
`Half` of 8) becomes 0, as an id of 2^32 would. The users' own ids are assumed to fit (`IdsFit`).
A page of `List` is cut out by `Rank`, the number of rows before a row. `Circulating` says which claims an unexpired JWT may carry. `walk` is a
client that reads `List` page by page. History: `absent`, `lacked` and `failed` say whether, since
the call was sent, its subject was missing at some moment, the target of an update was not an
administrator at some moment, and a statement failed. `AnswersTruthful` compares the answer with
them: a lookup by id says "not found" of a missing user only, a denial is to somebody who is
neither administrator nor the user asked for, and an update has taken the role from the caller's
own row only if the row was once without it, which is what `ensureNotSelfDemotion` can promise two
statements before the write. `Exist` and `GetCurrentUser` report a failed statement as "not
found"; there the property admits it.

What this client writes must itself be a step of `Accounts` (`StaysWithinAccounts`), so the
gateway both lives in that environment and keeps to it.

### BrowserSessions

Tabs of a browser share its cookie (`jar`). `view[t]` is what tab `t` shows, or the request it
waits for, named by the next statement. A request carries the cookie of the moment it was sent;
`Set-Cookie` acts on the jar when the answer arrives. `sessions` is the table by cookie value
(the code stores its hash). `AskToken`, `GetValid`, `GetByID`, `Mint` are `/auth/token`;
`AskLogin`, `HandleLogin`, `HandleOAuthStart`, `Authenticate`/`Reject`, `CreateSession`,
`SetCookie` are the login; `AskLogout`, `Revoke`, `ClearCookie` the logout. `StatementFails`
does for each statement what the code does when it fails, `AnswerLost` loses the answer. A tab
follows the recipe of the repository's README (lines 156-177), which the pages in
`goCloudAuthFront/dist` share. Accounts change as `Accounts` allows (`AccountStep`), taking the
sessions of a deleted account along; `lost` is history about when a right was withdrawn. A JWT
with `is_admin` is power over the accounts (`TakePower`), which may go when it does (`DropPower`).
The account of `Authenticate` was active when the upsert wrote it; by the time the callback opens
a session it may be disabled or gone, and the foreign key is all that stands in the way.

Time: `Tick` does not pass the deadline `Latency` of a token request. That is an assumption,
not code: the server sets no timeout on these statements. Without it a JWT read before a
demotion could be signed arbitrarily late.

### PersonalAccessTokens

`pats` is the table, `call` the requests, `touching` the goroutines introspections leave behind.
An introspection is `GetByHash`, `Check` (the look at the clock, on the row as read), `GetByID`,
`Reply`. `Create` and `Revoke` need a caller whose row exists, not one that is active: that is all
the code asks. The goroutine's context bounds its life by `TouchTimeout` (five seconds in the
code); `TouchFails` covers its error, its timeout and the end of the process.

### Service

The three modules around the table of users on one database. `acct` and `power` of the two token
modules are here the rows and token holders of `UserDirectory`, and their `AccountStep` is one of
its statements, with the cascades of the two foreign keys (`SessionsCascade`, `PatsCascade`) in
it. The request a tab `t` waits for is the directory's handler `t`, so some steps belong to two
modules at once: `BrowserLogin` is the directory's login of that handler, which `Callback` ends by
opening a session instead of signing a JWT; `TokenRead` and `TokenMint` are the read and the
signature of `/auth/token` in both. The other handlers (`Elsewhere`) are RPC logins,
administrators' requests and browsers that are not modelled. The modules share the clock. A JWT
the directory counts among `adminTokens` does not expire there while a tab still holds it
(`Carries`).

### ServerStartup

`main()` from the connection to the port, one step per call that can end the process, for
several replicas on one database. `pc[r]` is a replica's next step. A build is the number of its
migrations; an environment is known by the step a wrong setting stops. golang-migrate is
external, as the code uses it: it waits for an advisory lock (15 s when it migrates, for ever
when it makes its own table), marks a version dirty, runs its statements, marks it clean;
`ErrNoChange` is fine, a dirty version or one it has no file for is fatal. `HasDeadline` is the
set of steps that run under a context with a timeout; `GetVersion` and the migrations do not.
The database is up, down or silent (up, and answering nobody). `Crash` may leave the statement
under way done or not, and the lock with its dead owner (`Orphan`) until the server notices.
`ForceVersion` is the operator's repair, right or wrong; `Rollout` and `Restart` are the
cluster's. `calm` is set once nothing more goes wrong around the service.

## 3. The runs

State counts are distinct states. Deadlock is checked but where it says "may stop".

| Run | Instance | Shows |
|---|---|---|
| `statestore` | 2 states, 2 providers, 2 return addresses, TTL 2, period 2, one restart, 374,304 states | `OneUse`, `StoreMirrorsLedger`, `GarbageBounded`, `ImplementsTickets`; under `FairSpec`, `AbandonedReclaimed` |
| `login` | 2 tabs, 2 states, one code, 3 providers of which one is not configured, 4 return addresses, TTL 0, one tick, one restart, two allowlists, 916,093 states; may stop | `CodeGoesHome`, `ReplayStopsHere`, `ExchangeMatches`, `ProfileHonest`, `LandsOnAllowedSite` |
| `directory` | 2 ids, 2 e-mails (one listed), 2 identities and a blank one, 2 handlers, 935,152 states | `KeysUnique`, `LinkIsEarned`, `AdmittedOnOwnRow`, `ListedLoginGrants`, `ImplementsAccounts` under every interleaving of two handlers, `Create` among them |
| `gateway` | 2 users, the configured administrator, `Half` 8, pages of 1 and 2, 162,350 states; may stop | `DataOnlyToEntitled`, `AnswersTruthful`, `NobodySkipped`, `StaysWithinAccounts` |
| `sessions` | 1 user, 1 session, 2 tabs of one browser, faults, 603,688 states | `AuthorityBounded`, `SessionBounded` |
| `sessions_settle` | 1 user, 2 sessions, 1 tab, no faults, 575,850 states | `LogoutRevokes`; under `FairSpec`, `RefusedSettles` |
| `pats` | 1 user, 1 token, 2 requests, 1,147,870 states | `VerdictFresh`, `UsedMeansUsed`, `RevocationFinal` |
| `startup` | 2 replicas, 3 releases of 2 builds, one with a wrong setting, a database one migration behind, 114,854 states; may stop | `ServingMeansReady`, `OneMigrator`; under fairness, `StartsEnd`, `ServesAgain` |
| `service_browsers` | 2 tabs of one browser and one other handler, 1 user, 1 session, faults, 431,038 states | `SessionsOwned`, `ImplementsSessions`: what the browsers' module assumes of accounts is what the directory does to them |
| `service_tokens` | 1 handler, a configured administrator, blank identities, role lists that may be empty, 1 token, 1 request about it, 654,498 states | `TokensOwned`, `ImplementsTokens`, the legacy login and NULL roles beside them |
| `null_roles`, `lockout` | each as its passing run, smaller | a sentence of the repository that the code does not keep (section 6) |

Three systems may stop: `login` when the states and codes are used up and the clock is at its
bound, `gateway` when its ids are used up and nobody holds claims, and `startup` when every
container serves and all is calm.

**Bounds, and why they are enough.** Two handlers give every race of two requests, which is where
the hazards of the directory are: each of its properties fails by two handlers or one when it
fails (the proofs cover any number). Ids, handlers and the identities of providers are symmetric
there, for no statement names one. Two ids and two e-mails allow every clash of two rows, and with
deletion the table fills up: `Create` and the INSERT then wait, which only removes behaviour that
is the same with a larger table. Two identities and two e-mails make both kinds of stale target.
Two tabs and two states give two logins at once, each way, and the replay of one of them while the
other is under way, in the same tab or the other one. One code suffices for that: what can go
wrong with a code (the other tab's provider, a second presentation, the other flow's URL) is between
it and the state, the storage and the configuration the tabs share, and never between two codes;
the theorems cover any number. The addresses of `MCLoginFlow` are a path of this origin, the
`//host` form, and the two shapes the boundary test tells apart; its answers of GitHub the four the
choice does. Their policies are proved for URLs and answers of any length. In the gateway a second user is the other one a caller could be
shown, or the row inserted between two pages. In the sessions and PAT models one account suffices,
because a session or a token belongs to one account for ever and no statement reads two. Clocks
run to `Horizon`, long enough for each lifetime to begin, end and be overrun by the largest delay
(in the two runs of the service it is 1: what they ask, whether a step of the whole is a step of
each part, is decided between two statements, and the lifetimes are the parts' business); the
state store's `GenerateWithRedirect` stops early enough for its entry to be swept before the clock
stops, so that liveness is not decided by the bound. `Faults` is FALSE in `sessions_settle`, for
nothing settles if every answer may get lost, and a logout whose UPDATE fails revokes nothing. One
handler of the directory, beside two tabs or beside a request about a token, puts a delete, a
demotion or a login between any two of their statements. Two replicas, an old and a new build and
one migration to run make every order of a rollout and a rollback; the schema is finite because
versions are.

**Fairness.** `StateStore!FairSpec`: the clock runs and the Go runtime schedules the goroutine a
tick has woken. `BrowserSessions!FairSpec`: a page that follows the recipe asks for its token
and for the login page, and the server finishes the requests it has begun; nothing is assumed of
the user, of other accounts, of expiry or of time. All of these are weak: none of these steps is
disabled by another actor once it is possible. `ServerStartup!Fairness`: a container that ended
is started again and the server finds out about lost clients (weak); a replica goes on, and gets
the lock if it is free again and again (strong, for other replicas and the database disable these
steps: PostgreSQL queues those who wait for an advisory lock, and a call that waits for the
database is answered when the database answers). The database itself need never answer, the
operator need never repair anything.

## 4. What is proved

For every value of the constants that satisfies the assumptions the modules state
(`StoreAssumption`, `EntryAssumption`, `DirectoryAssumption`, `ViewAssumption`, `FlowAssumption`,
`RedirectAssumption`, `ProfileAssumption`, `SessionsAssumption`, `RowAssumption`, `PatAssumption`,
`CallAssumption`, `IdsFit`, `ValuesDiffer`, `StartupAssumption`, `ServiceAssumption`,
`PartsAssumption`; they give the constants their types, keep the special
values apart from the others, say that a JWT or a PAT with an expiry lives at all, that an entry
of the allowlist is a URL with a host, that a deployed build has the migrations its stores
need, and that the users' ids go through an int32):

* **State store** (`StateStoreProofs`). The inductive invariant adds to the types that the ledger and the map agree,
  that a ticket not yet presented has granted nothing, and where the ticker stands between two
  ticks (without that, the bound on garbage is not inductive). From it: `TypeCorrect`,
  `OneUseCorrect`, `MirrorCorrect`, `GarbageCorrect`. `Refinement` shows that initial states map to
  initial states and every step to a step of `OneTimeTickets` or a stutter; its heart is that
  `Accepts` and `Good` agree, which is `StoreMirrorsLedger`. `LedgerCorrect`: its tickets move as
  `LedgerSpec` says.
* **Login flow** (`LoginFlowProofs`). Two theorems without state: `RedirectStaysOnSite` (what
  `isAllowedRedirect` lets through is, as a browser reads it, a path of this origin or on the site of
  an entry, for URLs of any length, with the supposition `ReadAlike` about paths: `PathsStayHere` and
  `AuthorityEnds` are its two arms) and `FetchersHonest` (for any answer and any list of addresses). The invariant `IInv`
  follows a code through the copies of its URL: a tab with a code has the state it came with
  (`StateInHand`, `CodeInHand`), all copies have the same (`CopiesAgree`), and as long as the
  state has not been presented the code has been tried nowhere. So the first presentation of the
  state, which settles it, is the only way to an exchange, and the exchange is with the state's
  provider: `ReplayStopsHereCorrect` and `CodeGoesHomeCorrect` cannot be had from the code's
  record alone. `LandingCorrect` needs that the address a handler carries is allowed by the list
  of the process that carries it, which a restart preserves because handlers die with it.
  `LedgerUsed` is the other half of `LedgerCorrect`: every step of a login, in both flows, moves the
  ledger as `LedgerSpec` says, and a callback settles only what was issued. Store and login thus
  meet in one specification of what they share.
* **User directory** (`UserDirectoryProofs`). `IInv` is `TypeOK /\ KeysUnique /\ PickEarned`; the last says that a login's
  picked row was picked for a verified e-mail or for its identity. `KeysUnique` needs the types
  only; `LinkCorrect` needs `PickEarned` because the reason for the pick lies one step back.
  `AdmissionCorrect` follows from `LoginWrite` alone. `GrantCorrect` has a hypothesis, that
  administrators send no empty role list: the run `null_roles` shows it cannot be dropped. Its
  invariant `RolesGiven` says that no row has NULL roles and no request in flight will store them.
* **The directory as the other components see it** (`UserDirectoryProofs`). `DirectoryCorrect` is the refinement of
  `Accounts`. Two things move under the mapping: the view of one row, and `powerView`, a
  disjunction over all handlers. Since a step changes one handler, power is kept, falls or rises
  with what that handler becomes (`Empowered`); each statement is then a step that changes
  nothing or loses power (`QuietStep`), the login of an administrator (`EmpowerStep`) or, if one is
  configured, of the configuration's, an administrator's write (`AdministerStep`), an enrolment or
  a promotion. With no administrator configured, nobody has power before somebody's row says so. So what is checked and
  proved of sessions, PATs and the gateway with `Accounts` as environment rests on a proved step.
* **Sessions** (`BrowserSessionsProofs`). A request for a JWT carries what it has seen to be good
  and since when it is on its way; a JWT has been minted from such a request. The invariant says
  of each view what it still knows: a request is in time, its session was live after it was sent
  (`SessionSeen`), the account's rights were there after it was sent (`RightsSeen`), and a JWT's
  expiry is within `Latency + JwtTTL` of whatever has been withdrawn since (`MintedWell`). For a session that is counted from the last
  instant it was valid (`LastLive`: one tick before `expires_at`), so that the bound has no slack.
  `AuthorityCorrect` and `SessionCorrect` follow because a JWT in a tab has not expired.
  `LogoutCorrect` needs more (`LogoutInv`): between the UPDATE of a logout and its answer another
  tab may log in, so a cookie value that was handed out must never be drawn again (`Drawn`, of the
  jar and of every request), and a session that has ended must not begin again (`SessionsEndOnce`).
  Its hypothesis `~Faults` is in the statement because the code logs a failed UPDATE and goes on
  (section 6).
* **Personal access tokens** (`PersonalAccessTokensProofs`). Between two of its statements an
  introspection knows that the row it has read is the row there is, but for a revocation or a
  deletion since, and that neither is older than the request (`ReadTruly`, `Passed`); a goroutine
  was started by an accepted use (`Justified`). `VerdictFreshCorrect`, `UsedMeansUsedCorrect`; and
  `RevocationFinalCorrect`, an action property, because no statement writes `revoked_at` of a
  revoked row.
* **Gateway** (`RpcGatewayProofs`). A call knows at each step who has let it through
  (`CallAllowed`; while an administrator's call lasts there is power behind it, which is what
  `Accounts` asks of a write), whether its subject has been missing or no administrator
  (`CallRemembers`), and that an update of the own role has passed its check (`CallChecked`):
  `EntitledCorrect`, `TruthfulCorrect`, `WithinAccountsCorrect`. For a denial to be right the id has
  to survive the cast (`CastKeeps`), which is where `IdsFit` comes in. For the pages, ranks number the
  kept rows without gaps (`RankReached`), so an empty page lies past the end and a page moves the
  walk on by as many rows as it shows; and a row's rank only grows when accounts are opened. `WalkCovers` says
  that who was there at the start and is ranked before the walk's offset has been read; with an
  empty page this is everyone: `NobodySkippedCorrect`, for every page size.
* **The parts together** (`ServiceProofs`). The invariant `SInv` is the directory's, the types of the
  three tables, that the history of rights is reset while they are held (`Held`), that a request
  which is to insert a session or token has its user, and that no session or token is without one
  (`SessionsOwnedCorrect`, `TokensOwnedCorrect`). The last is what the refinements need: a delete
  must take along exactly the rows the module's own account step would, and a step of a browser
  that gives or ends power must lose no token. `DirectoryWithin` (the service does to the users only
  what `UserDirectory` does), `SessionsImplemented` and `TokensImplemented` show that each of the
  three modules, checked and proved on its own, is implemented by the whole, initial states and
  every step; so their safety theorems hold of the service. That last inference is one for the reader:
  tlapm does not let a proof cite the theorems of a module that is instantiated, so it is not
  a theorem of its own. `PairsCorrect` says what no part can: a browser's JWT is signed
  from the row its handler has read (`RequestsPaired`), and `adminTokens`, by which the directory
  judges its administrators, counts every administrator's JWT in a browser (`AdminJwtsCounted`).
* **Start-up** (`ServerStartupProofs`). The invariant adds who has the lock (`HoldersOnly`), that a
  migration goes on only below the build's own number, that a dirty version is not 0, and which
  tables a start has seen so far (`StoresSeen`; tables are never dropped). From it
  `OneMigratorCorrect` and `ReadyCorrect`, whatever crashes and repairs there were.

Only model-checked: the liveness properties (`AbandonedReclaimed`, `RefusedSettles`, `StartsEnd`,
`ServesAgain`), which are out of the prover's reach. Every other property of a passing run is a
theorem; so are the types of the state store, which no run repeats, and the invariants of the
proofs, which TLC has confirmed on the runs' instances.

## 5. Not modelled

`UpdateLastLogin` and `RevokeAllForUser`, which nothing calls (so no administrator can end another
user's sessions, although the repository's README, line 180, speaks of admin revocation); the
listing of PATs, which reads only; names, avatars, scopes, user agents, IPs, `last_seen_at`;
groups, whose UUIDs `auth_service.go:238` cuts to four bytes for the claims (two groups may
become one id: a fact about data the service does not itself decide on); formatting, logging,
CORS, cookie attributes but for the lifetime; the parsing of the environment, and the
development routes. `List` takes `created_at` to differ from row to row: PostgreSQL may order ties
differently on every page. The RBAC table is a lookup that the server does not call. Message
accessors and descriptors are generated data; of the generated code the dispatch is modelled.
The example client's calls are calls of `RpcGateway`'s client; scripts and CI contain no logic of
the service. JWT signing and checking and the legacy password check live in a
library outside this repository: a JWT is its claims and its expiry. golang-migrate, PostgreSQL's
lock and the providers' side of OAuth are modelled from how the code uses them.

## 6. Where code and documents disagree

Two are runs with `expect: violation`; `findings` in `PROJECT.json` quotes the lines.

1. `null_roles`: an update without roles stores NULL, and `AddRole` then never grants the
   bootstrap role.
2. `lockout`: an administrator may disable or delete the own account, although the comment at
   `user_connect_server.go:208` speaks of locking oneself out; only the role is guarded.

These are in the models, but follow from one statement, so they are told here instead of being
run:

* `ErrEmailInUse`, by its comment for an unverified e-mail of another account, is also answered
  when a user changed to a verified e-mail that another account has, and when two first logins
  of one user meet.
* A disabled account with a live session is sent back and forth: `/auth/token` refuses it,
  `/auth/login` finds the session valid and returns to the module. `RefusedSettles` therefore
  excludes disabled accounts.
* `Create` leaves the provider's id empty, so `unique_provider` lets administrators create one
  account per provider only.
* A failed revocation is answered as a successful logout; the session stays valid until it
  expires (`LogoutRevokes` is false with faults). The answer to a logout clears whatever cookie the
  browser has by then, also that of a newer login.
* A failed lookup of the owner is answered, without an error, as an inactive token.
* By its comment (`browser_handlers.go:71-72`) `isAllowedRedirect` takes every path that begins with one
  slash for this origin. Browsers read a backslash as a slash and leave tabs and line breaks out,
  so the comment is true of them only where they agree with the server on the second character:
  `LandsOnAllowedSite` supposes that, and says nothing of the other paths.
* `Exist` (`storage_postgres.go:187-195`) and `GetCurrentUser` answer a failed statement as a missing user.
* A disabled user may manage PATs until the JWT expires.
* An answer of GitHub without an id, such as an error body, would be stored under the id 0.
* A build older than the database's version ends at every start, so a rollback over a migration
  does not serve, although the deployment keeps revisions to roll back to.
* The legacy `login` takes credentials from a form or from JSON, and looks the user up by the
  form's field in both cases (`goCloudAuthServer.go:110`).

## 7. Plan

Done: all components of section 1 with logic of their own, with the abstract specifications
`OneTimeTickets`, `LedgerSpec` and `Accounts`; the composition of directory, browsers and tokens;
proofs for all of them.

Next:

1. `LoginFlow` on `StateStore` itself instead of the ledger, with the callbacks of both as
   one step, so that the chain from the map to the exchange is one theorem.
2. The gateway as a part of `Service`, with two clients at once. `Accounts` stands for the other
   one now, which covers what the calls do to the accounts, but not two calls of one
   administrator in two tabs.
