# Verification of IoT Switch

IoT Switch lets a person add devices and switch them on and off from an AI host
(through MCP), from widgets inside that host, and from an iOS app. The server
(`src/server`) is at once an OAuth 2.1 authorization server, an MCP resource
server and a REST API over one PostgreSQL database; it runs as one process or
split into three (edge, authorization server, device service). This directory
holds TLA+ models of it, the TLC configurations that check them, and the proofs
TLAPS checks.

## 1. Inventory

| Component | Source | State | Operations |
| --- | --- | --- | --- |
| Token endpoint and grant store | `oauth/token.ts`, `oauth/store.ts`, `oauth/sealed.ts`, `revokeConnectedApp` of `oauth/account.ts` | codes, grants, access and refresh token rows; sealed responses | redeem a code, rotate a refresh token, revoke a grant, prune |
| Devices | `domain/devices.ts` | device rows with a version, idempotency keys, audit rows | add, list, get, control |
| Internal tokens and revocation | `oauth/exchange.ts`, `exchange-client.ts`, `revocation.ts`, `split/remote.ts`, `stores/redis.ts`, `device-service/verify.ts` | cached internal tokens, cached introspection answers, the hubs of every process | exchange, use, publish, bridge |
| Authorization flow | `oauth/authorize.ts`, `oauth/consents.ts`, `oauth/session.ts`, `claimAndIssueCode` | pending authorizations, pushed requests, consents, browser sessions | start, log in, consent, deny, log out |
| Account page | `oauth/account.ts`, `oauth/account-routes.ts`, `domain/accounts.ts` | accounts, passwords | sign up, change password, disconnect, sign out everywhere |
| Passkeys | `oauth/passkeys.ts` | challenges, credentials with sign counters | register, authenticate |
| Clients | `oauth/clients.ts` | registered clients, cached metadata documents | register, evict, resolve |
| Proof of possession | `oauth/dpop.ts`, `security/replay.ts` | seen proof ids, the nonce of each period | verify a proof |
| Limits | `security/rate-limit.ts`, `write-budgets.ts` | counters of fixed windows | hit |
| MCP gate and tools | `mcp/gate.ts`, `mcp/tools.ts`, `mcp/policy.ts` | none of its own | challenge, call |
| Widgets | `mcp/ui/assets/*.js` | rendered devices, pending requests to the host | render, control, add |
| Keys | `security/keys.ts`, `security/kms.ts`, `security/mac.ts` | pepper, signing and MAC keys with their predecessors | rotate |
| Migrations and pool | `db/*.ts` | schema version | migrate, transaction |
| Split deployment | `split/*.ts`, `entry/*.ts`, `security/workload.ts`, `device-service/service.ts` | sockets | start, forward |
| iOS session | `ios/IoTSwitch/Session`, `Auth`, `Networking` | tokens in memory and in the Keychain, the refresh under way | sign in, refresh, log out |
| iOS device views | `ios/IoTSwitch/ViewModels` | list of devices, devices being controlled | load, control, add |

How they interact. An authorization ends in a code; the token endpoint turns the
code into a grant with a token pair; the edge verifies the access token on every
call (`oauth/verify.ts`, which joins the grant, so a revoked grant is refused at
once) and exchanges it for an internal token of at most a minute, which the
device service checks on its own. A revocation is one database transaction plus an
event to every cache, over Redis when there are several processes. The iOS app
and the hosts refresh their tokens whenever they like, from several threads and
after lost responses.

What is hard: requests are concurrent transactions at READ COMMITTED, where each
statement sees a snapshot of its own; responses get lost and are retried; three
clocks (grace window, token lifetimes, pruning) run beside the requests; a
process may die between any two statements; caches hear of a revocation late or
never.

What makes each part correct, in one line:

- token endpoint: one grant per code, one unbroken line of refresh tokens per
  grant, the same answer to the same refresh, nothing for an ended grant;
- devices: a version is never reused, a change is applied once, a retried add
  makes one device, at most the allowed number of devices;
- internal tokens: none outlives its grant by more than its lifetime and the time the
  exchange takes to mint it, each works for the grant and scope it was minted for;
- authorization: one code per authorization, only for the browser that began it
  and for an account that consented to those scopes;
- account: after "sign out everywhere" no session and no grant from before works;
- passkeys, proofs, pushed requests: each challenge, proof id and request is used once;
- keys: what was written under a key can be read while it is current or previous;
- clients on the phone and in the widget: never signed out by a race of their
  own, never showing an older state over a newer one.

## 2. Plan

The order followed the weight of what can go wrong: first the grant store and the
devices, each with an abstract specification it implements; then what keeps a
revoked grant alive (caches); then the flow that ends in a code; then everything
around it, a module per component that keeps state. Modules are written to be
proved about: parameters are CONSTANTS with named assumptions, an operation is an
action, invariants are conjunctions of named parts, and there is no RECURSIVE
operator anywhere.

| Module | Component | Abstract specification | Proofs |
| --- | --- | --- | --- |
| `TokenStore` | token endpoint and grant store | `TokenFamily` | `TokenStoreProofs` |
| `DeviceStore` | devices | `DeviceRegister` | `DeviceStoreProofs` |
| `GrantCaches` | internal tokens and revocation | | `GrantCachesProofs` |
| `Authorize` | authorization flow | | `AuthorizeProofs` |
| `ClientRegistry` | clients | | `AuthorizeProofs` |
| `AccountAccess` | account page | | `AccessProofs` |
| `Passkeys` | passkeys | | `AccessProofs` |
| `Database` | migrations and pool | | `DatabaseProofs` |
| `MobileSession` | iOS session | `AppAccount` | `AppProofs` |
| `DeviceViews` | iOS device views | | `AppProofs` |
| `ProofOfPossession` | proof of possession | | `PartsProofs` |
| `WriteLimits` | limits | | `AccessProofs` |
| `McpGate` | MCP gate and tools | | `PartsProofs` |
| `KeyRotation` | keys | | `PartsProofs` |
| `Widgets` | widgets | | |

Where one component meets another, the second appears in the module of the first
by what it promises: `Authorize` ends in the code `TokenStore` begins with,
`AccountAccess` takes codes and grants as ids, `MobileSession` carries the server's
rotation of `TokenFamily` (`newest`, `grace`, `over`), `DeviceViews` and `Widgets`
carry the versions of `DeviceRegister`, `Database` is what a statement and a
transaction of the other modules rest on.

Each safety property of a run that passes has its theorem, so what is left to prove
is more about the same modules: an abstract specification of `GrantCaches` (a grant,
and for how long after its end it is served), and `Widgets` and `DeviceViews` over
`DeviceStore` instead of bare versions.

## 3. The modules and the code

Everything `PROJECT.json` maps names its lines. An operator commented as a slip
(`TakeCopy`, `CoversAnyDocument`, ...) is not part of a specification: it is a
variant of the operator after it, as a bug would have it, and shows which property
catches that bug.

### TokenStore, TokenFamily

`TokenStore` models `oauth/token.ts` over `oauth/store.ts`. Every request is a
process whose `pc` names the SQL statement it runs next; a step is that statement.
The variables are the columns of `oauth_authorization_codes`, `oauth_grants`,
`oauth_access_tokens` and `oauth_refresh_tokens` that decide something, the
responses of `sealed.ts`, and per request its arguments, the locks it holds and
what an earlier SELECT read (`snap`).

| Actions | Code |
| --- | --- |
| `StartExchange`, `Consume...`, `Lookup...`, `EstablishGrant` | `exchangeCode`, `consumeAuthorizationCode`, `establishGrant` |
| `StartRotate`, `RotateRefused`, `RotateReplay`, `RotateTheft`, `RotateAccept`, `IssueTokens`, `Seal`, `CommitRotation`, `Unseal` | `exchangeRefreshToken`, `rotateRefresh`, `issueTokens`, `sealed.ts` |
| `StartRevoke`, `StartDisconnect`, `LockGrant` to `CommitRevoke` | `revokeByRefreshToken`, `revokeByAccessToken`, `revokeConnectedApp`, `revokeGrant` |
| `CloseGrace`, `ExpireSeal`, `ExpireCode`, `ExpireRefresh`, `Prune...` | the grace window, the lifetimes, `pruneExpiredOAuth` |
| `Abort`, `Restart` | `transaction` of `db/pg.ts`, the end of a process |

The database is PostgreSQL at READ COMMITTED: a statement reads what was committed
when it began; one that waits for a row lock goes on with the newest version of
that row and its old snapshot of every other row; foreign keys take share locks.
That is why a rotation's read of the grace window (`snap`) is taken before the lock.
Tokens, hashes and client ids are model values; a client is "own", "other" or has
the wrong key. `TokenFamily` is the endpoint with every request atomic: codes spent
once, one line of tokens per grant, ended grants. `revoked` and `replacedBy` map to
`ended` and `next`.

### DeviceStore, DeviceRegister

`DeviceStore` models `addDevice` and `controlDevice`, a statement per step. A name is a
model value (it is normalized before any statement), a version a number. The old state in
`trail` is computed from the requested one, as the code computes it. A control may send
any version (`StartControl`); `known` records whether there was a device of that version
when it did. `Abort` may end any transaction. `DeviceRegister` is the register promised: a
capped number of devices per account, unique names, one flip per version; the variables
map by name.

### GrantCaches

`GrantCaches` models what stands between a revocation and the last service given:
`verifyOAuthAccessToken`, the introspection cache of `split/remote.ts`, the exchange
(`oauth/exchange.ts`) and its cache (`exchange-client.ts`), `verifyInternalToken`,
the retry of `run`, and the events of `revocation.ts`, carried by `stores/redis.ts`.
A step runs from one await to the next. `Split` chooses an edge that introspects
(profile M) or one that verifies against the database (profile S); `Lossy` allows
events to be lost. Edges share no cache, so one is modelled with several requests in
it. The clock is one for all, which is what the code relies on up to `Tolerance`.
The exchange is two steps: the SELECT that decides (`Exchange`) and, once `touchGrant` is
over, the reading of the clock that dates the token (`Mint`). Between the two a
revocation may commit, and up to `Lag` passes, the time limits of that statement; the
seconds of `expires_in` and of the clock are off by up to `Rounding`.
`phase` of a grant distinguishes the event sent before the commit (`Announce`, then
`Commit` or `RollBack`) from the sign-out everywhere, which commits first.

### Authorize

`oauth/authorize.ts` from `GET /authorize` and `POST /par` to the code, with the
session of a browser (`Signing`: the password and the passkey of an authorization
and of the account page, the log-outs, the end and the ageing of a session), over the
pending authorizations and pushed requests of `oauth/store.ts` and the approvals of
`oauth/consents.ts`. A handler is a request with a `pc`; a step is a statement that
other requests can see or disturb. A pending row never changes while it exists, so
`loadStep` and the reading of the session are one step (`Load`). A row is free, live,
expired (still there, for the claim's DELETE) or gone. `approved` and `recent` are
histories: what a person has approved, under which document, and since the last
lapse. Accounts, clients and browsers are model values; a client is known by a
metadata document with a version (`Cimd`), registered dynamically (`Dcr`) or ours.

### AccountAccess

`oauth/session.ts`, signing in, `changePassword` and `signOutEverywhere` for one
account. The check of a password and the session that follows are two steps
(`SignIn`, `Start`), as is the UPDATE of a password and the sign-out after it
(`ReplacePassword`, `Lock` to `Commit`), and each may fail. `spared` records the
sessions a change cannot have ended.

### Passkeys, ClientRegistry

`Passkeys`: a challenge is offered, answered by an authenticator, taken once
(`Respond`: DELETE ... RETURNING) or expires; registration counts and inserts in
separate statements (`Count`, `Insert`), a sign-in reads the counter, has it compared
and writes it (`Read`, `Verify`, `Update`). `ClientRegistry`: registration with its
count, insert and eviction (`RegisterClient`); and the resolving of a metadata document
(`ResolveMetadataDocument`), which reads the cache, takes from the budget of fetches,
looks up the host's address, fetches, and stores with a lifetime, while the host
changes the document; each step may refuse.

### ProofOfPossession, WriteLimits

`ProofOfPossession`: a proof's age is checked on one server's clock (`Check`), its id
claimed later on the store's (`Claim`); the clocks differ by up to `Skew`, the store
forgets an id after `Remembered`, and a process without Redis forgets everything when
it restarts. `WriteLimits`: the fixed windows in memory and in Redis and the order in
which a write spends the budget of its grant and of its device; in memory `hit`
returns the live entry, so the answer is read in a step of its own, before the clock
moves. Redis makes a hit whenever it gets to it, and its answer is read up to `Latency`
later (`COMMAND_TIMEOUT_MS`) or given up (`StoreFails`).

### McpGate, KeyRotation

`McpGate`: a body of several calls through the gate's steps (verify, count, prove,
decide) and then through the handlers of its tools, while the grant's tokens change
scope and the adapter holds internal tokens of the grant. `KeyRotation`: the envelope
file with a current and a previous pepper, written whole by commands that read it some
time before, and processes that have read it at different times.

### Database

`db/pg.ts` and `migrate` of `db/index.ts`: the client's side of a transaction
(statement, timeout, rollback, release of the connection) and the server's (a queue
per connection, performed in order, whoever still listens). A client that gives up on
a statement has not taken it back. Processes start, die, and lose their connections
or the answer to a COMMIT.

### MobileSession, DeviceViews, Widgets

`MobileSession`: `SessionController`, whose code between two suspensions is a step of the
main actor: authorized calls with their two attempts, one refresh shared by all who wait
for it, a Keychain that may fail to save, to delete and to be read, log-out, sign-in and
restart. `AppAccount` is what a person may count on: the app is signed in with one grant
or with none, calls with the access token of no other, and comes back to a session that is
over at a restart only, once for each time that the Keychain did not delete its item or
not hand it out (`slips`). `refreshToken` and `access` map to the grants they are of
(`SignedIn`, `Bearer`); past are the grants the server issued that are neither the
session's nor of a sign-in under way (`Past`). `DeviceViews`: the list and one detail
screen with their loads, switches and the reads that reconcile a switch whose outcome is
unknown. A load that fails with something else than an error of the API puts the failure
in the place of whatever is listed. `Widgets`: the bridge's requests with their timers,
and the views that wait for them.

## 4. The runs

Every run gives the constants small sets of model values; symmetry is used over
identities the modules only compare, and never with liveness. Components that share
no state are checked in one run as disjoint parts: a variable (`part`, `on`,
`profile`) is chosen in the initial state and never changes, and the parts that are
not chosen stay as they began. A run's states are therefore the sum, not the product,
of its parts.

| Run | Instance | Shows |
| --- | --- | --- |
| `grants` | `TokenStore`: 1 grant with 3 pairs; 2 codes and 2 grants with 2 pairs; time passing under 1 request | one line of tokens per grant, one grant per code; the same pair for the same refresh, sealed before it can be asked for; nothing for an ended grant; an owner's duplicate is no theft; a replay ends its own grant; no revocation unannounced; refinement of `TokenFamily` |
| `devices` | `DeviceStore`: 1 account with room for 2 devices and 1 that only controls, 3 devices, 3 names, 1 key, 2 requests, versions to 2, one caller at a time that guesses | trail, versions, accepted controls, repeated creates, refinement of `DeviceRegister` (the cap and the unique names) |
| `edge` | `GrantCaches` in profile M, lossy, a grant revoked at 0 or 1 under a clock to 4, or one with two credentials of which one expires at 1 under a clock to 3, 2 requests; `Database`: 2 processes, 2 migrations, 1 later transaction | how long a revoked grant is let in, and served; service ends with the credential; a refused token is replaced; migrations in turn; nothing kept whose COMMIT was not sent |
| `authorize` | `Authorize`: 2 authorizations handled by 2 requests at once, 3 one after the other, 2 accounts in one browser; `ClientRegistry`: 4 clients, cap 2, a document that changes up to 3 times | one outcome per authorization; no scope not approved under that document; by how much the cap can be passed; how old a document can be |
| `access` | `AccountAccess`: 2 sessions, 1 grant, 2 requests, 3 passwords; `Passkeys`: 3 keys, 3 challenges, cap 1; `WriteLimits`: 2 requests, 1 device, 1 grant, limits 2, windows of 2, clock to 4 | which sessions a change of password leaves; what a sign-out finds stays ended; sign-ins in order; by how much the cap can be passed; twice the limit at most |
| `parts` | `GrantCaches` in profile S, 2 grants and 2 scopes; `ProofOfPossession`, 1 proof, 2 servers; `KeyRotation`, 2 processes, 2 commands, 4 peppers; `McpGate`, bodies of 2 calls; `MobileSession`, 2 callers, 2 grants; `DeviceViews`, 2 devices, 2 calls | everyone is served as oneself; a proof is good once; every living token is found; a body runs as a whole; theft only after a loss; the app is of one account at a time (refinement of `AppAccount`); no view goes back |
| `liveness` | `TokenStore`: 1 code, 1 grant, 2 pairs, 2 requests, fair; `Widgets`: 1 device, 2 calls, fair timers | every request is answered; every control used is usable again |
| `code_replay`, `token_survives`, `consent_lapse`, `late_sign_out`, `hidden_devices` | as above, smaller | the five disagreements of section 6 |

Why the bounds are enough. Two requests are all that any of the races needs: each is
between a step pair of one and a step of another. Three pairs are two rotations, in a row
or racing; one code gives the grant they belong to. Room for two devices and ids and names
for three make a create meet the cap, a taken name and a taken key; accounts share no
rows, so one creates (`Adders`) and another is enough to ask for a device that is not its
own. In `GrantCaches` time is scaled: a cached answer lasts 1, an internal token 3 (or 2),
the tolerance 0 or 1, for 30, 60 and 5 seconds, and the exchange and the rounding take up
to 1; what matters is that a token outlives an answer and the delay of its own making, and
that the clock can pass each of the bounds stated. Two scopes, one of them `devices:read`,
tell reading from writing; two versions of a document are enough for one to change under
an approval; three authorizations in a row let an approval be recorded, lapse and be
recorded again. Caps of 1 and 2 with one or two ids more than they admit are passed if
they can be. In `ProofOfPossession` a unit is ten seconds, and the run lasts longer than a
proof is remembered. In `WriteLimits` five changes are one more than twice the limit: in
memory up to seven come about, with a restart, and in Redis five around an answer that
crosses the boundary of a window. Four peppers are one more than fit into the file and a
process's memory of it. Bounds that are not sets are named in the modules (`MaxVersion`,
`MaxClock`, `MaxTime`, `MaxNow`, `MaxHits`, `MaxCalls`, `MaxCount`, `MaxPassword`,
`MaxPeppers`, `MaxRotations`, `MaxWork`, `Adders`, `Expiring`); the theorems hold for
every value of them.

Six MC modules bound what is combined with what, in a definition `Within` that every
step has to keep; the specifications they instantiate, which the theorems are about,
have no such bound. In `grants` the profile "rotation" leaves out codes redeemed again
and proofs of another key, which "codes" and "expiry" have; in "codes" refresh tokens
are presented by their own client with no window closing, and "expiry" runs one request
after another. In `authorize` the part "race" has sessions that begin and do not end,
and approvals that do not lapse; "row" and "guests" have those, one request at a time,
and rows run out in "guests". In `parts` the two grants of a part are alike until a step
tells them apart, so the caches see one of them revoked, by name, and the app signs in
with the one before the other, rotates tokens of that one, and has one revoked from
outside or by a log-out. In `edge` a behaviour is about the end of a grant, revoked before
the clock is at 2 and told exact times, or about the end of a credential, with the grant
live. In `devices` one caller at a time sends a version it has not read, to turn on a
device of an account that adds some. In
`liveness` refresh tokens are presented by their own client, since a stranger's is
refused or ends the grant by the steps that a theft takes, and the pairs are drawn in
order; neither keeps a request that has begun from going on. What a profile leaves out
is still explored by another one, except these: two grants of one run of the app both
revoked, and the same for the caches; rounding together with a revocation; and two
callers that guess at once.

`grants`, `devices` and `liveness` look for deadlocks. The other runs do not: their
histories or clocks are bounded, and a behaviour ends when nothing is left to draw (no
pending id, no session, no call) or the clock is at its bound.

Fairness. `Fairness` of `TokenStore`: a request that can run its next statement again
and again does (strong fairness per request), since PostgreSQL queues those who wait
for a row lock and hands the lock over; a cycle of waiting transactions is broken (weak
fairness of `BreakDeadlock`), since the deadlock detector aborts one. `Timers` of
`Widgets`: a timer set by `bridge.js` fires (weak fairness of `Timeout`). Nothing is
assumed of clients, of the host, of time, of pruning or of restarts.

## 5. The proofs

TLAPS checks the following for every value of the constants: each invariant, each
action property and each refinement that a passing run checks. The proof modules
extend the specification, or the MC module that instantiates it, so that theorem and
run speak of the same definition. Where two modules share an MC module, its constants
stand for both (`Possession!Spec`, `Registry!Spec`, ...), and are as free there as in
the module itself.

Assumed of the constants, and evaluated by TLC in the runs:

- what stands for nothing is nothing else (`NoneIsNoId`, `NoneIsNothing`,
  `NoneIsNoSession`, `NoneIsNoKey`, `NoneIsNoValue`); ids of different kinds differ
  (`SessionsAreNotGrants`, `OwnersAreIds`, `KindsAreDisjoint`); flags are Boolean
  (`SharedStoreIsBool`, `FlagsAreBool`);
- times, caps and bounds are natural numbers, those that the code has positive are
  positive (`BoundsAreNat`, `TimesAreNat`, `MaxVersionIsNat`, `MaxPasswordIsNat`,
  `LimitsAreNat`, `PasskeyBounds`, `RegistryBounds`, `DatabaseBounds`); where a cap is
  counted against the requests there are, these are finitely many;
- a credential has a grant and an expiry (`CredsBelong`), a passkey its account
  (`PasskeysHaveMakers`), and `devices:read` is a scope (`ReadingIsScope`);
- one condition on a configuration, `PeriodsCover`: an id of a proof is remembered
  for longer than its proof can be taken,
  `Remembered > MaxAge + 2 * ClockTolerance + 2 * Skew + Delay`. The constants of
  `dpop.ts` and `replay.ts` meet it for clocks that differ from the store's by up to
  24 seconds.

No property below is inductive alone. The inductive invariants, and why:

- `TokenStoreProofs` (`IInv`): types, the eight safety invariants of `grants`, and the
  refinement of `TokenFamily`. `NoFork` needs that a rotation past its lock holds a
  token still at the head of its line (`Locking`) and that the pair it drew is in no
  table and nobody else's (`Drawing`); `OneGrantPerCode` that one request at most has
  spent a code without having founded its grant (`Establishing`); `AnswersAgree` and
  `SealedBeforeVisible` that what lies sealed is nothing or the pair about to commit
  (`Sealing`); `HonestDuplicateIsSafe` that what the SELECT saw of the window and of the
  successor is still so when the theft is acted on (`Reading`).
- `DeviceStoreProofs` (`IInv`): types, the four invariants of `devices` and the refinement
  of `DeviceRegister`, whatever versions callers send. `Counting` says that the count a
  create made is still below the cap at its insert, since the account's row has been
  locked since before (`Locking`); the trail's old state is right because a row that
  matches the update has the other state; when the update misses a version that its caller
  had read, the device has a later one or is in the state asked for (`Answers`).
- `GrantCachesProofs` (`IInv`): types and the five invariants of `edge` and `parts`.
  Whatever a cache keeps carries the time of its question or of its exchange, when the
  grant was live: `Checked` bounds the introspection cache by the revocation plus a
  lifetime, `Sound` each internal token by that and `Lag`, since what an exchange has read
  is that old at most when the token is dated (`Minting`). A revoked grant stays revoked
  and the clock only grows (`Monotone`), so both are stable, and a request inherits them
  (`Fine`).
- `AuthorizeProofs`, authorization (`IInv`): types, `OneOutcome` and `CodeWasApproved`.
  `OneOutcome` needs that what a request read of its row is true of it until the row is
  gone, and that a row is gone once a code or a denial has ended it (`Once`); and that a
  pushed request is in one place at a time: the table, a request that took it, a pending
  row or a code (`PushedOnce`). `CodeWasApproved` needs that the approvals on record, and
  what a request has read of one, were given under the document they carry (`Approved`),
  so that two approvals that overwrite each other can lose scopes and never add any.
- `AuthorizeProofs`, clients (`RegInv`): a request that has counted is one registration
  more at most, and the cap holds for both together (`Counted`). What is kept of a
  document is from a time when it was served, and it was replaced after that (`Recent`);
  that documents are replaced in their order (`InTurn`) makes the number of the document
  served the number of those replaced.
- `AccessProofs`, sessions (`OldInv`, `EndInv`): no session of an older password is left
  (`Clean`) unless a change of password that no later one has overtaken is about to end
  them (`EndsTheRest`). What a sign-out found stays gone, because no id is drawn twice
  (`Spent`), and until its commit it is among what the commit ends (`Found`).
- `AccessProofs`, passkeys (`OrderInv`, `RoomInv`): a use of a passkey is alone with its
  challenge, and the row keeps the highest counter accepted; the passkeys of an account
  and the requests about to store one are fewer than the cap and as many more as there
  are requests.
- `AccessProofs`, limits (`LInv`): in memory a window has counted at least the changes
  made in it and those about to be (`AllPaced`), so that of the changes made, one and the
  one two limits later are a window apart (`AllSpread`). In Redis an answer may arrive
  after its window has ended: the hits whose answers are on their way are counted with
  the window they were made in (`SharedPace`), and the distance is smaller by what an
  answer may take.
- `DatabaseProofs` (`DbInv`): `MigrationsInTurn` and `NothingCommitsLater`. What is
  recorded is what is applied, and both are the first so many (`InOrder`), since a
  migration is chosen under the lock that one session holds. A connection
  carries the statements of one job at a time, with nothing but a ROLLBACK behind the
  first (`Connections`); it is of one process at most (`Single`), whose step agrees
  with what lies in its queue (`Owners`).
- `PartsProofs`: a proof is claimed within a bounded time of its `iat`, whichever the
  clocks (`Young`), and its id is remembered past that time (`Remembers`). A body past the
  gate has been decided with all of its calls (`GInv`). Unless two commands overlapped, a
  process is at most one rotation behind the file and a living token's pepper is in the
  file (`OneBehind`, `Stored`, of `KInv`).
- `AppProofs`, session (`AInv`): the app holds the newest refresh token of its grant or
  one task is under way that has it, unless an answer or a save was lost; there is one
  such task, it belongs to the session it will end in (`AppMakers`, `AppSent`,
  `AppAnswered`), and the keychain agrees with the app, or has the last token of a session
  it did not delete or not hand out (`AppKept`).
- `AppProofs`, whose app it is (`BInv`): the access token is of the grant of the refresh
  token (`AppAccess`), what the keychain keeps is of that grant or of one that slipped
  (`AppKeeps`), the session's own grant has not slipped (`AppSlips`), and the server has
  issued every token there is in the app, of a sign-in and among the strays (`AppIssued`).
  Then each step enters, renews, leaves, misses or returns to a session of `AppAccount`,
  or stutters. That a late answer of a refresh is not stored in the session after it rests
  on `AInv`: the task it belongs to is given up when the session ends.
- `AppProofs`, screens (`VInv`): the action property `ShownNeverGoesBack`, from what is
  known of each call under way: which screen it is of (`OfScreen`), and that the answer
  to a load has each device that was listed when it was asked for (`Brings`), so that
  merging the answer, which takes the later version of each, drops none that exists.

Two definitions were corrected because of what a proof needed. The end of a control in
`DeviceViews` had arms that overlapped where the answer is a conflict, which a CASE
leaves open. `AtMostTwice` counted changes of a window and the one before it, which
tells less than its sentence: it is now stated over the times of the changes, for any
stretch as long as a window, or as long as that less the way of an answer of Redis.

Only model-checked: `RequestsFinish` and `NoSwitchIsStuck`, being liveness, which this
prover cannot do under fairness (nor ENABLED). `RememberedIsRecent` and the properties
of the other violation runs are false (section 6). Induction over data is not needed:
no operator is recursive, and what is proved of sequences and of sizes of sets rests on
facts of the library.

## 6. Where the code and its comments part

Runs that find a violation, each of a sentence the repository states:

- `code_replay`: `token.ts` on a replayed code, "whatever it produced is suspect, so
  the grant goes with it". A replay refused between the consumption of the code and
  the insert of its grant revokes nothing.
- `token_survives`: `revocation.ts`, "this makes sure no internal token minted for it
  survives either". An exchange under way puts one back after the event. It lives at
  most its minute (`ServiceEndsAfterRevocation`).
- `consent_lapse`: `consents.ts` on the reuse of an approval, "For an unverified
  client, for 30 days; for a verified one, a year." An approval that has lapsed is
  merged into the next, narrower one and renewed with it.
- `late_sign_out`: `SessionController.swift`, "signs out only when the server rejects
  the refresh token". A call begun under one session that is refused after a log-out
  and another sign-in ends the new session.
- `hidden_devices`: `DevicesViewModel.swift`, "We still have something real to show, so
  keep showing it". When the first load is overtaken by the reload after an addition
  and that one fails, the added device stays behind the loading indicator.

Seen while modelling, with no run of their own:

- `devices.ts`: at READ COMMITTED the SELECT of `controlDevice` may see a version its
  UPDATE missed, so that a caller who guesses a version ahead of the device (line 205 takes
  any) may be told `ok` with the other state; `AcceptedIsInState` holds for callers that
  have read what they send. Two creates of different
  names under one key that look the key up before either commits both make a device. A
  repeat of a keyed create that began before the first committed is refused when the
  first filled the account.
- `store.ts`: the DELETE and UPDATE of a revocation miss tokens a rotation commits
  meanwhile, which stay in the tables, though dead by their grant.
- `stores/redis.ts:155` on a lost event, "every request still verifies the caller's own
  token live, so a revoked grant is refused at the edge regardless", and
  `revocation.ts:4`, which says the same. In profile M an edge lets a request in on an
  introspection answer it has kept, when the event was lost, has not arrived yet, or
  arrived while the answer was on its way, until `CACHE_SECONDS` after the revocation and
  no longer (`RevokedIsTurnedAway`). The header of `split/remote.ts` says so itself, of a
  deployment without Redis. In profile S the sentence holds.
- `exchange.ts:90`, "Never outlive the credential it was exchanged from", and AC-35
  (`requirement.md:635`), "never outlives the token it came from". The seconds left are
  rounded by the SELECT (`verify.ts:38`) and added to a clock read after
  `await touchGrant` (`verify.ts:62`, `exchange.ts:96`), an UPDATE of the grant's row,
  which a revocation may hold locked: the internal token can outlive its credential by
  that wait and the rounding, and one can be minted after a revocation has committed.
  `ServiceEndsWithCredential` and `ServiceEndsAfterRevocation` say by how much.
- `rate-limit.ts`: "At most 6 switches a minute per device" (`requirement.md:636`) is a
  fixed window, so that twelve can fall into a minute around its boundary
  (`AtMostTwice`). In memory `hit` answers with the live entry, so of several hits in
  one turn of the event loop an earlier one may be refused although it was within the
  limit. With Redis an answer may arrive in the window after the one its hit was counted
  in, so the stretch that holds at most twelve is shorter by up to `COMMAND_TIMEOUT_MS`
  (`Slack`).
- `kms.ts`, `tools/keys/run.ts`: between a rotation and its restart a process does not
  verify tokens stored under the newest pepper, which "Pepper rotation without
  downtime" (`docs/authentication-architecture.md:719`) does not mention; and
  rotate-pepper and rotate-signing both rewrite the whole file, so two that overlap
  lose a pepper or a key (`overlapped`).
- `clients.ts`: a client evicted between its registration and its first grant founds
  that grant all the same; only its name on the account page is missing. Registrations
  at once can pass the cap by one less than there are (`CapNearlyHolds`); passkeys too.
- `SessionController.swift`: the first 401 of a call after a log-out and a new sign-in
  repeats the operation under the other account, and the tail of `logOut` ends a
  session begun meanwhile.
- `TokenStorage.swift`: the status of the delete is discarded (`clear`) and any failed
  read is no session (`load`), so that a session that is over, or the account before the
  one signed in, can be back after a restart. `AppAccount` allows it once for each such
  failure and never otherwise.
- `exchange-client.ts`: internal tokens are kept per grant and scope, and a refresh may
  narrow the scope of the tokens after it. It is the gate's check of the whole body
  (`NothingRidesAlong`) that keeps a narrow token from using a wider one held.
- `devices.js`, `device.js`: an older answer to a load can be drawn over a newer
  switch, and the next switch is then refused as "changed somewhere else".
- `pg.ts`: a COMMIT whose answer is lost is reported as an error and kept all the same.

## 7. Not modelled

`PROJECT.json` lists every component with its status. Out of scope are rendering,
metadata, logging, sockets, certificates, routing and screens, which keep no state
that a property could be about, and cryptography, hashing, parsing, normalization and
the checks of addresses and documents, which are computation taken to do what it
promises. In the modelled components these are left out:

- the account cache of `split/remote.ts`, which is only displayed; the time of a
  grant's last use; the reading of devices; the form of parameters, PKCE values and
  CSRF fields; creating an account, which is one INSERT decided by a unique index;
- nonces of proofs, which only narrow when a proof passes;
- the report mode of limits, which refuses nothing, and the limits whose windows differ
  only in their numbers;
- of the gate, methods other than `tools/call`, which it lets through;
- keys that come from the environment, which are rotated by hand, and the keys that
  sign internal tokens and seal responses, which are current and previous in the same
  file;
- PGlite, which runs one statement at a time in the process, and several transactions
  of one process at once, which run over connections of their own;
- on the phone, the browser's part of a sign-in, and devices that are gone, which the
  server never lets happen; in the widgets, display modes and diagnostics.
