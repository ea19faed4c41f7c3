# Verification of the licensing platform

TLA+ modules that model this repository: the backend (`apps/api` and its cleanup
script), the Python SDK, and the licence service of the legacy system; the TLC
runs that check them on small instances, and the theorems about them that TLAPS
proves for every value of the constants.
Paths below are relative to the repository's root.

## 1. The system

A NestJS API over Postgres (Prisma) and Redis issues and enforces software
licenses. Programs call it at run time (validate, activate, heartbeat, transfer,
deactivate), end users log in to it through an OIDC provider and get rotating
refresh tokens, administrators manage customers, plans, licenses and users in a
back office. A React back office, a Python SDK with an offline mode and the
legacy system that the API replaces complete the repository.

Two facts shape everything that is hard here:

* a request is a sequence of awaits; nearly all of them are single SQL
  statements, and (except in a few `$transaction` blocks) nothing is locked
  between the statement that reads and the statement that writes;
* the process may die, a statement may fail and an answer may be lost between
  any two of them.

| component | state it keeps | operations | who it talks to |
|---|---|---|---|
| Idempotency service (`common/idempotency`) | `idempotency_keys` | `execute` around every runtime mutation and every admin mutation | the use case it wraps; the cleanup job shares its table |
| Cleanup job (`scripts/idempotency-cleanup.ts`) | locals of one run | batches of findMany + deleteMany, dry run | the table, beside the API, once a day |
| License engine (`license-runtime/adapters`) | `license_devices`, `licenses.transfer_count` | validate, activate, heartbeat, transfer, deactivate | subscription read, catalog policy, device trust, audit |
| Device trust (`device-trust`) | `license_devices`, `device_fingerprints` | register, touch, replace, deactivate | the engine |
| Audit (`audit-security`) | `audit_logs`, `validation_history` | write (failures swallowed), count (failure is zero) | the engine: the monthly limit is a count of audit rows |
| End-user auth (`end-user-auth`) | `end_users`, `end_user_sessions` | login with binding and auto-provisioning, refresh, logout, block, unblock, create, update | OIDC provider, entitlement resolver (subscriptions), rate limit, the customers of the back office |
| Rate limit (`auth-rate-limit.service.ts`) | Redis counters, in-memory fallback | increment | login, refresh |
| Back office (`admin-backoffice`) | `licenses`, `subscriptions`, `customers`, `plans`, `programs` | provision, renew, update, block, unblock, cancel, onboard, catalog edits | idempotency, audit |
| Python SDK (`sdk/python`) | one stored session, clocks | login, refresh, logout, offline login | the auth API |
| Legacy licence service (`legacy/sistema-licencas/src`) | `licencas`, `license_devices` with aliases, `license_transfers`, suspicious attempts | validate, transfer, deactivate, automatic block; status edits, device deletion, plan changes | its own Postgres and Redis |
| Admin web (`apps/admin-web`) | form state, query cache | submits with an idempotency key | the back office API |

What makes each right:

* **Idempotency**: while a request executes under a key, and after it has taken
  effect, no other does, until its window is over or its use case has thrown; what is
  replayed is what the owner of the key answered, to its own payload; a live row
  is not taken from its owner; a key that was left behind is free again in the
  end.
* **License engine**: the limit of transfers and the largest limit of devices the plan
  has had hold, or are passed by a known amount; a transfer leaves exactly the new machine active; one machine's
  calls do not deactivate another; a call that has the license to itself does what
  the engine without a database does.
* **Sessions**: a client that behaves keeps its session; a revoked session stays
  revoked; a blocked user gets no tokens.
* **Back office**: license and subscription status agree unless an operation
  wrote from a read that was out of date; a block or a cancellation is undone by
  nothing but an unblock or a renewal once the edits that overlapped it are over;
  operations that overlap do what they would do one after the other, unless they wrote
  from such a read;
  two transactions that wait for each other end.
* **Accounts**: a login opens a session of the account its identity is bound to,
  for a customer who bought access; what a login or an onboarding decides from its
  reads fits the unique indexes when it writes, unless somebody came between.
* **SDK**: the offline window ends whatever the user does to the wall clock; a
  rotated token is lost only with an answer; a logout is final.
* **Legacy**: the limits of devices and transfers hold, or are passed by a known
  amount; a machine takes one place of the plan while it changes fingerprints; an
  honest client never gets the licence blocked; a downgrade reaches the devices
  it listed, as far as their hashes still lead to them.

The hazards, each with its line and the properties aimed at it, are listed in
`PROJECT.json`.

## 2. Modules

| module | models | extends |
|---|---|---|
| `ReplayStore` | what the Idempotency-Key header promises, without a database | |
| `Idempotency` | `executeWithPrisma`, one action per await | |
| `IdempotencyCleanup` | the batch job beside the API | `Idempotency` |
| `FakeLicenseEngine` | the engine without a database: the same operations, each one step | |
| `LicenseRuntime` | the five runtime operations on one license | instantiates `FakeLicenseEngine` |
| `Sessions` | the sessions of one end user, and the administrative block | |
| `InMemoryLicenses` | the same administration without a database: each operation one step | |
| `LicenseAdmin` | renew, update, block, unblock and cancel of one license, with row locks | instantiates `InMemoryLicenses` |
| `Accounts` | which user a login reaches, provisioning, onboarding, user administration | |
| `OfflineClient` | the SDK's processes over one stored session, the server's session, three clocks | |
| `LegacyLicense` | the legacy service on one licence, its devices and aliases | |
| *X*`Proofs` for each of these but the three abstract ones | theorems | the module they are about |
| `MC`*X* for each of these but the three abstract ones | instances for TLC | |

The abstract ones, `ReplayStore`, `FakeLicenseEngine` and `InMemoryLicenses`, say what a
component promises; the last two are themselves code of the repository, which
stands in for the database under `NODE_ENV=test` (the engine also wherever
`LICENSE_ENGINE_STRATEGY=fake` is allowed, that is outside production).

`PROJECT.json` maps every definition to the lines it stands for. Definitions
whose comment starts with *Mutant* are wrong versions of an operation, never used
by a specification; substituting one for the operation it precedes must make a
property fail, which shows that the property depends on that operation.

### Idempotency

The row of a pair (key, endpoint) is `table[k]`; its `id` is the request that
created it (the uuid default is fresh, and a request creates one row at most),
`responseBody` the request whose response is stored. `now[r]` is the `Date`
captured before the first await, which every later comparison uses, so it may be
old when it is used. `pc[r]` is the await a request is at. The use case is
abstracted to one effect, committed or not when the use case throws. `Crash`
ends a request between any two awaits; `StoreFails` is an update the database
refuses; the `UNCHANGED` branch of `Release` is a delete whose failure is
swallowed. `DeleteExpired` has the path nobody catches (the row is already gone,
P2025). `effects` and `outcome` are history. One clock serves the API processes
and the database.

`PurgeExpired` is what the cleanup may do to the table in one statement. The
job's own steps are in `IdempotencyCleanup`, which is shown to implement
`Idempotency` (`RefinesService`): ids are read in one statement and deleted in
the next, while requests delete and recreate rows. The job compares with `<`
and the service with `<=`, as in the code.

`ReplayStore` is the abstract specification. A window has an owner, a response
once it has completed, and a closing time that is at most TTL away when it
opens. `PromiseKept` is the refinement: a window is a row.

### LicenseRuntime

One license, its rows of `license_devices` (`fingerprint`, `active`), and the
`license_transfer` rows of the month in `audit_logs` (`audits`). A handler's
first action reads the context and decides, so its guard is the code's
conditions over that snapshot; a call that is refused, or that has no effect,
is a stutter. The license is always eligible: when it is not, every call is
refused, and what changes eligibility is the back office's business. `max_devices` is not part of the license but of its plan (`maxDevices`): `UpdatePlan`
changes it at any time and touches no device, and `ResolvePolicy` reads it in a query
after the one that counted the devices (`seen`), as `loadExecutionContext` does.
Nothing changes which plan a subscription has. Every
later action is one statement of `prisma-device-trust.service.ts` or
`prisma-audit-security.service.ts`, by row id when the code writes by row id.
`Fail` is a failed statement or a crash: what was written stays. A swallowed
failure of the audit write is the same step. `MonthTurns` resets the count at
any moment, also in the middle of a transfer.

`moves`, `missed`, `alone` and `peak` are history: devices really moved this month,
bookkeeping that no later count sees (a lost audit row, a failed count), the
call, if any, that has been served without company and under one plan since it arrived,
and the largest the plan has been. A plan that is made smaller leaves the devices that
are active as they are, so the active devices can exceed the plan by any number; what
holds is a bound on the largest plan there has been (`DeviceOvershoot`), and that a call
which is alone registers only within the plan as it is (`LoneRegistrationsFit`, a theorem).
The same operations are in `FakeLicenseEngine`, where nothing awaits, so each is one step
on a set of machines and a count. The contract test of the runtime endpoints is written
against that engine. `Fake` maps the rows to it: its devices are the machines with an
active row, and a transfer has happened there from its first statement on, the one that
deactivates the devices. `LoneCallsMatchFake` compares the two whenever a call has the
license to itself. A transfer that breaks off in the middle, or is overtaken by the end
of the month, is excepted (`ReplacementTorn`): it has deactivated and not activated, which
no step of the other engine does. So are months with lost bookkeeping.

A call identifier stands for one of the calls being served; it can be used again
after it returns. So `Calls` bounds concurrency and not the length of a run.

### Sessions

One user with all sessions. A session is named by the login that created it and
a refresh token by the request that signed it (`jti` makes every token fresh).
`session[s]` is `"live"` or the `revoke_reason`; `hash[s]` the token whose hash is
stored, `None` while it is `'pending'`; `over` the sessions whose `expires_at` has
passed. `BlockUser` and `RevokeAll` are the two statements of `blockUser` and of
`updateUser`. `Fail` at `"deliver"` is a lost answer after the rotation.
`known` is what clients have received and may send, at any time and in any
order, old tokens included. `disturbed` is history: the sessions whose client
was not the well-behaved one (an old token, two refreshes at a time) or was
unlucky (a lost answer).
Tokens that fail verification (signature, expiry of the JWT, another program)
are refused without a write, and are stutters.

### LicenseAdmin

One license and its subscription: `license` and `subscription` are the two
status columns, `endAt` is `end_at`. `Renew`, `Update`, `Block`, `Unblock` and
`Cancel` are what an operation does up to its first write: it reads the pair
(`loadLicenseContext`), checks, and computes what it will write (`decided`). The
other actions are the statements. `updateLicense` and `cancelLicense` run two in a
`$transaction`; the first takes the lock of its row (`owner`), the second
waits for the other row and commits. Every write waits for the lock of its row.
The first locks the subscription first, the second the license, so they can
deadlock, and `AbortDeadlocked` is Postgres ending one of them. `Fail` is a
failed statement or a crash: a transaction is rolled back.

`stale` and `raced` are history: the calls whose read somebody has overwritten,
and whether an `unblock` or `update`, whose writes depend on the read, has written
from such a read. `Pairs` is what the code can reach without that: an open license
has an active subscription, and an expired license was expired by an edit (a
renewal leaves it expired beside an active subscription, until the next edit or
unblock). With such a write every other pair occurs but (`expired`, `cancelled`),
which is the second half of `OnlyPairs`.

`InMemoryLicenses` has the same five operations in one step each. `ActsInTurn` says that
every commit is such a step, by some time up to the present (an edit compares dates with
the time it was read at), unless it sets `raced`. Renewals, blocks and cancellations write
what does not depend on a read, so they never do.

`pending` and `suspended` are in the schema and written by nothing under
`apps/api/src`, so neither appears. Provisioning and onboarding create a
subscription for each license; the seed data, where licenses share one, is not
modelled. Prisma may run the read of a license with its subscription as two
queries; the model takes it as one.

### Accounts

The rows of `customers` (by email), `end_users` (by the call that created them:
`status`, `cust`, `identifier`, and `bound`, the OIDC identity), and two facts about
a customer that logins depend on: `entitled`, an active subscription to the program,
and `licensed`. `Login` is the `findMany` and what `execute` decides from it; the
candidates it may bind are `cand`, and `Entitle` asks for the entitlement of the
user settled on or of one candidate after another (the code goes by creation
date, the model in any order). `StoreLogin` is the transaction that stores the
login and, if need be, binds the user by its id. `Provision`, `Create` and `Bind` are
the three statements of `autoProvisionUser`. `StartOnboard` and `FinishOnboard` are
`upsertCustomerAndEndUser` with the rest of its transaction, for `createCustomer` and
for `onboardCustomer`; `ProvisionLicense`, `CreateSubscription` and `CreateLicense`
are the three statements that no transaction holds together.

A unique violation inside an interactive transaction aborts it, so the query in
the catch block fails too and the call ends in `"conflict"`: this is what the two
catch blocks of `P2002` do in Postgres, whatever they were written for. Two
writers of one customer queue on its row (`Unlocked`); the empty `upsert` of
auto-provisioning is taken as not waiting, which only allows more orders.
Uncommitted rows are not modelled: a transaction that creates or binds a user
commits next. A call is used once, as it names the user it creates.

`half`, `crowded` and `alone` are history: customers whose subscription is still to
get its license, users that two calls were about to bind at a time, and the call
that has had the users to itself. `SessionsOfOneIdentity` says that only a crowded
user can have a session of another identity than its own; such a user can really
end so: the later login binds over the earlier one and both sessions live.
`LoneCallClean` separates the conflicts that a race makes from those that a
decision makes: the one left is a login whose identity belongs to a user of another
identifier. Onboarding and `createCustomer` carry no identity and make none.
`AccessBought` allows for a `provisionLicense` that stopped after its second
statement: its customer signs in without a license.

### OfflineClient

`store` is what `storage.py` keeps, `torn` that the file holds half of it (an
unreadable file is no session; the keyring is the case where this does not occur).
A process is at one step of `auth_client.py`: it has `loaded` a session, asks the
server (`Sign` is what the server does: a login, or a rotation when the token is the
one it holds, or else the revocation as a replay), keeps the `answer`, fetches the
JWKS and saves. `Allowed` is `offline_validator.py` with its two checks, over
`estimatedServerNow`. Time passes on three clocks: `time` at the server, `wall`, which
`SetWall` changes at will, and `uptime`, which stops in `Sleep` and restarts in `Boot`.
Answers get lost, processes die anywhere, also in the middle of a write.

`era` counts sleeps and boots, because the window cannot hold across them: a boot
resets the monotonic clock and the code clamps the elapsed time at zero. A second
attempt after the wall clock was found set back passes, as `can_login_offline` saves
that clock too; `WindowHolds` shows that nothing is gained by it.
`disturbed` and `overlapped` are the sessions that lost an answer, or that two
processes worked on at a time, which nothing in the SDK prevents.

### LegacyLicense

A machine sends two hashes: `v1` changes with its MAC address, `v2` does not. A
machine is named by its `v2` hash. A row of `license_devices` has a primary hash
and aliases; `MatchExact`, `MatchLegacy`, `Reconcile`, `PromoteAliases` and `Promote` are
how `resolveDeviceForValidation` finds a row and moves it to `v2`, each query a step;
`CheckDeviceLimit`, `Register` and `RegisterAlias` are a new device. `LogFailure` with
`CheckSuspiciousActivity` and `BlockAutomatically` are the failures that count
and the block they lead to; `Transfer` to `RecordTransfer` wraps a whole validation.
`StartDowngrade` to `FinishDowngrade` is a smaller plan: the devices are listed and
deactivated one after another outside the transaction that updates the plan, so
a rollback leaves them deactivated. `DowngradeReaches` compares the row it finds with the row it listed, if that is
still active. It finds that row or, in one case, none: after the cutoff, for a row that was
promoted since it was listed, because the `v1` hash in the list had become an alias and
aliases expire with the cutoff. It never finds another row. Left out are the `twins` before
the cutoff, whose two rows may each answer to the other's hash.
Reconciliation is on, one plan change runs at a
time, the state of the subscription is any, and a new row takes an identifier
that nobody refers to. The validation cache in Redis is written and never read,
and sessions and nonces decide nothing here, so both are left out.

What the model shows of the code besides its properties: two `v1` rows of one machine
(a MAC changed in the old system) lock its promotion out by the unique key, hence
`twins`; after the cutoff a machine with a new MAC takes a second place; a downgrade
that the cutoff overtakes misses the devices that were promoted after it listed them,
and leaves them active; a transfer
adds a device and removes none; refusals of a blocked licence count as suspicious.

## 3. Runs

| run | instance | question | result |
|---|---|---|---|
| `idempotency` | 3 requests on one key, two payloads, TTL 2, clock to 3 | types, `SingleExecutor`, `ReplayIsOriginal`, `LiveRowKept`, `PromiseKept` | hold |
| `cleanup` | 2 requests on one key, a third that leaves a row on another, batches of 1, 1 a run, clock to 2, fairness | `JobTypeOK`, `RefinesService`, `ExpiredRowsRemoved` | hold |
| `license` | 3 concurrent calls, 2 machines, 3 rows, plans of 2 and 1, limit of 1 transfer | types, the three overshoot bounds, `LoneTransferMoves`, `StrangersKept`, `LoneCallsMatchFake` | hold |
| `sessions` | 5 requests of one user | types, `NoFalseReplay`, `HeldTokenWorks`, `RevocationSettles`, `BlockShuts` | hold |
| `license_admin` | 2 concurrent calls, end dates to 2, clock to 1, fairness | types, `OnlyPairs`, `EndingsStay`, `ActsInTurn`, `EveryCallEnds` | hold |
| `accounts` | 3 requests, 2 identities, 2 emails | types and unique indexes, `SessionsOfOneIdentity`, `AccessBought`, `LoneCallClean` | hold |
| `offline` | 2 processes, window 1, skew 0, 2 tokens, clocks to 2 | types, `WindowHolds`, `NoSelfReplay`, `StoredTokenWorks`, `LogoutForgets` | hold |
| `legacy` | 2 concurrent calls, 3 rows, 2 machines, one with two `v1` hashes, plans of 1 and 2, 2 requests, 1 act and the cutoff | types, the two overshoot bounds, `OneSlotPerMachine`, `HonestNeverBlocked`, `DowngradeReaches` | hold |
| `effect_once` | as `idempotency` | is the documented replay what happens after a failure? | violated |
| `dry_run` | 2 requests, 3 batches | does a dry run count the expired keys? | violated |
| `plan_limit` | 2 calls that activate, 2 machines, a plan of 1 that stays so | does activate respect the limit of the plan? | violated |
| `block_revoked` | 4 requests | does a session revoked by a block stay so? | violated |

What the four violated claims show (details under `findings`):

* `effect_once`: the use case moves the device and throws at the next statement;
  the catch block deletes the key; the retry, same key and payload, moves again.
* `dry_run`: without a delete and without a cursor, each findMany returns the
  same first batch, and the total is multiplied by the number of batches.
* `plan_limit`: an activation of one machine counts no device and is let through by the
  plan of one; an activation of the other machine counts no device either; the first
  registers, the second reads the plan and registers too.
* `block_revoked`: a refresh reads the session and the user, the block runs both
  its statements, the rotation writes `revokedAt: null`.

**Bounds.** Three requests are a mutation, its retry and a stranger, enough for
every pair to race while a third deletes or recreates; keys do not interact in
the service, so one key is enough there. `cleanup` has a second key, so that a batch of
one leaves a row behind the cap of the run: the third request only leaves that row, at
time 0, without reaching its use case (`RowLeftBehind`, an action constraint). The other
two share a key, so that the row the job has read as expired is deleted and created
again before the job deletes: the mutant that deletes by key is refuted by just that.
A clock to `TTL + 1` lets a row expire,
be replaced and the late executor come back. In `license` one transfer a month
(3 in the code, where it is a literal) puts the limit within reach of three
calls; the proofs hold for every limit. The plan starts at its largest, 2, and is resized
from there without end (`FromLargest`): a larger plan later on is what the start is
without devices, and the proofs are about any sizes in any order. Three rows for two machines leave room
for a duplicate. `MaxMissed = 1` lets one count fail or one audit row be lost a
month. Two calls on a license are enough for any two operations to overlap, and
each call identifier is used again without end, so sequences of any length are
explored; a deadlock of the two transactions needs two. A clock of two values
and three end dates give dates that are past, due and to come. In `accounts` three requests are
two logins that race each other and whoever created their user or bought their
access; with four requests (541,755 states, two and a half minutes) the
properties hold as well, and the theorems are about any number. Two emails and two
identities are what renaming and taking over need. In `offline` two processes are
enough to overwrite each other, two tokens for one rotation, and the clocks reach
one unit past the window. In `legacy` two calls race, a third row is the one a race
adds to the two of a machine with two MAC addresses, and a limit of one puts
suspicion and transfers within reach. The cutoff comes without any act, or when all
requests have been made in the middle of a downgrade (`LateCutoff`); longer behaviours (5 requests, 4 acts) were
only simulated, over 45 million states, without finding anything.
Five requests of a user are a login, two refreshes, a block or logout and
one more; the shortest run that brings a revoked session back has three. Symmetry
is used in `license`, `sessions`, `accounts`, `offline` and `legacy`, whose properties
are invariants and action properties and name no particular call, row or machine.

**Deadlock** is not checked in `idempotency`, `cleanup`, `sessions`, `accounts` and
`legacy`: requests are used up, and the clock is bounded. `license`, `license_admin`
and `offline` go on for ever and are checked.

**Fairness** is assumed in two runs. In `license_admin` it is SF of each call's
statements, because Postgres queues the waiters of a row in order, so a call
whose row comes free again and again gets it; and WF of deadlock detection,
which Postgres runs after `deadlock_timeout`. Nothing is assumed of arrivals,
failures and time. In `cleanup`, time goes on (WF of
`Tick`). The workflow starts the job every day whatever happened to the last run,
hence SF of `JobStart(FALSE)`; a statement that is tried again and again does not
fail every time, hence SF of the job's statements. Nothing is assumed of requests,
which may hang or crash at any await.

## 4. Proofs

All theorems are proved by TLAPS (SMT, Zenon, LS4) from the named assumptions of
the modules: `IdempotencyAssumption`, `CleanupAssumption`, `LicenseAssumption`,
`SessionsAssumption`, `AdminAssumption`, `AccountsAssumption`, `OfflineAssumption`,
`LegacyAssumption`. They say that constants have their types, that `None` is
not a value, that limits are positive, and, where devices are counted, that
calls and rows are finitely many.

* **Idempotency.** `SingleExecutor` and `ReplayIsOriginal` are not inductive: the
  first needs that a request which executes, or has taken effect and not failed, still
  holds its row unless its window is over, the second that a row is what its creator
  wrote and a stored response its creator's answer; both need that a row about to be
  deleted has expired. `IInv` of `IdempotencyProofs` is the conjunction of those facts;
  `LiveRowsStay` and the refinement `KeepsPromise` are proved from it. The refinement has
  one lemma per action that moves the table.
* **Cleanup.** `CleanupIsSafe` adds one fact to that invariant: an id in a batch
  belongs to a request that was past its create when the batch was read and
  whose row was expired then. As a request never creates twice, the delete by id
  removes an expired row or nothing, which is `PurgeExpired`. So all that is proved of
  the service holds with the job beside it (`PromiseWithCleanup`). `JobTypeCorrect` and
  `TotalsAlwaysAgree` need that a batch is finite, hence that the table is, and how the
  totals follow from the batches (`JobTally`). `OnlyDryRunsOvercount` explains the finding of the run
  `dry_run`: in a run that deletes, a row found once is gone before the next batch
  (`FoundOnce`), so the count can exceed the rows only in a dry run of two batches.
* **License runtime.** The bounds are proved by counting: `active` plus the calls
  that are about to add a device. A call is let in by the plan it reads, on a count
  that is older. The strengthening (`RoomBound`) therefore speaks of every size `m` from
  the largest plan on: of the devices, the calls about to add one, and the activations
  whose count is below `m` there are fewer than `m` plus the calls in flight. Reading the
  plan moves a call from the last group to the second, and resizing it changes nothing that
  is counted. The same
  argument per machine gives `DuplicateBound`. `TransferBound` needs the
  account `moves <= audits + moved and not yet audited + missed`
  (`MovesAccounted`). The lemmas have the number of calls as a parameter: with all calls
  it gives the invariants of the run, with the calls that are ever in flight at a time
  `CrowdBounds`, and with one `SerialCallsKeepLimits`: the active devices keep to the
  largest plan, the transfers to their limit. That is not the plan as it is, since
  nothing deactivates devices when it is made smaller; `LoneRegistrationsFit` says of the plan
  as it is that a call without company, under a plan that stays, registers only
  within it, which the run `plan_limit` refutes for two calls.
  `TransferMoves` needs what a call without company knows of the table after each of its
  own statements (`AloneIsAlone`), and `LoneCallsConform`, the comparison with the engine
  without a database, also what it has read (`LoneReads`). `SerialLicenseIsFake` follows:
  whole behaviours of lone calls are behaviours of that engine.
* **Sessions.** The invariant says what each await knows of the session it works
  on, that a session whose hash is pending has given out no token, and that
  the hash of an undisturbed session is the token its client holds, or the one
  on its way (`ClientsKept`). `RevocationsSettle` and `BlocksShut` follow step by
  step. With one request at a time what a request has read is still so when it writes
  (`ReadsHold`); hence every revocation is final (`SerialRevocationsAreFinal`), which
  the run `block_revoked` refutes for two, and a block that runs to its end leaves the user
  no live session (`SerialBlocksRevoke`).
* **License administration.** `OnlyPairs` is not inductive: a write is safe because
  of what was decided (`DecisionsMade`: a license is expired only beside an
  expired subscription) and because a read that is up to date still agrees with
  the rows (`ReadsCurrent`). A lemma says what each operation writes
  (`Written`); the invariant and `EndingsAreKept` are proved from it, for any number of
  calls. `ActInTurn`, the refinement, adds that what was decided holds by a time that
  has been (`Timely`). With one call at a time no read goes out of date, whatever fails,
  so the whole history is one of the store without a database
  (`SerialLicenseIsStored`).
* **Accounts.** `Reads` is the heart of the invariant: a user that a call may yet
  bind is unbound or crowded, and shared by two calls only if crowded. From it,
  what a login has settled on stays its identity's (`Settled`), and so do its
  sessions. With one call at a time no user is ever crowded, so nobody takes an account
  over (`SerialAccountsAreKept`). `InsertKeepsRows` carries the unique indexes through
  every insert.
  `LoneCallClean` needs what a call alone has read and what nobody else can have
  changed since (`Lone`): for onboarding that nobody has inserted the user it found
  missing, so that no exception is left.
* **Offline client.** `WindowHolds` follows from `ClocksAgree`: in the era it was saved
  in, a stored session's anchor and the monotonic clock measure the time since its
  answer, up to the delay of the save. The rest needs that calls do not share a
  session that is not marked (`CallsApart`) and that the current token is wherever it
  can be (`TokensFollowed`). `SerialClientIsTrusted` has the promises without the mark:
  calls made one after the other never overlap.
* **Legacy.** `Overshoot` counts the places a licence has given away: the active rows
  and those about to be promoted, plus the calls that have passed the limit; it
  stays below the largest plan plus the calls. `Transfers` does the same for the
  month. Both have the number of calls in flight as a parameter, and with one give
  `SerialCallsKeepLimits`: the limits themselves. `Honest` says which failures are
  counted. `Slots` has what each step knows of the row it works on and how rows may
  change beside it (`Evolves`, then, after deletions, `Fades`), and for a listed hash that it
  is the primary of its row or was until a promotion (`Leads`); `OneSlotPerMachine` and
  `DowngradeReaches` are proved from it.

The theorems named *Serial...* and `CrowdBounds` assume, in the temporal formula itself,
that calls come one at a time (or few at a time). The code does nothing to make it so: they
say what is lost when calls overlap, next to the properties that hold however they do.

Only model-checked: `ExpiredRowsRemoved` and `EveryCallEnds`. Both are liveness under
fairness, and the proof system has no rule for `ENABLED`, on which fairness rests. The
four claims of the violated runs are false, so there is nothing to prove of them but
what they need to become true, which for three of them is a theorem above.

## 5. Not modelled

* Signing, hashing, JWT and OIDC verification: their outcome is an input.
* Columns that no decision reads (`last_seen_at`, `match_source`,
  `transfer_count`, `validation_history`, security events, metrics).
* An update that commits and whose acknowledgement is lost: the API takes it for
  a failed statement. `Crash` covers the case where the process dies with it.
* Clock differences between API processes and the database.
* Status codes of errors, such as the one for a row deleted twice (P2025).
* Reads (`/me`, search, details, operational summary), guards, error mapping,
  configuration, health, metrics, user interface, the test-only in-memory path of the
  idempotency service, the in-memory stores of customers and of the catalog, deployment.
* The rate limit: it only refuses, which is a step that changes nothing, and its
  counters meet no other state.
* Programs, and of plans everything but the `max_devices` that `updatePlan` changes;
  their creation has the same retry on a unique code as that of a license key.
* The rest of the legacy system: its web panel, tokens, nonces, caches and CRUD.

## 6. Plan

Done: 1 `ReplayStore`, `Idempotency`, `IdempotencyCleanup`; 2 `LicenseRuntime`;
3 `Sessions`; 4 `LicenseAdmin`; 5 `OfflineClient`; 6 `LegacyLicense`; 7 `Accounts`;
their proofs;
8 the two programs without a database, `FakeLicenseEngine` and `InMemoryLicenses`, as
abstract specifications of the ones with it.

Left, in this order:

9. Compositions: `LicenseRuntime` under `Idempotency` (a retried transfer moves
   at most once unless it failed midway); `LicenseRuntime` with the eligibility
   (`loadEligibleLicense`) that `LicenseAdmin` changes beside it; `OfflineClient` with the
   server's races of `Sessions`.
10. `RateLimit`: Redis counter, expiry, fallback.
