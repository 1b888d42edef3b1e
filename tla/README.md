# Formal models of the nestjs-api backend

TLA+ modules for the parts of this API that are hard to test: sessions and their row locks, the
roster of a workspace, permissions and the cache of grants, the contact channels of an account,
uploaded files and their cleanup, the MCP authorization server, the bot check and its breaker,
sign-out of one device, the queue with its send limit and its shutdown, and four smaller stores.
TLC model-checks them on small instances; TLAPS proves their safety properties for every
instance. `PROJECT.json` lists the components, the runs, the source lines each
definition translates, the hazards and the findings.

## The system

An HTTP API (NestJS) and a queue worker of the same code base share PostgreSQL (through Prisma),
Redis (through ioredis and BullMQ) and an object store. Several requests run at once in one
process, and every `await` is a point where another one runs; nothing in memory is shared
between requests except the Turnstile circuit breaker. All coordination is therefore in the
database: transactions, `SELECT ... FOR UPDATE` row locks taken in one documented order
(`common/util/row-lock.util.ts`), conditional `updateMany` statements whose row count decides
who won, and unique indexes.

| Component | State | Operations | Talks to | What is hard |
|---|---|---|---|---|
| Sessions (`modules/auth`) | `users.password_changed_at` (the cutoff), `refresh_tokens` | login, refresh (rotate), logout, logout everywhere, credential changes, retention purge | Accounts (end of all sessions), JWT strategy | rotation racing revocation; replay detection; a millisecond cutoff compared with a whole-second `iat` |
| Workspaces, memberships, invitations | `workspaces`, `workspace_memberships`, `workspace_invitations` | create, close, add, change role, suspend, reactivate, remove, transfer, invite, resend, revoke, accept | Accounts (deletion, erasure, deactivation), permission cache | the last owner; deadlocks; authority read before a lock and used after it; old links |
| Account lifecycle (`modules/users`) | `users` | sign-up, verification, update, deactivation, deletion, erasure | everything | stale reads choose a write path |
| Files (`modules/files`) | `file_assets`, objects in a bucket, `users.profile_image_file_asset_id` | upload, attach, release, erase, cleanup job | object storage, queue | no transaction spans the row and the object; crashes and failing calls |
| Permission cache (`modules/authorization`) | grants and an epoch in Redis | load, drop one user, drop everyone | Roster, platform roles | a slow reader refills what a writer dropped; Redis down |
| One-time secrets (`modules/users`) | `otp_hash`, `otp_purpose`, `otp_expires_at` on the account | reset link, phone code, verification link | e-mail, SMS, send limit | one column for two purposes; single use; row changed between read and write |
| Send limit (`common/send-limit`) | one Redis counter per destination and window | reserve, release, send | e-mail, SMS | a release in a later window; refused attempts stay counted |
| Turnstile (`common/turnstile`) | breaker in memory | verify | siteverify, audit trail | late time-outs and late answers |
| Access token blocklist (`modules/auth`) | one Redis key per signed-out token | logout, check | Sessions (refresh family) | two stores and no transaction; whole seconds against a TTL |
| Queue (`common/queue`) | BullMQ jobs and schedulers in Redis | enqueue, reschedule, cancel, process, retry, heartbeat | all job handlers | at-least-once execution; enqueue-then-cancel; drain at shutdown |
| MCP authorization server (`modules/mcp-oauth`) | `oauth_payloads` | sign-in, consent, code, token, refresh, retention | Sessions (cutoff), oidc-provider | credentials minted across an ending of all sessions |
| App versions | `app_versions` | create, update, remove | – | an unlocked read decides two columns, a second statement checks them |
| Device tokens | `device_tokens` | create, update, remove | abilities | the row is looked up within reach and written by id |
| Signed read URLs (`common/storage`) | one Redis key per object | sign, cache | object storage | late signatures, late SETs |
| Graceful shutdown, recurring schedules | process, BullMQ's schedulers | drain, exit; reconcile at boot | queue | a job that hangs under a drain; workers of two releases |
| Audit, e-mail, SMS, throttling, health, configuration, errors | none of their own | – | – | nothing concurrent |

## Modules

A module is a component; `MC...` modules give it small constants. Every call that leaves the
process (a statement, a Redis or storage call, a vendor's API) is a step of its own unless a
transaction makes several one. Fields marked *history* are read by properties only.

### SessionClock, Sessions

One account. `user` is its row, `rows` the `refresh_tokens` table, `lock` the row lock on the
account, `pc`/`loc` each request's place in its handler and its local variables. Unlocked reads
(`Login`, `PresentToken`) are steps of their own; a transaction is one step that takes the lock
and one that runs its statements and commits. `SessionClock` has `nextWholeSecond` and the
whole-second `iat`, over a clock with `TicksPerSecond` ticks; `McpOAuth`, `AccessTokens` and
`SignedUrls` use it too.

### Roster

Accounts, workspaces, memberships, invitations, row locks and the cached grants. A request is a
`Begin` step (permission guard and every read before the transaction), one step per row lock,
one for the reads under the locks, one for the writes with the commit, one per cached grant
dropped afterwards. The `FOR KEY SHARE` that a foreign key takes on a `users` row is modelled
too, as a guard: it is what makes the lock cycle of the run `roster_lock_cycle`.

### Files

`row` is `file_assets`, `object` the keys in the bucket, `picture` the reference a user holds,
`req` and `cleaner` the requests and cleanup jobs in flight. A storage call may fail where the
code handles a failure, and any step may be the last one before the process dies.

### Catalog, Abilities, Authorization

`Catalog` holds the tables of `permission-catalog.ts` and `subject-key.ts`: roles, ranks,
permissions, the owner and tenant column of each subject. `Abilities` builds the CASL rules of a
user from grants (`createForUser`), asks the questions the route guard asks and filters rows as
`AbilityScopedQueryService` does; CASL's own matching is marked external. `Authorization` puts
both behind the cache. `cache` and `epoch` are the two kinds of Redis key, `userRole` and
`seated` the database, `req` the requests. A request is: GET of the epoch, GET of the grants,
the query, SET with a time to live, the guard's decision, the handler's statements, and for a
writer the GET of the epoch and the DEL that follow the commit. Any Redis call may fail, as the
code handles it, and a request may die at any step.

### Accounts

One account's address, number and one-time secret, with the jobs that deliver links and codes.
No handler holds a lock over its decision, so each is a read step, a write step and one step per
message; jobs may be redelivered and run late, and `GiveUp` ends a request anywhere. History:
`followed` and `proven` are the addresses and numbers whose secret came back, `typed` the
numbers that a form has written beside the date of a verification since it was stamped.

### McpOAuth

One account that signs in for MCP clients in one browser. `attempt` is the interaction (login
page, password comparison, consent, code), `row` the `oauth_payloads` table of codes, access
tokens and refresh tokens, `req` the exchanges under way. The comparison of a password and the
write that follows are apart, as are the library's read of a token, `findAccount`, the adapter's
conditional `consume` and the two inserts of an exchange; a process may die between any two.
oidc-provider decides the order of those steps and is external; the adapter, the policy, the
lifetimes and the checks against the session cutoff are the repository's.

### CircuitBreaker, Turnstile

`CircuitBreaker` is the abstract specification: what the header of
`turnstile-circuit-breaker.ts` promises, without time and without calls under way. `Turnstile`
has the real fields (failures, time of the last one, end of the window), the memory of an
outage, calls of siteverify under way together, and the guard and service around them. `Phase`
and `Failures` are the refinement mapping; `ImplementsBreaker` is checked by TLC and proved.

### AccessTokens, SignedUrls, AppVersions, DeviceTokens

`AccessTokens`: the access tokens of one device, its refresh family, the blocklist, and logout
as its two writes, with Redis unreachable at any time. `SignedUrls`: one object's cached URL and
the views that sign and store it. `AppVersions`: the table, and create, update and remove as
read, check and write. `DeviceTokens`: one token's row, the lookups that have passed the
caller's reach and the writes by id that follow.

### Delivery, Recurring, Reschedule

`Delivery`: the mail jobs to one destination, worker processes with slots, the send limit's
counter and the shutdown. A job's lock may run out while its slot still works on it; the
provider may take a message and not say so; a reservation may count and its answer be lost; a
call may hang; a process may die or be told to stop, drain, close its pool and exit, or be ended
by the timer, under whatever its handlers do. The exit status is not modelled, so neither is the
case for which the timer is not unref'd: a `close()` that hangs when nothing else is left would
let the process end with status 0. `Recurring`: workers of two
releases that each upsert what they declare, list what is installed and remove the rest.
`Reschedule`: callers that enqueue a new version of an entity's job and cancel the old one, a
worker and an operator.

### Composition

`Sessions`, `Roster`, `Accounts` and `Files` each contain the part of deletion and erasure that
concerns their own tables; `McpOAuth` contains the ending of all sessions, and `AccessTokens`
the rotation of the refresh family, as far as these decide what happens there. They share the
`users` row only through those operations, and each gives that row the fields its own decisions
read.

`MCProfile` (Accounts, Files), `MCAccess` and `MCQueue` (Delivery, Recurring, Reschedule and,
for its liveness, Files) are sums, not products: they hold several components that have no state
in common, and a behaviour belongs to the one named by `part` in its initial state while the
others stand still. Nothing is lost, since no step of one can disturb a property of another, and
the product would only multiply the states. In `MCSessions` and `MCAuthorization` `part` chooses
between two budgets of one component.

## Runs

| Run | Instance | What it shows |
|---|---|---|
| `sessions` | 2 requests, 2 ticks in a second; either 3 tokens with sign-ins, rotations and sign-outs, or 2 tokens and every operation | a revoked family stays revoked, a family has one unconsumed row; what the whole-second cutoff kills, what it keeps, that a login which an ending overtakes is refused |
| `roster_lifecycle` | 2 accounts, 1 workspace, 2 requests, crashes | every live workspace keeps an owner who can sign in; seats go to usable accounts only |
| `roster_locks` | 2 workspaces, account paths that lock several, cache on | the documented `FOR UPDATE` order never closes a cycle |
| `roster_invitations` | 2 invitations, one rotation of the link | a settled invitation does not move, a link bound to an account cannot return |
| `roster_stale_update` | violation | the finding at `users.service.ts:617` |
| `roster_lock_cycle` | violation | the finding at `workspace-invitations.service.ts:192` |
| `authorization` | 2 requests at once, 3 in all; either TTL 1 and clock 0..3, or one epoch bump and no clock | the age of the grants a decision uses; an epoch bump is final; only administrators assign; the tenant boundary of the roster listing |
| `profile` | sum of Accounts (2 requests or jobs at once, 5 in all, 2 addresses, 2 numbers, 2 secrets) and Files (1 user, 2 files, 2 requests, 1 cleaner, one storage failure, crashes) | a verified address was proven, a verified number was proven unless a form wrote it under the date, notices go to proven addresses, a redeemed secret does not come back; a picture keeps its row and bytes and no attached file leaks, a release is final, the quota's overshoot is bounded |
| `accounts_phone` | violation; 1 request at a time | the finding at `users.service.ts:864`: a number nobody proved beside the date of another's verification |
| `access` | sum of six components (below) | one redemption per code or token, access ends with the sessions it was signed in before, renewal never extends a grant; the breaker's promise and its bound; a sign-out holds; one row per release, on a train that exists, unless requests overlap; cached URLs keep half their life; notifications go to entitled owners |
| `queue` | sum of four components (below) | what a destination receives in a window is within its limit, no job runs on a closed pool, a logged outcome is the real one; the running release decides what recurs; no reschedule loses a job; every job ends; released and erased files are deleted, and an object without a row has an upload taking it back |
| `queue_lost_lock` | violation; the instance of `queue` | the finding at `queue-processor.base.ts:183`: an attempt that lost its lock logs what does not happen |

Each property has a mutant, and one that joins two statements has two: a plausible bug in one
mapped definition, under which the same run must find the property violated. `TypeOK` of a
module states the shape of its state; it is proved where the section on proofs says so.

### Bounds

Nearly every race here is between two requests, because each conflict is over one row or one
key; a third actor is present as the state that an earlier request left behind, so runs cap the
requests in flight at two and let more follow one another. Tokens, files and invitations are two
or three: the one in question, its successor and one unrelated. Two ticks in a second are the
fewest in which "same second, later instant" and "next second" differ. `Ttl = 1` with a clock to
3 lets an entry be written, expire and be written again while a slow request is still in flight.
Age and epoch of grants have separate budgets because time and epochs do not interact in the
code (one is in the value, the other in the key) and together multiply the states; the theorems
cover both at once. The Roster runs split the operations for the same reason, by what they can
disturb.

- `profile`. Accounts and Files share the values of some sets, which only leaves TLC fewer
  symmetries to try. Five requests and jobs are enough to ask for a code, change the number or
  write it by a form, have the code back, redeem it and do any of these again; with six, 218
  seconds instead of 92, the properties hold as well.
- `access`. McpOAuth: two attempts, two exchanges, four stored credentials (a code, its tokens,
  a rotation), a code life of half a second and a refresh life of one; `WithinBudget` gives
  behaviours in which two attempts are under way less time and one exchange. Turnstile: a
  threshold of 2, a window of 2 and a time-out of 1 tick, five calls and nine ticks are enough
  to open, reopen half-open, recover, forget and open again. AccessTokens: two tokens with a
  lifetime of 2 s on a clock of 3 s. SignedUrls: a life of 12 ticks and a signing time-out of 3,
  two views. AppVersions: two releases, two administrators, six request bodies that move a
  train, a system or a version, four edits. DeviceTokens: three people, one an administrator,
  two registrations of one token.
- `queue`. Delivery: two workers of one slot, a limit of 1, two attempts, one stall, with either
  two jobs and one rare event (a stop, a death, a lock that runs out, a call that hangs, a
  window's end, a payload of another release, an operator's retry or removal) or one job and
  three. Two jobs with two rare events pass the safety properties as well, in 1.46 million
  states; they are left out of the run for the sake of its time. Recurring: two releases that
  share one of three schedules, two workers, four boots. Reschedule: two callers, three
  versions. Files: as in `profile`, but without crashes, and only calls of the cleanup fail.

### Deadlock checking

It is off where the bounds let the system stop (no more requests to start) and on for Sessions
and Files, whose clock, purge or cleanup always can step; in the sums with Files the other
components may stand still.

### Fairness

`queue`, Delivery. Weak fairness of BullMQ's moves (a waiting job is taken while a slot is free,
a delayed one promoted, one with a lapsed lock found stalled), of the steps of a running
handler, of starting a process that is down (the deployment restarts it) and of the shutdown
timer. Nothing is assumed of the provider, which may answer, fail or hang, of operators, of the
window or of the drain. A job whose call hangs in a process that is stopped is covered:
`JobsEnd` rests on the timer's exit, the stalled check and a second run. It excepts only a job
whose call hangs for ever in a process that nobody stops, and a system all of whose slots do:
`email.service.ts` puts no time limit on the call, and BullMQ renews the lock of a job that
hangs.

`queue`, Files. Weak fairness of the cleanup job (a recurring schedule that the worker
reinstalls at every start), of `Grow` and `Expire` (time passes) and of a request's next step.
Storage fails at most `MaxFailures` times; if it failed for ever nothing could be deleted. No
crash happens there, because a crash that takes the worker down for good refutes any promise.
The job's own limit on attempts is in the model.

Both properties have the form "from some point on": jobs and files are finitely many, ended jobs
are only run again by an operator, whose moves are bounded, and a deleted file stays deleted.

## Proofs

Eight modules, for every set of users, workspaces, requests, tokens, files, workers, jobs and
schedules, every clock resolution, lifetime, limit and bound. Every property that a passing run
checks is also a theorem, except the two of liveness (`JobsEnd`, `ReleasedFilesGo`): liveness
under fairness is out of the prover's reach and stays with TLC. Nothing here needs induction
over data or a recursive operator.

The assumptions are named in the modules (`...Assumption`) and TLC evaluates them in the runs:
constants have their types, null values are not members of the sets, lifetimes and time-outs are
positive where the code's are, requests name users and roles that exist, the horizon of the
Sessions clock is a whole second. Where a proof counts, the set counted over is finite: files
and requests (Files), requests (Roster), worker processes (Delivery). The quota of Files is at
least one (`MAX_UNATTACHED_FILES_PER_USER` is 20).

Four theorems have a hypothesis beside the assumptions, because the code does not give the
promise without it. It is the setting of the run that checks the property, and the findings
below say what happens otherwise:

| Theorem | Hypothesis | Without it |
|---|---|---|
| `LiveWorkspacesAreOwned` | `NoStaleUpdate`: no `update` deactivates an account on an earlier read | the run `roster_stale_update` finds a workspace without an owner |
| `EmailMeansProven`, `NoticesGoToProven` | `NewAddresses`: no administrator's form repeats the address the account has | a stale address is put back under a later verification |
| `OrphansAreTakenBack` | `Reliable`: no process dies and only the cleanup's calls fail | an object stays that no row names |

A safety property is seldom inductive as it stands: it says nothing of a request that has read
and not yet written. Each module therefore defines the invariant it proves as a conjunction of
named parts, with one lemma per action or per kind of step.

- **SessionsProofs.** Nine theorems: types, the six invariants of the run `sessions`, and two
  more (`ReplayKillsFamily`, `DeletionEndsSessions`). `IInv` adds `RequestInv` (what
  each request has read is still true or its conditional write will notice; the holder of the
  lock is the one at a locked step; two requests never mint the same token) and `TableInv` (rows
  never inserted are blank, an ended row is revoked, the cutoff is at most the next whole
  second, plus the invariants themselves).
- **RosterProofs.** `RosterIInv`: requests carry what their next step reads (`Formed`); a row
  lock is held by the request whose place in its handler says so, and workspaces are taken in
  ascending order (`LockInv`); a workspace being created is nobody else's (`FreshInv`); an
  account found usable under its lock stays so (`SeatInv`); no invitation sent before its
  addressee's access ended is pending and bound (`InvitationInv`). `LocksNeverCycle`: in a set
  of transactions that wait for each other, the one with the fewest workspaces still to come
  could go on; since requests are finitely many there is one (a well-founded order on sets).
  `SettledForGood`, `BoundLinksAreSpent` and `SeatsAreUsable` follow from the invariant step by
  step. `LiveWorkspacesAreOwned` needs `OwnersIInv`: what a transaction made sure of under its
  locks still holds at its write (`DecidedInv`: a demotion leaves another active owner, a
  deletion or erasure has locked every workspace its account owns), since whoever could change
  it would need one of the locks.
- **AuthorizationProofs.** `TypeCorrect`, `GrantsAgeOut`, `EpochFinal`, `AdminsMakeRoles`,
  `RostersStayInside`. `IInv` adds what the age of grants depends on: a request about to SET
  read its grants after it started (`Sound`), an entry's expiry is at most one request time and
  the TTL after its read and its key's epoch is not newer than the read (`Fresh`), and only
  members are seated (`SeatInv`). Then a decision is at most one request after its GET, the GET
  found a live entry, and the entry was written at most one request after its read: TTL plus two
  request times. The last two theorems rest on `HeldInv` (grants, cached or in hand, hold
  nothing their user never held) and on lemmas about the catalogue: of the platform roles only
  the administrator's may assign roles, a seat's permissions are about its workspace, and what
  everyone holds reads one's own membership only. `RuleOrigin` says where a rule of an ability
  comes from; the tenant and owner columns do the rest.
- **FilesProofs.** `IInv`: a request at a locked step holds its account's lock and has read its
  picture under it (`LockInv`), an upload in flight has its file for itself (`UploadInv`), bytes
  are there before the row says so (`BytesInv`), cleanup jobs only work on rows that are
  released (`CleanInv`), pictures and attached rows correspond one to one (`PictureInv`).
  `PicturesStayServable` and `ReleasedForGood` follow. `QuotaExceededAtMostByRequests` counts:
  the rows the quota counts plus the requests about to insert one stay below the limit plus the
  requests there are. `OrphansAreTakenBack` adds that the object of a row that is gone, or that
  a cleanup job is about to delete, is in the hands of an upload (`OrphanInv`).
- **AccountsProofs.** `IInv`: what a request has read suffices for its next step (`RequestInv`),
  a stored secret is not a redeemed one (`SecretInv`), everything that speaks of a phone code
  says the same number (`CodeInv`), an erased address is of a deleted account (`ErasedInv`).
  `RedeemedStaysGone` follows. `EmailMeansProven` and `NoticesGoToProven` add `AddressInv`: an
  address that counts as verified, or did when a request read it, was proven.
  `PhoneMeansProvenOrTyped` adds `NumberInv`, which needs no hypothesis on the forms: a number
  under the date was proven or `typed`, and a request that redeems a code carries the number the
  code was texted to. That the number was proven, as `schema.prisma` has it, is what the run
  `accounts_phone` refutes.
- **McpOAuthProofs.** `OAuthIInv`: what is stored descends from a finished sign-in and carries
  its time (`RowsOK`); of a sign-in at most one token can be redeemed or is being renewed by an
  exchange that has consumed its token; whatever gives access after an ending was stored by an
  exchange in flight at that moment (`EndedOK`), from arithmetic on whole seconds.
  `OneWayOnOnly`, `EndingsReachMcp`, `SignInsExpireOnce`.
- **AccessProofs.** Five small components. `SignOutHolds`: the key a sign-out will set, however
  late, outlives the token (`LogoutOK`), from arithmetic on whole seconds; tokens are no younger
  than the revocation of their family. `UrlsKeepHalf`: a view's TTL in seconds is half of what
  was left when it signed, and a stored URL's deadline follows from it (`ViewerOK`, `UrlOK`).
  `OwnersEntitled`, with the types: a pending update holds an owner who is entitled.
  `ReleasesStayDistinct`, with the types: what an edit that runs alone has read is what it
  writes over. `BypassBounded` and the refinement `BreakerRefined` (Turnstile): a breaker that
  is not closed has counted the threshold and remembers a failure (`BreakerOK`), no call
  outlives its time-out (`CallsOK`), and a window ends at most a time-out and a window after the
  recovery (`RecoveryOK`): a failure after it is of a call made before it. Under that invariant
  every step maps to one of `CircuitBreaker` or leaves its variables alone; a tick past the
  window is `Elapse`, and the memory lapses only after it (`FailAfterQuiet` never meets an open
  breaker).
- **QueueProofs.** `RegistryAuthority`: an installation without one of another release around it
  has upserted what it no longer has to do and, once it removes, has everything declared
  installed and everything else listed (`AloneOK`); all installations around it are of its
  release (`OneRelease`). `NoJobLost`: a caller that may remove the superseded job knows of a
  pending one at least as new as its own (`NewerPending`), and removals only reach older ones.
  Delivery: a slot that holds its job's lock is on the job's next attempt, and what it is about
  to report is what BullMQ will decide (`AttemptInv`); a unit is its window's only while the
  counter exists (`UnitInv`). `PoolsOutliveHandlers` and `FailuresAreLoggedTruly` follow;
  `DestinationIsCapped` adds that messages out and units owed stay within the counter and the
  units given back in excess (`CapInv`). Delivery's types are proved without the bounds of its
  run (`DeliveryTypes`), which no property depends on.

## Findings and divergences

The four violation runs are the findings of `PROJECT.json`. Reading the code for the models
showed these as well; the properties are stated so that they hold with them:

- Sessions. An ending in the same second as an earlier one leaves the cutoff unchanged, so a
  login that it overtook still gets a session; one at the very instant of a login does not kill
  its access token. Presenting an expired or revoked but consumed token raises the replay alarm.
  An administrator's update that chose its path from a stale read ends sessions by the cutoff
  but leaves live refresh rows.
- Roster. The actor's rank is read before the lock and used under it
  (`workspace-memberships.service.ts:382`); the inviter's authority comes from the cache
  (`workspace-invitations.service.ts:742`); a token replaced by a resend, or an invitation that
  lapses, while `accept` waits for the lock is still accepted (`:559`); closing a workspace
  misses the cached grants of one who joins between its read and its lock
  (`workspaces.service.ts:267`); `accept` asks for a second connection of the pool inside its
  transaction (`:733`).
- Permissions. Nothing calls `invalidateAllUsers`, although `common/authorization/README.md:287`
  has a change of a role's permissions bump the epoch. A load that read before a revocation may
  write after its DEL, so a revoked role can outlive "takes effect on the next request" (`:298`)
  by up to the TTL and a request. Revoking has no protection of the last administrator.
- Accounts. Two concurrent redemptions of one reset link, or of one phone code, both succeed
  (`users.service.ts:1265`; the repository's README, line 205, says "single use"). `updateInfo`
  (`:864`) and `update` (`:602`) write a new number without clearing `phone_number_verified_at`,
  which `schema.prisma:51` says a plain update clears: the run `accounts_phone`. `update` with
  the address it read earlier puts that address back under a later verification; the run sets
  `MayRepeatAddress` to FALSE. The write of verify-phone clears a newer code; two concurrent
  changes of address notify the wrong previous address; a stale write may put data back on an
  erased row.
- Files. An upload whose row the cleanup job took for abandoned writes an object that no row
  names until the upload itself undoes it, against `schema.prisma:107`; if the process dies
  first, or storage refuses the undo, the object stays. Hence `OrphansHaveAnUpload` and
  `ReleasedFilesGo` are checked without crashes and with only the cleanup's calls failing, and
  say nothing of a row that a dead upload abandoned.
- MCP. A sign-in whose password comparison begins before an ending and finishes in a later
  second survives it: the sign-in time is stamped at the end
  (`oauth-interaction.controller.ts:108`), against the comment at
  `mcp-oauth-provider.service.ts:288`; an exchange in flight at an ending may still store an
  access token, whose `iat` is after the cutoff and which is honoured for one access TTL (`late`
  in `AccessEndsWithSessions`); `grant.save()` upserts, so a consent finished late can store a
  grant that a replay has revoked (`oauth-interaction.controller.ts:191`); a sign-in right after
  an ending, in its second, is asked for again.
- Send limit. A refused reservation has counted and is never given back, so after refusals the
  give-back of a failed send does not reopen the budget and its retry is skipped
  (`destination-send-limit.service.ts:36`, `:92`).
- Queue. `process` logs from the attempt's number and the error alone
  (`queue-processor.base.ts:183`). BullMQ drops the report of an attempt that has lost its lock,
  so what that attempt has logged, RETRIED or FAILED, may be said of a job that another worker
  is running or has completed: the run `queue_lost_lock`. `LoggedOutcomeIsReal` and its theorem
  speak of the attempts that report under their lock only.
- Recurring. The reconciliation runs at boot only: an old worker that boots after the new
  release's reconciliation leaves the old set after the deploy (the comment at
  `recurring-schedule.installer.ts:41` accepts it). Of two releases that reconcile at the same
  time, `RegistryIsAuthoritative` requires nothing until one of them installs undisturbed: what
  they leave may be either's set or a mixture. The heartbeat's check of a stale `scheduledAt`
  can never fire.
- Reschedule. `cancelPending` reads the state and then removes: a job that ran in between is
  deleted and reported cancelled. `queue/README.md:386` has the old job removed first, the code
  enqueues first. The domain row is bumped before the enqueue, so if that fails the old job
  finds itself superseded. Nothing in production calls it yet.
- App versions. Overlapping PATCHes of platform and system can store a web release for android;
  two web rows of one version can be stored in a race, which a comment acknowledges.
  `OneRowPerRelease` says that nothing else makes either.
- Sign-out. A refresh that wins against the logout leaves its access token alive until it
  expires; a logout without the refresh token leaves the family usable, as documented.
- Turnstile. A failure after the memory has lapsed closes the breaker without logging a
  recovery; a bypass is timed at its check, its audit row is written later.
- Signed URLs. "At least half its validity left" holds of what was left when it was signed, less
  the time the SET took.
- Device tokens. A former owner's late update or removal reaches the row that an administrator
  has moved meanwhile; it can at most undo the move.

## Plan

Done: every safety property of the runs is proved for all instances. Next, in this order:

1. Abstract specifications that the detailed ones implement, as `CircuitBreaker` is for
   Turnstile: a session family (live, rotated, revoked) for `Sessions`, and a sign-in that goes
   on by one token for `McpOAuth`.
2. Delivery: the types with the bounds of the run.
3. Roster: the cached grants that a closed workspace or a removal drops, as a bound on how long
   a removed member is still let in, joined with `Authorization`.
4. Accounts: the mails that a changed address still receives, with the jobs' redelivery.

## Not modelled

Wiring, configuration, formatting, e-mail and SMS vendors, health and audit reads: no state or
only append-only state of their own. BullMQ, CASL, oidc-provider, Prisma and the throttler are
libraries; what the code relies on is modelled where it is used and marked external. MCP client
registration, pages and discovery documents filter and format; MCP tools read through the same
services as the REST API. Loss of the Redis data set, database failover and clock skew between
processes are assumed away. Each component left out is in `PROJECT.json` with its reason.
