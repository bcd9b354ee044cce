# AccessSync in TLA+

AccessSync sells door access: a gym's Wix site sells plans, Kisi opens the gym's
doors, and AccessSync keeps the second in step with the first. It is a Node
program (`server.js` starts the HTTP front, a BullMQ worker and the cron sweeps)
over PostgreSQL, Redis and two remote APIs, and its difficulty is not in any one
handler. Every step of it is an `await` between four stores that fail
separately (Wix, Postgres, Redis, Kisi), several handlers run at once, jobs are
retried and stall, webhooks come twice, late or never, operators edit what jobs
have just read, and a sweep, nightly by default, removes people on the strength
of what it read a minute before.

This directory models that: which steps there are, in which order, what may fail
between them, and what must hold none the less. Nothing here is a parser or a
formatter of messages.

## 1. The system

The code calls its parts L1 to L7.

| Part | State it keeps | Operations | Talks to |
| --- | --- | --- | --- |
| Wix connector and webhook processor (L1, L4): `adapters/wix/wix-connector.js`, `core/webhook-processor.js` | `processed_event_ids`, the jobs it adds | receive, check for a duplicate, resolve the tenant, mark, enqueue, unmark; answer 200, 500 or 503 | Wix (redelivers what it has no 200 for), Postgres, BullMQ |
| Tenants and secrets: `core/tenant-resolver.js`, `core/webhook-secret.js`, `core/hmac-monitor.js` | a cache of lookups, `clients.source_site_id`, `clients.wix_webhook_secret`, two Redis counters | look a gym up, register a site, mint, rotate and show a secret, alarm on wrong signatures | Postgres, Redis, mail |
| Wix event parsing and classification (L2, L4): `adapters/wix/wix-adapter.js`, `core/event-routing.js`, `core/wix-order-classification.js` | none | payload to a standard event to a job; an order to paying, held or ended | - |
| Wix read API: `adapters/wix/wix-plans-api.js` | none | page through orders and bookings | Wix |
| Member access store (L3): `adapters/standard-adapter.js` | `member_access` (status, cached Kisi user), `member_access_sources` (one row per plan and door with a role id), the strike clocks | resolve and lock, resolve the identity, complete a grant, a revoke or a finalize, park, release, stale-lock release | Postgres |
| Queue worker (L4): `core/queue-worker.js` | a Redis lock per member, BullMQ's job state | purchase, start, pause, resume, cancel, delete, finish a removal; park on a busy lock; catch, retry, dead letter; the stalled handler; the holder-lapse cascade | L3, L5 to L7, Redis |
| Retry engine: `core/retry-engine.js` | `error_queue` | dead letter, one row per cause, notify once; Retry and Dismiss by hand | Postgres, mail, BullMQ |
| Grant and revoke (L4): `core/grant-revoke.js` | none of its own | per door: reuse, assign, recreate a user; count, remove, delete the row | L3, L5 |
| Kisi adapter and connector (L5 to L7): `adapters/kisi/` | a limiter's stamps; Kisi has users, role assignments, the enabled flag | create or find a user, label it, assign and remove a role, suspend, enable, Guards D and E, delete; page through users and roles; wait for a slot, retry a 429 | Kisi |
| Reconciliation sweep (L4): `core/reconciliation.js` | the strike clocks, `reconciliation_proposal`, `config_alert_log`, `last_sync_at` | which gyms are due; two reads of Wix, Pass 1, 1.5, 2, 3, 3B; the removal decision, armed removals, clocks, log; finish-removal; replay, digest; the check of one member | Wix, Kisi, Postgres, BullMQ |
| Removal policy (L4): `core/revoke-policy.js` | none: a pure function | one decision over all the removals a sweep proposes | - |
| Plan doors and keys: `core/plan-door-sync.js`, `admin/routes/operator.js`, `admin/routes/clients.js` | `plan_mappings`, `plan_mapping_groups`, the connector's key | save a plan's doors and bring its members along; save a key and queue who was parked | L3, L5, BullMQ |
| Holder seats: `admin/routes/multi-member.js` | seats as rows of `member_access` | add, submit, claim, remove, release, renew, cascade | L3, BullMQ |
| Day passes: `core/day-pass-sweep.js`, `core/day-pass-api.js` | claims and links on source rows | claim, link, record, revoke, expire, show | L3, Kisi |
| Login e-mail swap: `core/login-email-swap.js` | log entries | new user, roles, records, delete of the old user | L3, Kisi |
| Location lapse: `core/location-lapse.js` | `billing_subscriptions`, reasons on rows | suspend and activate a place in the background | L3, Kisi |
| Health: `core/hardware-health-check.js`, `core/owner-health.js`, `core/owner-daily-email.js` | marks on connectors, doors and plans; a log row per daily mail | try the key, compare doors and plans, mail; compute the owner's rows, mail once a day | Kisi, Wix, mail |
| Admin pages, portal, mail, logs, branding | tables and pages | CRUD, reading, observability | everything |

How they meet: a webhook becomes a BullMQ job; a worker runs the job under the
member's lock and moves the member's rows and Kisi roles together; the sweep
compares Wix with the rows and puts jobs of its own into the same queue, and
some of its decisions read columns that the jobs write (`status`, the clocks).
Operators' requests answer first and work on the same rows and Kisi users in the
background, without the member's lock. The database and Redis are shared by all
the processes; the only memory that decides anything is the resolver's cache,
the limiter's stamps and the day the daily mail was last sent.

### Hard behaviours

* Two jobs of one person interleave at every Kisi call unless the lock holds
  them apart, and the remaining-count of a cancel is a read that its `removeRole`
  relies on later. The lock's TTL is not renewed and its owner is the job id.
* Kisi may have done what it did not answer; the worker may die between Kisi
  and the row; BullMQ runs the job again, from its start, with the row as it is.
* `member_access.status` is a rollup of rows that eight paths rewrite.
* Wix redelivers after 1.25 s; the handler answers 503 after 1 s and goes on
  working, so deliveries of one event overlap, and the events of an order come
  in any order.
* The sweep removes people. It reads twice, page by page, lists that move; keeps
  clocks over days; and has to be safe against an empty endpoint, a late webhook,
  a crash at any step, a second sweep beside it and its own earlier mistakes.
* Operators, holders and staff in Kisi act between the reads and the writes of
  everything above: doors of a plan, keys, seats, places, labels and users.
* What nobody hears of is not repaired: dead letters, alerts and mails have to
  survive the failures they tell of, and not come twice.

### What makes each part correct

* *Ingress.* What Wix is told is stored is queued; an event becomes one job;
  every event gets there in the end, and to the gym it is for.
* *Jobs and access.* A role in Kisi is on some row; an active row opens its
  door; cancelling one plan takes no door another plan holds; the status is the
  rollup; a deleted person has neither rows nor a user; a cleanup that failed
  has somebody to finish it; jobs end, on the error list if they must, and nobody
  stays `in_flight`.
* *Sweep.* Nobody is removed who either read shows as paying, nor before the
  strike was really earned, nor more than half at once; what lapsed for good
  leaves in the end; a list is whole or refused; every gym's sync comes to its
  digest and its stamp.
* *Orders, passes, seats.* Who does not pay stays out whatever the order of
  events; a paid pass is served or told of, once; a plan seats no more than it
  sold, and who left or was removed has no door.
* *Kisi.* No user is deleted who is not this gym's; nobody is bound to another's
  account; its limit is kept and every request comes back.
* *Operators.* A saved change of doors reaches every member or an alert; a key
  lets in who was parked; a lapse shuts out whom it marks and an activation
  brings back whom it may; a login change never locks a member out.
* *Watching.* A dead key is mailed in time and in measure; the daily mail is true
  of what could be read and missing only when something is wrong.

## 2. Modules

| Module | Models |
| --- | --- |
| `MemberAccess` | one person at one client: the access row, the source rows, the Kisi user and roles, the member lock, the jobs |
| `RemovalPolicy`, `RemovalSweep` | `core/revoke-policy.js` as operators; the sweep of one client with Wix, the webhooks and the worker around it |
| `WebhookIngress`, `EventInbox` | a delivery from Wix to its job and its answer; the inbox it implements |
| `JobQueue` | locks, attempts, stalls, dead letters and the error pages |
| `SweepRun`, `KisiDrift`, `WixLists`, `MemberCheck` | the sweep over all gyms; Pass 3 and Kisi's pages; Wix's pages; the check of one member |
| `OrderEvents`, `DayPass`, `KisiUsers` | an order's events to access; day passes; the users of a Kisi organisation |
| `PlanDoors`, `GymKey`, `KisiRequests` | the doors of a plan; the key of a gym; the rate limiter |
| `HolderSeats`, `LoginEmailSwap`, `LocationLapse` | seats of a household; a login that changes; a place that lapses |
| `GymLink`, `GymSecret` | which gym a webhook is for; the secret and the signature alarm |
| `HealthCheck`, `OwnerDaily` | key, doors and plans of a gym; the owner's hub and mail |
| `MemberAccessProofs`, `AccessRecordsProofs`, `AccessDoorsProofs` | theorems about `MemberAccess`: lock and counts; what is on record; that active opens |
| `SweepProofs` | theorems about `RemovalSweep`, `SweepRun` and `WixLists` |
| `EventsProofs`, `OrdersProofs` | theorems about `WebhookIngress`, `JobQueue` and `HealthCheck`; about `DayPass`, `OrderEvents` and `KisiUsers` |
| `GymsProofs`, `PeopleProofs` | theorems about `OwnerDaily`, `LocationLapse`, `GymLink`, `GymSecret`; about `HolderSeats`, `MemberCheck`, `LoginEmailSwap` |
| `MCMemberAccess`, `MCFaults`, `MCRemovalSweep`, `MCSweepData`, `MCProgress`, `MCDoors`, `MCEvents`, `MCPeople`, `MCOrders`, `MCGyms`, `MCHealth` | the instances TLC checks |

Throughout, **one action is one database statement, one transaction or one call
to Wix or Kisi**, so that jobs, requests, crashes and sweeps interleave where the
code awaits; what is computed between two awaits is one step. A module that
needs another's effect but not its inside takes it as one step and says so. The
modules share no variable: each keeps the part of a row it decides on, and the
instances run side by side those that fit one run.

*Scenarios.* A module with many ways to be disturbed takes a set of scenarios, a
record each: who pays at first, how many edits, requests and faults there may
be, and of which kinds. TLC picks one initially and the counters count down. A
scenario is a bound, never a guard the code lacks. The kinds of fault that came
about are kept in a history variable (`happened` and its like), which the
properties name where the code promises something only without them.

An operator whose comment begins with "Mutation" or "A mutant of" is a plausible
bug of the definition it stands before. It belongs to no specification: put in
the place of that definition it makes the property that guards it fail, which is
how each property was tried.

### MemberAccess

`access` is the `member_access` row, `src` the source rows by plan and group
(`NoPlan` is the NULL plan of a parked row), `kuser`, `disabled` and `kroles` the
Kisi side, `memberLock` the Redis key. A job is a slot `j` with `pc[j]`, `loc[j]`
(the locals of `_processJobBody`, `processGrant` and `processRevoke`) and
`job[j]` (BullMQ's record).

| Code | Actions |
| --- | --- |
| `_processJob`: lock, park when busy, release | `Take`, `Leave`, `LockExpires` |
| the catch: `releaseLock`, retry or dead letter | `Fail`, `Catch`, `CatchFails`, `Leave` |
| worker death and the `stalled` event | `Crash`, `Stalled` |
| grant: `resolveAndLock`, the parks, `resolveIdentity` with OB-80 | `ResolveGrant`, `SkipStarted`, `ParkUnmapped`, `ParkHardware`, `ParkStart`, `ParkIdentity`, `IdentifyCached`, `FindOrCreateUser`, `PurgeRows`, `CacheUser` |
| `processGrant`, `completeGrant` | `ReuseRole`, `AssignRole`, `UserGone`, `DoorMissing`, `EndAssign`, `RecordRow`, `RollUp` |
| revoke: `resolveAndLock`, `processRevoke` | `SkipUnknown`, `ResolveRevoke`, `Scan`, `Count`, `RemoveRole`, `RefuseNullRole`, `DropRow`, `WipeRole`, `CountedAll` |
| `suspendAccess`, `enableAccess` | `SetEnabled`, `SetEnabledGone` |
| `completeRevoke`, `finalizeRevoke` with Guard D | `CompleteRevoke`, `Finalize`, `KeepForeignUser`, `DeleteUser`, `MarkDeleted` |
| `releaseStaleLocks`; the Kisi dashboard | `ReleaseStaleLocks`, `StaffDeletesUser` |

A Kisi call has three outcomes: answered, failed (`Fail`), done with the answer
lost (`lost`). `Fail(j, out)` tells an error that is retried from one that is not
(a 4xx is an `UnrecoverableError`).

Abstractions. A NULL `hardware_platform` and the legacy fallback of
`processRevoke` are left out; duplicate NULL-plan rows of a group are one row;
`FOR UPDATE NOWAIT` and the IN_FLIGHT answer are not there because each resolve
is one step under the lock; a plan that no mapping knows is dead-lettered without
a change of state and is left out; `finalizeRevoke` without an API key, billing
columns and `source_tag` are left out, and what other modules have: day-pass
links (`DayPass`), Guard E and labels (`KisiUsers`), mails (`JobQueue`). The lock
expires only when its owner no longer runs; `JobQueue` has the lock that a run of
more than two minutes loses earlier. A job stalls at most `MaxStalls` times.

### RemovalPolicy and RemovalSweep

`RemovalPolicy` follows `evaluateRemovals`: validity, instability of the two
reads, mass removal per read and in all, the switch, the strike. Instants are
ages; JavaScript shape checks are left out.

`RemovalSweep` has `wix` (what Wix would say now), `row`, `clock`, `seat`,
`history` (the proposals on record, which are a seat's clock), `queue`, and
`sweep`, the run under way with what it read. `Start`, `ReadAgain` (second read
and Pass 1), `Judge` (Pass 1.5, 3B, the decision), then for each removal `Mark` (a
seat) and `Queue`, which may be refused, `Settle`, `Log` are the stages, with a
crash possible between any two of them. The whole decision is one action because it
is one synchronous computation between awaits. The cancellation of a holder's
order is the cascade over their seats, which marks and queues them one by one
(`CascadeLists`, `CascadeMarks`, `CascadeQueues`) and may die and be run again
(`CascadeDies`), and then the holder's own row (`WebhookCancels`). `proof` and
`deaths` are ghosts: what each order and seat has *really* earned, whatever the
stored clocks say; and how often a sweep or a cascade died, or was refused its job,
right behind a mark. The rest is the world: `WixMoves`, the other webhooks,
`RunRevoke`, `Tick`.

Abstractions. A clock's age saturates at `MinAge` and its count at `MinSeen`,
since the policy compares with `>=` only. `declined`, `pending` and unknown
orders are one class, `held`. Pass 3's findings (`KisiDrift`), door repair
(`PlanDoors`), failed clears, failed census reads and missing strike columns are
left out; the kill switches are on; a queued revoke is one step (`MemberAccess`
has its inside).

### WebhookIngress and EventInbox

`processed`, `jobs` (the ids BullMQ remembers), `made` (jobs made of an event),
`req` (each handler and whether its answer went out), `acked`. `Deliver`,
`Check`, `Mark`, `Add`, `Unmark`, `Answer` are the awaits; `BudgetOut` is the 503
after which the work goes on. Faults are switched on by name and counted: `slow`,
`crash`, `add`, `add_lost`, `unmark`, `db`, `db_lost`, `forget` (BullMQ drops an
old job's id; uncounted).

`EventInbox` is what this promises, with no handler in it: each routed event has
a `fate` (`new`, `queued`, `lost`), decided once; Wix is `told` only after; a crash
may lose what was in hand (`Lose`). The promise ends, `late`, when a handler
outlives its answer or an answer of the queue is lost. `KeepsInbox` is the
refinement, with `Fate(e)` computed from mark, jobs and handlers.

Abstractions. Signature checks are `GymSecret`'s, the tenant `GymLink`'s, parsing
`OrderEvents`'. `webhook_log`, alerts and fallback event ids are left out. Wix
does not send an event again before the earlier delivery was answered or broke
off: the budget of 1000 ms is shorter than Wix's 1250 ms.

### JobQueue

`queue` (BullMQ's lists), `runs` (the executions: a stalled job may have two),
`memberLock`, `letters` (failure handlers that nobody awaits), `errorQueue`,
`clicks`. `Take`, `Lock`, `Park`, `Wake`, `Succeed`, `Fail`, `LapsedEnds` are a
run; `Stalled`, `StalledAgain`, `Expire`, `WorkerCrash` what befalls it; `Find`, `Write`,
`Cause`, `Tell` the handler of a final failure (find the row of this cause, count or
insert, look for a recent mail of the same cause, mail); `PressRetry`,
`PressDismiss`, `Resolve`, `AddAgain` the buttons. What a run does to doors is
left to `MemberAccess`; a run succeeds or fails with one of `Codes`.

A job that stalls is given out again once: `startWorker` leaves BullMQ's
`maxStalledCount` at its default of one, and the second stall fails the job in
BullMQ's own check, outside `processJob`. That failure is no `UnrecoverableError`, and
whether the attempts count as spent depends on what BullMQ counts, so `StalledAgain`
leaves open whether there is a letter. `FailuresShow` excepts these jobs, since there
need be none: the very thing that `queue-worker.js:1227-1229` was written against ("no
error_queue row, no operator email, and the panels read "Clean"").

`FailuresShow` says that a failed job is on the list until someone deals with it.
`Resolve` puts a row away without asking what became of the job the click queued:
where that job, or a later one of the same plan, has failed meanwhile, its failure
goes with the row. The history variable `jobHappened` notes it (`crossed`), as it
does a `dismissed` row, and the property excepts both.

### SweepRun, KisiDrift, WixLists and MemberCheck

`SweepRun` is `runNightlySweep`: `TimerFires` (gyms whose `last_sync_at` is old),
`NextGym`, the sync (`Acquire` the advisory lock, `Read`, `Rows`, `Look`, `Insert`,
`Close`), `ReleaseStale`, `Replay` of failed grants, `Lockdown`, the digest
(`DigestRead`, `DigestGym`, `Send`) and `Stamp`, for several processes and the
manual sync (`Press`) beside them. A gym has one member here and whom a sync
removes is not modelled again.

`KisiDrift` pages through users and roles while people are removed, join, are
promoted and granted (`ReadsPage`, `PageFails`), and judges each member (gone on
two sightings, drift, unsure). `WixLists` walks orders by offset and bookings by
cursor side by side, twice (`ReadsPageOf`, `PageBreaks`, `SecondReadStarts`,
`Folds`), while the lists gain, lose and move entries (`Reorders`). A page of orders
is what stands at its offset now (`PagesAt`); a page of bookings may be any bookings
not given yet, since the code knows nothing of how the cursor orders them. History
variables say what stood all along, which the program cannot see.

`MemberCheck` is `reconcileMember`: reads Wix, Kisi and the rows in three steps
(`ReadsWix`, `ReadsKisi`, `Judges`), with purchases, cancellations, lost webhooks
and jobs in between. Its answer (`result`) is kept until something changes.

### OrderEvents, DayPass and KisiUsers

`OrderEvents`: a plan order goes through Wix's statuses and payments
(`OrderChanges`), each change sends an event with the order as it then was,
events are delivered and jobs run in any order (`Deliver`, `RunJob`), and a sweep
reads the orders themselves (`Sweep`). The parser's and the router's branches
decide which job an event is; a job is one step. `everPaid` is a history.

A purchase whose start lies ahead is parked (`Park`) in a row of the door that is
under no plan: `plan-mapping-resolver.js:140-153` names none, and
`parkPendingStart` writes what it is given. So `parked` stands beside `row`, the row
under the plan: no start turns the one into the other, no cancel deletes it, and
`TakeAway` counts it as another source of the door.

`DayPass`: `Buys`, `Echoes` (Wix sends a purchase several times), `Refunds`, `Ends`;
per worker `Starts`, the claim, the link, the record and the release of
`_runDayPassGrant`; the revoke; `SweepsRow`, `SweepsLink`; and the buyer's page.
Two workers run one buyer's jobs when the member lock is lost.

`KisiUsers`: accounts that share an e-mail, in one gym or in two of one
organisation. A grant finds or creates (`FindsUser`, `Creates`, `CreateConflicts`,
`RefindMisses`), labels (`ReadsLabel`, `PatchesLabel`, `Confirms`), saves, assigns;
a revoke passes Guards E and D request by request (`ChecksSharers`,
`ChecksOthers`, `ChecksMarker`, `ChecksRoles`, `Deletes`, `Purges`). Staff act
(`StaffActs`) and the migration script, which stamps the gym it read before
(`ScriptTakes`), runs in between; Kisi treats
metadata in each of the ways `MetaWays` lists, as the code cannot know which.

### PlanDoors, GymKey and KisiRequests

`PlanDoors`: `mapping`, the source rows and roles by member, plan and door, and
`hand`, where each save and the sweep's door check are: `Open`, `Write`, `Gather`,
`SaveGives`, `SaveTakes`, `Record`, `Check`, `Unlink`, `Drop`, `Close`, and for the
sweep `SweepReads`, `Match`, `CheckDoors`, `SweepGives`, `Cap`, `SweepTakes`. The
grant job is there as far as doors go. A process that dies loses the rest of
its save (`AdminDies`).

`GymKey`: `conn` (a connector row with and without a key), `parked` rows (under no
plan, as in `OrderEvents`) and `recorded` ones (the plan's), the two places a key is
saved from (`OperatorSaves` queues the parked, `AdminSaves` does not), the jobs that
read the key and park, give and record, and the sweep. A saved plan mapping would
queue the members parked under its plan (`operator.js:463`); no row is, so that this
changes nothing and is no action.

`KisiRequests`: the limiter's `stamps`, callers that ask, sleep, send, get a 429 and
pause (`Asks`, `Wakes`, `Answered`, `TooMany`, `TriesAgain`), in ticks of time.

### HolderSeats, LoginEmailSwap and LocationLapse

`HolderSeats`: `holder`, `seat`, `cycles`, the hub's requests cut at each await
(`Hub`, `HubGoesOn`), the grant, revoke, cancel and renewal jobs as far as a seat
goes, the end of the order with its webhook or without, and what the sweep
repairs. `answered` holds what the hub has promised. The holder's access row is kept
beside the source row and the role: a revoke looks for one of the two rows
(`HolderLocks`) and ends quietly when both are closed, which the sweep may have seen
to by then (`SweepUnseatsHolder`, `SweepRollsHolderUp`); it may also fail
(`HolderRevoked`). A job that fails rolls the access row up (`releaseLock`); that this
write fails too is left out. The mark of a lapsed seat and its queued revoke are one
step here, with the refusal that may come between; `RemovalSweep` has them apart.

`LoginEmailSwap`: the steps of `runLoginEmailSwap` (look, rows, create, assign,
commit, delete, and the undo of each), a worker that dies, a login that changes
again, and what runs beside it without the member lock: a lapse, an operator
mapping a door, staff in Kisi.

`LocationLapse`: `billing`, `placeRow`, `patron` (the access row and Kisi's one
flag), requests that suspend and activate a place, one member after another, in
the background (`Suspend`, `Activate`, `PatchActive`, `Background`, `Dies`), beside
the payment jobs of the same members (`Declines`, `Recovers`, `Purchases`,
`JobGoes`).

### GymLink and GymSecret

`GymLink`: the table `gyms`, the resolver's `cache`, the webhooks in work (header
first, then site, each from the cache or the table), registrations that nobody
waits for, and the owner's edits. `last` and `calm` are histories: when the table
last gave this gym for this key, and when it last changed.

`GymSecret`: `OpenPage`, `Mint`, `Reread`, `MintQuietly`, `Replace` over the stored
secret; `Webhook` and the watcher's `Push`, `Look`, `Arm`, `Mail` over the Redis
window and cool-down.

### HealthCheck and OwnerDaily

`HealthCheck`: a run over the locations that share one connector (`CheckStep`: try
the key, record, mail, mark doors and plans), the scheduler's timer, operators
who change the key and Kisi groups that go. `OwnerDaily`: `Rows` computes what the
hub shows of the `facts` the queries gave, some of which may have failed;
`AskScheduler`, `AskLog`, `ComputeHealth`, `SendDaily`, `WriteRow` are the mail of
the day, with `Die` and `Boot` in between.

## 3. Runs

All bounds are in the `.cfg` or in the scenarios of the instance: `MaxFaults` and a
scenario's `faults` count everything that goes wrong, `MaxAttempts` the tries of a
job, `MaxStalls` its crashes, `MaxIds` the Kisi ids (never reached, as fewer objects
are made than that). `CHECK_DEADLOCK FALSE` stands in the runs because each system
may come to rest: the job slots are used up, or Wix, the operators and the
scenario have nothing more to do. `JobSymmetry` and `SeatSymmetry` permute
interchangeable job slots and seats and are used where no liveness is checked.

Most instances hold several modules side by side. A variable `part` (in `MCPeople`
the scenarios themselves) picks initially the one that runs, and the others rest
in one fixed initial state, so that the states add up and do not multiply. The
modules share no variable, so a run of all of them at once would show nothing
more.

| Run | Checks | Shows |
| --- | --- | --- |
| `core` | `TypeOK RecordsHold CountStands OtherPlansKeepDoors` | Three jobs out of purchases, cancels and a deletion, two plans `a` (door 1) and `b` (doors 1 and 2), two faults, one stall. Every role is on a row, the status is the rollup, a deleted person has nothing left, and a cancel leaves the shared door to the other plan. |
| `faults` | `RowsAreTrue RemovingHasOwner` | Three jobs out of purchases, starts, failed and recovered payments, cancels and the sweep's finish job; grants parked for each reason; a Kisi user of other origin whom staff may delete; a plan without a door. Up to three faults (`FaultsBound`), enough for a finalize to fail on both tries. |
| `sweep_strike` | `TypeOK SpareThePaying StrikeEarned` | One member's two plans on two reads, every class, webhooks, declines, unreadable clocks, crashes; a strike takes an age of 1 and 2 sightings, so that a clock can be young, ripe or half ripe. |
| `sweep_data` | `NeverHalfAtOnce DeathsStrandOne ListsHold` | Two members, one with two seats, with empty reads, webhooks, refused jobs and crashes of the sweep and of the cascade; no strike is needed (`MinAge = 0`, one sighting), so that the cap and the two reads are all that protects anybody. Beside it four orders and two bookings in pages of two and one, over two reads, with two edits between pages. |
| `progress` | `OneOfEach SweepsDeliver VanishedIsFound GrantsEnd LapsedLeaves` | Liveness of four parts: two jobs of a member with a plan that has no door, a future start, missing e-mails, two faults; three members and a seat under the strike; the syncs of two gyms by one or two processes and by hand, with failing reads, mails, locks and crashes; Kisi's lists of three members and a visitor, in both orders, moving or still. |
| `doors` | `DoorsHold DoorsSettle ParkedGetsIn RequestsComeBack` | Saves of a plan's doors, one after the other, that cross a purchase or a sweep, with calls, rows and processes that fail (two saves at once are in section 6); a key saved late or spoilt, for a gym of one platform and one whose operator names a second; three callers at a limit of two in a window, with 429s. |
| `events` | `TypeOK AckedIsQueued QueueHolds KeepsInbox EventsSettle` | Two overlapping handlers, an event that has a route, one of no tenant, one misshapen, all eight faults, three of them at most; three jobs of one person under first and second stalls, crashes and lost keys; failures of one cause and of two, with the Retry and Dismiss buttons. |
| `people` | `SeatsHold SwapHolds PeopleSettle ChecksHold` | A holder and two seats over six requests in turn, an order that ends under open requests, renewals; a login that changes once or twice with every call failing; the check of a member with every kind of mapping. |
| `orders` | `OrdersHold PassesHold OrdersSettle KisiHolds` | One order over five changes in order, with starts that are parked, four out of order, two orders over three; day passes bought thrice, refunded, cut short; a Kisi user of two accounts, of two gyms, made by hand, deleted or promoted by staff. |
| `gyms` | `SecretsHold PlacesHold LinkHolds` | Two gyms and two sites behind a cache of two ticks; two pages and two watchers; two patrons of a place, and one patron whose payments fail, under crossing suspensions and activations. |
| `health` | `DailyHolds HealthHolds MarksSettle` | Two locations on one key, with a refused, a replaced and an unreachable one, doors and plans that go and come; two gyms over two days of three quarters of an hour, with three failures. |
| `park_over` | `EndedIsOut` *violated* | see section 6 |

Why the bounds suffice. The interesting interleavings of `MemberAccess` are
between two jobs and a third that was retried; the lock leaves one run at a time
and the state between runs is small. In the sweep, members enter the policy only
as counts, and two and three are on the two sides of the rounding of half; the
theorem `HalfStay` covers the other numbers. In the ingress, events meet only
through the fault count. For pages, the smallest list that has a boundary inside
and one past its end is three entries with pages of two. For the limiter, one
caller more than the limit. A household of two seats is the smallest where one
request acts on another's seat. Requests of operators cross in pairs: each
reads, then writes, and a third would only repeat one of the two. Where a run's
property is also a theorem (section 5) the bound no longer matters. The passing
runs together reach every action and every disjunct of the next-state relations.

*What a property leaves out, it names.* Many properties have an antecedent over the
history of faults or the scenario (`Sound`, `Late`, `CutShort`, `patient`, `apart`,
`calm`). Each antecedent is one of three: the fault with which the promise is
broken in the code, listed in section 6; a request that crosses another where the
code says nothing; or an operator's edit in between. The comment on the property
says which.

## 4. Fairness

Weak fairness throughout, of the steps a scheduler of the program or of its
platform takes by itself. Faults, edits, purchases, webhooks nobody has to send,
staff and operators have none.

* *Jobs* (`RunStep` in `MemberAccess` and `JobQueue`, `Works`, `GrantStep`,
  `RevokeStep`, `SeatJob`, `SwapStep`, `RunJob`, `RunRevoke`, `PassGrantStep`): a
  BullMQ worker takes what waits and retries what failed, JavaScript runs on, a
  stalled job is moved back (`Stalled`), a parked one comes due (`Wake`).
* *Redis* (`LockExpires`, `Expire`): a TTL runs out.
* *Timers* (`ReleaseStaleLocks`, `SweepSteps`, `SweepStep`, `Sweeps`, `DriftStep`,
  `SweepsRow`, `SweepsLink`, `SweepLapses`, `Tick`, `DayPasses`): the
  cron of `server.js` and time. A sweep that is killed each time makes no progress
  in the code either: crashes are bounded, or absent from that part.
* *Wix* (`Deliver`): an event is sent again, up to 12 times over about a day
  (`wix-connector.js:27`); the bounded faults are over by then.
* *Work in the background* (`SaveStep`, `StepOfBoth`, `HubGoesOn`, `LetterStep`,
  `ClickStep`, `QueuesRetry`, `MapGives`): a promise nobody waits for is settled all
  the same, as long as the process lives; its death is a fault of its own.
* *Requests to Kisi* (`RequestTick`, `RequestStep`): timers fire and Kisi answers, or
  the 15 s of the abort pass.
* *Pages* (`Polls`): an open page of a buyer polls.

A joint run states each of these for the part at work, `WF_v(part = "x" /\ A)`; the
actions enabled are those of the module's own fairness formula.

## 5. What is proved

For every value of the constants that satisfies the `ASSUME`s, by TLAPS. Each
theorem rests on an inductive invariant, defined in the component's module or
beside the proof, which TLC has checked on the run's instance first.

**MemberAccess** (`ConstantsAssumption`: `DoorsOf` maps plans to sets of groups,
`NoPlan` is no plan, `NoJob` no job, the bounds are naturals; nothing is
finite.)

* `TypeCorrect == Spec => []TypeOK`. Types alone are not inductive: `RecordRow`
  writes a row under the job's plan, which is a plan only because of `KindsFit`.
* `CountIsNeverStale == Spec => []CountStands`: from the read of the remaining
  count to the `removeRole` it decides, no row of another plan appears on the
  group.
* `OtherPlansAreSafe == Spec => OtherPlansKeepDoors`, a property of steps.
* `RemovingIsOwned == Spec => []RemovingHasOwner`: whoever is `removing` has a
  cancel, deletion or finish job that is not done.

The inductive invariant of the first three is `IInv`: `TypeOK`; `Serial` (a run
under way owns the lock, hence is the only one); `KindsFit` (a run stands where
its kind of job can stand); `IdsAgree` (a role id, wherever it is written down,
names one group); `IdsIssued` (what is written down was minted, so that a new id
is new); `CountStands`. `Serial` gives `CountStands`: whoever would add the row
holds the lock, and so is the cancelling run itself. `CountStands` and `IdsAgree`
give `OtherPlansKeepDoors`: the id removed is an id of this group, and nobody else
has a row there. `RemovingIsOwned` has `OwnerInv`, which follows the job that set
the mark through its failing tries: until its own last write changes the status,
the job that left somebody `removing` is neither done nor gone.

What is on record is in `AccessRecordsProofs`. The statements are false without
some of what follows (section 6 has the counterexamples), so each theorem names as
an assumption on the constants just what it needs; staff deletions, lost answers,
crashes, stalls and retries are admitted in all four.

* `TheDeletedAreGone == Spec => []GoneForGood`, without an assumption: nobody marked
  `deleted` still has the Kisi user on record. From `FinalInv`: a revoke works on
  the user of the access row, and nobody is taken out of `deleted` but by a grant,
  which drops the dead id first.
* `StatusIsKept`: if every plan opens a door (`EveryPlanOpens`), `Spec =>
  []StatusIsRollup`. From `StatusInv`: as long as the status is not the rollup some
  job is neither done nor gone, because no run ends well before it has put it right.
* `RolesAreKept`: if the only park is the one for a missing e-mail (`ParksEarly`),
  which comes before Kisi is asked for anything, `Spec => []RolesAreTracked`. From
  `TrackInv`, which has to say at each step of each job what the run knows of Kisi's
  roles. `RolesFit`: they are all the recorded user's, one for a door, and a row on
  the door has that one's id. `GrantFit`: whoever has to find or make the user, or
  has met a 404 and starts over, does so when no role is left; what a grant has in its
  hands agrees with Kisi. `RevokeFit`: a row is deleted only when its role is gone or
  the door has another row, and a wipe still has before it every role on a row.
  `Followed`: a role without a row is one that a grant has still before it or failed
  on; that grant is not done, so that at rest there is none.
* `RecordsAreKept`: with those and no pauses (`NothingPaused`), `Spec => []RecordsHold`,
  as `core` checks. `PlainRows` adds that all rows are active, and so are seen by
  the count that guards the finalize.
* `RowsAreKept` (`AccessDoorsProofs`): if no two plans share a door (`DoorsApart`),
  nothing is paused (`NothingPauses`), and there is a deletion only where no grant is
  parked halfway (`ParksAreFollowed`), `Spec => []RowsAreTrue`, as `faults` checks:
  plans without a door, parks, staff and every fault admitted. From `OpenInv`: an
  unparked row stands on a door of its plan and is good, that is Kisi has a role there
  (`Has`), or the user on record is not the one who lives in Kisi (`Gone`), or a cancel
  or a deletion that is not done will delete the row (`Owed`). The last is what makes a
  failed cancel harmless: the role it has taken off already is missing from a row that
  it still owes. With a shared door a grant copies such a row, and nobody owes the
  copy. Parked roles and rows come in by `RowsFit` and `Followed`, which say what is
  so of them as well.

**RemovalSweep** (`PolicyAssumption`, `SweepAssumption`: orders and seats are
finite and disjoint, seats ride on orders of the orders read, `MinSeen > 0`).

* `TypeCorrect == Spec => []TypeOK`.
* `StrikesAreEarned == Spec => StrikeEarned`, from `StrikeInv`: a stored clock
  never runs ahead of the ghost `proof`, and what a sweep still has to remove
  has earned its strike. The second half is needed since the removal happens
  steps after the decision, when the clock may be gone.
* `ThePayingAreSpared == Spec => []SpareThePaying`, from `SpareInv`: the better of
  the two reads calls every target `ended`, and `Best` lets that happen only if
  neither read is any better.
* `HalfStay == Spec => []NeverHalfAtOnce`, from `CapInv`: the removals done *and to
  do* keep within half together. It rests on lemmas about finite cardinalities
  (`FewerMembers`, `NotTooMany`, `FlushIsSparing`).
* `MarkedHaveTheirRevoke == Spec => []DeathsStrandOne`: the seats that are marked
  `removing` and have no revoke are at most as many as the deaths and refusals that
  fell between a mark and its revoke, whatever crosses. From `MarkInv`: the sweep has one
  marked seat in its hands at most, and a cascade one for each order
  (`MarksAreSingle`), so that a death leaves one seat and not a family. That there
  are such seats at all is in section 6.

**SweepRun** (`SweepRunAssumption`).

* `AlertsAndMailsAreOne == SweepSpec => []OneOfEach`, for any number of gyms, processes
  and faults. The invariant (`SweepRunInv`) has who holds what: `OneSyncEach` (a
  process has one sync at a time, of a gym that was due), `LocksAreHeld` (a sync past
  the lock owns it, unless the lock could not be asked for, when the code goes on
  without), `OneAlert` (who is about to insert still finds the table as it looked),
  `OneSweep` and `OneMail` (a mail that went out is in the log, and who is about to
  send has not sent; the log's failure and a second process are the exceptions).
* `DecidedStaysQuiet == SweepSpec => QuietOnceDecided`: what a gym put away is not
  opened again by a sync that looked before and inserts after.

**WixLists** (`WixListsAssumption`; nothing about the lists, the page size, or how much
changes between two pages).

* `ListsAreWhole == ListsSpec => []ListsHold`: a walk that ends is whole unless an entry
  left its list meanwhile, and the two reads together misread nobody who paid all
  along, unless his list lost an entry in both, and call nobody paying who never did. From `ListInv`. Its heart is `PagesWereFull`:
  as long as no order left the list, the pages behind the walk were full and gave
  nothing twice, so that the offset is the number of entries got. A short page then
  ends a walk that has at least as many entries as the list, and so all of them; this
  is a pigeonhole on a stretch of the sequence (`StretchCounts`). Bookings, read by
  cursor, are whole because a page is of what was not given yet. `FirstReadRight` and
  `SecondReadRight` keep, for each read, what it may have missed tied to an entry that
  left during that read.

**WebhookIngress** (`IngressAssumption`).

* `TypeCorrect == Spec => []TypeOK`.
* `NoEventTwice == Spec => []OncePerEvent`: until a handler outlives its answer or
  the queue's answer is lost (`Late`), no event becomes two jobs, whatever
  crashes, fails to unmark or is forgotten. From `OnceInv`: a handler past the
  check works on an event that has no job, and what has a job is marked.
* `NothingAckedIsLost == Spec => []AckedIsQueued`: with slow handlers or with
  refused jobs, but not with both (`Sound`). From `AckInv` while handlers answer
  in time, by which a mark stands for a job or for a handler that will queue it or
  take the mark off; and from `AddInv` while the queue refuses nothing, by which a
  mark is only taken off what has a job.
* `TheInboxIsKept == Spec => KeepsInbox`: the ingress implements `EventInbox`. Each
  action maps to a `Queue`, `Tell`, `Lose` or `Slip` of the inbox or to a stutter.
  The step that needs the invariant is a crash: it loses at once every marked
  event of the handlers that die, and only those that had no job.

**GymLink** (`LinkAssumption`: gyms and sites are disjoint, `Ttl > 0`; `Lag` may be
anything).

* `TypeCorrect == LinkSpec => []LinkTypeOK`.
* `LinkHoldsAlways == LinkSpec => LinkHolds`: a kept answer was true of the table
  within its age and one webhook's life; an event is queued only for a gym the
  table gave for its header or site within `Ttl + 2 Lag`; when the table had been
  left alone that long, the verdict is the table's; and only an edit of the owner
  moves a link once made. From `LinkInv`: a site has one gym (`OneGymPerSite`, the
  unique index), the histories `last` and `calm` are true of the table, and what
  each handler holds is as recent as where it stands allows (`AnswersAreRecent`,
  `AnswersAreRight`). Without the uniqueness an old answer could not be compared
  with the present one at all.

**OwnerDaily** (`DailyAssumption`).

* `MailCanBeTrusted == DailySpec => []DailyHolds`: the subject says all clear exactly
  when no gym is unwell; a query that failed makes no gym red; a quarter of an
  hour in which nothing failed ends with the day's mail out; and a day without a
  failure has one mail. The first two are case analyses of `Rows` over all facts
  and all sets of failed queries; the others need `MailInv`: memory and log are of
  today only if a mail went out, and without a failure a second one is never on
  its way.

**LocationLapse** (`LocationLapseAssumption`, and in the theorem that every scenario
gives a patron one place).

* `PlacesAreKept == LapseSpec => []PlacesHold`, for any number of places, patrons,
  requests, payments and faults of every kind. The invariant (`LapseInv`) has a part
  for each promise: `RolledUp` (outside a job the access row is the rollup);
  `ShutWhileLapsed` (a marked patron is on in Kisi only on the way to an active
  row); `OutIsAccounted` (whoever stays marked at an active place is declined,
  alerted, or on the list of a run under way); `DeclinedIsHeld` (from the moment
  Kisi knows of a failed payment no list under way would undo it). The assumption
  stands because Kisi has one flag for a person and all places: with two places
  the statement is false (section 6, `TwoPlaces`), by a conflict of the two places
  and not by an interleaving.

**JobQueue** (`JobAssumption`: ids are `1 .. n`, every scenario's jobs are finite and
have ids, `Attempts > 0`).

* `JobsAreKept == JobSpec => []QueueHolds`, for any number of members, plans, jobs,
  attempts, clicks and faults of every kind. The invariant (`QueueInv`, in
  `EventsProofs`) has a part for each promise. `RunsApart`: where no job is given
  out twice, every run is its job's only one and works under its own key; without
  the uniqueness, a run that ends would free the key of the job's other run.
  `InSight`: a failure, unless BullMQ failed the job for stalling, has a letter that is
  still to be written (`Written`), an open row of its plan (`Listed`) or a later retry
  (`SentRound`); a click that puts the
  row away must therefore know its job by the row (`ClickFits`). `Telling`: a row of
  which nobody is told yet has its letter, and a spared one an earlier row of its
  cause that was not spared: it is not enough that somebody was about to be told,
  for that row may yet be spared itself. `FirstsOnly`: who is mailed, or about to
  be, has no fresh row of its cause before it. That a run's number exists is the
  pigeonhole on the runs (`RunNumber`), that there is a last matching row the
  well-foundedness of `<` (`LastOne`).

**DayPass** (`DayPassAssumption`; where an order may be refunded, no run dies between its
claim and its record and the member lock holds: `RefundsAlone`).

* `CodesOfADoor == PassSpec => []PassesHold`: a door of an order has one code that Kisi
  confirmed, and only what is over or refunded is taken. From `PassInv`, in which two
  arguments meet. Between claim and record a door is held (`Apart`: its row is pending,
  and no other worker holds it), and held without a code only if it has none
  (`GrantFits`). Once there is a code, a row stands in the way of the next claim
  (`ToldFits`) until a revoke or the sweep drops it, and then the code is gone
  (`TakeFits`). A refund drops pending rows, too. The code that a run made before it
  died is then in nobody's way, and the next purchase of the same order makes a
  second: hence the hypothesis (section 6, `RefundedOddly`).

**OrderEvents** (`OrdersAssumption`: a member's orders are finitely many).

* `OrdersAreFollowed == OrdersSpec => []OrdersHold`, for any orders, events, parks and
  sweeps. Who never paid stays out: `UnpaidFits` says of every event on its way and
  every job what it may ask for. A grant is of an order that was active and paid, or it
  is of a start ahead, which is parked and opens nothing until the order starts; the
  parser's guard and the sweep's classes keep it so. The door follows the events of one
  order told in order: `ToldInOrder` replays them. `OnTheWay` says that the events after
  the q-th lead, change by change (`Change`), from the order as it was told so far to
  the order as it is; `DoorSays` is what that order, as told, says of the door, once
  its last job has run (`JobIsRun`) or when it is about to (`JobToRun`). When nothing is
  on its way, what was told is what is. An order that was parked, started and ended is
  told in order, too, and is in: the statement excepts it, and `park_over` shows it.

**KisiUsers** (`KisiUsersAssumption`: the script is no account, and nobody's marker is
`none`).

* `OnlyOursAreTaken == PeopleSpec => KisiHolds`, for any accounts of one e-mail in any
  gyms, any jobs, edits by staff, ways of Kisi with metadata, and failures; its last
  part is an action property. From `PeopleInv`. `MarkersFit`: a user's markers name
  whoever made it or nobody, and what staff remove names nobody, so that a read
  which finds the client's marker is still right about the maker when the user is
  deleted, whatever came between (`AccountFits`; who made a user never changes).
  `LabelFits`: whoever stamps a user stamps its maker, which for the script is so
  because it takes only users whose notes name one client. The other half holds where
  jobs take turns (`apart`), a condition inside the properties because TLC breaks them
  without it (section 6). Then `TurnsFit` says that what the one job at work has read
  is still so: nobody shares the user once Guard E has passed (`GuardsHold`), the
  role just put on is there when it is recorded (`KeepsDoor`), and a PATCH carries
  the keys the user has (`ReadFits`).

**HolderSeats** (`HolderSeatsAssumption`; households that ask one thing at a time (`patient`) have
a plan of at least one place, no renewals, and no job that the queue refuses:
`Orderly`).

* `PlacesOfAHousehold == SeatsSpec => []SeatsHold`. Each endpoint counts before it
  writes, so the invariant (`Patient`) has to keep the place free in between: for the
  draft of the open request (`AskFits`), and for a holder who claims until the grant is
  done (`HolderFits`). `SeatFits` follows a seat from its draft to its door and out: who
  was removed has a revoke under way as long as there is a role, or one that failed. A
  holder who left has a revoke under way, or no role, or is one of those who
  keep it (`KeepsRole`): the sweep closed the row before the revoke looked for it, or the
  revoke failed, which is on the error list. A renewal seats a
  holder who left, and a claim whose job was refused has flipped the flag and grants
  nothing, so that a later release frees a place that was never taken (section 6).

**MemberCheck** (`MemberCheckAssumption`).

* `ChecksAreSafe == CheckSpec => []ChecksHold`, for all plans, doors and crossings: no
  check takes a door from anybody, as its one branch that would is behind a verdict
  that comes first; and where nothing changed under it (`calm`), "ok" is true. From
  `CalmReads`: what a calm check has read is still so when it judges.

**LoginEmailSwap** (`LoginEmailSwapAssumption`, and `SwapsApart`: no worker dies between the commit
and the delete; the jobs run in order where a swap may leave a half-built user
behind; and where the login does change no door is mapped meanwhile, no lapse falls
into a swap, and no suspended member is resumed).

* `SwapsAreSafe == SwapSpec => []SwapHolds`. From `SwapInv`: `UserFits` (each row names
  the user on record and a role of theirs, and that user is on just when nobody is
  suspended), `RunFits` (what a swap read is still so at each of its steps, and the new
  user has the roles done so far), `NobodysFit` (every user in Kisi but the one on
  record was told of, is in the hands of a swap, or will be found by the job that
  made it, which runs next). Each part of `SwapsApart` is there because TLC breaks a part
  of `SwapHolds` without it (section 6).

**GymSecret** (`SecretAssumption`: window, cool-down and threshold are positive).

* `SecretsAreKept == SecretSpec => []SecretsHold`: a secret that was shown stays the
  stored one until somebody replaces it, and a window full of wrong signatures has
  its mail while Redis answers. From `SecretInv`: `CountedOnce` (a failure is counted
  or about to be, and once), `CoolAfterArm` (the cool-down key lives as long as the mail
  is recent), `QuietIsAnswered` (after the cool-down a full window is in the hands of
  a watcher, or nothing came since).

**HealthCheck** (`HealthAssumption`: a run is shorter than the period, a day and the
period are positive, and no name is both a door's and a plan's).

* `DeadKeysAreTold == HealthSpec => []HealthHolds`, for any locations, periods, edits and
  failures. The connector has one stamp for all its locations, so the invariant
  (`HealthInv`) follows the stamp and not a location: `NeverStamped`, `StampedToday`
  and `StampedBefore` name for each age of the stamp a location that waited no longer
  than the stamp allows; `Apart1` says that who was mailed within a day left a stamp
  that the run has read, unless a success came between; `Told1` that what was mailed is
  marked, and what is about to be mailed was not. The bound counts a run twice: the
  mail may come early in one run and its stamp late, and the next mail late in another.
  A bound with one run holds in `health`, where a run takes one tick (`Lag = 1`), and
  fails for `Period = 3`, `Day = 5`, `Lag = 2`; it was the proof that showed so. It is
  about some location of the gym, not each: one that was visited just before the stamp
  turned a day old waits on while another's mail renews the stamp.

**Model-checked only.**

* Liveness (`GrantsEnd`, `LapsedLeaves`, `SweepsDeliver`, `VanishedIsFound`,
  the two of `EventsSettle` (`EventsArrive`, `JobsComeToAnEnd`), `DoorsSettle`,
  `ParkedGetsIn`, `RequestsComeBack`, `MarksSettle`, the three of `OrdersSettle` (`SweepSettles`, `PassesSettle`,
  `EveryoneIsSettled`), and the three of `PeopleSettle` (`SeatsFollow`, `LoginFollows`,
  `ChecksRepair`)) is beyond the prover, as it needs `ENABLED`.
* `DoorsHold` holds only within the bounds of its scenarios: with three saves of one
  plan both of its parts fail (section 6, `ThreeSaves`), so that no theorem for every
  scenario could state it.

## 6. Where the code and its words disagree

One is a run of its own. `park_over`: a plan bought ahead is parked in a row under no
plan. `standard-adapter.js:1944-1945` says of it "When orderStarted arrives,
grant-revoke flips the source row to 'active'", but the start writes a row of its own
beside it. When the order ends, the cancel counts the parked row as another source of
the door (`grant-revoke.js:807-816`) and keeps the role; the plan's own row goes, the
user, who holds a role, is not deleted, and the sweep's census and its check of doors
have no row to go by. The door stays open, against `EndedIsOut` and
`docs/OPERATOR_FAQ.md:30`: "AccessSync removes their door access at the next sync".

TLC refutes each of the following, too. They are stated as definitions in the
modules, next to the property that does hold; to see a counterexample, put the
definition into the `INVARIANTS` or `PROPERTIES` of the run's `.cfg`, with the scenario
set named, where one is, in the place of the run's.

*Jobs and access* (`MemberAccess`; `JobQueue` in `events`)

| Property | What happens |
| --- | --- |
| `ActiveRowsOpen`, in `core` | `removeRole` is done, its answer lost, the row stays active with a dead role id; a purchase of another plan of that door takes the row as proof of access (`grant-revoke.js:127-131`). The member pays and has no door. |
| `CancelIsFinalized`, in `core` | An error between the last row's DELETE and `completeRevoke`: the retry finds no member (`queue-worker.js:960`) and the account is never finalized. |
| `StatusIsRollup`, in `faults` | A purchase of a plan without a door sets `inactive` on a member whose other plan is active (`queue-worker.js:712`). |
| `DeletedIsFinal`, in `faults` | A cancel deletes the account of a person whose other plan is parked for a future start; the guard counts active rows only (`queue-worker.js:1081`). |
| `StartedFlipsParked`, in `faults` | `plan.started` writes a row of its own and leaves the parked one pending, though `standard-adapter.js:1944-1945` says it is flipped. |
| `RowsAreTrue`, in `faults` with `DoorsOf <- SharedDoors` | A cancel takes the role off and fails before its row is gone; a purchase of the other plan copies the dead role id into a row of its own, as in `ActiveRowsOpen`. The cancel's retry then drops the row it knows. |
| `RowsAreTrue`, in `faults` with two groups, `OwnDoors` and five jobs, even under `OneAfterAnother` | The guard before a finalize counts active rows, so that cancelling one plan finalizes a member whose other plan is paused. The next purchase of that plan makes a new user and takes the paused row, with the role id of the deleted one, as proof of access. |
| `FailuresShow` with `HasFailed(j) == queue[j].at = "failed"` | BullMQ fails a job that stalls twice in its own check. That error is no `UnrecoverableError` and the attempts need not be spent, so that `worker.on('failed')` writes no row: the case that `queue-worker.js:1227-1229` speaks of, for another error. |
| `RowsKeepTheirEvent`, with `Alike` | A removal that fails is counted on the error row of a grant that failed alike; its Retry sends the grant. |

*Sweep* (`RemovalSweep`, `SweepRun`, `KisiDrift`, `WixLists`, `MemberCheck`)

| Property | What happens |
| --- | --- |
| `SeatStrikeEarned`, in `sweep_data` with a strike (`MinAge = 1`, `MinSeen = 2`) | A seat's strike is every proposal ever made of it (`reconciliation.js:612`), with no reset when the holder pays again: the second lapse is ripe at once. |
| `NobodyStranded`, in `sweep_data` | A seat is marked `removing`, the sweep or the cascade dies or the queue refuses its revoke before it is queued (`reconciliation.js:2243-2244`, `queue-worker.js:171-198`), and no pass looks at it again. `DeathsStrandOne` says that it is one seat for each such death. |
| `ClearsAlwaysRun`, in `sweep_strike` | A row that `payment.failed` suspended is in no census (`reconciliation.js:1947`), so its clock runs on through declined reads. |
| `FreshMeansSynced` | The sweep stamps every gym that was due, also one whose sync was aborted by a failed read, which the comment in `operator.js` on the manual sync forbids. |
| `DriftIsFact`, while lists move | Somebody leaves the list between two pages, and a member on the page's edge is skipped: reported without a door who could always open it. |
| `NeverPartial`, with `Shrinking` | An order leaves the list between two pages, and one that stood is skipped: the walk ends and is not whole. The two reads and the policy make it harmless (`PayersAreSeen`). |
| `LapsedIsRemoved`, with `JustOne` | `reconcileMember` never queues the removal its comment promises ("access_removed"): the verdict on a member without a plan comes first. |
| `OkIsIn`, with `JustOne` | "ok" is said of a member whose Kisi user is disabled. |

*Ingress and gyms* (`WebhookIngress`, `GymLink`, `GymSecret`)

| Property | What happens |
| --- | --- |
| `AckedIsQueued` without its antecedent `Sound` | Behind a 503, a redelivery is acknowledged as a duplicate; if the queue then refuses the first handler's job, the mark comes off and nobody sends the event again (`webhook-processor.js:258`). Likewise a crash between the mark and the queue (`webhook-processor.js:118`). |
| `NeverRedirected` | A header names a gym that does not answer (archived, or the lookup failed), and the site alone decides: the event goes to another gym. |
| `OneAlertPerWindow` | Two runs of `recordFailure` read the cool-down key before either sets it, and both mail. |

*Orders, passes, Kisi users* (all in `orders`)

| Property | What happens |
| --- | --- |
| `PayingGetsIn` | A pause that arrives late, or a new order bought while suspended, leaves the Kisi user disabled; only `payment.recovered` enables it. |
| `PaidIsServedLater` | A run that dies between its claim and its record leaves the claim in the way of every later run of that order. |
| `OnePassPerDoor`, with `RefundedOddly` | A refund drops the pending row of a run that died after it made the code, or that has lost the lock; the order's next webhook claims the door again and a second code is confirmed. |
| `PendingIsShown` | A buyer with a pass under way is shown an earlier, expired one. |
| `ActiveKeepsUser`, `BossesAreKept`; `KeysAreKept` with `KeyCrossing` | Jobs of two accounts overlap, staff promote, or another integration writes a key between a guard's read and the deletion or PATCH it decides. With jobs apart they hold (`ActiveHasUser`, `BossesStay`, `OthersKeysStay`). |

*Doors and keys* (`PlanDoors`, `GymKey`, in `doors`)

| Property | What happens |
| --- | --- |
| `NullRowsNeverReachedKisi`, with `Crossing` | Nothing fails: a purchase, a sweep and a save cross, and a row without a role id is dropped although Kisi has the role. |
| `GapsAreFlagged`, with `ThreeSaves` | Kisi refuses a door that is added, with an alert; a save that removes the member's other door leaves no row; one that adds it again finds nobody on the plan. No save tells of it. |
| `RolesOnRecord`, with `ThreeSaves` and four roles | A drop fails and leaves a row with a dead role id; the next save assigns a new role while an older job reuses the dead id and overwrites the row; the third unlinks by the dead id and drops the row. |
| `SwapStrandsNobody`, with `Saves = {"s1", "s2"}` and four roles | One save adds a door, which Kisi refuses; another removes the old door meanwhile. The guard against it is within a save, so the member is left without a door. |
| `RetriedGetsIn`, with `SomeoneIsIn` | Saving a key queues who was parked; who has a door of another plan meanwhile is passed over, by the retry and by the sweep. |

*People* (`HolderSeats`, `LoginEmailSwap`, `LocationLapse`)

| Property | What happens |
| --- | --- |
| `RemovedStaysOut`, with `Hasty` | A sub-member is removed while their grant is under way, which gives the role after the revoke ran. |
| `LeaversStayOut` without `holder.row = "cancelled"` | The sweep closes the row of a holder who gave up the place, and rolls the access row up, before the revoke has looked for them: the revoke finds nobody (`queue-worker.js:960`) and the role stays. `reconciliation.js:1619-1623` counts on "the normal remaining-source logic", which then never runs. |
| `LeaversStayOut`, with `LeftAndRenewed` | The renewal of a holder who gave up the place grants the holder again. |
| `LeaversStayOut`, with `RefusedClaim` | A claim takes its place back before it queues the grant. The queue refuses, the hub shows an error, and the sweep, which sees a holder with a place, grants it. |
| `SwapHolds`, with `DyingSwap` | The worker dies between the commit and the delete: the retry sees a swap that is done, and the old login keeps its roles untold. |
| `SwapHolds`, with `LapsingSwap` | A lapse while the swap runs disables the old user; the new one is on. |
| `SwapHolds`, with `OwingSwap` | The rows of an outstanding payment are not moved; when it recovers they are active and name roles of the old user, who is deleted. |
| `SwapHolds`, with `MappedSwap` | A door mapped while the swap runs goes to the old user. |
| `SwapHolds`, with `HastySwap` | A worker dies and leaves a half-built user; a later job overtakes and commits, and nobody comes back to that user or tells of it. |
| `LoginFollows`, with `OvertakenSwap` | The login changes back and the jobs swap places; the older login wins. |
| `PlacesHold`, with `TwoPlaces` | A patron of two places: activating one turns the patron on everywhere, the lapsed one included. |

*Health* (`HealthCheck`, in `health`)

| Property | What happens |
| --- | --- |
| `DailyMail` | Locations share the connector's stamp, so the mail of one postpones the other's beyond the day that the comment above `_shouldSendKeyAlert` promises. |
| `RejectedIsRefused` | A network error is shown to the owner as "Door key rejected by Kisi". |

This is why `core` and `faults` differ in their constants: with a shared door and a
lost answer `ActiveRowsOpen` fails, with an unmapped plan `StatusIsRollup` does, with
a park in the middle `RolesAreTracked` does (a role assigned before the client's API
key went missing) and `DeletedIsFinal` does; and with two plans, one of them paused,
cancelling the other finalizes the person. `RowsAreTrue` states what is left.

## 7. Not modelled

Each part with its reason is under `components` in `PROJECT.json`. In short: the
shapes of payloads, contact fields and billing columns (pure translation); member
and plan reads of Wix and HTTP retries; templates and wording; logs and
diagnostics, which nothing reads back to decide, but for the digests; encryption,
sessions, audit and the CRUD of pages that no job reads; the HTTP rate limiter;
invite tokens; the member sync API, which is a front for jobs the models have;
`source-retry-probe.js`, which nothing schedules; the second platform (Seam), which
is a stub, beyond what a gym that names it does to a key (`GymKey`); and the
wiring of processes, which is the fairness of section 4.

## 8. Plan

The modules were written in the order of what an error costs a gym: a wrong
removal or a lost purchase first (`MemberAccess`, `RemovalSweep`, `WebhookIngress`),
then what feeds them (`JobQueue`, `OrderEvents`, `WixLists`, `SweepRun`), what
operators and holders do beside them, and what watches. Left to do:

1. What of `DoorsHold` stands for any number of saves: with the dead ids and the rows
   that are gone as exceptions, as `OpenInv` has them in `MemberAccess`.
2. `MemberAccess` takes its lock by refinement from `JobQueue`, with what `Serial`
   really needs as its assumption; and an abstract specification of entitlement
   (plans paid to doors open) which it implements at rest.

## 9. Running it

`tlc -config core.cfg MCMemberAccess.tla`, and so on with the module each run names
in `PROJECT.json`; `tlapm MemberAccessProofs.tla` for the proofs. Each run takes
minutes at most; the longest proofs are those of `GymsProofs`, `EventsProofs`, `PeopleProofs` and
`AccessRecordsProofs`.
