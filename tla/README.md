# Pillar in TLA+

A verification project for Pillar, the API and runtime for assets on Canton: TLA+
modules translated from the code, TLC configurations that check them on small
instances, and theorems with proofs that TLAPS checks. Paths are relative to the
repository root. `PROJECT.json` lists every run, mutant, finding, hazard and theorem, and
maps every definition to the lines it models.

## 1. The system

A client POSTs an intent (issue, redeem, transfer, hold) to the API. The API writes the
intent and a command row in one Postgres transaction; a ledger-command worker claims the
row and submits the command to a Canton participant, where the Daml templates decide what
moves. What the ledger did comes back through projections, webhooks and an event stream.

| Component | State | Operations | Talks to |
| --- | --- | --- | --- |
| Holdings and holds (`daml/pillar-assets`) | active Holding and Hold contracts | split, merge, transfer, consume, increase, hold, release, consume hold, expire hold | exercised by the intents and by the operator |
| Asset rules (`daml/pillar-assets`) | one contract per asset: status, flags | update, suspend, reactivate, archive | read by `ConfirmTransfer` |
| Intents (`daml/pillar-intents`) | one contract per intent: status | confirm, cancel, fail, expire, mark succeeded | Holdings, Holds, AssetRules, OperationTraces, in one ledger transaction |
| Operation traces, workflow tasks (`daml/pillar-ops`) | status, identifiers, retry count | record submission/completion/failure, mark, retry | exercised by the intents and the operator |
| Idempotency (`packages/idempotency`, API middleware) | `idempotency_keys`, advisory locks | claim, complete, release | wraps every mutating POST |
| Intent enqueue (`apps/api`) | `intents`, `operations`, `ledger_command_requests` | one transaction per intent | binds the idempotency row; read by the workers |
| Command queue (`services/ledger-command`) | request, operation and attempt rows; each worker's batch | claim, attempt, submit, retry, fail | Postgres row locks; the participant over gRPC |
| Webhook dispatcher (`services/webhook-dispatcher`) | delivery rows; each process's batch | poll, POST, write the outcome, retry, dead-letter | HTTP endpoints of customers; the API's routes change the same rows |
| Event stream (`apps/api` sse-broker) | a ring of events, subscriber queues; the tailer's cursor | publish, subscribe, iterate; tail the event log | `LISTEN/NOTIFY`, HTTP subscribers |
| Strong reads (`apps/api` projection routes) | cached operations, checkpoints | wait for an operation, list balances | Redis; the projector's tables |
| Migrator (`packages/db`, `tools/migrator`) | `_migrations`, the schema, an advisory lock | up, dry-run, plan, status | Postgres transactions of other migrators |
| Projection worker (`services/projection-worker`) | checkpoint and read models, in memory | fenced advance, projections | composed by nothing yet |
| Channel pool (`services/ledger-command`) | a map of channels, with their last use | get, sweep idle ones, close | threads of the process; gRPC |
| Events (`apps/api`, `packages/api-contracts`) | `event_log`; the registry of types | list, get, replay | Postgres; the idempotency middleware |
| Request context (`apps/api`) | rows of API keys, bindings, validators | authenticate, resolve the network | Postgres; operators change the rows |
| Lists and limits (`apps/api`, `packages/security`, Node SDK) | rows and cursors; a window of times per key; buckets of tokens; Google's keys | list, page on; admit, refuse; look a key up | Postgres; Google over HTTP |
| Validator registry (`services/validator-registry`) | providers, validators, bindings, health, in memory | verify, activate, bind, pause, resolve | asked for a tenant's validator |
| Key wizard (`apps/web`) | one page's step, fields and keys | edit, next, back, create keys | nothing |
| Orchestrator, reconciler, template registry, export, onboarding, ... | a few lines each | | |
| Applications, SDKs, contracts, CLI, infrastructure | | | |

**What is hard in it.** (1) A `Hold` names a holding *reference*, not a `Holding`, so locks
and holds are kept equal only by the sum over all contracts of the reference. (2) Nothing
in an intent names the Holding, Hold, rules or trace it is used with; `Cancel` and `Fail`
look at no status; a transfer moves its units in one transaction and reports it in another.
(3) Workers write the outcome of a claim in separate statements, crash between them, and
retry submissions whose outcome they do not know. (4) The idempotency protocol is four
separate database calls around a handler, each of which can fail after it took effect, in
servers that can die. (5) Webhook dispatchers poll without row locks and write back what
they computed from an old read. (6) The event stream is lossy by design, and must say when it
lost something; its tailer remembers a time, not a position. (7) A strong read trusts a
cached operation and the checkpoint of whichever tenant came last. (8) Migrators of several
releases race over one database. (9) List cursors are applied to rows that were ordered and
cut without them; answers about signing keys come late and out of order; bindings are made and paused from
outside in any order. (10) Threads sweep and use one map of channels, atomic per
operation only. (11) A replay writes an event whose type the registry lacks, so the answer and later
lists fail. (12) A key is the same for requests that are written differently and mean the same.
The `hazards` of `PROJECT.json` give each with its line and with the
properties that guard it.

**What makes each component correct.** Holdings: locks are backed by holds, units are
conserved, one balance per reference. Intents: units move at most once, success means
moved, a trace records one submission, a tenant's units stay with the tenant. Queue: one
worker per request, an attempt on record before anything is sent, at most one effect, and
failure only of what took none and will take none. Idempotency: one handler at a time, replays faithful and
final, one operation per key unless a call failed after its commit. Webhooks: an attempt
counted was made, "delivered" was accepted, and a final status is final unless dispatchers
contested the delivery. Event stream: a subscriber sees all that is published, in that order, or is
told that it missed some; a committed row is forwarded unless commits overtook it. Strong reads: the
balances include the operation. Migrator: a versioned migration takes effect once, and an `up`
that ends well leaves its release whole. Workflow tasks: runs are counted. Lists: reading one
ends. Signing keys: a key found was published recently, a published key is found. Rate limits:
no window admits too many, and no bucket drifts.
Events: nobody's list is broken by another tenant's replay. Request hash: the same request is
the same, another amount is not. Channel pool: no open channel is forgotten. Request context: a
bound tenant is served. Registry: a paused binding serves nobody. Key wizard: keys are shown once, for a checked
workspace.

## 2. Modules

| Module | Models | Kind |
| --- | --- | --- |
| `UnitSums` | sums over finite sets, as cardinalities, without recursion | helper |
| `Filters` | JavaScript's `filter`: the elements at some places of an array, in their order, without recursion | helper |
| `Balances` | what an account is promised: a total and a locked amount per reference | abstract specification |
| `HoldingLedger` | `Holding.daml`, `Hold.daml`: every choice | component |
| `PillarIntents` | the three intents with `AssetRules` and `OperationTrace`, over `HoldingLedger` | composition |
| `CommandOnce` | what the queue promises: at most one effect, none after failure | abstract specification |
| `CommandQueue` | `enqueueIntent`, `CommandRequestRepository`, `CommandRequestPoller`, the gRPC submitter; the participant (external) | component |
| `IntentApi` | the idempotency middleware and store around `enqueueIntent` | component |
| `WebhookDelivery` | `WebhookDeliveryPoller.kt` and the webhook operations of `webhook-repo.ts` | component |
| `EventBroker` | `Broker.ts`, the handler of `/events:stream`, reconnecting clients | component |
| `EventTailer` | `EventLogTailer.ts` over `event_log` and its trigger | component |
| `StrongReads` | `GET /balances?consistency=wait_for_operation` with the cache; ledger and projector (external) | component |
| `Migrations` | `migration-runner.ts` and the commands of the migrator | component |
| `WorkflowTasks` | `WorkflowTask.daml`: every choice | component |
| `Listing` | the lists of balances and accounts, `applyCursor`, `autoPagingIter` | component |
| `KeyCache` | `jwks.ts` | component |
| `RateLimits` | `rate-limit.ts`, `InMemoryHierarchicalRateLimiter` | component |
| `ValidatorRouting` | the handlers of the validator registry and `ResolverApi` | component |
| `KeyWizard` | `GetApiKeysPageClient.tsx` | component |
| `EventLog` | `event-repo.ts`, the registry of event types, the replay route in its middleware | component |
| `RequestHash` | `canonical-hash.ts` and the middleware's comparison | component |
| `ChannelPool` | `ChannelPool.kt` | component |
| `RequestContext` | `auth.ts`, `network.ts` and their repositories | component |
| `UnitSumsProofs` | facts about sums, filters and least elements | proofs |
| `HoldingLedgerProofs`, `PillarIntentsProofs`, `CommandQueueProofs`, `WebhookDeliveryProofs` | of the module each is named for | proofs |
| `IntentApiProofs` | of `IntentApi` and `EventLog` | proofs |
| `RuntimeProofs` | of `EventBroker`, `EventTailer`, `Migrations`, `WorkflowTasks`, `Listing` | proofs |
| `ServicesProofs` | of `KeyWizard`, `ValidatorRouting`, `StrongReads`, `ChannelPool`, `KeyCache`, `RateLimits`, `RequestHash` | proofs |
| `MC*` | instances for TLC | model checking |

Definitions whose comment starts with "Faulty" are plausible bugs of the definition below
them. No specification uses them; `mutants` in `PROJECT.json` puts each in the place of
the real definition to show that a property notices.

### HoldingLedger

`holding[c]` and `hold[h]` are slots. A choice that archives a contract and creates its
successor updates the slot, so a slot is the chain of contract ids; archived ids cannot be
fetched and a command that names one changes nothing. Amounts are Decimals in their
smallest unit, and a result above `MaxAmount` aborts, as Daml arithmetic does. `supply` is
a history variable. Holdings are created as the fixtures create them (no choice in the
packages creates the first one), with `activeHolds = 0`; Holds only by `CreateHold`. The
controllers are taken to have authorised each choice, one operator signs everything.
`ExpireHold` takes the `now` its caller passes, any value of `Time`.

The ensure clauses are *not* guards of the actions: `EnsureClauses` shows that no choice
relies on them, so no transaction aborts after all assertions of its choice passed.

### PillarIntents

`status`, `trace` and `rules` are the statuses of the intents, traces and rules; every
action is one ledger transaction and contains the nested exercises (`ConfirmTransfer`
consumes the hold, increases the destination and records the submission). All choices of
all contracts are available to the operator at any time. The terms of an intent
(accounts, asset, amount, expiry) never change and are the constant `Terms`. `moved` and
`submitters` are history variables. Traces start as `Received`, the only status from which
`RecordSubmitted` is allowed.

### CommandQueue

One action per SQL statement outside the claim transaction, which takes two (the locking
`SELECT` and the commit). Updates whose failure the code swallows (those of `operations`)
may do nothing, and `RetryRow` may take the fallback status `unknown`. `available_at` is abstracted to whether it has passed (`waiting`
or `received`). The lease columns are written and never read, so they are left out. A
worker's exception outside the `try` of `processClaim` ends its loop and the process: a
crash. The participant executes a command id once, rejects, reports a duplicate, or its
answer is lost. `Mismatched` requests are rows whose operation stores another command id
(not what `enqueueIntent` writes; the check in the code exists for them), `Profiled` the
rows whose command type the selector knows: the types `enqueueIntent` writes are not among
the default profiles.

### IntentApi

One process per HTTP request; a client's retry is another request. `pc` names the step:
`lock` and `claim` are the claim transaction (try the advisory lock; read and write the
row), `handler` the enqueue transaction, `send` the `onSend` hook, `undo` its `catch`,
`release` the `onError` hook. Each call may fail with its effect rolled back or committed;
a server may die between any two. The advisory lock is the hash of the key alone, so
`LockOf` may send two tenants' keys to one lock. `troubled` is a history variable: the
requests that saw a call fail after `enqueueIntent` committed.

### WebhookDelivery

Main runs one loop: claim a batch, deliver each claim, sleep. `ClaimBatch` is a read that
marks nothing, so `batch` holds what was true then; `Post`, `Record`, `RecordFails` and
`Catch` are the POST, the write of its outcome, a write that fails (committed or not) and
the `catch` that retries whatever the answer was. A URL that does not parse throws outside
the `try` and ends the process (`Malformed`), which the deployment restarts. Due times are
abstracted to whether they have passed. `contested` is a history variable: deliveries two
dispatchers held at once, or whose answer or outcome was lost, or that were dropped in
flight. The operations of the API are `SetEnabled`, `UpdateEndpoint`, `RotateSecret`,
`Requeue`, `TestPing` and `Drop`. No code inserts deliveries when an event happens, so
those of `Initial` are there from the start. The other classes of the service
(`DeliveryClaimer`, `DlqPromoter`, ...) are wired to nothing.

### EventBroker and EventTailer

One tenant and mode. JavaScript runs each callback to its end, so `Publish`, `Subscribe` and
each turn of the iterator (`YieldMarker`, `YieldEvent`, `AwaitEvent`) are steps. The marker's
id is that of the newest event queued, which the client remembers, and may resume from,
although older events still wait in its queue; `LossIsTold` and `InOrder` say that this is
sound. The tailer publishes rows again (below), and `publish` looks at no id, so `Publish` may
repeat any earlier row, and what is numbered, queued and remembered is the *publication*. An event
published twice comes twice, and a client must know it by its id. `findIndex` takes the first
place in the ring with the id (`ReplayedAfter`), so a client may be taken back to an earlier
publication of it (`rewound`): it gets some publications again, which `InOrder` excepts, and loses
none. A client that comes back without an id, or with that of a publication the ring has lost, is in
`unresumed`: the code gives it nothing, or the whole ring, or, when the ring holds a later
publication of the id, only what came after that, without a word of what lies between. The dashboard is such a client: its
feed sends `?last_event_id=`, which neither its own server nor the API reads.

In the tailer, a commit notifies with the trigger of migration 0140, every notification
starts a poll of its own, and the cursor is a JavaScript date, cut to milliseconds, which
`AsDate` models. `overtaken` is what such a cursor must lose: rows committed after a row
whose stamp, so cut, passes theirs, and rows with the very stamp of another. Nothing in the
repository constructs a tailer yet; the class is modelled as it stands. A failed poll is an
unhandled rejection, and so the end of the process, only when a notification started it.

### StrongReads

Every `await` of the handler ends a step: read the cache, load, fill, read the checkpoint,
sleep, list. What the projector and the ledger do is external, `RecordOperation` is
`OperationTraceWriter` (called only by `CompletionCorrelator`, which Main does not wire), and the cache keeps what it has until it expires, for nothing
subscribes to the invalidation channel. `outdated`, `foreign` and `assumed` record the three ways in
which the code can answer too early: an offset cached as `null` counts as 0,
`checkpointForProjector` takes the newest row of *any* tenant, and it reads a row that has no offset
yet (the column may be null: `LeaseCheckpoint`) as `'10'`, which is `AssumedOffset`.

### Migrations

A file is its checksum; processes may belong to different releases (`FileOf`). `up` runs
everything in one transaction, so its effects are the variable `job[r].ran` until `Commit`.
PostgreSQL is modelled where the code leans on it: an advisory lock of the transaction, a
second `CREATE TABLE` of an uncommitted table waits and then fails (`WithoutWaiters`), and the
statements of one migration exclude one another. `dryRun` takes no lock and plans on another
connection: when it is the one that creates `_migrations`, it waits for itself, for there is
no statement timeout, and every other command waits behind it. `EventuallyEnded` excepts
exactly that.

### WorkflowTasks

Tasks are chains of contracts, like Holdings. `CompleteTask`, `FailTask`, `CancelTask` and
`RetryTask` look at no status, so a canceled task can be retried; `RunsAreCounted` is what
is left of the retry limit.

### Listing

The ids of balances are numbers in the order the code compares them in; the query's order, by
asset and account, is the constant `SqlOrder`. A walk is one reader's way through a list: the
SDK's, which goes on while `has_more` says so, or one by hand, which asks again with the last
id until a page is empty. Holdings are the same code as balances, assets the same as accounts.
`BalancesPage` works on places in `SqlOrder` and makes the page of them at its end.
`WalkEnds` rests on `After`: each page's last id is above the cursor (`PagesClimb`, proved for every
order of rows and length of page). What else one would
expect of a list, the code does not give: `BalancesPage` fetches one row more than the limit,
without the cursor, and cuts it to the limit before the route compares their number with it, so
`has_more` is always false and rows beyond the first fetch are never reached; and `RefusePage` is
what `applyCursor` does with an object's id, which it decodes as JSON in base64, although
`docs/Architecture/03_Pillar API Grammar v1.md` calls `starting_after` an object id.

### KeyCache and RateLimits

A call of `getKey` takes the time, waits for Google and stores the answer with the time it
took, so `cachedAt` may go back; that is what keeps `KeysAreCurrent` true when answers come late.
`since` and `served` are history variables. In `RateLimits`, `fund` is a bucket filled at every
tick, the reference for the code's, which is filled when looked at; time and tokens are whole
numbers. Each process has its own windows and loses them when it restarts, and `WindowHolds`
is stated per process. No server registers the bucket limiter yet.

### ValidatorRouting and KeyWizard

In the registry a caller may choose a binding's id, status (`RoutingNext` has active and paused) and
`livemode`, and the code takes them (`ValidatorPolicy.assertBinding`, which would object to a live binding off the mainnet, is
called by nothing); `PausedIsUnrouted` says that pausing by id is enough, because creating replaces by tenant
and network. In the wizard a making of keys is a number, and a field is in `good` when its value
passes; `LeavePage` is the loss of the page's state.

### EventLog and RequestHash

`renderEvent` begins by looking the type up, so `Renders` is all that is left of rendering. A replay
inserts its row and then renders it, which fails; `onError` gives the key back, and the client that
tries again inserts another row, which is the finding `event_replay`. Lists without types fail from
then on; `BreakageIsContained` bounds the damage to the tenant, the mode and lists that name no type.
Nothing in the repository inserts events otherwise yet: `Emit` stands for who will.

`RequestHash` is the pure algorithm, compared with a definition by meaning: `NumberOf`
computes the number that digits stand for, which the code never does. `Scale` bounds the digits
of a fraction, those before the point are any number; the theorem holds for every `Scale`. Ids in the path do not count,
as documented.

### ChannelPool

Each operation of the `ConcurrentHashMap` is a step, and so is each step of the walk of `forEach`.
The guard of `closeIdle`, `remove(key, entry)`, compares by equality, of channel and `lastUsed`, since
`Entry` is a data class; but the entry it is given is the object that is in the map, or was replaced
by one of another channel, so this comes to identity, and `lastUsed` may have changed since: a channel just handed out can be shut (a
hazard, listed). What holds is `NoneIsLost`: no channel leaves the pool open, except those made while
`close` runs, for `clear` drops them (`dropped`).

### RequestContext

Each hook's query is a step of its own, so keys end and bindings change between them. The query of
`resolveDefaultNetwork` names the column `is_default`, which no migration creates: `DefaultColumns`
and `BindingColumns` are the two lists. That is the finding `network_default`.

## 3. Runs

Every passing run explores its whole state space.

| Run | Question | Bounds |
| --- | --- | --- |
| `services` | Do locks, holds, amounts and supply stay in step? Who may run the handler, and what is replayed? Beside them: do late answers, refusals, pauses, ways back, replays and ways of writing break what the signing keys, the rate limits, the registry, the wizard, the event log and the hash promise? | ledger: 3 Holdings, 2 Holds, 2 references, 2 holders, 2 times, amounts up to 2; API: 3 requests, 2 tenants, 1 key, 2 bodies; keys: 2 calls, 1 key, 3 ticks, life of 1; limits: 2 requests per window of 2, 2 buckets, 4 ticks; registry: 2 tenants, 1 validator, 2 bindings, 2 networks; wizard: 3 makings; events: 2 tenants, 2 POSTs, 3 rows, pages of 2; hash: decimals of up to 2 digits each side, words, up to 2 fields |
| `transfers_and_queue` | Can two competing transfers cross tenants, make units or move twice? Does a command take effect at most once? Does a strong read include its operation? Do sweeps of the channel pool lose a channel? | transfers: 2, with 2 Holdings, 1 Hold, 2 traces, 3 references of 2 tenants, amounts up to 1; queue: 2 workers, 2 requests (one executable, one mismatched), 3 attempts per request, 1 crash, batches of 2; reads: 2 requests, 1 operation, 2 tenants, 2 offsets, of which a row without one counts as the first; pool: 1 endpoint, 2 threads, 3 times, 2 channels |
| `intents_and_progress` | Do the three kinds of intent over one account move at most once, succeed only by moving, reuse no trace, and implement `Balances`? Is every request of the queue attempted? | intents: 1 of each kind, 2 Holdings, 1 Hold, 1 trace, amounts up to 1; queue: 1 worker, 2 requests (one executable, one without a profile, retried until the bound of 2 attempts), batches of 2, no crash |
| `webhooks` | What can dispatchers that share a delivery, or fail around it, get wrong, and is it always settled? | 2 dispatchers, 1 delivery and 1 free row, 1 endpoint, 2 attempts, 1 crash, 1 operation of the API |
| `runtime` | What do the stream, the tailer and the migrator lose or repeat, and do they go on? How often does a task run? Does reading a list end? | broker: 1 client (any, or the dashboard's feed), 3 publications of 2 types, ring of 2, queue of 1; tailer: 3 rows, 2 polls, 2 rows per poll, 2 ticks, 1 failure; migrator: 3 processes of 3 releases, 2 migrations, 1 failure; tasks: 2, with 2 attempts; lists: 4 balances, 3 accounts, pages of 1 |
| `transfer_canceled`, `queue_lease`, `queue_duplicate`, `queue_rejected`, `intent_api_retry`, `event_replay`, `network_default` | documented behaviour the code departs from (section 5) | smaller instances |

*Why the bounds are enough.* Merging, splitting and settling a hold involve two Holdings; a
third and a second Hold give every one of them a bystander, and two references a mismatch.
Amounts up to 2 tell a part of a Holding from the whole; the intents take all of a hold or nothing. Two transfers suffice to compete
for a hold and a trace; the account of the other tenant has the id of a local one, the case
`SameTenant` is for. Two workers are enough for every race on a row, two attempts for a
duplicate and a third for one after it, and a crash can come at every step. Three requests of one key give two racing
and one late. `MaxAttempts` and `MaxCrashes` bound counters the code leaves unbounded; the
properties do not mention them except `EventuallyAttempted`, which claims nothing after the first
crash; so its run has none. There `Limit` (rows per poll) is the number of open rows: without it rows that are retried for ever could starve newer ones, because claims are in
order of age (listed as a hazard).

`runtime` holds five components that share no state. In each behaviour one of them moves,
chosen by the initial state (`focus` in `MCRuntime`), so the run explores the sum of their
state spaces, and each property speaks of one of them. `services` (`part` in `MCServices`:
the ledger, `IntentApi` and six safety-only components), `transfers_and_queue` (`MCLedger`, four parts)
and `intents_and_progress` (two of them, with the queue's fairness: `FairSpec`) are built in the same way; in `services` the ledger and `IntentApi` share their model values, so
that one symmetry set serves both.

A window of two requests is the smallest that a wrong reset can overfill; three ticks let a
cached key outlive its time while a call waits; two bindings of two tenants are what a pause by
id can confuse; pages of one row make every row of four a page's edge. Two digits are one that
may be dropped and one that may not. Two threads on one endpoint are a race for an entry, two
channels its old and its new one.

Two dispatchers and one delivery are all a race on a row needs; with two attempts the second
is the last. The broker's ring is larger than its queue, as 4096 is than 256, and three publications
overflow both, or hold one row twice. Two ticks make a millisecond, so a stamp can lie between two cursors; three
rows exceed what a poll asks for. Two offsets let another tenant's checkpoint be ahead, and a
cached offset behind. One of the migrators' images is older, one was edited and lacks a file,
and the third process waits while the first two race.

*Type invariants.* Every module states one (`...TypeOK`). For the ledger, the intents, the API, the
queue and the webhooks it is a theorem of its own (section 4); the invariants proved of the other
components contain it, or say more than it does. `LimitsHold` includes that no bucket is overdrawn.

*Deadlock* is not checked: intents, requests and contracts may all be finished, and a bound
may be reached. Symmetry sets contain only interchangeable model values. Of the runs with liveness
properties only `intents_and_progress` uses one, of the two Holdings, where it cannot hide a
counterexample: while the queue moves there is no Holding, so no state of that part is merged
with another, and while the intents move every row of the queue is absent, so
`EventuallyAttempted` asks nothing.

*Fairness.* `QueueFairness`, part of `QueueSpec`, is weak fairness of each worker's next step (the loop in
`CommandRequestPoller.start` never rests) and of `Elapse` (time passes). Nothing is assumed
of the participant. That a call which is never answered breaks in the end is part of the
worker's step; the code sets no deadline, so this is an assumption about the network.
`HookFairness`: a dispatcher's loop never rests, the deployment restarts it, time passes, and a
POST ends in the end (its timeout covers the wait for an answer's headers; that the body then comes, or
the connection breaks, is assumed); `EventuallySettled` asks in addition that endpoints stay enabled
with a valid URL, because one that does not parse stops whoever polls it. `BrokerFairness`: a
connection that stays open is iterated. `TailerFairness`: polls that were started go on, and the
timer fires again; starting a tailer is not assumed. `ListingFairness`: a reader asks on
and the API answers. `MigrationsFairness` is strong: PostgreSQL
serves those who wait for a lock in their order, so none is passed over for ever.
The other specifications are safety only: the operator and HTTP clients promise nothing.

## 4. Proofs

Checked by TLAPS for all values of the constants that satisfy the named assumptions. Each
module with constants has one (`LedgerAssumption`, `IntentAssumption`, `ApiAssumption`,
`QueueAssumption`, `WebhookAssumption`, ...): it says which constants are sets of ids, which are
numbers, and which are functions between them, and TLC evaluates it in the runs. The invariants
and action properties of all passing runs are theorems, and so are both refinements. The
theorems of specifications with fairness do not use it.

* `HoldingLedgerProofs`: `TypesHold`, `EnsureClausesHold`, `LocksAreBacked`,
  `SupplyIsConserved`, `LedgerImplementsBalances`. None of these is inductive alone. `IInv` is
  their conjunction with the bound on amounts: a consumption can be taken from `supply` only
  because of conservation, a consumed hold from its Holding only because of the ensure
  clause. Each choice is first reduced to its `Effect`, by how much it moves the total and
  the locked amount of one reference; an effect keeps the sums in step and is a step of
  `Balances`.
* `PillarIntentsProofs`: `PillarTypesHold`, `UnitsMoveOnce`, `TraceRecordsOne`,
  `ClosedStaysStill`, `TransfersConserve`, `IntentsImplementBalances`, `DrivenLedgerIsSound`.
  `PillarInv` ties how often units moved to the status of the intent (`UnitsFollowStatus`: a
  transfer's move when it is confirmed, the others' when they succeed) and a submission to its trace
  (`TraceIsUsedUp`), and contains `IInv`. A step is looked at twice: for the intent and trace
  it changes, and for the contracts it drives. The second is a choice of `HoldingLedger`, whose lemmas
  then apply, except for the one transaction that is no choice of it: a confirmed transfer,
  which consumes a hold and increases another Holding.
* `CommandQueueProofs`: `QueueTypesHold`, `OneWorkerSubmits`, `SentIsRecorded`,
  `FailedTookNoEffect`, `QueueImplementsOnce`. The code keeps workers apart by the status of a
  row alone, and so does the argument: the row of a request in a worker's hands says where the
  worker is (`HeldRows`), so nobody can claim it; rows locked by open claims are apart
  (`LocksApart`); who still writes an operation after the row went back does not hold it.
  `CurrentFits`, `RoomToTry`, `FailedMismatch` and `ExecutedOnce` say the rest.
* `IntentApiProofs`: `ApiTypesHold`, `OneOwnerHolds`, `ReplaysAreFaithful`, `UntroubledOnce`,
  `CompletedStaysFinal`. `ApiInvariant` adds to the properties what an owner's step says of
  the tables (`OperationsByStep`, `OwnersInProgress`), that what is stored answers its row
  (`StoredIsFaithful`), and that an operation without trouble stays bound to its row, which
  nobody else then owns (`UntroubledIsBound`). Each step is first classified by what it does
  to the row (`StepEffect`, `RowEffect`); one lemma per conjunct follows. `BreakageStaysAtHome` of
  the event log rests on `RowsExplained`: a row of no registered type was written by a
  replay of its tenant and mode.
* `WebhookDeliveryProofs`: `HookTypesHold`, `AttemptsAreMade`, `AcceptedIsNotRepeated`,
  `FinalStaysFinal`. A claim is a copy of a row; `ClaimsFit` is what is true of copies however
  old, `RowsFit` of rows, and `Alone` of deliveries that are not contested: one dispatcher
  holds it, it is pending meanwhile, and if it was accepted its holder is about to say so.
* `RuntimeProofs`: `TaskRunsAreCounted`; `VersionedRunOnce` and `UpsAreWhole`
  (`MigrationsInv`: a versioned migration a job has run is not in the table yet, and only its transaction
  holds the lock; `PassedInv`: what an `up` has come past would be recorded as its release has it, which
  stays so because nobody else commits meanwhile);
  `OnlyOvertakenAreLost` (`TailerInv`: whatever an answer would move the cursor past is in it, was
  forwarded, or is overtaken, also for rows committed after the query); `LossesAreTold` and
  `StreamsAreInOrder` (`BrokerInv`: each publication a client expects was sent to it, is told of, waits
  in its queue, or lies below a marker that is due; queues climb, and lie above all that was sent to
  clients that were never taken back to an earlier publication); and
  `PagesAreAbove`, the reason why `WalkEnds`.
* `ServicesProofs`: `WizardShowsNewKeys`, `PausedRoutesNothing` (one binding per tenant and
  network), `StrongReadsAreStrong` (what each step of a request knows of its target, or the reason
  why it knows less), `NoChannelIsLost`, `SigningKeysAreCurrent` (answers are complete for keys
  published before they were given, and the cache's time is not later than its answer's),
  `LimitsAreHeld` (a window remembers the end of what was admitted, and the rest is too old to
  count; a bucket filled when looked at is one filled at every tick), and
  `VerdictsAreByMeaning`: trimmed digits of any length are equal exactly if their numbers are.
* `UnitSumsProofs`: what one or two changed elements do to a sum; a nonempty set of numbers
  has a least, a bounded one a greatest; a finite set of numbers can be put in order; what a
  filter keeps, of a sequence and of one with another element.

TLC evaluated these invariants on the instances of section 3 as well, the strengthenings
included, and found none violated. Where the argument would be an induction, which the
installed provers cannot instantiate, it takes the least counterexample instead
(`LeastOf`): so for the order of a finite set, and for the places of digits. That is
also why sums are cardinalities, filters are chosen and not computed, and `ValueOf` is a
recursive function: the prover does not take `RECURSIVE` operators.

*Only model-checked:* liveness (`WalkEnds`, `EventuallyAttempted`, `EventuallySettled`,
`EventuallyTold`, `EventuallyForwarded`, `EventuallyEnded`), which, like anything with ENABLED,
is outside the prover's reach; and that the documented behaviours of section 5 fail. Nothing is
proved of `RequestContext`, whose one property is such a finding.

## 5. Findings

* A transfer can be canceled after its units moved (`CanceledBeforeTransfer`): `CancelTransfer`
  looks at no status; the state machine document allows it before the final transfer only.
* A request claimed by a worker that crashes stays claimed (`ClaimedRecovers`); the runtime
  document gives it back when the lease expires.
* A duplicate answer requeues the request (`DuplicateIsAccepted`); the document treats it as
  accepted.
* A rejected command is submitted again and again (`RejectedIsFinal`): every exception requeues the
  request, whatever `mapGrpcError` made of it; the document marks a final failure. What does hold is
  `FailedWithoutEffect`: what is reported failed took no effect and has nothing on its way.
* A retry after an error that followed the commit creates a second operation
  (`OneOperationPerMutation`): `onError` releases the key whatever the handler had done. What
  does hold is `DuplicatesAreTroubled`.
* A replay tried again with the same key writes a second event (`ReplayedOncePerKey`): rendering the
  first one fails, after it was inserted. The test of `enqueueReplay` says it is idempotent per
  tenant and key, and runs in the in-memory mode.
* A request without a header or cookie fails when a database is configured (`DefaultIsServed`): the
  query for the tenant's default names a column that does not exist. The decision record has
  the default binding, then devnet.

## 6. Not modelled, and the plan

Most of the repository's code lines are user interfaces, schemas, generated clients and data, which keep
no state that another actor changes. Not modelled for good, besides those: the in-memory
modes of the API (for tests), settlement intents (no choice), tenant
configuration (read by no choice), the token standard views, and infrastructure. Webhook
signatures are stateless checks; the API's onboarding and sign-in
routes are single changes of a map in memory. The projection worker has a
checkpoint with fencing, a stream reader and projectors, but no code that composes them into a
worker, so there is nothing to translate that would not be invented. The orchestrator, the
reconciler, the template registry, export, search, identity, onboarding, compliance, usage and
billing services are functions or maps of a few lines behind a `main` that wires none of them,
and so are the parts of ledger-command that the poller does not use.

What is left: a progress property of `IntentApi` (a key stays in progress for good only after a
server died, or a release failed), and more of the lemmas behind liveness, like `PagesClimb`:
what a fair step makes smaller.

Runs are kept few: a new module shares a run with the component it belongs to where it can.
