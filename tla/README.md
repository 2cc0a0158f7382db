# Verification of Open VM-X AI

TLA+ models of the API server of Open VM-X AI (`packages/api`), with TLC runs on
small instances and theorems checked by TLAPS for every value of the constants.
The program is a gateway for language models: it authenticates a request, checks
capacity and priority, calls a provider with fallbacks, and records usage; and it
processes *completion batches*, whose items travel through Redis queues shared by
all API processes. The models follow a request through the API: the batch system,
which carries most of the concurrency, failure handling and waiting; the gate; the
scaling of the priority pools; the completion itself; the records it leaves; and the
cache in front of the configuration.

Run from this directory:

    tlc -workers 2 -config BatchQueueFaults.cfg MCBatchQueue.tla
    tlapm BatchQueueProofs.tla

## Inventory

Paths are relative to `packages/api/src`.

| Component | Code | State | Operations | What is hard | What makes it correct | Status |
|---|---|---|---|---|---|---|
| Batch queues | `completion/batch/batch-queue.service.ts`, `batch-queue.*consumer.ts` | Redis: main queue and processing queue per resource, global processing queue (index of visibility timeouts), payload hashes, batch hash with counters, batch stream | `sendBatch`, `retrieveItems`, `processItem`, `deleteItem`, `completeBatch`, `reprocessLoop` | several processes, steps of several Redis calls, crashes, failed calls, tasks that outlive the visibility timeout, retries | no item lost, none in two hands, batch decided once, after all items, by their outcomes | `BatchQueue` |
| Batch records | `batch-service.ts`, `batch-item-service.ts` | PostgreSQL: batch row with counters, item rows | `create`, `incrementCounters`, `update`, `cancel` | two stores kept in step without a common transaction | counters agree with Redis in the end | in `BatchQueue` |
| Batch scheduling | `batch-queue.service.ts`, `batch-queue.base-consumer.ts` | Redis: active and standby resources, wake-up stream, resource locks; memory: `pendingTasks` | `start`, `getOldestResources`, `waitForNewResources`, `lockResource`, `unlockResource`, `standbyResourcesLoop`, `updateActiveResourceTimestamp` | sleeping workers, locks with a time limit, removal of a resource whose queue fills again | no lost wake-up, no forgotten queue, lock exclusive, tasks bounded | `ResourceScheduler` |
| Batch interface | `batch.controller.ts`, `listenToBatchEvents`, `sendCallback` | a consumer group on the batch stream | create, cancel, listen, call back | order of events, several listeners in one group | the client sees every event once | not modelled |
| Request gate and capacity | `completion/gate.service.ts`, `capacity/capacity.service.ts` | Redis counters of requests and tokens per period | `getUsage`, `requestGate`, `increaseTokenResponseUsage` | check and increment are apart, increments not awaited, expiry | overdraft bounded by the requests in flight | `Gate` |
| Prioritization | `prioritization/strategy/adaptive-token-scaling.ts` and its Redis repositories | allocation of the pools per connection, token metrics | `gate` | read, change and write of shared state; arithmetic of shares; redefined pools | shares within their bounds, sum at most 100 | `AdaptiveTokenScaling` |
| Completion | `completion/completion.service.ts`, `completion/routing.service.ts` | discovered capacity on the connection row | `completion`, `postCompletion`, `evaluateRoutingConditions` | fallbacks, errors behind a successful call, streams, lost updates | at most one billed answer, one audit entry per request | `Completion` |
| Usage, audit, metrics | `completion/usage`, `completion/audit`, `completion/metrics` | buffers in memory | `push`, `flush` | pushes during a flush, failed flushes, restarts | nothing lost or written twice | `Telemetry` |
| Cached entities | `ai-resource`, `api-key`, `pool-definition`, `environment`, `workspace`, `users` services | rows and a Redis cache of them | `getById`, `getByName`, `verify`, `create`, `update`, `delete` | read-through against invalidation, invalidation inside a transaction | no stale entry after the last update | `EntityCache` |
| Providers, tokens, vault | `ai-provider`, `token`, `vault` | none | adapters | - | - | not modelled |
| Roles, authentication | `auth`, `role` | rows, an OIDC library | single statements | - | - | not modelled |
| Shell, storage, migrations, UI, deployment | `main.ts`, `storage`, `migrations`, `packages/ui`, `helm`, ... | - | - | - | - | not modelled |

How they interact: the batch controller calls `create`, which commits the rows and
then calls `sendBatch`. Every API process runs three endless loops: the consumer
loop (`start`), the reprocess loop and the standby loop. They share nothing but
Redis and PostgreSQL. A task of the consumer calls the completion service, which
calls the gate, which reads the capacity counters that `retrieveItems` reads too.
The gate calls the prioritization between its checks and its increments, and reads the
pool definition through the cache, as the completion reads its resource and the API key.
Behind an answer of the provider the completion adds its tokens to the gate's counters,
pushes to the buffers, and writes the discovered limits into the connection.

## Modules

| Module | Contents |
|---|---|
| `BatchQueue` | the items of one batch: queues, tasks, counters, reprocessing, crashes |
| `BatchContract` | what a client of a batch relies on; `BatchQueue` implements it |
| `MCBatchQueue`, `BatchQueue*.cfg` | instances for TLC |
| `BatchQueueProofs` | theorems about `BatchQueue`: types, the one batch event, no item lost |
| `BatchQueueOrderProofs` | theorems about `BatchQueue`: one place at a time, the verdict, the counters, the contract |
| `ResourceScheduler` | which resource a worker looks at, and when; locks and wake-ups |
| `MCResourceScheduler`, `Scheduler.cfg` | instance for TLC |
| `ResourceSchedulerProofs` | theorems about `ResourceScheduler` |
| `Gate` | requests through the gate, the counters of a period and their expiry |
| `MCGate`, `GateLimits.cfg`, `GateLastSecond.cfg` | instances for TLC |
| `GateProofs` | theorems about `Gate` |
| `AdaptiveTokenScaling` | concurrent requests that scale the allocation of the pools |
| `MCAdaptiveTokenScaling`, `Scaling.cfg` | instance for TLC |
| `AdaptiveTokenScalingProofs` | theorems about `AdaptiveTokenScaling` |
| `Completion` | a request, its chain of models, and the records of each attempt |
| `MCCompletion`, `Completions.cfg`, `CompletionBroken.cfg` | instances for TLC |
| `CompletionProofs` | theorems about `Completion` |
| `Telemetry` | the buffers of usage, audit and metrics |
| `MCTelemetry`, `Telemetry.cfg` | instance for TLC |
| `TelemetryProofs` | theorems about `Telemetry` |
| `EntityCache` | reads through the cache against the operations that change rows |
| `MCEntityCache`, `Cache.cfg` | instance for TLC |
| `EntityCacheProofs` | theorems about `EntityCache` |

### BatchQueue

State: the three queues are sets of items (`mainQueue`, `processingQueue`,
`globalQueue`); items are numbers, their order is the score `createdAt`. `due` are
the members of the global queue whose score is in the past. A payload is `none`,
`full` or a `stub`: HINCRBY of the reprocess loop recreates a deleted hash as a
`retryCount` without content. `batch` is the Redis hash, `dbBatch` and `dbItem` the
rows, `task` the state of `processItemHandler` per host and item, `fetch` and `reap`
what `retrieveItems` and the reprocess loop hold in memory between two awaits.

Steps: each Lua script, MULTI and SQL statement is one atomic action and every await
between them is a place where others act.

| Action | Code |
|---|---|
| `SendBatch`, `EnqueueItem`, `SenderCrash` | `sendBatch`, run behind the commit of `create` |
| `RetrieveItems`, `IndexItems`, `StartTasks` | Lua script, index MULTI, and payload reads of `retrieveItems`, then the start of the tasks |
| `BeginItem`, `MarkRunning`, `CallEnds`, `CallRetryable`, `DeferItem`, `CallThrows` | `processItem` and the catch of `processItemHandler` |
| `DeleteCounters`, `DeletePayload`, `DeleteIndex`, `DeleteEvent` | the four calls of `deleteItem`'s Promise.all, in any order; the event goes to the slot and connection of the counters and stays behind them |
| `ReadVerdict`, `UpdateDbStatus`, `UpdateRedisStatus`, `BatchEvent`, `TallyItem`, `CompleteThrows` | `completeBatch`, `updateBatchStatus`, `finishItem` |
| `VisibilityTimeout`, `ReapExpired`, `ReadPayload`, `Requeue` | time and `reprocessLoop` |
| `SendFails`, `FetchFails`, `ReapFails`, `FinishFails` | a Redis call fails: of `sendBatch`, of `retrieveItems` (the consumer loop's catch), of `reprocessLoop` behind its Lua script (its catch), of `deleteItem` and `completeBatch` (the catch of `processItemHandler`) |
| `Crash`, `Cancel` | a process dies with its memory; the user cancels |

Adverse events (`Fault`) are a crash, a failed Redis call, an overrun (a visibility timeout
that passes while the item is in somebody's hands), a database error and a cancel. They are
recorded in `faults`, which lets a property say which of them it tolerates. A call that
fails behind its effect is the step followed by the failure, one that fails before it the
failure alone; of `deleteItem`'s four calls any may have succeeded. Behind a failed round
the reprocess loop may start the next one while items of the first are still being moved,
which is why `ReapExpired` waits for them only as long as no call has failed.

Left out: token counts of the rows, callbacks, `listenToBatchEvents`, and
`deleteBatchFromActiveResources`, whose loop never runs because its cursor starts at
the value that ends it. Resources are left out too: a batch is seen with the items of
one resource, and `RetrieveItems` takes any non-empty prefix of the queue, which covers
every outcome of the capacity computation that takes something.

### BatchContract

Items are waiting, running, or ended with an outcome; a running item may return to
waiting (a retry); the batch is decided once, after its last item, FAILED iff an item
failed. The refinement maps an item counted off to the status of its row, an item with
a task to running, and the status of the batch hash to the verdict.

### ResourceScheduler

A member is a batch and one of its resources, as in the code's
`workspace|environment|batch|resource`; members of the same resource share its main
queue and its lock. `active` is the sorted set as a sequence, oldest first: ZADD LT with
the current time never lowers a score, so it adds an absent member at the end and leaves
a present one where it is. `stream` counts the wake-ups nobody has read, `activation` the
calls of `sendBatch` and the reprocess loop between their ZADD and their XADD, `pick` the
callbacks of `start`'s Promise.all, `tasks` the entries of `pendingTasks`.

| Action | Code |
|---|---|
| `SendItem`, `RequeueItem`, `Activate`, `Signal` | `sendBatch`, `reprocessLoop`, `sendActiveResourceEvent` |
| `ExpireStandby` | `standbyResourcesLoop` |
| `Sleep`, `Wake`, `Poll`, `LoopEnds` | `start`, `getOldestResources`, `waitForNewResources` |
| `Lock`, `Exhausted`, `Retrieve`, `MoveToStandby`, `RemoveActive`, `Unlock`, `Touch` | one callback: `lockResource`, `retrieveItems`, `unlockResource`, `updateActiveResourceTimestamp` |
| `CallbackThrows` | a call of a callback rejects, from `lockResource` to `updateActiveResourceTimestamp` |
| `ActivationFails` | the ZADD or the XADD of an activation rejects |
| `TaskEnds`, `TaskDefers`, `LockExpires`, `Crash`, `Restart` | tasks, time, processes |

Capacity is a nondeterministic outcome: `Available` holds the values
`availableRequests` may have, `Exhausted` is the path of a negative value, and the script
may take fewer items than it read because of their tokens. `RangeSize` is what `ZRANGE
queue 0 max-1` reads, which is everything when `max` is 0; `Poll` reads the active resources
in the same way, and its guard is the wait for a free slot. An item in the hands of a
callback that fails is `deferred`, in the processing queue: that it comes back from there
if it was indexed before is the subject of `BatchQueue`.

Left out: a process that runs one item twice.

### Gate

`requests` and `tokens` are the two Redis counters of every key prefix, each with a value
and a time to live; `second` is the clock within a period. A request (`gate`) reads the
counters, passes the checks and the prioritization, moves the counters, calls the
provider, and adds the tokens of the answer. `Decisive` is the key whose reading the
checks use: getUsage keys its result by the period alone, so it is the last distinct
key. A minute (and an hour) has its exact remaining seconds; a day, a week and a month
are rounded down, and the month's is computed from the clock and not from the request.

| Action | Code |
|---|---|
| `Arrive`, `ReadRequests`, `ReadTokens` | `resolve`, the two reads of `getUsage`, `checkRequestCapacity` |
| `Prioritize` | the prioritization lets the request pass, denies it or throws |
| `IncreaseRpmTpmCounters`, `IncreaseFails` | one turn of the loop behind the checks, and its catch |
| `ProviderEnds`, `IncreaseTokenResponseUsage` | the call, and `increaseTokenResponseUsage` without an expiry |
| `Tick` | a second passes; keys expire; the period may be over |

The increments are awaited by nobody: a request that passes goes on to the provider with
the keys it is still to be counted in (`todo`), which are incremented in any order, at any
time, also behind the end of its call and after the tokens of its answer. It is over, and
its slot free for another request, when its call has ended and nothing of it is left to do
(`Settled`). Counters of discovered and batch capacities have keys of their own and are left
out: nothing in the gate checks a request against them.

### AdaptiveTokenScaling

Shares are whole numbers of a `Whole` (the 100 percent of the connection's tokens per
minute). `stored` is the allocation in Redis with its `age`; a request holds the
definition it read, the allocation it changes, and what was free when it read it.

| Action | Code |
|---|---|
| `ReadDefinition`, `ReadAllocation` | what the request gate read; `allocationRepo.get`, or the minima |
| `ScaleRank` | one turn of the loop over the ranks: `ScaledUp`, `MakeRoom`, `Grown`, `ScaledDown` |
| `Decide`, `WriteAllocation` | the pool's tokens of the minute; SET with EX |
| `Redefine`, `Tick`, `Fails` | the pool definition is saved; time; an error |

The usage metrics are a nondeterministic reading from `Usage`. The loop runs without an
await, so that one request at a time is in it; its turns are steps of their own to
choose one reading each.

### Completion

`request` is where a request is in `completion()`, with its chain of models, the
position in it, the discovered capacity it read and the headers it got. `ledger` holds
what its current call has pushed to usage, audit and metrics, and the history that the
properties need: the answers, and how often the post-processing failed before (`lost`) and
behind (`again`) its pushes. `discovered` is the column of the connection's row.

| Action | Code |
|---|---|
| `Arrive`, `Resolve`, `ResolveFails` | `getAIResource` and the choice of the model |
| `Route`, `RouteFails` | `evaluateRoutingConditions` |
| `Connect`, `Admit`, `Answer` | one turn of the loop: the connection, the gate, the provider |
| `StreamEnds`, `StreamBreaks` | the generator, which the controller drives outside of the loop |
| `Charge`, `Discover` | `postCompletion` to its pushes; `updateDiscoveredCapacity` |
| `AttemptFails` | the catch of the loop: the next model, or the outer catch |
| `LimitChanges` | the provider |

### Telemetry

An item is its number and its attempts (0 where the code has undefined). `flushing` and
`transit` are the number of items the flush under way works on, which are the first of
the array: pushes go on behind them. Usage and audit are the same code with two
thresholds, so both are a `Store`. `Failed` takes the position of a rejected bucket for
the position of an item, as the code does; `AgainAt` puts the elements at a set of positions
back in their order.

### EntityCache

A row is a version; a key holds a version or nothing. Each operator runs one operation at
a time: it opens a transaction that locks the rows it writes, deletes keys inside of it
where the code does, commits, and deletes the keys behind it. `leak` records for each key
what left its entry behind.

- An update of a resource first selects the old name without a lock (`AskResource`,
  `ai-resource.service.ts:252`), and a user's update and deletion read it through the cache
  (`AskUser`): in between somebody else may give the row another name, whose key nobody
  deletes. Resources renamed so are told apart by `"update resource by an old name"`.
- A key with `:includesUser` (`Joined`) holds the row and that of the user who wrote it; it is
  deleted with the row's key (`KeysOf`), and by no operation on the user.
- A user is found by name or e-mail in letters of any case (`users.service.ts:79`); the keys of
  the e-mail and of other letter cases (`Alias`) are never deleted.
- Deleting an AI connection deletes the resources that mention it and none of their keys
  (`DeleteConnection`).
- Foreign keys hold: a new row waits for a transaction that deletes what it refers to (`Homed`,
  `Lockable`), a user to whom a row refers is not deleted, and a cascade waits for every open
  transaction, as the locks of the database make them.

An identifier may be used again when its row is gone, which the generated identifiers of
the code do not: the model allows more. No entry ever expires, because no caller of
`cache.wrap` passes a time to live (`docs/docs/architecture.md:396` speaks of one). Not modelled
are the lag of a read replica (`db.reader`), the merging of concurrent reads of a key within a
process, and the other users of the cache, `role.service.ts` and
`auth/provider/oidc.adapter.ts`. A joined entry has one user in the model, while the code joins
the one who created the row and the one who wrote it last.

## What the runs check

| Run | Instance | Properties | Result |
|---|---|---|---|
| `batch_faults` | 2 hosts, 2 items, 1 retry, one crash, failed Redis call, overrun, database error or cancel anywhere | `TypeOK`, `ExclusiveProcessing`, `NoItemLost`, `OneBatchEvent`, `VerdictSound`, `CountersAgree`, `NoResurrection`, `LostOnlyInTransit` | hold, 3.0 million states |
| `batch_live` | 2 hosts, 2 items, 1 retry, a cancel, fairness | `EventuallyCompleted`, `ImplementsContract` | hold |
| `batch_crash` | one crash | `ExpiryCoversProcessing` | violated |
| `batch_overrun` | one overrun | `CompletedMeansAllItems` | violated |
| `scheduler` | 2 hosts, one batch on one resource, 2 items, 1 slot, 1 requeue, 1 standby, one crash, failed call or expired lock, fairness | `TypeOK`, `SomeoneAwake`, `LockExclusive`, `StrandedByRequeueOnly`, `EventuallyRetrieved` | hold, 1.3 million states |
| `gate` | 2 requests of one client, 3 seconds to a period, minute, day, month and lifetime, several capacities, one failed increment, fairness | `TypeOK`, `RequestsOverdraft`, `TokensOverdraft`, `CountedUntilPeriodEnds`, `AdmittedAgain` | hold, 0.9 million states |
| `gate_last_second` | 1 client, a limit of 2 requests in a minute | `AdmittedWithinLimit` | violated |
| `scaling` | 2 requests, 3 pools, fifths, one redefinition, fairness | `TypeOK`, `WithinReservations`, `TotalWithinHundred`, `RedefinitionTakesHold`, `RecoversFromNewPool` | hold |
| `cache` | 2 operators with 2 operations, 1 reader, the objects an operation can touch, an alias and a joined key | `TypeOK`, `StaleOnlyByKnownLeaks` | hold, 2.0 million states |
| `completion` | a plain request and a stream, 2 models of one connection, a changed limit, fairness | `TypeOK`, `AuditTellsOutcome`, `UsageCountsAnswers`, `AnsweredOnce`, `RequestsEnd`, `DiscoverySettles` | hold |
| `completion_broken` | one stream, 2 models | `EveryRequestLogged` | violated |
| `telemetry` | one write buffer that flushes at 2, 2 buckets, restarts, fairness | `TypeOK`, `NothingDisappears`, `StoredOnce`, `CountedExactly`, `CountedBounded`, `BuffersDrain` | hold |

The passing runs say: without a crash and a failed Redis call no item is ever lost, and
these only lose items that are between two Redis steps of a process (`LostOnlyInTransit`);
the batch event is sent at most once whatever happens; in runs without crash, failed call
and overrun the verdict, the item rows and the counters are right, and every batch ends, or an
item that was put back waits in its main queue for ever (`EventuallyCompleted`). The last is
real: an item requeued between the script that found the queue empty and the removal of the
resource (`batch-queue.service.ts:784-796`) is in a queue at which no worker looks, until
another batch activates the resource. Otherwise the workers never sleep through work, unless
the call that was to wake them failed, and a queue is left to itself only by a crash, a failed
call or that race (`StrandedByRequeueOnly`).

A counter of requests or tokens exceeds its limit by what is under way at once and no
more (what a client gets in a period can be more, see `gate_last_second`). What
the scaling writes is always within the reservations and the whole, also when requests
overwrite each other. A request is answered once, and recorded, unless its
post-processing fails behind the answer or its stream breaks (see `completion_broken`).
A cached entry outlives its row in the listed ways only.

The violated runs are disagreements between the documentation and the code; each states a
sentence of `docs/docs/`:

- `batch_crash`: an item moved to the processing queue by a process that dies before it
  writes the index is never reprocessed (`batch-queue.service.ts:761-810`).
- `batch_overrun`: a task that outlives the visibility timeout makes its item count twice,
  and the batch completes before all items have (`batch-queue.service.ts:896`, `:928`).
- `completion_broken` (`docs/docs/architecture.md:423`: "Every request is logged"; also
  `features/usage.md:13` and `core-components.md:442`): the records of a stream are pushed behind
  its last chunk; one that breaks, or whose client leaves, has none
  (`completion.service.ts:389`).
- `gate_last_second`: the counters expire a second before their period, in its last second
  at once, and one client passes its limit without any concurrency
  (`gate.service.ts:242`).

Known behaviours that the properties carve out, each at its line:

- Two callbacks of one process hold the lock of a resource together, since its value is
  the host name (`batch-queue.service.ts:576`): `LockExclusive` is about two hosts and a
  resource of one batch.
- With exactly zero requests left the script reads the whole queue (`:684`, `:713`): the
  model has it (`RangeSize`), and the theorem `TasksBounded` is about workers that have
  requests left. That a worker never asks for zero items itself is part of `TypeOK`.
- An exception ends the loop's wait but not its other callbacks, whose reserved slots are in
  no counter; the loop computes its free slots without them and a worker may run more
  tasks than the documented 1,000 (`batch-queue.base-consumer.ts:94`). `TasksBounded` allows
  one more set of slots for each exception. It is proved and in no run: a run with several
  slots, callbacks and exceptions has too many states.
- When the XADD behind an activation fails, the workers may all sleep beside an active
  resource until something else wakes them (`batch-queue.service.ts:117`): `Overslept`.
- A token counter that expired while the provider answered comes back without an expiry
  and may lock a client out for good (`gate.service.ts:224`): the second disjunct of
  `AdmittedAgain`.
- Requests that pass keep an allocation with old reservations alive
  (`repository.ts:29`): the second disjunct of `RedefinitionTakesHold`. A pool that the
  stored allocation lacks makes every request fail until it expires.
- An error behind a provider's answer makes the next model answer as well
  (`completion.service.ts:464`): `lost` and `again` in `AnsweredOnce`. `AuditTellsOutcome`
  and `UsageCountsAnswers` are about calls that were answered or refused (`Settled`).
- A failed flush gives the whole batch up, because attempts is never set at the first
  push (`usage.service.ts:604`): `NothingDisappears` counts what was given up, and
  `StoredOnce` holds because nothing is retried.
- The metrics item that is put back is found by the position of its bucket
  (`metrics.service.ts:174`): `CountedExactly` is about items that no rejected bucket and
  nothing put back has touched.
- The ways an entry of the cache stays behind: `KnownLeaks`.

**Bounds.** Two hosts are enough for every race between two processes, two items for a
batch that is not complete with its first item and for a poison item in front of another,
one retry for the difference between a first and a later attempt, one adverse event for
each property to be exercised against each kind at each step. `MaxFaults`, `MaxRetries`,
`MaxStandbys` and `MaxRequeues` are the only bounds in guards; a host runs at most one
task per item and, in the scheduler, one callback per member. The theorems have no bound
on hosts, items, retries or faults. Hosts are symmetric in `batch_faults`. The scheduler's
run has one batch and one slot, so that liveness can be checked in it; resources shared by
several batches and slots shared by several callbacks are in the theorems only.
`CHECK_DEADLOCK FALSE`: a batch that is done, or whose sender is gone, stops.

Two requests are enough for each to act between any two steps of the other in `Gate`,
`AdaptiveTokenScaling` and `Completion`; a period of three seconds has a first, a last but
one and a last second, which are the ones that round and expire differently. `MaxCounted`
ends the history, not the counters, which the properties bound themselves. Three pools
have one to give, one to take and one that only one definition knows; `MaxRedefinitions`
and `Lifetime` bound how often the world changes. Two models are a chain with an attempt
that is not the last. Four items let a flush of two run with two pushed behind it. Two
operations and a read on at most two objects are the smallest number in which a fill is
overtaken and in which two operations meet; operators are symmetric. `telemetry` and
`cache` have `CHECK_DEADLOCK FALSE`, since their pushes and operations end at the bound.

**Fairness.** The consumer, reprocess and standby loops run for ever, so the actions of
each are weakly fair per host (and per item or member where the code runs a promise for
each and others could starve it); a request that creates a batch is served to its end; a
provider call returns (with its own time limit); scores and locks expire with time.
Nothing is assumed of crashes, cancels, exceptions, or of a retryable error not to happen;
the number of retried failures is bounded by `MaxRetries`, as the code itself has no limit and a batch whose
item fails for ever in a retryable way never completes.

A consumer loop is only fair to a main queue that has an item which was never put back
(`Attended`). `sendBatch` adds the member behind the last item of its resource, and no worker
finds the queue empty, and removes the member, before that item is retrieved; a queue of
requeued items, by contrast, may be forgotten. So `EventuallyCompleted` excepts a batch of which
a requeued item waits for ever, and `EventuallyRetrieved` a queue that is stranded for good, and
workers that overslept because a call failed. `EventuallyCompleted` is checked without crashes,
failed calls, overruns and database errors, for the reasons that the first two findings,
`FinishFails` and `CompleteThrows` give.

In `Gate` and `AdaptiveTokenScaling` only time is fair: no request has to come or to go on.
In `Completion` every request under way goes on, because a promise settles and the clients
of the providers have time limits; nothing is assumed of how it goes on, except that
`DiscoverySettles` is about behaviours in which from some point on nothing fails. In
`Telemetry` the cron jobs fire and the calls to the databases settle, one way or the other.
`EntityCache` has no fairness and no liveness property.

## What is proved

All theorems hold for every value of the constants under the assumption each module names
(`BatchQueueAssumption`, `SchedulerAssumption`, `GateAssumption`, `ScalingAssumption`,
`CompletionAssumption`, `TelemetryAssumption`, `EntityCacheAssumption`): any number of hosts,
items, requests, pools, models, buffers, rows and operators. They say what the constants are,
and little more: finite sets, positive sizes, and that members and items are different things
(`SchedulerAssumption`).

- `TypeCorrect`, `SchedulerTypeCorrect`: the type invariants, inductive as they stand. The
  second includes that no resource is twice among the active ones, with lemmas about
  appending to and removing from a sequence without duplicates, and that no callback asks for
  zero items (`ShareIsPositive`: a worker looks at no more resources than it has free slots).
- `OneBatchEventHolds`. `OneBatchEvent` is not inductive: two tasks could both be on their
  way to the event. `OneCompleter` adds that a task is so only if its decrement returned
  zero, that there is no such task and no event while `pending` is positive, and at most
  one afterwards, since HINCRBY only goes down behind `SendBatch`.
- `LostOnlyInTransitHolds` and `NoItemLostHolds`. The step lemma `NextTrace` shows, action by
  action, that a traceable item stays traceable unless the step is a crash or a failed Redis
  call and the item was in transit. It needs `HandOver`: a fetched item has no task on its host, so
  starting a task overwrites none, and deletion behind the decrement is only done to
  items counted off.
- `ExclusiveProcessingHolds` and `NoResurrectionHolds` (`BatchQueueOrderProofs`), from `Order`: the
  sender, the main queue, a consumer loop, a task, the reprocess loop and the due part of the
  index exclude each other (`OnePlace`); a task that has deleted its item from the index does
  not find it there again (`Indexed`); and an item counted off is only with the task that
  did it (`Final`). The premise is needed: a score that passes while a task runs puts
  its item in two places, and so does a crash or a failed call between two calls.
- `VerdictSoundHolds`, from `Accounted`, which needs `Order`: `pending` is the number of items not
  counted off, so the completer finds none of them; the row of an item counted off has its
  outcome, and until a `completeBatch` fails and gives the batch up, `failed` is positive
  exactly when one of these rows says FAILED.
- `CountersAgreeHolds`, from `Balanced`: without crash, overrun and failed calls each of the four
  counters of the row is the number of items in a class (`Books`): those whose first attempt
  has not begun, those under way, those tallied with either outcome. Each item
  is in one class, since a first attempt is recognised by its `retryCount` and a task counts its
  item only once (`Order`, `Accounted`); the counters of the hash are the items counted off.
- `ContractImplemented`, under the assumption `Faults \subseteq {"cancel"}`: the refinement of
  `BatchContract`. Four handlers are steps of the contract (`StartTasks`, `DeferItem`,
  `DeleteCounters`, `UpdateRedisStatus`), all others stutter. Of the end of a task in `TallyItem` the
  proof only says that its item stays ended or waits again, which the contract allows.
- `SomeoneAwakeHolds`, from `CallbackInLoop`: a callback runs inside its loop, so the worker
  that removes a resource, or adds one without a signal, is awake itself. A failed call
  ends the loop's wait early, or leaves out a wake-up, and breaks this, hence the premise.
- `LockExclusiveHolds`, from `OwnsLock`: whoever is between `lockResource` and
  `unlockResource` for a resource of one batch owns its lock.
- `TasksBoundedHolds`, from `Budget`: the tasks of a worker together with the slots its callbacks
  have reserved and the items in their hands are at most `MaxTasks`, and `MaxTasks` more for each
  exception so far; and whenever the loop polls, what is reserved is what exceptions left behind.
  The pools of slots are sets of pairs, so that what `Poll` hands out is counted by
  cardinalities.
- `StrandedByRequeueOnlyHolds`, from `EmptyHanded`, `Announced` and `Watched`: as long as no item has
  come back, no process has died and no call has failed (`Straight`), a member is added once,
  behind the last of its items, and
  every queue with items has a member on its way to a worker that no callback is about to
  remove. A step that strands a queue is therefore a crash or a failed call (`Mishap`), or a
  removal behind a requeue.
- `RequestsBounded` (`GateProofs`). `RequestsOverdraft` is not inductive: a request that
  has passed the check may still be going to count itself. The invariant adds to each counter the
  requests that hold a reading which fits and have not counted yet, and bounds the sum; a
  request only passes on a reading below the limit, and each user of the key is in that
  set once.
- `TokensBounded` (`GateProofs`), from `TokensInFlight`, the same argument with two debts for each
  request: its estimate until it is counted, and the most an answer may cost until that is.
- `CountedUntilPeriodEndsHolds` (`GateProofs`), from `AllTimely` and `AllReliable`: the expiry a
  request of the current period is going to set does not end before the last second, and a
  counter counted in the period outlasts that second and holds all of it, unless an
  increment that was due in an earlier period set its expiry (`late`).
- `ReservationsKept` (`AdaptiveTokenScalingProofs`), inductive with the types: what is stored
  was held by a request, each operator of the loop keeps a share that is within its
  reservations within them, and the minima are within theirs.
- `TotalKept` (`AdaptiveTokenScalingProofs`), from `AllFit`. The total of an allocation is the number
  of units it gives away (`Given`), so that what a change of one share does to it follows from the
  theorems about finite sets. `ReadAllocation` and `ScaleRank` hold an allocation that fits:
  `MakeRoom` and `ScaledDown` only take, and `Grown` adds what is free behind `MakeRoom`. Writes
  replace the whole allocation by one that a request held, so no interleaving adds shares up.
- `AnswersBounded` (`CompletionProofs`), from `Paid`: before a call ends, its answers are as
  many as the failures of its post-processing, and one more while an attempt holds an
  answer it has not recorded. `AuditComplete`, from `Audited` and about calls that did not break:
  until then the audit is one
  `ok` for each post-processing that failed behind its pushes, and one more in front of
  the write of the discovered limits.
- `UsageComplete` (`CompletionProofs`), from `Recorded` with `Paid`: from the choice of the model on,
  usage and metrics are the same, with a success for every answer whose discovered limits could
  not be written, and for the one that ended the call.
- `StoredOnceHolds` and `NothingDisappearsHolds` (`TelemetryProofs`), from `Shelved`: a record in the
  array is there once, has no attempts and is not stored, and every record pushed is in the array,
  stored or given up. That no attempts are ever set is what keeps a failed flush from
  storing a record again, and what gives the record up.
- `CountedBoundedHolds` and `CountedExactlyHolds`, from `Attempted` and `Undisturbed`: an item in the
  array has been counted at most once for each attempt, and once more if its transaction has
  settled in the flush under way; an item that nothing disturbed exactly if it has. The lemmas
  about `Nth` and `AgainAt` (`PutBackBehind` and those before it) say that what is put back is a
  reordering of some elements without a repetition.
- `StaleOnlyByKnownLeaksHolds` (`EntityCacheProofs`), from `Consistent`, with the types, because what
  an operation writes depends on the names. Of the names of two rows that exist no two agree
  (`NamesUnique`), open transactions write different rows and give different names
  (`Locked`), a row cached with its user has that user (`Referring`), and of each open one it
  is known that its commit leaves no entry behind that it does not delete, other than those of
  `KnownLeaks` (`Covers`). The operations that open a
  transaction are brought into one form (`Fits`); `CommitCovers` then compares, by the kind of the
  key, what its query returns before and after the commit.

TLC checks the properties proved on the instances above as well, but `TasksBounded`. Every
safety invariant and every action property of the passing runs is proved. Only
model-checked is liveness, which is out of the prover's reach: `EventuallyCompleted`, `EventuallyRetrieved`, `AdmittedAgain`,
`RedefinitionTakesHold`, `RecoversFromNewPool`, `RequestsEnd`, `DiscoverySettles` and
`BuffersDrain`. What a recursive definition computes for every input cannot be
proved either, for lack of induction over data; sums, counts and filtered arrays are
therefore defined by cardinalities and positions (`Total`, `Occurrences`, `Grouped`, `AgainAt`).

## Plan

In this order, the most important first.

1. `BatchQueue` extended by the listener of the batch stream and the callbacks;
   `ResourceScheduler` by a process that runs one item twice and by starvation behind ten
   busy resources.
2. The composition of `Gate` and `Completion`: every attempt of the fallback loop counts
   itself against the capacity of its own connection.
3. What lists hold in `EntityCache`: the pool definition rewritten from a stale copy
   (`ai-resource.service.ts:322`); and the cached roles (`role.service.ts`).
4. Routing and roles as pure functions against reference definitions: the groups of
   `recursiveEvaluateRoutingConditions`, the first statement of a policy that matches.

## Not modelled

- Adapters to the providers, token counting, secrets, storage set-up and migrations, the
  shell: calls of libraries and formats, with no state of the program's own.
- Routing conditions and policies: pure evaluation of user-written conditions; the
  completion takes every outcome. Known there: a route with `traffic` 0 always matches
  (`routing.service.ts:117`), and `secondaryModelIndex` 0 is refused
  (`completion.service.ts:232`).
- The queries over usage and audit, and the gap filling of usage series: SQL and dates.
- The web UI, its generated client, deployment, examples: most of the repository's lines,
  and no concurrent logic of the server.
