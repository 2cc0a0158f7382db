----------------------------- MODULE BatchQueue -----------------------------
(***************************************************************************)
(* The items of one completion batch on their way through the Redis queues *)
(* of completion/batch/batch-queue.service.ts, the tasks that process them *)
(* in the API processes (batch-queue.base-consumer.ts and                  *)
(* batch-queue.consumer.ts) and the counters kept of them in Redis and in  *)
(* PostgreSQL (batch-service.ts).                                          *)
(*                                                                         *)
(* Every await of the code is a step boundary, every MULTI, Lua script or  *)
(* SQL statement is one step.  A process may crash between two steps, a    *)
(* Redis call or a database update may fail, and a task may still be       *)
(* running when the visibility timeout of its item passes.  Which resource *)
(* a worker looks at, and when, is the subject of module                   *)
(* ResourceScheduler: here a worker may retrieve at any time.              *)
(***************************************************************************)
EXTENDS Integers, FiniteSets, Sequences

CONSTANTS
  Host,         \* the API processes; each runs the consumer and reprocess loops
  Item,         \* the items of the batch, numbered in the order of their createdAt score
  MaxRetries,   \* bound: a completion fails in a retried way only below this retryCount
  Faults,       \* the kinds of adverse event that may happen
  MaxFaults     \* bound: how many of them happen

ASSUME BatchQueueAssumption ==
  /\ Host # {}
  /\ Item # {} /\ Item \subseteq Nat /\ IsFiniteSet(Item)
  /\ Faults \subseteq {"crash", "redisError", "overrun", "dbError", "cancel"}
  /\ MaxRetries \in Nat /\ MaxFaults \in Nat

VARIABLES
  \* Redis
  mainQueue,        \* items in the resource's main queue
  processingQueue,  \* items in the resource's processing queue
  globalQueue,      \* items in the global processing queue, the index the reprocess loop reads
  due,              \* those of globalQueue whose score is in the past
  payload,          \* the item-payload hashes
  batch,            \* the batch hash: pending, completed, failed, status
  itemEvents,       \* items with an item-completed or item-failed event in the batch stream
  batchEvents,      \* number of batch-completed and batch-failed events in the batch stream
  \* PostgreSQL
  dbBatch,          \* the completionBatch row
  dbItem,           \* the status column of the completionBatchItems rows
  \* memory of the processes
  sender,           \* progress of the request that created the batch
  unsent,           \* items it has not enqueued yet
  fetch,            \* per host: what the consumer loop is retrieving
  task,             \* per host and item: the running processItemHandler
  reap,             \* per host and item: what the reprocess loop is moving
  \* history
  finishes,         \* how often deleteItem counted each item off
  faults            \* the adverse events so far, in order

redisVars   == <<mainQueue, processingQueue, globalQueue, due, payload>>
counterVars == <<batch, itemEvents, batchEvents>>
dbVars      == <<dbBatch, dbItem>>
sendVars    == <<sender, unsent>>
vars == <<redisVars, counterVars, dbVars, sendVars, fetch, task, reap, finishes, faults>>

-----------------------------------------------------------------------------
(* The states of the parts.                                                *)

ItemStatus  == {"PENDING", "RUNNING", "COMPLETED", "FAILED", "CANCELLED"}
Outcome     == {"COMPLETED", "FAILED"}
\* The four Redis calls deleteItem issues together.
DeleteCalls == {"counters", "payload", "index", "event"}
TaskSteps   == {"none", "begin", "mark", "call", "defer", "delete", "verdict",
                "dbStatus", "redisStatus", "batchEvent", "tally"}

\* "stub" is the hash HINCRBY recreates after the payload was deleted: a
\* retryCount and nothing else.
PayloadState == [kind : {"none", "full", "stub"}, retryCount : Nat]

BatchState ==
  [pending : Int, completed : Nat, failed : Nat, status : Outcome \cup {"none", "PENDING"}]

DbBatchState ==
  [status : ItemStatus, pending : Int, running : Int, completed : Nat, failed : Nat]

TaskState ==
  [step : TaskSteps, first : BOOLEAN, outcome : Outcome, todo : SUBSET DeleteCalls,
   last : BOOLEAN, verdict : Outcome]

FetchState == [step : {"idle", "index", "read"}, items : SUBSET Item]

ReapState == {"none", "taken", "full", "bare"}

NoTask == [step |-> "none", first |-> FALSE, outcome |-> "FAILED",
           todo |-> {}, last |-> FALSE, verdict |-> "FAILED"]

NewTask(isFirst) == [NoTask EXCEPT !.step = "begin", !.first = isFirst]

Idle == [step |-> "idle", items |-> {}]

\* An adverse event of the kind happens: a process crash, a failed Redis call, a
\* visibility timeout that passes while the item is processed, a database error, a cancel.
Fault(kind) ==
  /\ kind \in Faults
  /\ Len(faults) < MaxFaults
  /\ faults' = Append(faults, kind)

Happened(kind) == \E n \in DOMAIN faults : faults[n] = kind

Live(h, i) == task[h][i].step # "none"

\* i is in the hands of a consumer loop or of a task.
Held(i) == \E h \in Host : i \in fetch[h].items \/ Live(h, i)

Init ==
  /\ mainQueue = {} /\ processingQueue = {} /\ globalQueue = {} /\ due = {}
  /\ payload = [i \in Item |-> [kind |-> "none", retryCount |-> 0]]
  /\ batch = [pending |-> 0, completed |-> 0, failed |-> 0, status |-> "none"]
  /\ itemEvents = {} /\ batchEvents = 0
  /\ dbBatch = [status |-> "PENDING", pending |-> Cardinality(Item),
                running |-> 0, completed |-> 0, failed |-> 0]
  /\ dbItem = [i \in Item |-> "PENDING"]
  /\ sender = "committed" /\ unsent = Item
  /\ fetch = [h \in Host |-> Idle]
  /\ task = [h \in Host |-> [i \in Item |-> NoTask]]
  /\ reap = [h \in Host |-> [i \in Item |-> "none"]]
  /\ finishes = [i \in Item |-> 0]
  /\ faults = <<>>

-----------------------------------------------------------------------------
(* sendBatch, run by the request that created the batch, after its         *)
(* database transaction has committed.                                     *)

\* The MULTI that writes the batch hash, and the batch-created event.
SendBatch ==
  /\ sender = "committed"
  /\ sender' = "enqueueing"
  /\ batch' = [batch EXCEPT !.pending = Cardinality(Item), !.status = "PENDING"]
  /\ UNCHANGED <<redisVars, itemEvents, batchEvents, dbVars, unsent, fetch, task,
                 reap, finishes, faults>>

\* The MULTI of one item: main queue member and payload hash.
EnqueueItem(i) ==
  /\ sender = "enqueueing"
  /\ i \in unsent
  /\ unsent' = unsent \ {i}
  /\ mainQueue' = mainQueue \cup {i}
  /\ payload' = [payload EXCEPT ![i] = [kind |-> "full", retryCount |-> 0]]
  /\ UNCHANGED <<processingQueue, globalQueue, due, counterVars, dbVars, sender, fetch,
                 task, reap, finishes, faults>>

\* The process serving the request dies: what is not enqueued never will be.
SenderCrash ==
  /\ Fault("crash")
  /\ sender # "gone" /\ unsent # {}
  /\ sender' = "gone"
  /\ UNCHANGED <<redisVars, counterVars, dbVars, unsent, fetch, task, reap, finishes>>

-----------------------------------------------------------------------------
(* retrieveItems, called by the consumer loop.                             *)

\* S is a non-empty prefix of the queue Q in score order.
IsPrefix(S, Q) ==
  /\ S # {} /\ S \subseteq Q
  /\ \A i \in S, j \in Q : j < i => j \in S

\* The Lua script: move a prefix of the main queue to the processing queue.
\* A host runs at most one task per item (a bound of the model).
RetrieveItems(h) ==
  /\ fetch[h].step = "idle"
  /\ \E S \in SUBSET mainQueue :
       /\ IsPrefix(S, mainQueue)
       /\ \A i \in S : ~Live(h, i)
       /\ mainQueue' = mainQueue \ S
       /\ processingQueue' = processingQueue \cup S
       /\ fetch' = [fetch EXCEPT ![h] = [step |-> "index", items |-> S]]
  /\ UNCHANGED <<globalQueue, due, payload, counterVars, dbVars, sendVars, task, reap,
                 finishes, faults>>

\* Seeded bug: the items are not entered in the index.
IndexItemsForgotten(h) ==
  /\ fetch[h].step = "index"
  /\ fetch' = [fetch EXCEPT ![h].step = "read"]
  /\ UNCHANGED <<redisVars, counterVars, dbVars, sendVars, task, reap, finishes, faults>>

\* The MULTI that enters the items in the global processing queue.
IndexItems(h) ==
  /\ fetch[h].step = "index"
  /\ globalQueue' = globalQueue \cup fetch[h].items
  /\ due' = due \ fetch[h].items
  /\ fetch' = [fetch EXCEPT ![h].step = "read"]
  /\ UNCHANGED <<mainQueue, processingQueue, payload, counterVars, dbVars, sendVars, task,
                 reap, finishes, faults>>

\* The items for which the loop reaches processItemHandler: an item without
\* payload makes it throw, and the items behind it are not started.
Startable(S) ==
  {i \in S : \A j \in S : j <= i => payload[j].kind = "full"}

\* The MULTI that reads the payloads, and the loop that starts the tasks.
StartTasks(h) ==
  /\ fetch[h].step = "read"
  /\ task' = [task EXCEPT ![h] = [i \in Item |->
       IF i \in Startable(fetch[h].items)
         THEN NewTask(payload[i].retryCount = 0)
         ELSE @[i]]]
  /\ fetch' = [fetch EXCEPT ![h] = Idle]
  /\ UNCHANGED <<redisVars, counterVars, dbVars, sendVars, reap, finishes, faults>>

-----------------------------------------------------------------------------
(* processItem and processItemHandler.                                     *)

SetTask(h, i, t) == task' = [task EXCEPT ![h][i] = t]

Goto(h, i, step) == SetTask(h, i, [task[h][i] EXCEPT !.step = step])

\* Seeded bug: the counters move at every attempt.
BeginItemAlwaysCounts(h, i) ==
  /\ task[h][i].step = "begin"
  /\ dbBatch' = [dbBatch EXCEPT !.pending = @ - 1, !.running = @ + 1]
  /\ Goto(h, i, "mark")
  /\ UNCHANGED <<redisVars, counterVars, dbItem, sendVars, fetch, reap, finishes, faults>>

\* Counters of the database row, on the first attempt only.
BeginItem(h, i) ==
  /\ task[h][i].step = "begin"
  /\ dbBatch' = IF task[h][i].first
                  THEN [dbBatch EXCEPT !.pending = @ - 1, !.running = @ + 1]
                  ELSE dbBatch
  /\ Goto(h, i, "mark")
  /\ UNCHANGED <<redisVars, counterVars, dbItem, sendVars, fetch, reap, finishes, faults>>

MarkRunning(h, i) ==
  /\ task[h][i].step = "mark"
  /\ dbItem' = [dbItem EXCEPT ![i] = "RUNNING"]
  /\ Goto(h, i, "call")
  /\ UNCHANGED <<redisVars, counterVars, dbBatch, sendVars, fetch, reap, finishes, faults>>

\* Seeded bug: item.payload is not the updated row, so finishItem sees the old status.
CallEndsWithOldRow(h, i, outcome) ==
  /\ task[h][i].step = "call"
  /\ dbItem' = [dbItem EXCEPT ![i] = outcome]
  /\ SetTask(h, i, [task[h][i] EXCEPT !.step = "delete", !.outcome = dbItem[i],
                                      !.todo = DeleteCalls])
  /\ UNCHANGED <<redisVars, counterVars, dbBatch, sendVars, fetch, reap, finishes, faults>>

\* The completion succeeds, or fails for good: either way the item's row is
\* updated and finishItem calls deleteItem.
CallEnds(h, i, outcome) ==
  /\ task[h][i].step = "call"
  /\ dbItem' = [dbItem EXCEPT ![i] = outcome]
  /\ SetTask(h, i, [task[h][i] EXCEPT !.step = "delete", !.outcome = outcome,
                                      !.todo = DeleteCalls])
  /\ UNCHANGED <<redisVars, counterVars, dbBatch, sendVars, fetch, reap, finishes, faults>>

\* A CompletionError with retryable: the row says FAILED until the next attempt.
CallRetryable(h, i) ==
  /\ task[h][i].step = "call"
  /\ payload[i].retryCount < MaxRetries
  /\ dbItem' = [dbItem EXCEPT ![i] = "FAILED"]
  /\ Goto(h, i, "defer")
  /\ UNCHANGED <<redisVars, counterVars, dbBatch, sendVars, fetch, reap, finishes, faults>>

\* Seeded bug: the item goes straight to the main queue and stays in the index.
DeferItemToMainQueue(h, i) ==
  /\ task[h][i].step = "defer"
  /\ mainQueue' = mainQueue \cup {i}
  /\ SetTask(h, i, NoTask)
  /\ UNCHANGED <<processingQueue, globalQueue, due, payload, counterVars, dbVars,
                 sendVars, fetch, reap, finishes, faults>>

\* Seeded bug: no return behind the new timestamp, so the item is deleted as well.
DeferItemFallsThrough(h, i) ==
  /\ task[h][i].step = "defer"
  /\ due' = due \cup ({i} \cap globalQueue)
  /\ SetTask(h, i, [task[h][i] EXCEPT !.step = "delete", !.outcome = "FAILED",
                                      !.todo = DeleteCalls])
  /\ UNCHANGED <<mainQueue, processingQueue, globalQueue, payload, counterVars, dbVars,
                 sendVars, fetch, reap, finishes, faults>>

\* updateQueueProcessingTimestamp: ZADD XX, so an item that left the global
\* queue is not put back.
DeferItem(h, i) ==
  /\ task[h][i].step = "defer"
  /\ due' = due \ {i}
  /\ SetTask(h, i, NoTask)
  /\ UNCHANGED <<mainQueue, processingQueue, globalQueue, payload, counterVars, dbVars,
                 sendVars, fetch, reap, finishes, faults>>

\* Any other error of processItem, a failed database update for one: the row says
\* FAILED, the queues are left alone and the item waits for its visibility timeout.
\* (An error of that last update nobody catches: it ends the process, see Crash.)
CallThrows(h, i) ==
  /\ task[h][i].step \in {"begin", "mark", "call"}
  /\ Fault("dbError")
  /\ dbItem' = [dbItem EXCEPT ![i] = "FAILED"]
  /\ SetTask(h, i, NoTask)
  /\ UNCHANGED <<redisVars, counterVars, dbBatch, sendVars, fetch, reap, finishes>>

-----------------------------------------------------------------------------
(* deleteItem: four calls at once, to keys of different cluster slots.     *)

\* The task once call c has returned; the last one to return decides whether
\* the batch is completed.
CallReturned(t, c) ==
  LET rest == t.todo \ {c}
  IN  [t EXCEPT !.todo = rest,
                !.step = IF rest # {} THEN "delete"
                         ELSE IF t.last THEN "verdict" ELSE "tally"]

\* Seeded bugs: other comparisons of the counter, and of its value before HINCRBY.
DeleteCountersComparing(h, i, isLast) ==
  /\ task[h][i].step = "delete" /\ "counters" \in task[h][i].todo
  /\ batch' = [batch EXCEPT
       !.pending   = @ - 1,
       !.completed = IF task[h][i].outcome = "COMPLETED" THEN @ + 1 ELSE @,
       !.failed    = IF task[h][i].outcome = "FAILED" THEN @ + 1 ELSE @]
  /\ SetTask(h, i, CallReturned([task[h][i] EXCEPT !.last = isLast], "counters"))
  /\ finishes' = [finishes EXCEPT ![i] = @ + 1]
  /\ UNCHANGED <<redisVars, itemEvents, batchEvents, dbVars, sendVars, fetch, reap, faults>>

DeleteCountersAtMostOne(h, i) == DeleteCountersComparing(h, i, batch.pending - 1 <= 1)
DeleteCountersBefore(h, i)     == DeleteCountersComparing(h, i, batch.pending = 0)
DeleteCountersEarly(h, i)      == DeleteCountersComparing(h, i, batch.pending - 1 = 1)

DeleteCounters(h, i) ==
  /\ task[h][i].step = "delete" /\ "counters" \in task[h][i].todo
  /\ batch' = [batch EXCEPT
       !.pending   = @ - 1,
       !.completed = IF task[h][i].outcome = "COMPLETED" THEN @ + 1 ELSE @,
       !.failed    = IF task[h][i].outcome = "FAILED" THEN @ + 1 ELSE @]
  /\ SetTask(h, i, CallReturned([task[h][i] EXCEPT !.last = (batch.pending - 1 = 0)],
                                "counters"))
  /\ finishes' = [finishes EXCEPT ![i] = @ + 1]
  /\ UNCHANGED <<redisVars, itemEvents, batchEvents, dbVars, sendVars, fetch, reap, faults>>

DeletePayload(h, i) ==
  /\ task[h][i].step = "delete" /\ "payload" \in task[h][i].todo
  /\ payload' = [payload EXCEPT ![i] = [kind |-> "none", retryCount |-> 0]]
  /\ processingQueue' = processingQueue \ {i}
  /\ SetTask(h, i, CallReturned(task[h][i], "payload"))
  /\ UNCHANGED <<mainQueue, globalQueue, due, counterVars, dbVars, sendVars, fetch, reap,
                 finishes, faults>>

DeleteIndex(h, i) ==
  /\ task[h][i].step = "delete" /\ "index" \in task[h][i].todo
  /\ globalQueue' = globalQueue \ {i}
  /\ due' = due \ {i}
  /\ SetTask(h, i, CallReturned(task[h][i], "index"))
  /\ UNCHANGED <<mainQueue, processingQueue, payload, counterVars, dbVars, sendVars, fetch,
                 reap, finishes, faults>>

\* The event goes to the slot of the batch hash, so behind the counters.
DeleteEvent(h, i) ==
  /\ task[h][i].step = "delete" /\ "event" \in task[h][i].todo
  /\ "counters" \notin task[h][i].todo
  /\ itemEvents' = itemEvents \cup {i}
  /\ SetTask(h, i, CallReturned(task[h][i], "event"))
  /\ UNCHANGED <<redisVars, batch, batchEvents, dbVars, sendVars, fetch, reap, finishes,
                 faults>>

-----------------------------------------------------------------------------
(* completeBatch, run by the task whose decrement returned zero, and the   *)
(* end of finishItem.                                                      *)

\* Seeded bug: one failed item is tolerated.
ReadVerdictTolerant(h, i) ==
  /\ task[h][i].step = "verdict"
  /\ SetTask(h, i, [task[h][i] EXCEPT !.step = "dbStatus",
       !.verdict = IF batch.failed > 1 THEN "FAILED" ELSE "COMPLETED"])
  /\ UNCHANGED <<redisVars, counterVars, dbVars, sendVars, fetch, reap, finishes, faults>>

ReadVerdict(h, i) ==
  /\ task[h][i].step = "verdict"
  /\ SetTask(h, i, [task[h][i] EXCEPT !.step = "dbStatus",
       !.verdict = IF batch.failed > 0 THEN "FAILED" ELSE "COMPLETED"])
  /\ UNCHANGED <<redisVars, counterVars, dbVars, sendVars, fetch, reap, finishes, faults>>

UpdateDbStatus(h, i) ==
  /\ task[h][i].step = "dbStatus"
  /\ dbBatch' = [dbBatch EXCEPT !.status = task[h][i].verdict]
  /\ Goto(h, i, "redisStatus")
  /\ UNCHANGED <<redisVars, counterVars, dbItem, sendVars, fetch, reap, finishes, faults>>

UpdateRedisStatus(h, i) ==
  /\ task[h][i].step = "redisStatus"
  /\ batch' = [batch EXCEPT !.status = task[h][i].verdict]
  /\ Goto(h, i, "batchEvent")
  /\ UNCHANGED <<redisVars, itemEvents, batchEvents, dbVars, sendVars, fetch, reap,
                 finishes, faults>>

BatchEvent(h, i) ==
  /\ task[h][i].step = "batchEvent"
  /\ batchEvents' = batchEvents + 1
  /\ Goto(h, i, "tally")
  /\ UNCHANGED <<redisVars, batch, itemEvents, dbVars, sendVars, fetch, reap, finishes,
                 faults>>

\* The counters of the database row; nothing is awaited behind them.
TallyItem(h, i) ==
  /\ task[h][i].step = "tally"
  /\ dbBatch' = [dbBatch EXCEPT
       !.running   = @ - 1,
       !.completed = IF task[h][i].outcome = "COMPLETED" THEN @ + 1 ELSE @,
       !.failed    = IF task[h][i].outcome = "FAILED" THEN @ + 1 ELSE @]
  /\ SetTask(h, i, NoTask)
  /\ UNCHANGED <<redisVars, counterVars, dbItem, sendVars, fetch, reap, finishes, faults>>

\* The database update of completeBatch fails: the handler's catch marks the
\* item FAILED and gives up; nobody completes the batch any more.  (Of a failed
\* item finishItem runs in the catch: there the error ends the process, see Crash.)
CompleteThrows(h, i) ==
  /\ task[h][i].step = "dbStatus" /\ task[h][i].outcome = "COMPLETED"
  /\ Fault("dbError")
  /\ dbItem' = [dbItem EXCEPT ![i] = "FAILED"]
  /\ SetTask(h, i, NoTask)
  /\ UNCHANGED <<redisVars, counterVars, dbBatch, sendVars, fetch, reap, finishes>>

-----------------------------------------------------------------------------
(* Time and reprocessLoop.                                                 *)

\* The score of i falls into the past.  While somebody still processes i this
\* is an overrun; the two-minute default makes it rare, nothing excludes it.
VisibilityTimeout(i) ==
  /\ i \in globalQueue \ due
  /\ IF Held(i)
       THEN Fault("overrun")
       ELSE UNCHANGED faults
  /\ due' = due \cup {i}
  /\ UNCHANGED <<mainQueue, processingQueue, globalQueue, payload, counterVars, dbVars,
                 sendVars, fetch, task, reap, finishes>>

\* The Lua script takes expired members (at most 100) out of the index.  The loop
\* awaits the round before; only an error lets it go on while others are moved.
ReapExpired(h) ==
  /\ (\A i \in Item : reap[h][i] = "none") \/ Happened("redisError")
  /\ \E S \in SUBSET {i \in due : reap[h][i] = "none"} :
       /\ S # {}
       /\ globalQueue' = globalQueue \ S
       /\ due' = due \ S
       /\ reap' = [reap EXCEPT ![h] = [i \in Item |-> IF i \in S THEN "taken" ELSE @[i]]]
  /\ UNCHANGED <<mainQueue, processingQueue, payload, counterVars, dbVars, sendVars, fetch,
                 task, finishes, faults>>

\* hgetall of the payload: only a full hash has the timestamp ZADD needs.
ReadPayload(h, i) ==
  /\ reap[h][i] = "taken"
  /\ reap' = [reap EXCEPT ![h][i] = IF payload[i].kind = "full" THEN "full" ELSE "bare"]
  /\ UNCHANGED <<redisVars, counterVars, dbVars, sendVars, fetch, task, finishes, faults>>

\* Seeded bug: an item that was tried before is not added to the main queue.
RequeueOnce(h, i) ==
  /\ reap[h][i] \in {"full", "bare"}
  /\ processingQueue' = processingQueue \ {i}
  /\ mainQueue' = IF reap[h][i] = "full" /\ payload[i].retryCount < 1
                    THEN mainQueue \cup {i} ELSE mainQueue
  /\ payload' = [payload EXCEPT ![i].retryCount = @ + 1]
  /\ reap' = [reap EXCEPT ![h][i] = "none"]
  /\ UNCHANGED <<globalQueue, due, counterVars, dbVars, sendVars, fetch, task, finishes,
                 faults>>

\* The MULTI: without timestamp its ZADD fails and the others take effect;
\* HINCRBY recreates a deleted hash.
Requeue(h, i) ==
  /\ reap[h][i] \in {"full", "bare"}
  /\ processingQueue' = processingQueue \ {i}
  /\ mainQueue' = IF reap[h][i] = "full" THEN mainQueue \cup {i} ELSE mainQueue
  /\ payload' = [payload EXCEPT ![i] =
       [kind |-> IF @.kind = "none" THEN "stub" ELSE @.kind,
        retryCount |-> @.retryCount + 1]]
  /\ reap' = [reap EXCEPT ![h][i] = "none"]
  /\ UNCHANGED <<globalQueue, due, counterVars, dbVars, sendVars, fetch, task, finishes,
                 faults>>

-----------------------------------------------------------------------------
(* A Redis call fails: it has no effect, or its effect is there (the step  *)
(* was taken) and the answer is lost.                                      *)

\* The request fails before anything is enqueued, or one item's MULTI does while
\* the others, sent together with it, go on.
SendFails ==
  /\ Fault("redisError")
  /\ \/ sender = "committed" /\ sender' = "gone" /\ UNCHANGED unsent
     \/ /\ sender = "enqueueing" /\ UNCHANGED sender
        /\ \E i \in unsent : unsent' = unsent \ {i}
  /\ UNCHANGED <<redisVars, counterVars, dbVars, fetch, task, reap, finishes>>

\* The consumer loop's catch logs the error; what it had retrieved is forgotten.
FetchFails(h) ==
  /\ fetch[h] # Idle
  /\ Fault("redisError")
  /\ fetch' = [fetch EXCEPT ![h] = Idle]
  /\ UNCHANGED <<redisVars, counterVars, dbVars, sendVars, task, reap, finishes>>

\* So does the reprocess loop's: items already out of the index are forgotten, the
\* one whose HGETALL or MULTI fails or, when the connection is lost, several.
ReapFails(h) ==
  /\ Fault("redisError")
  /\ \E S \in SUBSET {i \in Item : reap[h][i] # "none"} :
       /\ S # {}
       /\ reap' = [reap EXCEPT ![h] = [i \in Item |-> IF i \in S THEN "none" ELSE @[i]]]
  /\ UNCHANGED <<redisVars, counterVars, dbVars, sendVars, fetch, task, finishes>>

\* One of the calls of finishItem fails behind a successful completion: the handler's
\* catch marks the item FAILED and gives up.  Those of deleteItem's calls that succeed
\* come first.  (In the catch, for a failed or deferred item, nobody handles the
\* error: it ends the process, see Crash.)
FinishFails(h, i) ==
  /\ task[h][i].step \in {"delete", "verdict", "redisStatus", "batchEvent", "tally"}
  /\ task[h][i].outcome = "COMPLETED"
  /\ Fault("redisError")
  /\ dbItem' = [dbItem EXCEPT ![i] = "FAILED"]
  /\ SetTask(h, i, NoTask)
  /\ UNCHANGED <<redisVars, counterVars, dbBatch, sendVars, fetch, reap, finishes>>

RedisFails ==
  \/ SendFails
  \/ \E h \in Host :
       \/ FetchFails(h) \/ ReapFails(h)
       \/ \E i \in Item : FinishFails(h, i)

-----------------------------------------------------------------------------
(* A process dies with everything it holds in memory; the user cancels.    *)

Crash(h) ==
  /\ Fault("crash")
  /\ \/ fetch[h] # Idle
     \/ \E i \in Item : Live(h, i) \/ reap[h][i] # "none"
  /\ fetch' = [fetch EXCEPT ![h] = Idle]
  /\ task' = [task EXCEPT ![h] = [i \in Item |-> NoTask]]
  /\ reap' = [reap EXCEPT ![h] = [i \in Item |-> "none"]]
  /\ UNCHANGED <<redisVars, counterVars, dbVars, sendVars, finishes>>

\* cancel updates the database and leaves the queues alone.
Cancel ==
  /\ Fault("cancel")
  /\ dbBatch' = [dbBatch EXCEPT !.status = "CANCELLED"]
  /\ dbItem' = [i \in Item |-> IF dbItem[i] = "PENDING" THEN "CANCELLED" ELSE dbItem[i]]
  /\ UNCHANGED <<redisVars, counterVars, sendVars, fetch, task, reap, finishes>>

-----------------------------------------------------------------------------
Fetching(h) == RetrieveItems(h) \/ IndexItems(h) \/ StartTasks(h)

Processing(h, i) ==
  \/ BeginItem(h, i) \/ MarkRunning(h, i)
  \/ \E outcome \in Outcome : CallEnds(h, i, outcome)
  \/ CallRetryable(h, i) \/ DeferItem(h, i) \/ CallThrows(h, i)

Finishing(h, i) ==
  \/ DeleteCounters(h, i) \/ DeletePayload(h, i) \/ DeleteIndex(h, i) \/ DeleteEvent(h, i)
  \/ ReadVerdict(h, i) \/ UpdateDbStatus(h, i) \/ UpdateRedisStatus(h, i)
  \/ BatchEvent(h, i) \/ TallyItem(h, i) \/ CompleteThrows(h, i)

Reprocessing(h) ==
  \/ ReapExpired(h)
  \/ \E i \in Item : ReadPayload(h, i) \/ Requeue(h, i)

Sending == SendBatch \/ \E i \in Item : EnqueueItem(i)

Next ==
  \/ Sending \/ SenderCrash \/ Cancel \/ RedisFails
  \/ \E i \in Item : VisibilityTimeout(i)
  \/ \E h \in Host :
       \/ Fetching(h) \/ Reprocessing(h) \/ Crash(h)
       \/ \E i \in Item : Processing(h, i) \/ Finishing(h, i)

Spec == Init /\ [][Next]_vars

\* A main queue is looked at again and again while some item in it was never put back:
\* until that one is retrieved no worker finds the queue empty and removes its resource.
\* A queue of requeued items only may be forgotten (ResourceScheduler's StrandedByRequeueOnly).
Attended == \E i \in mainQueue : payload[i].retryCount = 0

\* The loops run for ever, a request is served to its end, a completion call
\* returns, and a score that nobody refreshes falls into the past.
Fairness ==
  /\ WF_vars(Sending)
  /\ \A i \in Item : WF_vars(VisibilityTimeout(i))
  /\ \A h \in Host :
       /\ WF_vars(Attended /\ RetrieveItems(h))
       /\ WF_vars(IndexItems(h) \/ StartTasks(h))
       /\ WF_vars(Reprocessing(h))
       /\ \A i \in Item : WF_vars(Processing(h, i)) /\ WF_vars(Finishing(h, i))

FairSpec == Spec /\ Fairness

-----------------------------------------------------------------------------
(* Properties.                                                             *)

\* The types of all variables.
TypeOK ==
  /\ mainQueue \in SUBSET Item /\ processingQueue \in SUBSET Item
  /\ globalQueue \in SUBSET Item /\ due \subseteq globalQueue
  /\ payload \in [Item -> PayloadState]
  /\ batch \in BatchState
  /\ itemEvents \in SUBSET Item /\ batchEvents \in Nat
  /\ dbBatch \in DbBatchState
  /\ dbItem \in [Item -> ItemStatus]
  /\ sender \in {"committed", "enqueueing", "gone"} /\ unsent \in SUBSET Item
  /\ fetch \in [Host -> FetchState]
  /\ task \in [Host -> [Item -> TaskState]]
  /\ reap \in [Host -> [Item -> ReapState]]
  /\ finishes \in [Item -> Nat]
  /\ faults \in Seq(Faults)

\* No process has crashed, no Redis call has failed and no task has outlived the
\* visibility timeout.
Undisturbed == ~Happened("crash") /\ ~Happened("redisError") /\ ~Happened("overrun")

\* An item is in the hands of at most one task, and then not in the main queue
\* as well: what the move from the main to the processing queue is for.
ExclusiveProcessing ==
  Undisturbed =>
    \A i \in Item : \A h, g \in Host :
      Live(h, i) => /\ Live(g, i) => g = h
                    /\ i \notin mainQueue

\* Redis alone decides what becomes of i: it has been counted off, or it is in
\* a queue that is read and its payload is there.
Secured(i) ==
  \/ finishes[i] > 0
  \/ payload[i].kind = "full" /\ i \in mainQueue \cup globalQueue

\* i depends on a process that is between two Redis calls: on its way into a
\* queue, from one queue to another, or being deleted but not counted off yet.
InTransit(i) ==
  \/ i \in unsent /\ sender # "gone"
  \/ /\ payload[i].kind = "full"
     /\ \E h \in Host : \/ fetch[h].step = "index" /\ i \in fetch[h].items
                        \/ reap[h][i] \in {"taken", "full"}
  \/ \E h \in Host : task[h][i].step = "delete" /\ "counters" \in task[h][i].todo

Traceable(i) == Secured(i) \/ InTransit(i)

\* As long as no process crashes and no Redis call fails no item is lost: not by
\* retries, database errors, cancels, or tasks that outlive the visibility timeout.
NoItemLost ==
  (~Happened("crash") /\ ~Happened("redisError")) => \A i \in Item : Traceable(i)

\* The step loses no item, or it is a crash or a failed Redis call and the item
\* depended on the process.
LosesOnlyInTransit ==
  \A i \in Item : (Traceable(i) /\ ~Traceable(i)') =>
    /\ ~Secured(i)
    /\ \E kind \in {"crash", "redisError"} : faults' = Append(faults, kind)

\* Whatever happened before, an item is only lost by a crash or a failed Redis call,
\* and only while it depends on the memory of a process.
LostOnlyInTransit == [][LosesOnlyInTransit]_vars

\* completeBatch runs at most once, whatever is retried, lost or done twice:
\* the batch stream gets one batch-completed or batch-failed event.
OneBatchEvent == batchEvents <= 1

\* When the batch has its final status every item has been counted off exactly
\* once, and the status says FAILED iff the row of some item does.
VerdictSound ==
  (Undisturbed /\ batch.status \in Outcome) =>
    /\ \A i \in Item : finishes[i] = 1 /\ dbItem[i] \in Outcome
    /\ batch.status = "FAILED" <=> \E i \in Item : dbItem[i] = "FAILED"

\* deleteItem is final: an item counted off is not put into the main queue.
NoResurrection ==
  [][Undisturbed => \A i \in Item :
       (finishes[i] > 0 /\ i \notin mainQueue) => i \notin mainQueue']_vars

\* Unless an update fails, the counters of the database row never go negative, and
\* agree with those in Redis once all items are counted off and the tasks have ended.
CountersAgree ==
  (Undisturbed /\ ~Happened("dbError")) =>
    /\ dbBatch.pending >= 0 /\ dbBatch.running >= 0
    /\ (\A i \in Item : finishes[i] > 0 /\ ~Held(i)) =>
         /\ dbBatch.pending = 0 /\ dbBatch.running = 0 /\ batch.pending = 0
         /\ dbBatch.completed = batch.completed /\ dbBatch.failed = batch.failed

\* Every batch gets its final event, unless an item that was put back for another
\* attempt waits in its main queue for ever.
EventuallyCompleted ==
  \/ <>(batchEvents = 1)
  \/ <>[](\E i \in mainQueue : payload[i].retryCount > 0)

\* The page on batch completion: "Items in processing queue expire after a timeout and are reprocessed
\* if not completed": every one of them is indexed, or in somebody's hands.
ExpiryCoversProcessing ==
  \A i \in processingQueue :
    i \in globalQueue \/ Held(i) \/ \E h \in Host : reap[h][i] # "none"

\* The same page, on the events of a batch: "batch-completed: All items completed".
CompletedMeansAllItems ==
  batchEvents > 0 => \A i \in Item : finishes[i] > 0

-----------------------------------------------------------------------------
(* What a client of the batch API relies on, and how the queues provide it. *)

contractItem ==
  [i \in Item |-> IF finishes[i] > 0 THEN dbItem[i]
                  ELSE IF \E h \in Host : Live(h, i) THEN "running" ELSE "waiting"]

contractVerdict == IF batch.status \in Outcome THEN batch.status ELSE "none"

Contract == INSTANCE BatchContract WITH item <- contractItem, verdict <- contractVerdict

\* The queues implement the contract, step by step.
ImplementsContract == Contract!Spec
=============================================================================
