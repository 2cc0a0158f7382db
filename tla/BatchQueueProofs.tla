-------------------------- MODULE BatchQueueProofs --------------------------
(***************************************************************************)
(* Proofs about BatchQueue, for every number of processes, items, retries  *)
(* and faults.                                                             *)
(***************************************************************************)
EXTENDS BatchQueue, FiniteSetTheorems, TLAPS

\* The number of items, which SendBatch writes to the batch hash, is a natural number.
LEMMA ItemCount == Cardinality(Item) \in Nat
  BY FS_CardinalityType, BatchQueueAssumption

\* An adverse event keeps the history a sequence of the kinds that may happen, and
\* never takes one back.
LEMMA FaultStep ==
  ASSUME faults \in Seq(Faults), NEW kind, Fault(kind)
  PROVE  /\ faults' \in Seq(Faults)
         /\ \A k : Happened(k)' <=> (Happened(k) \/ k = kind)
<1>1. faults' \in Seq(Faults) /\ kind \in Faults /\ Len(faults') = Len(faults) + 1
  BY DEF Fault
<1>2. \A n \in 1..Len(faults) : faults'[n] = faults[n]
  BY DEF Fault
<1>3. faults'[Len(faults) + 1] = kind
  BY DEF Fault
<1>4. DOMAIN faults = 1..Len(faults) /\ DOMAIN faults' = 1..(Len(faults) + 1) /\ Len(faults) \in Nat
  BY <1>1
<1>5. \A k : Happened(k)' <=> (Happened(k) \/ k = kind)
  BY <1>2, <1>3, <1>4 DEF Happened
<1>. QED BY <1>1, <1>5

-----------------------------------------------------------------------------
(* Type correctness.                                                       *)

\* Updates of a well-formed task, batch hash or batch row that the actions make.
LEMMA TaskUpdate ==
  ASSUME NEW t \in TaskState
  PROVE  /\ \A s \in TaskSteps : [t EXCEPT !.step = s] \in TaskState
         /\ \A b \in BOOLEAN : [t EXCEPT !.last = b] \in TaskState
         /\ \A v \in Outcome : [t EXCEPT !.step = "dbStatus", !.verdict = v] \in TaskState
         /\ \A o \in Outcome :
              [t EXCEPT !.step = "delete", !.outcome = o, !.todo = DeleteCalls] \in TaskState
  BY DEF TaskState, TaskSteps

\* deleteItem's change of the batch hash keeps its type.
LEMMA BatchUpdate ==
  ASSUME NEW b \in BatchState, NEW p \in Int, NEW c \in Nat, NEW f \in Nat
  PROVE  [b EXCEPT !.pending = p, !.completed = c, !.failed = f] \in BatchState
  BY DEF BatchState

\* So do the changes sendBatch and completeBatch make to its status.
LEMMA BatchStatusUpdate ==
  ASSUME NEW b \in BatchState
  PROVE  /\ \A n \in Nat : [b EXCEPT !.pending = n, !.status = "PENDING"] \in BatchState
         /\ \A s \in Outcome : [b EXCEPT !.status = s] \in BatchState
<1>1. ASSUME NEW n \in Nat PROVE [b EXCEPT !.pending = n, !.status = "PENDING"] \in BatchState
  BY n \in Int DEF BatchState
<1>2. ASSUME NEW s \in Outcome PROVE [b EXCEPT !.status = s] \in BatchState
  BY DEF BatchState
<1>. QED BY <1>1, <1>2

\* The increments of the batch row's counters keep its type.
LEMMA DbBatchUpdate ==
  ASSUME NEW b \in DbBatchState, NEW p \in Int, NEW r \in Int, NEW c \in Nat, NEW f \in Nat
  PROVE  /\ [b EXCEPT !.pending = p, !.running = r] \in DbBatchState
         /\ [b EXCEPT !.running = r, !.completed = c, !.failed = f] \in DbBatchState
  BY DEF DbBatchState

\* A new status of the batch row keeps its type.
LEMMA DbStatusUpdate ==
  ASSUME NEW b \in DbBatchState, NEW s \in ItemStatus
  PROVE  [b EXCEPT !.status = s] \in DbBatchState
  BY DEF DbBatchState

\* A task stays well-formed when deleteItem's calls return.
LEMMA CallReturnedType ==
  ASSUME NEW t \in TaskState, NEW c
  PROVE  CallReturned(t, c) \in TaskState
  BY DEF CallReturned, TaskState, TaskSteps

\* A fresh task, a finished one and an idle fetch are well-formed.
LEMMA StatesType ==
  /\ NoTask \in TaskState /\ Idle \in FetchState
  /\ \A b \in BOOLEAN : NewTask(b) \in TaskState
  BY DEF NoTask, NewTask, Idle, TaskState, FetchState, TaskSteps, Outcome

\* SetTask preserves the type of task when the new state is well-formed.
LEMMA SetTaskType ==
  ASSUME TypeOK, NEW h \in Host, NEW i \in Item, NEW t \in TaskState, SetTask(h, i, t)
  PROVE  task' \in [Host -> [Item -> TaskState]]
  BY DEF TypeOK, SetTask

\* A failed Redis call changes nothing in Redis, and of a process only what it was
\* moving: tasks and fetches are as they were or ended.
LEMMA RedisFailsEffect ==
  ASSUME TypeOK, RedisFails
  PROVE  /\ Fault("redisError")
         /\ UNCHANGED <<redisVars, counterVars, dbBatch, finishes>>
         /\ sender' \in {sender, "gone"} /\ unsent' \in SUBSET Item
         /\ dbItem' \in [Item -> ItemStatus]
         /\ fetch' \in [Host -> FetchState] /\ \A h \in Host : fetch'[h] \in {fetch[h], Idle}
         /\ task' \in [Host -> [Item -> TaskState]]
         /\ \A h \in Host, i \in Item : task'[h][i] \in {task[h][i], NoTask}
         /\ reap' \in [Host -> [Item -> ReapState]]
<1>. USE DEF redisVars, counterVars, dbVars, sendVars
<1>1. ASSUME NEW h \in Host, FetchFails(h) PROVE UNCHANGED <<task, reap, dbItem, sendVars>>
                                               /\ fetch' = [fetch EXCEPT ![h] = Idle]
  BY <1>1 DEF FetchFails
<1>2. ASSUME NEW h \in Host, ReapFails(h)
      PROVE  /\ UNCHANGED <<task, fetch, dbItem, sendVars>>
             /\ reap' \in [Host -> [Item -> ReapState]]
  <2>1. PICK S \in SUBSET Item :
          reap' = [reap EXCEPT ![h] = [i \in Item |-> IF i \in S THEN "none" ELSE reap[h][i]]]
    BY <1>2 DEF ReapFails
  <2>2. [i \in Item |-> IF i \in S THEN "none" ELSE reap[h][i]] \in [Item -> ReapState]
    BY DEF TypeOK, ReapState
  <2>. QED BY <1>2, <2>1, <2>2 DEF ReapFails, TypeOK
<1>3. ASSUME NEW h \in Host, NEW i \in Item, FinishFails(h, i)
      PROVE  /\ UNCHANGED <<fetch, reap, sendVars>>
             /\ dbItem' \in [Item -> ItemStatus]
             /\ task' = [task EXCEPT ![h][i] = NoTask]
  BY <1>3 DEF FinishFails, SetTask, TypeOK, ItemStatus
<1>4. Fault("redisError") /\ UNCHANGED <<redisVars, counterVars, dbBatch, finishes>>
  BY DEF RedisFails, SendFails, FetchFails, ReapFails, FinishFails
<1>5. NoTask \in TaskState /\ Idle \in FetchState /\ dbItem \in [Item -> ItemStatus]
      /\ unsent \in SUBSET Item /\ fetch \in [Host -> FetchState]
      /\ task \in [Host -> [Item -> TaskState]] /\ reap \in [Host -> [Item -> ReapState]]
  BY StatesType DEF TypeOK
<1>6. CASE SendFails
  <2>1. UNCHANGED <<dbItem, fetch, task, reap>> /\ sender' \in {sender, "gone"}
        /\ unsent' \in SUBSET Item
    BY <1>5, <1>6 DEF SendFails
  <2>. QED BY <1>4, <1>5, <2>1
<1>7. ASSUME NEW h \in Host, FetchFails(h)
      PROVE  /\ sender' \in {sender, "gone"} /\ unsent' \in SUBSET Item
             /\ dbItem' \in [Item -> ItemStatus]
             /\ fetch' \in [Host -> FetchState]
             /\ \A g \in Host : fetch'[g] \in {fetch[g], Idle}
             /\ task' = task /\ reap' = reap
  BY <1>1, <1>5, <1>7
<1>8. ASSUME NEW h \in Host, NEW i \in Item, FinishFails(h, i)
      PROVE  /\ task' \in [Host -> [Item -> TaskState]]
             /\ \A g \in Host, j \in Item : task'[g][j] \in {task[g][j], NoTask}
  <2>1. SetTask(h, i, NoTask)
    BY <1>8 DEF FinishFails
  <2>2. \A g \in Host, j \in Item :
          task'[g][j] = IF g = h /\ j = i THEN NoTask ELSE task[g][j]
    BY <1>5, <2>1 DEF SetTask
  <2>. QED BY <1>5, <2>1, <2>2, SetTaskType
<1>9. CASE \E h \in Host : FetchFails(h)
  <2>1. PICK h \in Host : FetchFails(h)
    BY <1>9
  <2>. QED BY <1>4, <1>5, <1>7, <2>1
<1>10. CASE \E h \in Host : ReapFails(h)
  BY <1>2, <1>4, <1>5, <1>10
<1>11. CASE \E h \in Host, i \in Item : FinishFails(h, i)
  BY <1>3, <1>4, <1>5, <1>8, <1>11
<1>. QED BY <1>6, <1>9, <1>10, <1>11 DEF RedisFails

\* The initial values have their types.
LEMMA InitType == Init => TypeOK
  BY ItemCount, StatesType DEF Init, TypeOK, PayloadState, BatchState, DbBatchState, Outcome, ItemStatus, ReapState

\* Every step keeps the types.
LEMMA NextType == TypeOK /\ [Next]_vars => TypeOK'
<1> SUFFICES ASSUME TypeOK, [Next]_vars PROVE TypeOK'
  OBVIOUS
<1>1. CASE SendBatch
  <2>1. batch' \in BatchState
    BY <1>1, ItemCount, BatchStatusUpdate DEF TypeOK, SendBatch
  <2>. QED BY <1>1, <2>1 DEF TypeOK, SendBatch, redisVars, dbVars
<1>2. ASSUME NEW i \in Item, EnqueueItem(i) PROVE TypeOK'
  BY <1>2 DEF TypeOK, EnqueueItem, counterVars, dbVars, PayloadState
<1>3. CASE SenderCrash
  BY <1>3, FaultStep DEF TypeOK, SenderCrash, redisVars, counterVars, dbVars
<1>4. CASE Cancel
  <2>1. faults' \in Seq(Faults)
    BY <1>4, FaultStep DEF TypeOK, Cancel
  <2>2. dbBatch' \in DbBatchState
    BY <1>4, DbStatusUpdate DEF TypeOK, Cancel, ItemStatus
  <2>. QED BY <1>4, <2>1, <2>2
       DEF TypeOK, Cancel, redisVars, counterVars, sendVars, ItemStatus
<1>5. ASSUME NEW i \in Item, VisibilityTimeout(i) PROVE TypeOK'
  <2>1. faults' \in Seq(Faults)
    BY <1>5, FaultStep DEF TypeOK, VisibilityTimeout
  <2>. QED BY <1>5, <2>1 DEF TypeOK, VisibilityTimeout, counterVars, dbVars, sendVars
<1>6. ASSUME NEW h \in Host, Fetching(h) PROVE TypeOK'
  <2>1. CASE RetrieveItems(h)
    BY <2>1 DEF TypeOK, RetrieveItems, FetchState, counterVars, dbVars, sendVars
  <2>2. CASE IndexItems(h)
    BY <2>2 DEF TypeOK, IndexItems, FetchState, counterVars, dbVars, sendVars
  <2>3. CASE StartTasks(h)
    BY <2>3, StatesType
    DEF TypeOK, StartTasks, redisVars, counterVars, dbVars, sendVars
  <2>. QED BY <1>6, <2>1, <2>2, <2>3 DEF Fetching
<1>7. ASSUME NEW h \in Host, Reprocessing(h) PROVE TypeOK'
  <2>1. CASE ReapExpired(h)
    <3>1. PICK S \in SUBSET due :
            /\ globalQueue' = globalQueue \ S /\ due' = due \ S
            /\ reap' = [reap EXCEPT ![h] =
                         [i \in Item |-> IF i \in S THEN "taken" ELSE reap[h][i]]]
      BY <2>1 DEF ReapExpired
    <3>2. [i \in Item |-> IF i \in S THEN "taken" ELSE reap[h][i]] \in [Item -> ReapState]
      BY DEF TypeOK, ReapState
    <3>. QED BY <2>1, <3>1, <3>2 DEF TypeOK, ReapExpired, counterVars, dbVars, sendVars
  <2>2. ASSUME NEW i \in Item, ReadPayload(h, i) PROVE TypeOK'
    BY <2>2 DEF TypeOK, ReadPayload, ReapState, redisVars, counterVars, dbVars, sendVars
  <2>3. ASSUME NEW i \in Item, Requeue(h, i) PROVE TypeOK'
    BY <2>3 DEF TypeOK, Requeue, ReapState, PayloadState, counterVars, dbVars, sendVars
  <2>. QED BY <1>7, <2>1, <2>2, <2>3 DEF Reprocessing
<1>8. ASSUME NEW h \in Host, Crash(h) PROVE TypeOK'
  <2>1. faults' \in Seq(Faults)
    BY <1>8, FaultStep DEF TypeOK, Crash
  <2>. QED BY <1>8, <2>1, StatesType
       DEF TypeOK, Crash, ReapState, redisVars, counterVars, dbVars, sendVars
<1>9. ASSUME NEW h \in Host, NEW i \in Item, Processing(h, i) PROVE TypeOK'
  <2>. DEFINE t == task[h][i]
  <2>1. t \in TaskState
    BY DEF TypeOK
  <2>2. CASE BeginItem(h, i)
    <3>1. task' \in [Host -> [Item -> TaskState]]
      BY <2>1, <2>2, TaskUpdate, SetTaskType DEF BeginItem, Goto, TaskSteps
    <3>2. dbBatch.pending - 1 \in Int /\ dbBatch.running + 1 \in Int
      BY DEF TypeOK, DbBatchState
    <3>3. dbBatch' \in DbBatchState
      BY <2>2, <3>2, DbBatchUpdate DEF BeginItem, TypeOK
    <3>. QED BY <2>2, <3>1, <3>3 DEF TypeOK, BeginItem, redisVars, counterVars, sendVars
  <2>3. CASE MarkRunning(h, i)
    <3>1. task' \in [Host -> [Item -> TaskState]]
      BY <2>1, <2>3, TaskUpdate, SetTaskType DEF MarkRunning, Goto, TaskSteps
    <3>. QED BY <2>3, <3>1 DEF TypeOK, MarkRunning, ItemStatus, redisVars, counterVars, sendVars
  <2>4. ASSUME NEW outcome \in Outcome, CallEnds(h, i, outcome) PROVE TypeOK'
    <3>1. task' \in [Host -> [Item -> TaskState]]
      BY <2>1, <2>4, TaskUpdate, SetTaskType DEF CallEnds
    <3>. QED BY <2>4, <3>1
         DEF TypeOK, CallEnds, Outcome, ItemStatus, redisVars, counterVars, sendVars
  <2>5. CASE CallRetryable(h, i)
    <3>1. task' \in [Host -> [Item -> TaskState]]
      BY <2>1, <2>5, TaskUpdate, SetTaskType DEF CallRetryable, Goto, TaskSteps
    <3>. QED BY <2>5, <3>1
         DEF TypeOK, CallRetryable, ItemStatus, redisVars, counterVars, sendVars
  <2>6. CASE DeferItem(h, i)
    <3>1. task' \in [Host -> [Item -> TaskState]]
      BY <2>6, StatesType, SetTaskType DEF DeferItem
    <3>. QED BY <2>6, <3>1 DEF TypeOK, DeferItem, counterVars, dbVars, sendVars
  <2>7. CASE CallThrows(h, i)
    <3>1. task' \in [Host -> [Item -> TaskState]]
      BY <2>7, StatesType, SetTaskType DEF CallThrows
    <3>2. faults' \in Seq(Faults)
      BY <2>7, FaultStep DEF TypeOK, CallThrows
    <3>. QED BY <2>7, <3>1, <3>2
         DEF TypeOK, CallThrows, ItemStatus, redisVars, counterVars, sendVars
  <2>. QED BY <1>9, <2>2, <2>3, <2>4, <2>5, <2>6, <2>7 DEF Processing
<1>10. ASSUME NEW h \in Host, NEW i \in Item, Finishing(h, i) PROVE TypeOK'
  <2>. DEFINE t == task[h][i]
  <2>1. t \in TaskState
    BY DEF TypeOK
  <2>2. CASE DeleteCounters(h, i)
    <3>1. task' \in [Host -> [Item -> TaskState]]
      BY <2>1, <2>2, CallReturnedType, TaskUpdate, SetTaskType DEF DeleteCounters
    <3>2. /\ batch.pending - 1 \in Int
          /\ \A b \in BOOLEAN : (IF b THEN batch.completed + 1 ELSE batch.completed) \in Nat
          /\ \A b \in BOOLEAN : (IF b THEN batch.failed + 1 ELSE batch.failed) \in Nat
      BY DEF TypeOK, BatchState
    <3>3. batch' \in BatchState
      BY <2>2, <3>2, BatchUpdate DEF DeleteCounters, TypeOK
    <3>. QED BY <2>2, <3>1, <3>3 DEF TypeOK, DeleteCounters, redisVars, dbVars, sendVars
  <2>3. CASE DeletePayload(h, i)
    <3>1. task' \in [Host -> [Item -> TaskState]]
      BY <2>1, <2>3, CallReturnedType, SetTaskType DEF DeletePayload
    <3>. QED BY <2>3, <3>1
         DEF TypeOK, DeletePayload, PayloadState, counterVars, dbVars, sendVars
  <2>4. CASE DeleteIndex(h, i)
    <3>1. task' \in [Host -> [Item -> TaskState]]
      BY <2>1, <2>4, CallReturnedType, SetTaskType DEF DeleteIndex
    <3>. QED BY <2>4, <3>1 DEF TypeOK, DeleteIndex, counterVars, dbVars, sendVars
  <2>5. CASE DeleteEvent(h, i)
    <3>1. task' \in [Host -> [Item -> TaskState]]
      BY <2>1, <2>5, CallReturnedType, SetTaskType DEF DeleteEvent
    <3>. QED BY <2>5, <3>1 DEF TypeOK, DeleteEvent, redisVars, dbVars, sendVars
  <2>6. CASE ReadVerdict(h, i)
    <3>1. task' \in [Host -> [Item -> TaskState]]
      BY <2>1, <2>6, TaskUpdate, SetTaskType DEF ReadVerdict, Outcome
    <3>. QED BY <2>6, <3>1 DEF TypeOK, ReadVerdict, redisVars, counterVars, dbVars, sendVars
  <2>7. CASE UpdateDbStatus(h, i)
    <3>1. task' \in [Host -> [Item -> TaskState]]
      BY <2>1, <2>7, TaskUpdate, SetTaskType DEF UpdateDbStatus, Goto, TaskSteps
    <3>2. t.verdict \in ItemStatus
      BY <2>1 DEF TaskState, Outcome, ItemStatus
    <3>3. dbBatch' \in DbBatchState
      BY <2>7, <3>2, DbStatusUpdate DEF UpdateDbStatus, TypeOK
    <3>. QED BY <2>7, <3>1, <3>3 DEF TypeOK, UpdateDbStatus, redisVars, counterVars, sendVars
  <2>8. CASE UpdateRedisStatus(h, i)
    <3>1. task' \in [Host -> [Item -> TaskState]]
      BY <2>1, <2>8, TaskUpdate, SetTaskType DEF UpdateRedisStatus, Goto, TaskSteps
    <3>2. t.verdict \in Outcome
      BY <2>1 DEF TaskState
    <3>3. batch' \in BatchState
      BY <2>8, <3>2, BatchStatusUpdate DEF UpdateRedisStatus, TypeOK
    <3>. QED BY <2>8, <3>1, <3>3 DEF TypeOK, UpdateRedisStatus, redisVars, dbVars, sendVars
  <2>9. CASE BatchEvent(h, i)
    <3>1. task' \in [Host -> [Item -> TaskState]]
      BY <2>1, <2>9, TaskUpdate, SetTaskType DEF BatchEvent, Goto, TaskSteps
    <3>. QED BY <2>9, <3>1 DEF TypeOK, BatchEvent, redisVars, dbVars, sendVars
  <2>10. CASE TallyItem(h, i)
    <3>1. task' \in [Host -> [Item -> TaskState]]
      BY <2>10, StatesType, SetTaskType DEF TallyItem
    <3>2. /\ dbBatch.running - 1 \in Int
          /\ \A b \in BOOLEAN : (IF b THEN dbBatch.completed + 1 ELSE dbBatch.completed) \in Nat
          /\ \A b \in BOOLEAN : (IF b THEN dbBatch.failed + 1 ELSE dbBatch.failed) \in Nat
      BY DEF TypeOK, DbBatchState
    <3>3. dbBatch' \in DbBatchState
      BY <2>10, <3>2, DbBatchUpdate DEF TallyItem, TypeOK
    <3>. QED BY <2>10, <3>1, <3>3 DEF TypeOK, TallyItem, redisVars, counterVars, sendVars
  <2>11. CASE CompleteThrows(h, i)
    <3>1. task' \in [Host -> [Item -> TaskState]]
      BY <2>11, StatesType, SetTaskType DEF CompleteThrows
    <3>2. faults' \in Seq(Faults)
      BY <2>11, FaultStep DEF TypeOK, CompleteThrows
    <3>. QED BY <2>11, <3>1, <3>2
         DEF TypeOK, CompleteThrows, ItemStatus, redisVars, counterVars, sendVars
  <2>. QED BY <1>10, <2>2, <2>3, <2>4, <2>5, <2>6, <2>7, <2>8, <2>9, <2>10, <2>11
       DEF Finishing
<1>11. CASE UNCHANGED vars
  BY <1>11 DEF TypeOK, vars, redisVars, counterVars, dbVars, sendVars
<1>12. CASE RedisFails
  <2>1. faults' \in Seq(Faults)
    BY <1>12, RedisFailsEffect, FaultStep DEF TypeOK
  <2>. QED BY <1>12, <2>1, RedisFailsEffect
       DEF TypeOK, redisVars, counterVars
<1>. QED BY <1>1, <1>2, <1>3, <1>4, <1>5, <1>6, <1>7, <1>8, <1>9, <1>10, <1>11, <1>12
     DEF Next, Sending

\* Every variable keeps its type: in particular nothing is due that is not in
\* the global queue, which ZADD XX in updateQueueProcessingTimestamp preserves.
THEOREM TypeCorrect == Spec => []TypeOK
  BY InitType, NextType, PTL DEF Spec

-----------------------------------------------------------------------------
(* One batch event.                                                        *)
(*                                                                         *)
(* The counter pending only ever falls once sendBatch has set it, so one   *)
(* decrement at most returns zero; the task that saw it is the completer,  *)
(* and it adds the event at most once.                                     *)

\* A task that will add the batch event, and one that has not counted its item off.
Completes(t) ==
  \/ t.step \in {"verdict", "dbStatus", "redisStatus", "batchEvent"}
  \/ t.step = "delete" /\ t.last

CountsLater(t) ==
  \/ t.step \in {"none", "begin", "mark", "call", "defer"}
  \/ t.step = "delete" /\ "counters" \in t.todo

\* Before pending reaches zero there is no completer, then at most one, then the event.
OneCompleter ==
  /\ sender = "committed" => batch.pending <= 0
  /\ (batch.pending > 0 \/ sender = "committed") =>
       batchEvents = 0 /\ \A h \in Host, i \in Item : ~Completes(task[h][i])
  /\ \A h, g \in Host, i, j \in Item :
       Completes(task[h][i]) /\ Completes(task[g][j]) => h = g /\ i = j
  /\ \A h \in Host, i \in Item :
       /\ Completes(task[h][i]) => batchEvents = 0
       /\ CountsLater(task[h][i]) => ~task[h][i].last
  /\ batchEvents \in {0, 1}

\* The changes of a task that leave the completer alone or retire it.
SafeChange(t, u) ==
  \/ u = t
  \/ ~Completes(u) /\ (CountsLater(u) => ~u.last)
  \/ Completes(t) /\ Completes(u) /\ ~CountsLater(u)

\* A step that changes neither pending nor the events, and the tasks only so.
LEMMA SafeStep ==
  ASSUME OneCompleter, batch'.pending = batch.pending, batchEvents' = batchEvents,
         sender' = sender \/ sender' # "committed",
         \A h \in Host, i \in Item : SafeChange(task[h][i], task'[h][i])
  PROVE  OneCompleter'
<1>1. \A h \in Host, i \in Item : Completes(task'[h][i]) => Completes(task[h][i])
  BY Zenon DEF SafeChange
<1>2. \A h \in Host, i \in Item : CountsLater(task'[h][i]) => ~task'[h][i].last
  BY Zenon DEF SafeChange, OneCompleter
<1>. QED BY <1>1, <1>2 DEF OneCompleter

\* SetTask changes one task.
LEMMA SetTaskEffect ==
  ASSUME TypeOK, NEW h \in Host, NEW i \in Item, NEW t, SetTask(h, i, t)
  PROVE  \A g \in Host, j \in Item :
           task'[g][j] = IF g = h /\ j = i THEN t ELSE task[g][j]
  BY DEF TypeOK, SetTask

\* A handler that changes its own task safely, and neither pending nor the events.
LEMMA SafeTaskStep ==
  ASSUME TypeOK, OneCompleter, NEW h \in Host, NEW i \in Item, NEW t, SetTask(h, i, t),
         SafeChange(task[h][i], t), batch'.pending = batch.pending,
         batchEvents' = batchEvents, sender' = sender
  PROVE  OneCompleter'
<1>1. \A g \in Host, j \in Item : SafeChange(task[g][j], task'[g][j])
  BY SetTaskEffect DEF SafeChange
<1>. QED BY <1>1, SafeStep

\* The four calls of deleteItem: all but the decrement keep the completer.
LEMMA CallReturnedSafe ==
  ASSUME NEW t \in TaskState, t.step = "delete",
         CountsLater(t) => ~t.last,
         NEW c \in {"payload", "index", "event"}, c = "event" => "counters" \notin t.todo
  PROVE  SafeChange(t, CallReturned(t, c))
<1>. DEFINE u == CallReturned(t, c)
<1>1. /\ u.todo = t.todo \ {c} /\ u.last = t.last
      /\ u.step = IF t.todo \ {c} # {} THEN "delete"
                  ELSE IF t.last THEN "verdict" ELSE "tally"
  BY DEF CallReturned, TaskState
<1>2. "counters" \in u.todo <=> "counters" \in t.todo
  BY <1>1
<1>3. CASE t.last
  BY <1>1, <1>2, <1>3 DEF SafeChange, Completes, CountsLater
<1>4. CASE ~t.last
  BY <1>1, <1>2, <1>4 DEF SafeChange, Completes, CountsLater
<1>. QED BY <1>3, <1>4

\* OneCompleter holds at first: no task runs and nothing is written to the batch hash.
LEMMA InitCompleter == Init => OneCompleter
  BY DEF Init, OneCompleter, Completes, CountsLater, NoTask

\* OneCompleter is kept by every step; only the decrement makes a completer, and only
\* from one to zero.
LEMMA NextCompleter == TypeOK /\ OneCompleter /\ [Next]_vars => OneCompleter'
<1> SUFFICES ASSUME TypeOK, OneCompleter, [Next]_vars PROVE OneCompleter'
  OBVIOUS
<1>. USE DEF redisVars, counterVars, dbVars, sendVars
<1>0. /\ \A h \in Host, i \in Item : task[h][i] \in TaskState
      /\ batch \in BatchState
  BY DEF TypeOK
<1>1. CASE SendBatch
  <2>1. /\ batchEvents' = 0 /\ sender' = "enqueueing" /\ task' = task
        /\ \A h \in Host, i \in Item : ~Completes(task[h][i])
    BY <1>1 DEF SendBatch, OneCompleter
  <2>. QED BY <2>1 DEF OneCompleter
<1>2. CASE SenderCrash \/ (\E i \in Item : EnqueueItem(i) \/ VisibilityTimeout(i))
  <2>1. /\ batch' = batch /\ batchEvents' = batchEvents /\ task' = task
        /\ sender' \in {sender, "gone"}
    BY <1>2 DEF SenderCrash, EnqueueItem, VisibilityTimeout
  <2>. QED BY <2>1, SafeStep DEF SafeChange
<1>3. CASE Cancel
  BY <1>3, SafeStep DEF Cancel, SafeChange
<1>4. ASSUME NEW h \in Host, Fetching(h) PROVE OneCompleter'
  <2>1. CASE RetrieveItems(h) \/ IndexItems(h)
    BY <2>1, SafeStep DEF RetrieveItems, IndexItems, SafeChange
  <2>2. CASE StartTasks(h)
    <3>1. \A b \in BOOLEAN : SafeChange(NoTask, NewTask(b)) /\ ~Completes(NewTask(b))
                             /\ ~NewTask(b).last
      BY DEF SafeChange, NewTask, NoTask, Completes, CountsLater
    <3>2. \A g \in Host, i \in Item :
            task'[g][i] = task[g][i] \/ \E b \in BOOLEAN : task'[g][i] = NewTask(b)
      BY <2>2 DEF StartTasks, TypeOK
    <3>3. \A g \in Host, i \in Item : SafeChange(task[g][i], task'[g][i])
      BY <3>1, <3>2 DEF SafeChange
    <3>. QED BY <2>2, <3>3, SafeStep DEF StartTasks
  <2>. QED BY <1>4, <2>1, <2>2 DEF Fetching
<1>5. ASSUME NEW h \in Host, Reprocessing(h) PROVE OneCompleter'
  <2>1. batch' = batch /\ batchEvents' = batchEvents /\ task' = task /\ sender' = sender
    BY <1>5 DEF Reprocessing, ReapExpired, ReadPayload, Requeue
  <2>. QED BY <2>1, SafeStep DEF SafeChange
<1>6. ASSUME NEW h \in Host, Crash(h) PROVE OneCompleter'
  <2>1. \A g \in Host, i \in Item : task'[g][i] \in {task[g][i], NoTask}
    BY <1>6 DEF Crash, TypeOK
  <2>2. ~Completes(NoTask) /\ ~NoTask.last
    BY DEF NoTask, Completes
  <2>3. \A g \in Host, i \in Item : SafeChange(task[g][i], task'[g][i])
    BY <2>1, <2>2 DEF SafeChange
  <2>. QED BY <1>6, <2>3, SafeStep DEF Crash
<1>10. CASE RedisFails
  <2>1. ~Completes(NoTask) /\ ~NoTask.last
    BY DEF NoTask, Completes
  <2>2. \A g \in Host, i \in Item : SafeChange(task[g][i], task'[g][i])
    BY <1>10, <2>1, RedisFailsEffect DEF SafeChange
  <2>. QED BY <1>10, <2>2, RedisFailsEffect, SafeStep
<1>7. ASSUME NEW h \in Host, NEW i \in Item, Processing(h, i) PROVE OneCompleter'
  <2>. DEFINE t == task[h][i]
  <2>1. CountsLater(t) => ~t.last
    BY DEF OneCompleter
  <2>2. ASSUME NEW s \in {"mark", "call", "defer"}, Goto(h, i, s),
               t.step \in {"begin", "mark", "call"},
               batch' = batch, batchEvents' = batchEvents, sender' = sender
        PROVE  OneCompleter'
    <3>1. SafeChange(t, [t EXCEPT !.step = s])
      BY <1>0, <2>1, <2>2 DEF SafeChange, Completes, CountsLater, TaskState
    <3>. QED BY <2>2, <3>1, SafeTaskStep DEF Goto
  <2>3. ASSUME SetTask(h, i, NoTask), batch' = batch, batchEvents' = batchEvents,
               sender' = sender
        PROVE  OneCompleter'
    <3>1. SafeChange(t, NoTask)
      BY DEF SafeChange, NoTask, Completes
    <3>. QED BY <2>3, <3>1, SafeTaskStep
  <2>4. ASSUME NEW outcome \in Outcome, CallEnds(h, i, outcome) PROVE OneCompleter'
    <3>. DEFINE u == [t EXCEPT !.step = "delete", !.outcome = outcome, !.todo = DeleteCalls]
    <3>1. SafeChange(t, u)
      <4>1. u.step = "delete" /\ u.last = t.last /\ u.todo = DeleteCalls
        BY <1>0 DEF TaskState
      <4>2. ~t.last
        BY <2>1, <2>4 DEF CallEnds, CountsLater
      <4>. QED BY <4>1, <4>2 DEF SafeChange, Completes
    <3>. QED BY <2>4, <3>1, SafeTaskStep DEF CallEnds
  <2>5. CASE BeginItem(h, i)
    BY <2>5, <2>2 DEF BeginItem
  <2>6. CASE MarkRunning(h, i)
    BY <2>6, <2>2 DEF MarkRunning
  <2>7. CASE CallRetryable(h, i)
    BY <2>7, <2>2 DEF CallRetryable
  <2>8. CASE DeferItem(h, i) \/ CallThrows(h, i)
    BY <2>8, <2>3 DEF DeferItem, CallThrows
  <2>. QED BY <1>7, <2>4, <2>5, <2>6, <2>7, <2>8 DEF Processing
<1>8. ASSUME NEW h \in Host, NEW i \in Item, Finishing(h, i) PROVE OneCompleter'
  <2>. DEFINE t == task[h][i]
  <2>1. CountsLater(t) => ~t.last
    BY DEF OneCompleter
  <2>2. CASE DeleteCounters(h, i)
    <3>. DEFINE zero == batch.pending - 1 = 0
                u == CallReturned([t EXCEPT !.last = zero], "counters")
    <3>1. /\ u.last = zero /\ "counters" \notin u.todo
          /\ u.step \in {"delete", "verdict", "tally"}
          /\ Completes(u) <=> zero
      BY <1>0 DEF CallReturned, TaskState, Completes
    <3>2. ~CountsLater(u)
      BY <3>1 DEF CountsLater
    <3>3. \A g \in Host, j \in Item :
            task'[g][j] = IF g = h /\ j = i THEN u ELSE task[g][j]
      BY <2>2, SetTaskEffect DEF DeleteCounters
    <3>4. /\ batch'.pending = batch.pending - 1 /\ batchEvents' = batchEvents
          /\ sender' = sender /\ batch.pending \in Int
      BY <1>0, <2>2 DEF DeleteCounters, BatchState
    <3>5. ~Completes(t)
      BY <2>1, <2>2 DEF DeleteCounters, Completes, CountsLater
    <3>6. CASE zero
      <4>1. batchEvents = 0 /\ \A g \in Host, j \in Item : ~Completes(task[g][j])
        BY <3>6 DEF OneCompleter
      <4>2. sender # "committed"
        BY <3>6 DEF OneCompleter
      <4>. QED BY <3>1, <3>2, <3>3, <3>4, <3>6, <4>1, <4>2 DEF OneCompleter
    <3>7. CASE ~zero
      <4>1. \A g \in Host, j \in Item : Completes(task'[g][j]) => Completes(task[g][j])
        BY <3>1, <3>3, <3>7
      <4>2. \A g \in Host, j \in Item : CountsLater(task'[g][j]) => ~task'[g][j].last
        BY <3>2, <3>3 DEF OneCompleter
      <4>. QED BY <3>4, <4>1, <4>2 DEF OneCompleter
    <3>. QED BY <3>6, <3>7
  <2>3. CASE DeletePayload(h, i)
    <3>1. SafeChange(t, CallReturned(t, "payload"))
      BY <1>0, <2>1, <2>3, CallReturnedSafe DEF DeletePayload
    <3>. QED BY <2>3, <3>1, SafeTaskStep DEF DeletePayload
  <2>4. CASE DeleteIndex(h, i)
    <3>1. SafeChange(t, CallReturned(t, "index"))
      BY <1>0, <2>1, <2>4, CallReturnedSafe DEF DeleteIndex
    <3>. QED BY <2>4, <3>1, SafeTaskStep DEF DeleteIndex
  <2>5. CASE DeleteEvent(h, i)
    <3>1. SafeChange(t, CallReturned(t, "event"))
      BY <1>0, <2>1, <2>5, CallReturnedSafe DEF DeleteEvent
    <3>. QED BY <2>5, <3>1, SafeTaskStep DEF DeleteEvent
  <2>6. CASE ReadVerdict(h, i)
    <3>. DEFINE u == [t EXCEPT !.step = "dbStatus",
                        !.verdict = IF batch.failed > 0 THEN "FAILED" ELSE "COMPLETED"]
    <3>1. t.step = "verdict" /\ u.step = "dbStatus"
      BY <1>0, <2>6 DEF ReadVerdict, TaskState
    <3>2. SafeChange(t, u)
      BY <3>1 DEF SafeChange, Completes, CountsLater
    <3>. QED BY <2>6, <3>2, SafeTaskStep DEF ReadVerdict
  <2>7. ASSUME NEW s \in {"redisStatus", "batchEvent"}, Goto(h, i, s),
               t.step \in {"dbStatus", "redisStatus"},
               batch'.pending = batch.pending, batchEvents' = batchEvents, sender' = sender
        PROVE  OneCompleter'
    <3>1. SafeChange(t, [t EXCEPT !.step = s])
      BY <1>0, <2>7 DEF SafeChange, Completes, CountsLater, TaskState
    <3>. QED BY <2>7, <3>1, SafeTaskStep DEF Goto
  <2>8. CASE UpdateDbStatus(h, i)
    BY <2>7, <2>8 DEF UpdateDbStatus
  <2>9. CASE UpdateRedisStatus(h, i)
    BY <1>0, <2>7, <2>9 DEF UpdateRedisStatus, BatchState
  <2>10. CASE BatchEvent(h, i)
    <3>. DEFINE u == [t EXCEPT !.step = "tally"]
    <3>1. Completes(t) /\ u.step = "tally"
      BY <1>0, <2>10 DEF BatchEvent, Completes, TaskState
    <3>2. batchEvents = 0 /\ ~(batch.pending > 0 \/ sender = "committed")
      BY <3>1 DEF OneCompleter
    <3>3. \A g \in Host, j \in Item :
            task'[g][j] = IF g = h /\ j = i THEN u ELSE task[g][j]
      BY <2>10, SetTaskEffect DEF BatchEvent, Goto
    <3>4. ~Completes(u) /\ ~CountsLater(u)
      BY <3>1 DEF Completes, CountsLater
    <3>5. \A g \in Host, j \in Item : ~Completes(task'[g][j])
      BY <3>1, <3>3, <3>4 DEF OneCompleter
    <3>6. \A g \in Host, j \in Item : CountsLater(task'[g][j]) => ~task'[g][j].last
      BY <3>3, <3>4 DEF OneCompleter
    <3>. QED BY <2>10, <3>2, <3>5, <3>6 DEF BatchEvent, OneCompleter
  <2>11. CASE TallyItem(h, i) \/ CompleteThrows(h, i)
    <3>1. SafeChange(t, NoTask)
      BY DEF SafeChange, NoTask, Completes
    <3>. QED BY <2>11, <3>1, SafeTaskStep DEF TallyItem, CompleteThrows
  <2>. QED BY <1>8, <2>2, <2>3, <2>4, <2>5, <2>6, <2>8, <2>9, <2>10, <2>11 DEF Finishing
<1>9. CASE UNCHANGED vars
  BY <1>9, SafeStep DEF vars, SafeChange
<1>. QED BY <1>1, <1>2, <1>3, <1>4, <1>5, <1>6, <1>7, <1>8, <1>9, <1>10 DEF Next, Sending

\* completeBatch runs at most once for a batch, whatever crashes, overruns and
\* retries there are: the stream gets one batch-completed or batch-failed event.
THEOREM OneBatchEventHolds == Spec => []OneBatchEvent
<1>1. OneCompleter => OneBatchEvent
  BY DEF OneCompleter, OneBatchEvent
<1>. QED BY <1>1, InitCompleter, NextCompleter, TypeCorrect, PTL DEF Spec
-----------------------------------------------------------------------------
(* No item is lost without a crash or a failed Redis call.                 *)
(*                                                                         *)
(* Between two places in Redis an item is carried by one process.  Two     *)
(* facts about the processes are needed: a host does not start a second    *)
(* task over one that is still deleting the item, and a deleteItem whose   *)
(* decrement has returned has counted the item off.                        *)

\* A fetched item has no task of the same host, and deletion behind the
\* decrement is only done to items counted off.
HandOver ==
  \A h \in Host, i \in Item :
    /\ i \in fetch[h].items => ~Live(h, i)
    /\ (task[h][i].step = "delete" /\ "counters" \notin task[h][i].todo) => finishes[i] > 0

\* A task that has a decrement still to make.
Owes(t) == t.step = "delete" /\ "counters" \in t.todo

\* The calls of deleteItem other than the decrement neither make it nor drop it.
LEMMA CallReturnedOwes ==
  ASSUME NEW t \in TaskState, t.step = "delete", NEW c \in {"payload", "index", "event"}
  PROVE  LET u == CallReturned(t, c)
         IN  /\ "counters" \in u.todo <=> "counters" \in t.todo
             /\ "counters" \in t.todo => u.step = "delete"
             /\ u.step # "none"
  BY DEF CallReturned, TaskState

\* HandOver holds at first: nothing is fetched and no task runs.
LEMMA InitHandOver == Init => HandOver
  BY DEF Init, HandOver, Live, NoTask, Idle

\* A handler that changes its own live task keeps HandOver, if the new state of
\* the task is not a deletion with the decrement gone, or the item is counted off.
LEMMA HandOverTask ==
  ASSUME TypeOK, HandOver, NEW h \in Host, NEW i \in Item, NEW t, SetTask(h, i, t),
         Live(h, i), fetch' = fetch,
         \A j \in Item : finishes[j] > 0 => finishes'[j] > 0,
         (t.step = "delete" /\ "counters" \notin t.todo) => finishes'[i] > 0
  PROVE  HandOver'
<1>1. \A g \in Host, j \in Item :
        task'[g][j] = IF g = h /\ j = i THEN t ELSE task[g][j]
  BY SetTaskEffect
<1>. QED BY <1>1 DEF HandOver, Live

\* HandOver is kept by every step.
LEMMA NextHandOver == TypeOK /\ HandOver /\ [Next]_vars => HandOver'
<1> SUFFICES ASSUME TypeOK, HandOver, [Next]_vars PROVE HandOver'
  OBVIOUS
<1>. USE DEF redisVars, counterVars, dbVars, sendVars
<1>0. \A h \in Host, i \in Item : task[h][i] \in TaskState
  BY DEF TypeOK
<1>1. ASSUME fetch' = fetch, task' = task, finishes' = finishes PROVE HandOver'
  BY <1>1 DEF HandOver, Live
<1>2. CASE Sending \/ SenderCrash \/ Cancel \/ (\E i \in Item : VisibilityTimeout(i))
  BY <1>1, <1>2 DEF Sending, SendBatch, EnqueueItem, SenderCrash, Cancel, VisibilityTimeout
<1>3. ASSUME NEW h \in Host, Fetching(h) PROVE HandOver'
  <2>1. CASE RetrieveItems(h)
    <3>1. PICK S \in SUBSET mainQueue :
            /\ \A i \in S : ~Live(h, i)
            /\ fetch' = [fetch EXCEPT ![h] = [step |-> "index", items |-> S]]
      BY <2>1 DEF RetrieveItems
    <3>. QED BY <2>1, <3>1 DEF RetrieveItems, HandOver, Live, TypeOK
  <2>2. CASE IndexItems(h)
    <3>1. \A g \in Host : fetch'[g].items = fetch[g].items
      BY <2>2 DEF IndexItems, TypeOK, FetchState
    <3>. QED BY <2>2, <3>1 DEF IndexItems, HandOver, Live
  <2>3. CASE StartTasks(h)
    <3>1. \A b \in BOOLEAN : NewTask(b).step = "begin"
      BY DEF NewTask, NoTask
    <3>2. \A g \in Host, i \in Item :
            \/ task'[g][i] = task[g][i]
            \/ g = h /\ \E b \in BOOLEAN : task'[g][i] = NewTask(b)
      BY <2>3 DEF StartTasks, TypeOK
    <3>3. \A g \in Host : fetch'[g].items = IF g = h THEN {} ELSE fetch[g].items
      BY <2>3 DEF StartTasks, TypeOK, Idle
    <3>4. finishes' = finishes
      BY <2>3 DEF StartTasks
    <3>. QED BY <3>1, <3>2, <3>3, <3>4 DEF HandOver, Live
  <2>. QED BY <1>3, <2>1, <2>2, <2>3 DEF Fetching
<1>4. ASSUME NEW h \in Host, Reprocessing(h) PROVE HandOver'
  BY <1>1, <1>4 DEF Reprocessing, ReapExpired, ReadPayload, Requeue
<1>5. ASSUME NEW h \in Host, Crash(h) PROVE HandOver'
  <2>1. \A g \in Host, i \in Item :
          task'[g][i] = IF g = h THEN NoTask ELSE task[g][i]
    BY <1>5 DEF Crash, TypeOK
  <2>2. \A g \in Host : fetch'[g].items = IF g = h THEN {} ELSE fetch[g].items
    BY <1>5 DEF Crash, TypeOK, Idle
  <2>3. finishes' = finishes /\ NoTask.step = "none"
    BY <1>5 DEF Crash, NoTask
  <2>. QED BY <2>1, <2>2, <2>3 DEF HandOver, Live
<1>6. ASSUME NEW h \in Host, NEW i \in Item, Processing(h, i) PROVE HandOver'
  <2>. DEFINE t == task[h][i]
  <2>1. Live(h, i) /\ fetch' = fetch /\ finishes' = finishes
    BY <1>6 DEF Processing, BeginItem, MarkRunning, CallEnds, CallRetryable, DeferItem,
                CallThrows, Live
  <2>2. ASSUME NEW u, SetTask(h, i, u), u.step # "delete" \/ "counters" \in u.todo
        PROVE  HandOver'
    BY <2>1, <2>2, HandOverTask
  <2>3. ASSUME NEW s \in {"mark", "call", "defer"}, Goto(h, i, s) PROVE HandOver'
    <3>1. [t EXCEPT !.step = s].step = s
      BY <1>0 DEF TaskState
    <3>. QED BY <2>2, <2>3, <3>1 DEF Goto
  <2>4. ASSUME NEW outcome \in Outcome, CallEnds(h, i, outcome) PROVE HandOver'
    <3>1. [t EXCEPT !.step = "delete", !.outcome = outcome, !.todo = DeleteCalls].todo
            = DeleteCalls
      BY <1>0 DEF TaskState
    <3>. QED BY <2>2, <2>4, <3>1 DEF CallEnds, DeleteCalls
  <2>5. ASSUME SetTask(h, i, NoTask) PROVE HandOver'
    BY <2>2, <2>5 DEF NoTask
  <2>6. CASE BeginItem(h, i) \/ MarkRunning(h, i) \/ CallRetryable(h, i)
    BY <2>3, <2>6 DEF BeginItem, MarkRunning, CallRetryable
  <2>7. CASE DeferItem(h, i) \/ CallThrows(h, i)
    BY <2>5, <2>7 DEF DeferItem, CallThrows
  <2>. QED BY <1>6, <2>4, <2>6, <2>7 DEF Processing
<1>7. ASSUME NEW h \in Host, NEW i \in Item, Finishing(h, i) PROVE HandOver'
  <2>. DEFINE t == task[h][i]
  <2>a. Live(h, i) /\ fetch' = fetch /\ (DeleteCounters(h, i) \/ finishes' = finishes)
    BY <1>7 DEF Finishing, DeleteCounters, DeletePayload, DeleteIndex, DeleteEvent,
       ReadVerdict, UpdateDbStatus, UpdateRedisStatus, BatchEvent, TallyItem,
       CompleteThrows, Live
  <2>b. DeleteCounters(h, i) => \A j \in Item : finishes[j] > 0 => finishes'[j] > 0
    BY DEF DeleteCounters, TypeOK
  <2>1. Live(h, i) /\ fetch' = fetch /\ \A j \in Item : finishes[j] > 0 => finishes'[j] > 0
    BY <2>a, <2>b
  <2>2. CASE DeleteCounters(h, i)
    <3>1. finishes'[i] > 0
      BY <2>2 DEF DeleteCounters, TypeOK
    <3>. QED BY <2>1, <2>2, <3>1, HandOverTask DEF DeleteCounters
  <2>3. ASSUME NEW c \in {"payload", "index", "event"}, t.step = "delete",
               SetTask(h, i, CallReturned(t, c))
        PROVE  HandOver'
    <3>1. "counters" \notin CallReturned(t, c).todo => "counters" \notin t.todo
      BY <1>0, <2>3, CallReturnedOwes
    <3>2. "counters" \notin t.todo => finishes'[i] > 0
      BY <2>1, <2>3 DEF HandOver
    <3>. QED BY <2>1, <2>3, <3>1, <3>2, HandOverTask
  <2>4. CASE DeletePayload(h, i) \/ DeleteIndex(h, i) \/ DeleteEvent(h, i)
    BY <2>3, <2>4 DEF DeletePayload, DeleteIndex, DeleteEvent
  <2>5. CASE ReadVerdict(h, i) \/ UpdateDbStatus(h, i) \/ UpdateRedisStatus(h, i)
             \/ BatchEvent(h, i) \/ TallyItem(h, i) \/ CompleteThrows(h, i)
    <3>1. PICK u : SetTask(h, i, u) /\ u.step # "delete"
      <4>1. /\ \A s \in {"redisStatus", "batchEvent", "tally"} : [t EXCEPT !.step = s].step = s
            /\ \A v : [t EXCEPT !.step = "dbStatus", !.verdict = v].step = "dbStatus"
        BY <1>0 DEF TaskState
      <4>2. NoTask.step = "none"
        BY DEF NoTask
      <4>. QED BY <2>5, <4>1, <4>2 DEF ReadVerdict, UpdateDbStatus, UpdateRedisStatus,
                  BatchEvent, TallyItem, CompleteThrows, Goto
    <3>. QED BY <2>1, <3>1, HandOverTask
  <2>. QED BY <1>7, <2>2, <2>4, <2>5 DEF Finishing
<1>8. CASE UNCHANGED vars
  BY <1>1, <1>8 DEF vars
<1>9. CASE RedisFails
  <2>1. Idle.items = {} /\ NoTask.step = "none"
    BY DEF Idle, NoTask
  <2>. QED BY <1>9, <2>1, RedisFailsEffect DEF HandOver, Live
<1>. QED BY <1>2, <1>3, <1>4, <1>5, <1>6, <1>7, <1>8, <1>9 DEF Next

\* What a step has to leave of item i, so that it does not lose it.
LEMMA TraceKept ==
  ASSUME NEW i \in Item, Traceable(i),
         finishes[i] > 0 => finishes'[i] > 0,
         payload[i].kind = "full" => payload'[i].kind = "full",
         i \in mainQueue \cup globalQueue => i \in mainQueue' \cup globalQueue',
         (i \in unsent /\ sender # "gone") => (i \in unsent' /\ sender' # "gone"),
         \A h \in Host :
           /\ (fetch[h].step = "index" /\ i \in fetch[h].items) =>
                (fetch'[h].step = "index" /\ i \in fetch'[h].items)
           /\ reap[h][i] \in {"taken", "full"} => reap'[h][i] \in {"taken", "full"}
           /\ Owes(task[h][i]) => Owes(task'[h][i])
  PROVE  Traceable(i)'
<1>1. CASE Secured(i)
  BY <1>1 DEF Traceable, Secured
<1>2. CASE InTransit(i)
  BY <1>2 DEF Traceable, InTransit, Owes
<1>. QED BY <1>1, <1>2 DEF Traceable

\* A handler that changes its own task loses nothing if it leaves the queues alone
\* and does not forget the decrement.
LEMMA TraceTask ==
  ASSUME TypeOK, NEW h \in Host, NEW i \in Item, NEW t, SetTask(h, i, t),
         Owes(task[h][i]) => Owes(t),
         UNCHANGED <<mainQueue, globalQueue, payload, sender, unsent, fetch, reap, finishes>>,
         NEW j \in Item, Traceable(j)
  PROVE  Traceable(j)'
<1>1. \A g \in Host : task'[g][j] = IF g = h /\ j = i THEN t ELSE task[g][j]
  BY SetTaskEffect
<1>2. \A g \in Host : Owes(task[g][j]) => Owes(task'[g][j])
  BY <1>1
<1>. QED BY <1>2, TraceKept

\* A step loses an item only if it is a crash or a failed Redis call, and the item was
\* not secured.
LEMMA NextTrace ==
  TypeOK /\ HandOver /\ [Next]_vars => LosesOnlyInTransit
<1> SUFFICES ASSUME TypeOK, HandOver, [Next]_vars, NEW j \in Item, Traceable(j)
             PROVE  \/ Traceable(j)'
                    \/ /\ ~Secured(j)
                       /\ \E kind \in {"crash", "redisError"} : faults' = Append(faults, kind)
  BY DEF LosesOnlyInTransit
<1>. USE DEF redisVars, counterVars, dbVars, sendVars
<1>0. \A h \in Host, i \in Item : task[h][i] \in TaskState
  BY DEF TypeOK
<1>1. CASE SendBatch \/ Cancel \/ (\E i \in Item : VisibilityTimeout(i))
  BY <1>1, TraceKept DEF SendBatch, Cancel, VisibilityTimeout
<1>2. ASSUME NEW i \in Item, EnqueueItem(i) PROVE Traceable(j)'
  <2>1. CASE i = j
    <3>1. payload'[j].kind = "full" /\ j \in mainQueue'
      BY <1>2, <2>1 DEF EnqueueItem, TypeOK
    <3>. QED BY <3>1 DEF Traceable, Secured
  <2>2. CASE i # j
    <3>1. payload'[j] = payload[j]
      BY <1>2, <2>2 DEF EnqueueItem, TypeOK
    <3>. QED BY <1>2, <2>2, <3>1, TraceKept DEF EnqueueItem
  <2>. QED BY <2>1, <2>2
<1>3. ASSUME SenderCrash \/ \E h \in Host : Crash(h)
      PROVE  Traceable(j)' \/ (~Secured(j) /\ faults' = Append(faults, "crash"))
  <2>1. Secured(j) => Traceable(j)'
    BY <1>3 DEF SenderCrash, Crash, Secured, Traceable
  <2>. QED BY <1>3, <2>1 DEF SenderCrash, Crash, Fault
<1>9. ASSUME RedisFails
      PROVE  Traceable(j)' \/ (~Secured(j) /\ faults' = Append(faults, "redisError"))
  <2>1. Secured(j) => Traceable(j)'
    BY <1>9, RedisFailsEffect DEF Secured, Traceable
  <2>. QED BY <1>9, <2>1, RedisFailsEffect DEF Fault
<1>4. ASSUME NEW h \in Host, Fetching(h) PROVE Traceable(j)'
  <2>1. CASE RetrieveItems(h)
    <3>1. PICK S \in SUBSET mainQueue :
            /\ mainQueue' = mainQueue \ S
            /\ fetch' = [fetch EXCEPT ![h] = [step |-> "index", items |-> S]]
      BY <2>1 DEF RetrieveItems
    <3>2. \A g \in Host : fetch[g].step = "index" => fetch'[g] = fetch[g]
      BY <2>1, <3>1 DEF RetrieveItems, TypeOK
    <3>3. CASE j \in S /\ payload[j].kind = "full"
      <4>1. fetch'[h].step = "index" /\ j \in fetch'[h].items
        BY <3>1, <3>3 DEF TypeOK
      <4>. QED BY <2>1, <3>3, <4>1 DEF RetrieveItems, Traceable, InTransit
    <3>4. CASE j \notin S
      BY <2>1, <3>1, <3>2, <3>4, TraceKept DEF RetrieveItems
    <3>5. CASE payload[j].kind # "full"
      BY <2>1, <3>2, <3>5 DEF RetrieveItems, Traceable, Secured, InTransit
    <3>. QED BY <3>3, <3>4, <3>5
  <2>2. CASE IndexItems(h)
    <3>1. \A g \in Host : g # h => fetch'[g] = fetch[g]
      BY <2>2 DEF IndexItems, TypeOK
    <3>2. CASE j \in fetch[h].items /\ payload[j].kind = "full"
      BY <2>2, <3>2 DEF IndexItems, Traceable, Secured
    <3>3. CASE j \notin fetch[h].items
      BY <2>2, <3>1, <3>3, TraceKept DEF IndexItems
    <3>4. CASE payload[j].kind # "full"
      BY <2>2, <3>4 DEF IndexItems, Traceable, Secured, InTransit
    <3>. QED BY <3>2, <3>3, <3>4
  <2>3. CASE StartTasks(h)
    <3>1. \A g \in Host : fetch[g].step = "index" => fetch'[g] = fetch[g]
      BY <2>3 DEF StartTasks, TypeOK
    <3>2. \A g \in Host : Owes(task[g][j]) => task'[g][j] = task[g][j]
      <4>1. Startable(fetch[h].items) \subseteq fetch[h].items
        BY DEF Startable
      <4>2. j \in Startable(fetch[h].items) => ~Owes(task[h][j])
        BY <4>1 DEF HandOver, Live, Owes
      <4>. QED BY <2>3, <4>2 DEF StartTasks, TypeOK
    <3>. QED BY <2>3, <3>1, <3>2, TraceKept DEF StartTasks
  <2>. QED BY <1>4, <2>1, <2>2, <2>3 DEF Fetching
<1>5. ASSUME NEW h \in Host, Reprocessing(h) PROVE Traceable(j)'
  <2>1. CASE ReapExpired(h)
    <3>1. PICK S \in SUBSET due :
            /\ globalQueue' = globalQueue \ S
            /\ reap' = [reap EXCEPT ![h] =
                         [i \in Item |-> IF i \in S THEN "taken" ELSE reap[h][i]]]
      BY <2>1 DEF ReapExpired
    <3>2. \A g \in Host : reap[g][j] \in {"taken", "full"} => reap'[g][j] = reap[g][j]
      BY <2>1, <3>1 DEF ReapExpired, TypeOK
    <3>3. CASE j \in S /\ payload[j].kind = "full"
      <4>1. reap'[h][j] = "taken"
        BY <3>1, <3>3 DEF TypeOK
      <4>. QED BY <2>1, <3>3, <4>1 DEF ReapExpired, Traceable, InTransit
    <3>4. CASE j \notin S
      BY <2>1, <3>1, <3>2, <3>4, TraceKept DEF ReapExpired
    <3>5. CASE payload[j].kind # "full"
      BY <2>1, <3>5 DEF ReapExpired, Traceable, Secured, InTransit
    <3>. QED BY <3>3, <3>4, <3>5
  <2>2. ASSUME NEW i \in Item, ReadPayload(h, i) PROVE Traceable(j)'
    <3>1. \A g \in Host : (payload[j].kind = "full" /\ reap[g][j] \in {"taken", "full"})
                          => reap'[g][j] \in {"taken", "full"}
      BY <2>2 DEF ReadPayload, TypeOK
    <3>. QED BY <2>2, <3>1 DEF ReadPayload, Traceable, Secured, InTransit
  <2>3. ASSUME NEW i \in Item, Requeue(h, i) PROVE Traceable(j)'
    <3>1. payload[j].kind = "full" => payload'[j].kind = "full"
      BY <2>3 DEF Requeue, TypeOK, PayloadState
    <3>2. \A g \in Host : (g # h \/ i # j) => reap'[g][j] = reap[g][j]
      BY <2>3 DEF Requeue, TypeOK
    <3>3. mainQueue \subseteq mainQueue' /\ (reap[h][i] = "full" => i \in mainQueue')
      BY <2>3 DEF Requeue
    <3>4. CASE i = j /\ reap[h][j] = "full" /\ payload[j].kind = "full"
      BY <3>1, <3>3, <3>4 DEF Traceable, Secured
    <3>5. CASE i # j
      BY <2>3, <3>1, <3>2, <3>3, <3>5, TraceKept DEF Requeue
    <3>6. CASE i = j /\ reap[h][j] # "full"
      <4>1. reap[h][j] \notin {"taken", "full"}
        BY <2>3, <3>6 DEF Requeue
      <4>. QED BY <2>3, <3>1, <3>2, <3>3, <3>6, <4>1, TraceKept DEF Requeue
    <3>7. CASE payload[j].kind # "full"
      BY <2>3, <3>7 DEF Requeue, Traceable, Secured, InTransit
    <3>. QED BY <3>4, <3>5, <3>6, <3>7
  <2>. QED BY <1>5, <2>1, <2>2, <2>3 DEF Reprocessing
<1>6. ASSUME NEW h \in Host, NEW i \in Item, Processing(h, i) PROVE Traceable(j)'
  <2>1. ~Owes(task[h][i])
    BY <1>6 DEF Processing, BeginItem, MarkRunning, CallEnds, CallRetryable, DeferItem,
                CallThrows, Owes
  <2>2. PICK u : SetTask(h, i, u)
    BY <1>6 DEF Processing, BeginItem, MarkRunning, CallEnds, CallRetryable, DeferItem,
                CallThrows, Goto
  <2>. QED BY <1>6, <2>1, <2>2, TraceTask
       DEF Processing, BeginItem, MarkRunning, CallEnds, CallRetryable, DeferItem, CallThrows
<1>7. ASSUME NEW h \in Host, NEW i \in Item, Finishing(h, i) PROVE Traceable(j)'
  <2>. DEFINE t == task[h][i]
  <2>1. CASE DeleteCounters(h, i)
    <3>1. \A k \in Item : finishes'[k] = IF k = i THEN finishes[i] + 1 ELSE finishes[k]
      BY <2>1 DEF DeleteCounters, TypeOK
    <3>2. \A k \in Item : finishes[k] \in Nat
      BY DEF TypeOK
    <3>3. CASE j = i
      BY <3>1, <3>2, <3>3 DEF Traceable, Secured
    <3>4. CASE j # i
      <4>1. \A g \in Host : task'[g][j] = task[g][j]
        BY <2>1, <3>4, SetTaskEffect DEF DeleteCounters
      <4>. QED BY <2>1, <3>1, <3>4, <4>1, TraceKept DEF DeleteCounters
    <3>. QED BY <3>3, <3>4
  <2>2. ASSUME NEW c \in {"payload", "index"}, t.step = "delete",
               SetTask(h, i, CallReturned(t, c)), UNCHANGED <<mainQueue, sendVars, fetch, reap, finishes>>,
               j # i => payload'[j] = payload[j],
               j # i /\ j \in globalQueue => j \in globalQueue'
        PROVE  Traceable(j)'
    <3>1. \A g \in Host :
            task'[g][j] = IF g = h /\ j = i THEN CallReturned(t, c) ELSE task[g][j]
      BY <2>2, SetTaskEffect
    <3>2. CASE j # i
      BY <2>2, <3>1, <3>2, TraceKept
    <3>3. CASE j = i /\ "counters" \in t.todo
      <4>1. Owes(task'[h][i])
        BY <1>0, <2>2, <3>1, <3>3, CallReturnedOwes DEF Owes
      <4>. QED BY <3>3, <4>1 DEF Traceable, InTransit, Owes
    <3>4. CASE j = i /\ "counters" \notin t.todo
      <4>1. finishes[j] > 0
        BY <2>2, <3>4 DEF HandOver
      <4>. QED BY <2>2, <4>1 DEF Traceable, Secured
    <3>. QED BY <3>2, <3>3, <3>4
  <2>3. CASE DeletePayload(h, i)
    BY <2>2, <2>3 DEF DeletePayload, TypeOK
  <2>4. CASE DeleteIndex(h, i)
    BY <2>2, <2>4 DEF DeleteIndex
  <2>5. CASE DeleteEvent(h, i) \/ ReadVerdict(h, i) \/ UpdateDbStatus(h, i)
             \/ UpdateRedisStatus(h, i) \/ BatchEvent(h, i) \/ TallyItem(h, i)
             \/ CompleteThrows(h, i)
    <3>1. ~Owes(t)
      BY <2>5 DEF DeleteEvent, ReadVerdict, UpdateDbStatus, UpdateRedisStatus, BatchEvent,
                  TallyItem, CompleteThrows, Owes
    <3>2. PICK u : SetTask(h, i, u)
      BY <2>5 DEF DeleteEvent, ReadVerdict, UpdateDbStatus, UpdateRedisStatus, BatchEvent,
                  TallyItem, CompleteThrows, Goto
    <3>. QED BY <2>5, <3>1, <3>2, TraceTask
         DEF DeleteEvent, ReadVerdict, UpdateDbStatus, UpdateRedisStatus, BatchEvent,
             TallyItem, CompleteThrows
  <2>. QED BY <1>7, <2>1, <2>3, <2>4, <2>5 DEF Finishing
<1>8. CASE UNCHANGED vars
  BY <1>8, TraceKept DEF vars
<1>. QED BY <1>1, <1>2, <1>3, <1>4, <1>5, <1>6, <1>7, <1>8, <1>9 DEF Next, Sending

\* Adverse events are the only change of the history.
LEMMA NextFaults == [Next]_vars => faults' = faults \/ \E kind : Fault(kind)
<1> SUFFICES ASSUME [Next]_vars PROVE faults' = faults \/ \E kind : Fault(kind)
  OBVIOUS
<1>1. CASE Sending \/ SenderCrash \/ Cancel \/ RedisFails \/ UNCHANGED vars
  BY <1>1 DEF Sending, SendBatch, EnqueueItem, SenderCrash, Cancel, vars,
     RedisFails, SendFails, FetchFails, ReapFails, FinishFails
<1>2. ASSUME NEW i \in Item, VisibilityTimeout(i)
      PROVE  faults' = faults \/ \E kind : Fault(kind)
  BY <1>2 DEF VisibilityTimeout
<1>3. ASSUME NEW h \in Host, Fetching(h) \/ Reprocessing(h) PROVE faults' = faults
  BY <1>3 DEF Fetching, RetrieveItems, IndexItems, StartTasks,
     Reprocessing, ReapExpired, ReadPayload, Requeue
<1>4. ASSUME NEW h \in Host, Crash(h) PROVE \E kind : Fault(kind)
  BY <1>4 DEF Crash
<1>5. ASSUME NEW h \in Host, NEW i \in Item, Processing(h, i)
      PROVE  faults' = faults \/ \E kind : Fault(kind)
  BY <1>5 DEF Processing, BeginItem, MarkRunning, CallEnds, CallRetryable, DeferItem, CallThrows
<1>6. ASSUME NEW h \in Host, NEW i \in Item, Finishing(h, i)
      PROVE  faults' = faults \/ \E kind : Fault(kind)
  BY <1>6 DEF Finishing, DeleteCounters, DeletePayload, DeleteIndex, DeleteEvent, ReadVerdict,
     UpdateDbStatus, UpdateRedisStatus, BatchEvent, TallyItem, CompleteThrows
<1>. QED BY <1>1, <1>2, <1>3, <1>4, <1>5, <1>6 DEF Next

\* HandOver is an invariant.
LEMMA HandOverHolds == Spec => []HandOver
  BY InitHandOver, NextHandOver, TypeCorrect, PTL DEF Spec

\* Retries, database errors, cancels and overruns never lose an item: the only steps
\* that do are crashes and failed Redis calls, and only of an item between two of these.
THEOREM LostOnlyInTransitHolds == Spec => LostOnlyInTransit
<1>1. TypeOK /\ HandOver /\ [Next]_vars => [LosesOnlyInTransit]_vars
  BY NextTrace
<1>. QED BY <1>1, HandOverHolds, TypeCorrect, PTL DEF Spec, LostOnlyInTransit

\* So while no process has crashed and no Redis call failed every item is traceable: it is
\* still to be sent, in a queue that is read, with a process that moves it on, or counted off.
THEOREM NoItemLostHolds == Spec => []NoItemLost
<1>1. Init => NoItemLost
  BY DEF Init, NoItemLost, Traceable, InTransit
<1>2. TypeOK /\ HandOver /\ NoItemLost /\ [Next]_vars => NoItemLost'
  <2> SUFFICES ASSUME TypeOK, HandOver, NoItemLost, [Next]_vars,
                      ~Happened("crash")', ~Happened("redisError")', NEW i \in Item
               PROVE  Traceable(i)'
    BY DEF NoItemLost
  <2>1. faults' = faults \/ \E kind : Fault(kind)
    BY NextFaults
  <2>2. faults \in Seq(Faults)
    BY DEF TypeOK
  <2>3. ~Happened("crash") /\ ~Happened("redisError")
    BY <2>1, <2>2, FaultStep DEF Happened
  <2>4. \A kind \in {"crash", "redisError"} : faults' # Append(faults, kind)
    <3>1. SUFFICES ASSUME NEW kind \in {"crash", "redisError"}, faults' = Append(faults, kind)
                   PROVE  Happened(kind)'
      OBVIOUS
    <3>2. faults'[Len(faults) + 1] = kind /\ Len(faults) + 1 \in DOMAIN faults'
      BY <2>1, <2>2, <3>1 DEF Fault
    <3>. QED BY <3>2 DEF Happened
  <2>. QED BY <2>3, <2>4, NextTrace DEF NoItemLost, LosesOnlyInTransit
<1>. QED BY <1>1, <1>2, HandOverHolds, TypeCorrect, PTL DEF Spec
=============================================================================
