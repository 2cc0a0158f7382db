------------------------ MODULE BatchQueueOrderProofs ------------------------
(***************************************************************************)
(* Proofs about BatchQueue: without crash, failed Redis call and overrun   *)
(* an item is in one place at a time and stays away once it is counted     *)
(* off, so the verdict on the batch is right; with cancels only, the       *)
(* queues implement the contract.                                          *)
(***************************************************************************)
EXTENDS BatchQueueProofs

-----------------------------------------------------------------------------
(* One place at a time.                                                    *)

Fetched(h, i) == i \in fetch[h].items
Reaped(h, i)  == reap[h][i] # "none"
Carried(h, i) == Live(h, i) \/ Fetched(h, i) \/ Reaped(h, i)

\* The sender, the main queue, a consumer loop, a task, the reprocess loop and the due
\* part of the index exclude each other; only the index overlaps with what it indexes.
OnePlace(i) ==
  /\ \A h, g \in Host : Carried(h, i) /\ Carried(g, i) => h = g
  /\ \A h \in Host : /\ Live(h, i) => ~Fetched(h, i) /\ ~Reaped(h, i)
                     /\ Fetched(h, i) => ~Reaped(h, i)
  /\ (i \in unsent \/ i \in mainQueue) => \A h \in Host : ~Carried(h, i)
  /\ ~(i \in unsent /\ i \in mainQueue)
  /\ i \in globalQueue =>
       /\ i \notin unsent /\ i \notin mainQueue
       /\ \A h \in Host : ~Reaped(h, i) /\ (Fetched(h, i) => fetch[h].step = "read")
  /\ i \in due => \A h \in Host : ~Carried(h, i)

\* A task whose deletion from the index has returned.
Unindexed(t) ==
  \/ t.step = "delete" /\ "index" \notin t.todo
  \/ t.step \in {"verdict", "dbStatus", "redisStatus", "batchEvent", "tally"}

Indexed(i) == \A h \in Host : Unindexed(task[h][i]) => i \notin globalQueue

\* An item counted off is only with the task that did it.
Final(i) ==
  finishes[i] > 0 =>
    /\ i \notin unsent /\ i \notin mainQueue
    /\ \A h \in Host : /\ ~Fetched(h, i) /\ ~Reaped(h, i)
                       /\ Live(h, i) => ~CountsLater(task[h][i])
    /\ i \in globalQueue => \E h \in Host : Live(h, i)

Orderly(i) == OnePlace(i) /\ Indexed(i) /\ Final(i)

Order == Undisturbed => \A i \in Item : Orderly(i)

\* An undisturbed history was undisturbed before.
LEMMA UndisturbedBefore ==
  ASSUME TypeOK, [Next]_vars, Undisturbed'
  PROVE  /\ Undisturbed
         /\ \A kind \in {"crash", "redisError", "overrun"} : ~Fault(kind)
         /\ ~RedisFails
<1>1. faults' = faults \/ \E kind : Fault(kind)
  BY NextFaults
<1>2. faults \in Seq(Faults)
  BY DEF TypeOK
<1>3. Undisturbed
  BY <1>1, <1>2, FaultStep DEF Undisturbed, Happened
<1>4. ASSUME NEW kind \in {"crash", "redisError", "overrun"}, Fault(kind) PROVE FALSE
  <2>1. Happened(kind)'
    BY <1>2, <1>4, FaultStep
  <2>. QED BY <1>4, <2>1 DEF Undisturbed
<1>. QED BY <1>3, <1>4, RedisFailsEffect

\* A step that takes an item only out of places, or leaves it alone.
LEMMA OrderlyShrinks ==
  ASSUME NEW i \in Item, Orderly(i),
         i \in unsent' => i \in unsent, i \in mainQueue' => i \in mainQueue,
         i \in globalQueue' => i \in globalQueue, i \in due' => i \in due,
         finishes'[i] > 0 => finishes[i] > 0,
         \A h \in Host :
           /\ Live(h, i)' => Live(h, i)
           /\ Fetched(h, i)' => Fetched(h, i) /\ fetch'[h].step \in {fetch[h].step, "read"}
           /\ Reaped(h, i)' => Reaped(h, i)
           /\ Live(h, i)' /\ CountsLater(task'[h][i]) => CountsLater(task[h][i])
           /\ Unindexed(task'[h][i]) => Unindexed(task[h][i]) \/ i \notin globalQueue'
           /\ Live(h, i) /\ finishes[i] > 0 /\ i \in globalQueue' => Live(h, i)'
  PROVE  Orderly(i)'
<1>1. OnePlace(i)'
  BY DEF Orderly, OnePlace, Carried
<1>2. Indexed(i)'
  BY DEF Orderly, Indexed
<1>3. Final(i)'
  BY DEF Orderly, Final
<1>. QED BY <1>1, <1>2, <1>3 DEF Orderly

\* An item that a step does not touch.
LEMMA OrderlyUntouched ==
  ASSUME NEW i \in Item, Orderly(i),
         i \in unsent' <=> i \in unsent, i \in mainQueue' <=> i \in mainQueue,
         i \in globalQueue' <=> i \in globalQueue, i \in due' <=> i \in due,
         finishes'[i] = finishes[i],
         \A h \in Host : /\ task'[h][i] = task[h][i]
                         /\ Fetched(h, i)' <=> Fetched(h, i)
                         /\ Fetched(h, i) => fetch'[h].step \in {fetch[h].step, "read"}
                         /\ Reaped(h, i)' <=> Reaped(h, i)
  PROVE  Orderly(i)'
  BY OrderlyShrinks DEF Live

\* A handler that changes its own live task and takes its item only out of the index.
LEMMA OrderlyTask ==
  ASSUME TypeOK, \A i \in Item : Orderly(i),
         NEW h \in Host, NEW i \in Item, NEW t, SetTask(h, i, t), Live(h, i),
         UNCHANGED <<unsent, mainQueue, fetch, reap, finishes>>,
         globalQueue' \in {globalQueue, globalQueue \ {i}}, due' \in {due, due \ {i}},
         t.step # "none" /\ CountsLater(t) => CountsLater(task[h][i]),
         Unindexed(t) => Unindexed(task[h][i]) \/ i \notin globalQueue',
         finishes[i] > 0 /\ i \in globalQueue' => t.step # "none"
  PROVE  \A j \in Item : Orderly(j)'
<1>1. \A g \in Host, j \in Item :
        task'[g][j] = IF g = h /\ j = i THEN t ELSE task[g][j]
  BY SetTaskEffect
<1>. SUFFICES ASSUME NEW j \in Item PROVE Orderly(j)'
  OBVIOUS
<1>. QED BY <1>1, OrderlyShrinks DEF Live, Fetched, Reaped

\* The items are with the sender at first.
LEMMA InitOrder == Init => Order
  BY DEF Init, Order, Orderly, OnePlace, Indexed, Final, Carried, Live, Fetched, Reaped,
         Unindexed, NoTask, Idle

\* Sending and time: an item goes from the sender to the main queue, and is due only
\* when nobody holds it.
LEMMA OrderSending ==
  ASSUME TypeOK, \A i \in Item : Orderly(i), ~Fault("crash"), ~Fault("overrun"),
         Sending \/ SenderCrash \/ Cancel \/ \E i \in Item : VisibilityTimeout(i)
  PROVE  \A j \in Item : Orderly(j)'
<1>. SUFFICES ASSUME NEW j \in Item PROVE Orderly(j)'
  OBVIOUS
<1>. USE DEF redisVars, counterVars, dbVars, sendVars
<1>1. CASE SendBatch \/ Cancel
  BY <1>1, OrderlyUntouched DEF SendBatch, Cancel, Fetched, Reaped
<1>2. ASSUME NEW i \in Item, EnqueueItem(i) PROVE Orderly(j)'
  <2>1. CASE i # j
    BY <1>2, <2>1, OrderlyUntouched DEF EnqueueItem, Fetched, Reaped
  <2>2. CASE i = j
    BY <1>2, <2>2 DEF EnqueueItem, Orderly, OnePlace, Indexed, Final, Carried, Live, Fetched,
                      Reaped
  <2>. QED BY <2>1, <2>2
<1>3. ASSUME NEW i \in Item, VisibilityTimeout(i) PROVE Orderly(j)'
  <2>1. ~Held(i) /\ i \in globalQueue
    BY <1>3 DEF VisibilityTimeout
  <2>2. CASE i # j
    BY <1>3, <2>2, OrderlyUntouched DEF VisibilityTimeout, Fetched, Reaped
  <2>3. CASE i = j
    BY <1>3, <2>1, <2>3 DEF VisibilityTimeout, Held, Orderly, OnePlace, Indexed, Final,
                            Carried, Live, Fetched, Reaped
  <2>. QED BY <2>2, <2>3
<1>4. CASE SenderCrash
  BY <1>4 DEF SenderCrash
<1>. QED BY <1>1, <1>2, <1>3, <1>4 DEF Sending

\* The consumer loop: from the main queue through the loop, into the index, to a task.
LEMMA OrderFetching ==
  ASSUME TypeOK, \A i \in Item : Orderly(i), NEW h \in Host, Fetching(h)
  PROVE  \A j \in Item : Orderly(j)'
<1>. SUFFICES ASSUME NEW j \in Item PROVE Orderly(j)'
  OBVIOUS
<1>. USE DEF redisVars, counterVars, dbVars, sendVars
<1>1. CASE RetrieveItems(h)
  <2>1. PICK S \in SUBSET mainQueue :
          /\ mainQueue' = mainQueue \ S
          /\ fetch' = [fetch EXCEPT ![h] = [step |-> "index", items |-> S]]
    BY <1>1 DEF RetrieveItems
  <2>2. /\ fetch[h].step = "idle"
        /\ \A g \in Host : fetch'[g] = IF g = h THEN [step |-> "index", items |-> S] ELSE fetch[g]
    BY <1>1, <2>1 DEF RetrieveItems, TypeOK
  <2>3. UNCHANGED <<unsent, globalQueue, due, task, reap, finishes>> /\ due \subseteq globalQueue
    BY <1>1 DEF RetrieveItems, TypeOK
  <2>4. CASE j \in S
    BY <2>1, <2>2, <2>3, <2>4 DEF Orderly, OnePlace, Indexed, Final, Carried, Live, Fetched,
                                  Reaped
  <2>5. CASE j \notin S
    <3>1. \A g \in Host : Fetched(g, j)' => Fetched(g, j) /\ fetch'[g] = fetch[g]
      BY <2>2, <2>5 DEF Fetched
    <3>. QED BY <2>1, <2>3, <2>5, <3>1, OrderlyShrinks DEF Live, Reaped
  <2>. QED BY <2>4, <2>5
<1>2. CASE IndexItems(h)
  <2>1. \A g \in Host : /\ fetch'[g].items = fetch[g].items
                        /\ fetch'[g].step = IF g = h THEN "read" ELSE fetch[g].step
    BY <1>2 DEF IndexItems, TypeOK, FetchState
  <2>2. CASE j \in fetch[h].items
    BY <1>2, <2>1, <2>2 DEF IndexItems, Orderly, OnePlace, Indexed, Final, Carried, Live,
                            Fetched, Reaped, Unindexed
  <2>3. CASE j \notin fetch[h].items
    BY <1>2, <2>1, <2>3, OrderlyUntouched DEF IndexItems, Fetched, Reaped
  <2>. QED BY <2>2, <2>3
<1>3. CASE StartTasks(h)
  <2>1. Startable(fetch[h].items) \subseteq fetch[h].items
    BY DEF Startable
  <2>2. \A g \in Host : task'[g][j] = IF g = h /\ j \in Startable(fetch[h].items)
                                        THEN NewTask(payload[j].retryCount = 0)
                                        ELSE task[g][j]
    BY <1>3 DEF StartTasks, TypeOK
  <2>3. \A g \in Host : fetch'[g] = IF g = h THEN Idle ELSE fetch[g]
    BY <1>3 DEF StartTasks, TypeOK
  <2>4. Idle.items = {} /\ \A b : NewTask(b).step = "begin"
    BY DEF Idle, NewTask, NoTask
  <2>5. CASE j \in Startable(fetch[h].items)
    <3>1. /\ Fetched(h, j)
          /\ \A g \in Host : Live(g, j)' <=> g = h
          /\ \A g \in Host : ~Fetched(g, j)' /\ ~Unindexed(task'[g][j])
      BY <2>1, <2>2, <2>3, <2>4, <2>5
      DEF Orderly, OnePlace, Carried, Live, Fetched, Unindexed
    <3>. QED BY <1>3, <3>1 DEF StartTasks, Orderly, OnePlace, Indexed, Final, Carried, Reaped
  <2>6. CASE j \notin Startable(fetch[h].items)
    <3>1. \A g \in Host : /\ task'[g][j] = task[g][j]
                          /\ Fetched(g, j)' => Fetched(g, j) /\ fetch'[g] = fetch[g]
      BY <2>2, <2>3, <2>4, <2>6 DEF Fetched
    <3>. QED BY <1>3, <3>1, OrderlyShrinks DEF StartTasks, Live, Reaped
  <2>. QED BY <2>5, <2>6
<1>. QED BY <1>1, <1>2, <1>3 DEF Fetching

\* The reprocess loop: from the due part of the index to the main queue.
LEMMA OrderReprocessing ==
  ASSUME TypeOK, \A i \in Item : Orderly(i), NEW h \in Host, Reprocessing(h)
  PROVE  \A j \in Item : Orderly(j)'
<1>. SUFFICES ASSUME NEW j \in Item PROVE Orderly(j)'
  OBVIOUS
<1>. USE DEF redisVars, counterVars, dbVars, sendVars
<1>1. CASE ReapExpired(h)
  <2>1. PICK S \in SUBSET due :
          /\ globalQueue' = globalQueue \ S /\ due' = due \ S
          /\ reap' = [reap EXCEPT ![h] =
                       [i \in Item |-> IF i \in S THEN "taken" ELSE reap[h][i]]]
    BY <1>1 DEF ReapExpired
  <2>2. \A g \in Host : reap'[g][j] = IF g = h /\ j \in S THEN "taken" ELSE reap[g][j]
    BY <2>1 DEF TypeOK
  <2>3. UNCHANGED <<unsent, mainQueue, task, fetch, finishes>> /\ due \subseteq globalQueue
    BY <1>1 DEF ReapExpired, TypeOK
  <2>4. CASE j \in S
    <3>1. finishes[j] > 0 => FALSE
      BY <2>1, <2>3, <2>4 DEF Orderly, OnePlace, Final, Carried
    <3>. QED BY <2>1, <2>2, <2>3, <2>4, <3>1
             DEF Orderly, OnePlace, Indexed, Final, Carried, Live, Fetched, Reaped
  <2>5. CASE j \notin S
    <3>1. \A g \in Host : Reaped(g, j)' => Reaped(g, j)
      BY <2>2, <2>5 DEF Reaped
    <3>. QED BY <2>1, <2>3, <2>5, <3>1, OrderlyShrinks DEF Live, Fetched
  <2>. QED BY <2>4, <2>5
<1>2. ASSUME NEW i \in Item, ReadPayload(h, i) PROVE Orderly(j)'
  <2>1. \A g \in Host : Reaped(g, j)' <=> Reaped(g, j)
    BY <1>2 DEF ReadPayload, Reaped, TypeOK
  <2>. QED BY <1>2, <2>1, OrderlyUntouched DEF ReadPayload, Fetched
<1>3. ASSUME NEW i \in Item, Requeue(h, i) PROVE Orderly(j)'
  <2>1. \A g \in Host : reap'[g][j] = IF g = h /\ j = i THEN "none" ELSE reap[g][j]
    BY <1>3 DEF Requeue, TypeOK
  <2>2. UNCHANGED <<unsent, globalQueue, due, task, fetch, finishes>>
    BY <1>3 DEF Requeue
  <2>3. Reaped(h, i) /\ (mainQueue' = mainQueue \/ mainQueue' = mainQueue \cup {i})
    BY <1>3 DEF Requeue, Reaped
  <2>4. CASE i = j
    <3>1. \A g \in Host : ~Reaped(g, j)' /\ ~Carried(g, j)'
      BY <2>1, <2>2, <2>3, <2>4 DEF Orderly, OnePlace, Carried, Live, Fetched, Reaped
    <3>. QED BY <2>2, <2>3, <2>4, <3>1
             DEF Orderly, OnePlace, Indexed, Final, Carried, Live, Fetched
  <2>5. CASE i # j
    BY <2>1, <2>2, <2>3, <2>5, OrderlyUntouched DEF Fetched, Reaped
  <2>. QED BY <2>4, <2>5
<1>. QED BY <1>1, <1>2, <1>3 DEF Reprocessing

\* processItem: the item stays with its task, which it leaves only for the index.
LEMMA OrderProcessing ==
  ASSUME TypeOK, \A i \in Item : Orderly(i), NEW h \in Host, NEW i \in Item, Processing(h, i)
  PROVE  \A j \in Item : Orderly(j)'
<1>. DEFINE t == task[h][i]
<1>. USE DEF redisVars, counterVars, dbVars, sendVars
<1>1. /\ t \in TaskState /\ Live(h, i)
      /\ t.step \in {"begin", "mark", "call", "defer"} /\ CountsLater(t)
      /\ UNCHANGED <<unsent, mainQueue, globalQueue, fetch, reap, finishes>>
      /\ due' \in {due, due \ {i}}
  <2>1. t.step \in {"begin", "mark", "call", "defer"}
    BY DEF Processing, BeginItem, MarkRunning, CallEnds, CallRetryable, DeferItem, CallThrows
  <2>2. /\ UNCHANGED <<unsent, mainQueue, globalQueue, fetch, reap, finishes>>
        /\ due' \in {due, due \ {i}}
    <3>1. CASE DeferItem(h, i)
      BY <3>1 DEF DeferItem
    <3>2. CASE ~DeferItem(h, i)
      BY <3>2 DEF Processing, BeginItem, MarkRunning, CallEnds, CallRetryable, CallThrows
    <3>. QED BY <3>1, <3>2
  <2>3. t \in TaskState
    BY DEF TypeOK
  <2>. QED BY <2>1, <2>2, <2>3 DEF Live, CountsLater
<1>2. ~(finishes[i] > 0)
  BY <1>1 DEF Orderly, Final
<1>3. ASSUME NEW u, SetTask(h, i, u), ~Unindexed(u)
      PROVE  \A j \in Item : Orderly(j)'
  BY <1>1, <1>2, <1>3, OrderlyTask
<1>4. ASSUME NEW s \in {"mark", "call", "defer"}, Goto(h, i, s)
      PROVE  \A j \in Item : Orderly(j)'
  <2>1. [t EXCEPT !.step = s].step = s
    BY <1>1 DEF TaskState
  <2>. QED BY <1>3, <1>4, <2>1 DEF Goto, Unindexed
<1>5. CASE BeginItem(h, i) \/ MarkRunning(h, i) \/ CallRetryable(h, i)
  BY <1>4, <1>5 DEF BeginItem, MarkRunning, CallRetryable
<1>6. CASE DeferItem(h, i) \/ CallThrows(h, i)
  BY <1>3, <1>6 DEF DeferItem, CallThrows, Unindexed, NoTask
<1>7. ASSUME NEW outcome \in Outcome, CallEnds(h, i, outcome)
      PROVE  \A j \in Item : Orderly(j)'
  <2>. DEFINE u == [t EXCEPT !.step = "delete", !.outcome = outcome, !.todo = DeleteCalls]
  <2>1. u.step = "delete" /\ u.todo = DeleteCalls
    BY <1>1 DEF TaskState
  <2>2. SetTask(h, i, u)
    BY <1>7 DEF CallEnds
  <2>. HIDE DEF u
  <2>. QED BY <1>3, <2>1, <2>2 DEF Unindexed, DeleteCalls
<1>. QED BY <1>5, <1>6, <1>7 DEF Processing

\* What a call of deleteItem leaves of a task.
LEMMA CallReturnedParts ==
  ASSUME NEW t \in TaskState, t.step = "delete", NEW c \in t.todo
  PROVE  LET u == CallReturned(t, c)
         IN  /\ u.step # "none" /\ u.todo = t.todo \ {c}
             /\ u.outcome = t.outcome /\ u.last = t.last /\ u.verdict = t.verdict
             /\ u.step = "delete" \/ (u.step \in {"verdict", "tally"} /\ u.todo = {})
             /\ u.step = "verdict" => t.last
             /\ CountsLater(u) <=> "counters" \in u.todo
             /\ Unindexed(u) <=> "index" \notin u.todo
  BY DEF CallReturned, TaskState, CountsLater, Unindexed

\* deleteItem and completeBatch: the item leaves the index, and then its task.
LEMMA OrderFinishing ==
  ASSUME TypeOK, \A i \in Item : Orderly(i), NEW h \in Host, NEW i \in Item, Finishing(h, i)
  PROVE  \A j \in Item : Orderly(j)'
<1>. DEFINE t == task[h][i]
<1>. USE DEF redisVars, counterVars, dbVars, sendVars
<1>1. /\ t \in TaskState /\ Live(h, i)
      /\ UNCHANGED <<unsent, mainQueue, fetch, reap>>
      /\ globalQueue' \in {globalQueue, globalQueue \ {i}} /\ due' \in {due, due \ {i}}
      /\ DeleteCounters(h, i) \/ finishes' = finishes
  BY DEF TypeOK, Finishing, DeleteCounters, DeletePayload, DeleteIndex, DeleteEvent,
       ReadVerdict, UpdateDbStatus, UpdateRedisStatus, BatchEvent, TallyItem,
       CompleteThrows, Live
<1>2. CASE DeleteCounters(h, i)
  <2>. DEFINE v == [t EXCEPT !.last = (batch.pending - 1 = 0)]
              u == CallReturned(v, "counters")
  <2>1. v \in TaskState /\ v.step = "delete" /\ v.todo = t.todo /\ "counters" \in t.todo
    BY <1>1, <1>2 DEF DeleteCounters, TaskState
  <2>2. /\ u.step # "none" /\ ~CountsLater(u)
        /\ Unindexed(u) => Unindexed(t)
    <3>1. t.step = "delete"
      BY <1>2 DEF DeleteCounters
    <3>. HIDE DEF v
    <3>. QED BY <2>1, <3>1, CallReturnedParts DEF Unindexed
  <2>3. SetTask(h, i, u) /\ UNCHANGED <<globalQueue, due>>
    BY <1>2 DEF DeleteCounters
  <2>. HIDE DEF u, v
  <2>4. \A g \in Host, j \in Item :
          task'[g][j] = IF g = h /\ j = i THEN u ELSE task[g][j]
    BY <2>3, SetTaskEffect
  <2>5. \A j \in Item : j # i => finishes'[j] = finishes[j]
    BY <1>2 DEF DeleteCounters, TypeOK
  <2>6. ASSUME NEW j \in Item, j # i PROVE Orderly(j)'
    BY <1>1, <2>3, <2>4, <2>5, <2>6, OrderlyUntouched DEF Fetched, Reaped
  <2>7. Orderly(i)'
    <3>1. \A g \in Host : Live(g, i)' <=> g = h
      BY <1>1, <2>2, <2>4 DEF Orderly, OnePlace, Carried, Live
    <3>2. \A g \in Host : Live(g, i)' <=> Live(g, i)
      BY <1>1, <3>1 DEF Orderly, OnePlace, Carried
    <3>3. OnePlace(i)'
      BY <1>1, <2>3, <3>2 DEF Orderly, OnePlace, Carried, Fetched, Reaped
    <3>4. Indexed(i)'
      BY <2>2, <2>3, <2>4 DEF Orderly, Indexed
    <3>5. Final(i)'
      BY <1>1, <2>2, <2>4, <3>1, <3>3 DEF Final, OnePlace, Carried
    <3>. QED BY <3>3, <3>4, <3>5 DEF Orderly
  <2>. QED BY <2>6, <2>7
<1>3. ASSUME NEW u, SetTask(h, i, u), ~DeleteCounters(h, i),
             u.step # "none" /\ CountsLater(u) => CountsLater(t),
             Unindexed(u) => Unindexed(t) \/ i \notin globalQueue',
             i \in globalQueue' => u.step # "none"
      PROVE  \A j \in Item : Orderly(j)'
  BY <1>1, <1>3, OrderlyTask
<1>4. CASE DeletePayload(h, i) \/ DeleteEvent(h, i) \/ DeleteIndex(h, i)
  <2>1. PICK c \in {"payload", "event", "index"} :
          /\ t.step = "delete" /\ c \in t.todo /\ SetTask(h, i, CallReturned(t, c))
          /\ c = "index" => i \notin globalQueue'
    BY <1>4 DEF DeletePayload, DeleteEvent, DeleteIndex
  <2>. DEFINE u == CallReturned(t, c)
  <2>2. /\ u.step # "none" /\ (CountsLater(u) => CountsLater(t))
        /\ Unindexed(u) => Unindexed(t) \/ i \notin globalQueue'
    BY <1>1, <2>1, CallReturnedParts DEF CountsLater, Unindexed
  <2>3. SetTask(h, i, u)
    BY <2>1
  <2>4. CASE ~DeleteCounters(h, i)
    <3>. HIDE DEF u
    <3>. QED BY <1>3, <2>2, <2>3, <2>4
  <2>. QED BY <1>2, <2>4
<1>5. CASE ReadVerdict(h, i) \/ UpdateDbStatus(h, i) \/ UpdateRedisStatus(h, i)
           \/ BatchEvent(h, i)
  <2>1. PICK u : /\ SetTask(h, i, u) /\ Unindexed(t)
                 /\ u.step \in {"dbStatus", "redisStatus", "batchEvent", "tally"}
    <3>1. /\ \A s \in {"redisStatus", "batchEvent", "tally"} : [t EXCEPT !.step = s].step = s
          /\ \A v : [t EXCEPT !.step = "dbStatus", !.verdict = v].step = "dbStatus"
      BY <1>1 DEF TaskState
    <3>2. Unindexed(t)
      BY <1>5 DEF ReadVerdict, UpdateDbStatus, UpdateRedisStatus, BatchEvent, Unindexed
    <3>3. CASE ReadVerdict(h, i)
      <4>. DEFINE u == [t EXCEPT !.step = "dbStatus",
                                 !.verdict = IF batch.failed > 0 THEN "FAILED" ELSE "COMPLETED"]
      <4>1. u.step = "dbStatus" /\ SetTask(h, i, u)
        BY <3>1, <3>3 DEF ReadVerdict
      <4>. QED BY <3>2, <4>1
    <3>4. CASE ~ReadVerdict(h, i)
      BY <1>5, <3>1, <3>2, <3>4 DEF UpdateDbStatus, UpdateRedisStatus, BatchEvent, Goto
    <3>. QED BY <3>3, <3>4
  <2>2. u.step # "none" /\ ~CountsLater(u)
    BY <2>1 DEF CountsLater
  <2>. QED BY <1>2, <1>3, <2>1, <2>2
<1>6. CASE TallyItem(h, i) \/ CompleteThrows(h, i)
  <2>1. Unindexed(t) /\ SetTask(h, i, NoTask) /\ globalQueue' = globalQueue
    BY <1>6 DEF TallyItem, CompleteThrows, Unindexed
  <2>2. i \notin globalQueue' /\ NoTask.step = "none" /\ ~Unindexed(NoTask)
    BY <2>1 DEF Orderly, Indexed, NoTask, Unindexed
  <2>. QED BY <1>2, <1>3, <2>1, <2>2
<1>. QED BY <1>2, <1>4, <1>5, <1>6 DEF Finishing

\* Every step keeps the order.
LEMMA NextOrder == TypeOK /\ Order /\ [Next]_vars => Order'
<1>. SUFFICES ASSUME TypeOK, Order, [Next]_vars, Undisturbed'
              PROVE  \A i \in Item : Orderly(i)'
  BY DEF Order
<1>1. /\ \A i \in Item : Orderly(i)
      /\ ~Fault("crash") /\ ~Fault("overrun") /\ ~RedisFails
  BY UndisturbedBefore DEF Order
<1>2. CASE Sending \/ SenderCrash \/ Cancel \/ \E i \in Item : VisibilityTimeout(i)
  BY <1>1, <1>2, OrderSending
<1>3. ASSUME NEW h \in Host, Fetching(h) PROVE \A i \in Item : Orderly(i)'
  BY <1>1, <1>3, OrderFetching
<1>4. ASSUME NEW h \in Host, Reprocessing(h) PROVE \A i \in Item : Orderly(i)'
  BY <1>1, <1>4, OrderReprocessing
<1>5. ASSUME NEW h \in Host, NEW i \in Item, Processing(h, i)
      PROVE  \A j \in Item : Orderly(j)'
  BY <1>1, <1>5, OrderProcessing
<1>6. ASSUME NEW h \in Host, NEW i \in Item, Finishing(h, i)
      PROVE  \A j \in Item : Orderly(j)'
  BY <1>1, <1>6, OrderFinishing
<1>7. \A h \in Host : ~Crash(h)
  BY <1>1 DEF Crash
<1>8. CASE UNCHANGED vars
  BY <1>1, <1>8, OrderlyUntouched
  DEF vars, redisVars, counterVars, dbVars, sendVars, Fetched, Reaped
<1>. QED BY <1>1, <1>2, <1>3, <1>4, <1>5, <1>6, <1>7, <1>8 DEF Next

\* The order always holds.
LEMMA OrderHolds == Spec => []Order
  BY InitOrder, NextOrder, TypeCorrect, PTL DEF Spec

\* Without crash, failed Redis call and overrun at most one task holds an item, and then
\* it is not in the main queue: retries, database errors and cancels do not put it in two
\* places.
THEOREM ExclusiveProcessingHolds == Spec => []ExclusiveProcessing
<1>1. Order => ExclusiveProcessing
  BY DEF Order, Orderly, OnePlace, Carried, ExclusiveProcessing
<1>. QED BY <1>1, OrderHolds, PTL

\* Without them an item that was counted off does not come back to the main queue.
THEOREM NoResurrectionHolds == Spec => NoResurrection
<1>1. TypeOK /\ Order /\ [Next]_vars =>
        [Undisturbed => \A i \in Item :
           (finishes[i] > 0 /\ i \notin mainQueue) => i \notin mainQueue']_vars
  <2>. SUFFICES ASSUME TypeOK, Order, [Next]_vars, Undisturbed, NEW i \in Item,
                       finishes[i] > 0, i \notin mainQueue, i \in mainQueue'
                PROVE  FALSE
    OBVIOUS
  <2>. USE DEF redisVars, counterVars, dbVars, sendVars
  <2>1. ASSUME NEW h \in Host, NEW k \in Item, Processing(h, k) \/ Finishing(h, k)
        PROVE  mainQueue' = mainQueue
    <3>1. CASE Processing(h, k)
      BY <3>1 DEF Processing, BeginItem, MarkRunning, CallEnds, CallRetryable, DeferItem,
                  CallThrows
    <3>2. CASE Finishing(h, k)
      BY <3>2 DEF Finishing, DeleteCounters, DeletePayload, DeleteIndex, DeleteEvent,
         ReadVerdict, UpdateDbStatus, UpdateRedisStatus, BatchEvent, TallyItem, CompleteThrows
    <3>. QED BY <2>1, <3>1, <3>2
  <2>2. \A h \in Host : Fetching(h) \/ Crash(h) => mainQueue' \subseteq mainQueue
    BY DEF Fetching, RetrieveItems, IndexItems, StartTasks, Crash
  <2>3. \A h \in Host : Reprocessing(h) => Reaped(h, i)
    BY DEF Reprocessing, ReapExpired, ReadPayload, Requeue, Reaped
  <2>4. Sending => i \in unsent
    BY DEF Sending, SendBatch, EnqueueItem
  <2>5. SenderCrash \/ Cancel \/ RedisFails \/ (\E k \in Item : VisibilityTimeout(k))
          \/ UNCHANGED vars => mainQueue' = mainQueue
    BY RedisFailsEffect DEF SenderCrash, Cancel, VisibilityTimeout, vars
  <2>6. i \in unsent \/ \E h \in Host : Reaped(h, i)
    BY <2>1, <2>2, <2>3, <2>4, <2>5 DEF Next
  <2>. QED BY <2>6 DEF Order, Orderly, Final
<1>. QED BY <1>1, OrderHolds, TypeCorrect, PTL DEF Spec, NoResurrection

-----------------------------------------------------------------------------
(* The verdict.                                                            *)
(*                                                                         *)
(* pending counts the items not counted off, so the completer finds all of *)
(* them counted off, the failed ones among them in failed, and nothing     *)
(* moves failed behind it.                                                 *)

Unfinished == {i \in Item : finishes[i] = 0}

SomeFailed == \E i \in Item : finishes[i] > 0 /\ dbItem[i] = "FAILED"

\* A task that has its outcome, and one that has decided on the batch.
Reporting(t) ==
  t.step \in {"delete", "verdict", "dbStatus", "redisStatus", "batchEvent", "tally"}

Decided(t) == t.step \in {"dbStatus", "redisStatus"}

\* The batch has not been given up by a completeBatch that failed.
Deciding ==
  \/ Unfinished # {} \/ batch.status \in Outcome
  \/ \E h \in Host, i \in Item : Completes(task[h][i])

Count ==
  /\ \A i \in Item : finishes[i] \in {0, 1}
  /\ sender = "committed" => unsent = Item /\ Unfinished = Item
  /\ sender # "committed" => batch.pending = Cardinality(Unfinished)
  /\ batch.status \in Outcome => Unfinished = {}
  /\ \A h \in Host, i \in Item : Completes(task[h][i]) =>
       /\ Unfinished = {}
       /\ task[h][i].step # "batchEvent" => batch.status \notin Outcome

Outcomes ==
  /\ \A i \in Item : finishes[i] > 0 => dbItem[i] \in Outcome
  /\ \A h \in Host, i \in Item : Reporting(task[h][i]) => dbItem[i] = task[h][i].outcome

Verdicts ==
  /\ Deciding => (batch.failed > 0 <=> SomeFailed)
  /\ \A h \in Host, i \in Item :
       Decided(task[h][i]) => (task[h][i].verdict = "FAILED" <=> batch.failed > 0)
  /\ batch.status \in Outcome => (batch.status = "FAILED" <=> batch.failed > 0)

Accounted == Count /\ Outcomes /\ Verdicts

Judged == Undisturbed => Accounted

\* The facts about a step that the lemmas below start from.
Setting ==
  /\ TypeOK /\ OneCompleter /\ HandOver
  /\ \A i \in Item : Orderly(i)
  /\ Accounted

\* At first nothing is judged.
LEMMA InitJudged == Init => Judged
<1>. SUFFICES ASSUME Init PROVE Accounted
  BY DEF Judged
<1>1. /\ \A i \in Item : finishes[i] = 0
      /\ \A h \in Host, i \in Item : task[h][i].step = "none"
      /\ batch.failed = 0 /\ batch.status = "none" /\ sender = "committed" /\ unsent = Item
  BY DEF Init, NoTask
<1>. QED BY <1>1 DEF Accounted, Count, Outcomes, Verdicts, Unfinished, SomeFailed, Completes,
             Reporting, Decided, Outcome

\* A step that counts nothing off and leaves the batch hash and the outcomes alone; no
\* task begins to decide.
LEMMA AccountedUntouched ==
  ASSUME Setting, finishes' = finishes, batch' = batch, sender' = sender,
         sender = "committed" => unsent' = unsent,
         \A i \in Item : dbItem'[i] = dbItem[i] \/ (finishes[i] = 0 /\ \A h \in Host :
             Reporting(task'[h][i]) => dbItem'[i] = task'[h][i].outcome),
         \A h \in Host, i \in Item :
           LET t == task[h][i]
               u == task'[h][i]
           IN  \/ u = t
               \/ /\ Completes(u) => Completes(t) /\ u.step # "batchEvent"
                                    /\ t.step # "batchEvent"
                  /\ Reporting(u) => dbItem'[i] = u.outcome
                  /\ Decided(u) => (u.verdict = "FAILED" <=> batch.failed > 0)
  PROVE  Accounted'
<1>. USE DEF Setting, Accounted
<1>1. /\ Unfinished' = Unfinished
      /\ \A h \in Host, i \in Item : Completes(task'[h][i]) => Completes(task[h][i])
      /\ Deciding' => Deciding
  BY DEF Unfinished, Deciding
<1>2. Count'
  BY <1>1 DEF Count
<1>3. Outcomes'
  BY <1>1 DEF Outcomes
<1>4. SomeFailed' <=> SomeFailed
  BY DEF SomeFailed
<1>5. Verdicts'
  BY <1>1, <1>4 DEF Verdicts
<1>. QED BY <1>2, <1>3, <1>5

\* The steps of others than the tasks.
LEMMA AccountedOthers ==
  ASSUME Setting, ~Fault("crash"),
         \/ Sending \/ SenderCrash \/ Cancel \/ UNCHANGED vars
         \/ \E i \in Item : VisibilityTimeout(i)
         \/ \E h \in Host : Fetching(h) \/ Reprocessing(h)
  PROVE  Accounted'
<1>. USE DEF redisVars, counterVars, dbVars, sendVars
<1>1. CASE SendBatch
  <2>1. /\ sender = "committed" /\ sender' = "enqueueing" /\ Unfinished = Item
        /\ UNCHANGED <<finishes, dbItem, task>>
        /\ batch'.pending = Cardinality(Item) /\ batch'.failed = batch.failed
        /\ batch'.status = "PENDING" /\ batch.status \notin Outcome
    <3>1. Item # {}
      BY BatchQueueAssumption
    <3>. QED BY <1>1, <3>1 DEF SendBatch, Setting, Accounted, Count, TypeOK, BatchState
  <2>2. /\ Unfinished' = Unfinished /\ (SomeFailed' <=> SomeFailed)
        /\ Deciding' => Deciding /\ batch'.status \notin Outcome
    BY <2>1 DEF Unfinished, SomeFailed, Deciding, Outcome
  <2>3. Count'
    <3>1. Count
      BY DEF Setting, Accounted
    <3>. QED BY <2>1, <2>2, <3>1 DEF Count, Outcome
  <2>4. Outcomes' /\ Verdicts'
    BY <2>1, <2>2 DEF Setting, Accounted, Outcomes, Verdicts, Deciding
  <2>. QED BY <2>3, <2>4 DEF Accounted
<1>2. CASE Cancel
  <2>1. ASSUME NEW i \in Item, dbItem'[i] # dbItem[i]
        PROVE  finishes[i] = 0 /\ \A h \in Host : ~Reporting(task[h][i])
    <3>1. dbItem[i] = "PENDING"
      BY <1>2, <2>1 DEF Cancel, Setting, TypeOK
    <3>2. \A h \in Host : task[h][i].outcome # "PENDING"
      BY DEF Setting, TypeOK, TaskState, Outcome
    <3>. QED BY <3>1, <3>2 DEF Setting, Accounted, Outcomes, Count, Outcome
  <2>. QED BY <1>2, <2>1, AccountedUntouched DEF Cancel
<1>3. ASSUME NEW h \in Host, StartTasks(h) PROVE Accounted'
  <2>1. \A b : NewTask(b).step = "begin"
    BY DEF NewTask, NoTask
  <2>2. \A g \in Host, i \in Item :
          task'[g][i] = task[g][i] \/ task'[g][i].step = "begin"
    BY <1>3, <2>1 DEF StartTasks, Setting, TypeOK
  <2>. QED BY <1>3, <2>2, AccountedUntouched DEF StartTasks, Completes, Reporting, Decided
<1>4. ASSUME NEW i \in Item, EnqueueItem(i) PROVE Accounted'
  BY <1>4, AccountedUntouched DEF EnqueueItem
<1>5. ASSUME NEW i \in Item, VisibilityTimeout(i) PROVE Accounted'
  BY <1>5, AccountedUntouched DEF VisibilityTimeout
<1>6. ASSUME NEW h \in Host, RetrieveItems(h) \/ IndexItems(h) \/ Reprocessing(h)
      PROVE  Accounted'
  BY <1>6, AccountedUntouched
  DEF RetrieveItems, IndexItems, Reprocessing, ReapExpired, ReadPayload, Requeue
<1>7. CASE SenderCrash
  BY <1>7 DEF SenderCrash
<1>8. CASE UNCHANGED vars
  BY <1>8, AccountedUntouched DEF vars
<1>. QED BY <1>1, <1>2, <1>3, <1>4, <1>5, <1>6, <1>7, <1>8 DEF Sending, Fetching

\* A task has its item for itself.
LEMMA OwnTask ==
  ASSUME Setting, NEW h \in Host, NEW i \in Item, Live(h, i)
  PROVE  \A g \in Host : g # h => task[g][i].step = "none"
  BY DEF Setting, Orderly, OnePlace, Carried, Live

\* A task that goes on without counting or deciding.
LEMMA AccountedTask ==
  ASSUME Setting, NEW h \in Host, NEW i \in Item, NEW u, SetTask(h, i, u), Live(h, i),
         UNCHANGED <<finishes, batch, sender, unsent>>,
         \A j \in Item : dbItem'[j] = dbItem[j] \/ (j = i /\ finishes[i] = 0),
         Completes(u) => Completes(task[h][i]) /\ u.step # "batchEvent"
                                              /\ task[h][i].step # "batchEvent",
         Reporting(u) => dbItem'[i] = u.outcome,
         Decided(u) => (u.verdict = "FAILED" <=> batch.failed > 0)
  PROVE  Accounted'
<1>1. \A g \in Host, j \in Item :
        task'[g][j] = IF g = h /\ j = i THEN u ELSE task[g][j]
  BY SetTaskEffect DEF Setting
<1>2. \A g \in Host : Reporting(task'[g][i]) => g = h
  BY <1>1, OwnTask DEF Reporting
<1>. QED BY <1>1, <1>2, AccountedUntouched

\* processItem moves an item that is not counted off.
LEMMA AccountedProcessing ==
  ASSUME Setting, NEW h \in Host, NEW i \in Item, Processing(h, i)
  PROVE  Accounted'
<1>. DEFINE t == task[h][i]
<1>. USE DEF redisVars, counterVars, dbVars, sendVars
<1>1. /\ t \in TaskState /\ Live(h, i) /\ CountsLater(t)
      /\ UNCHANGED <<finishes, batch, sender, unsent>>
      /\ \A j \in Item : j # i => dbItem'[j] = dbItem[j]
  <2>1. t.step \in {"begin", "mark", "call", "defer"}
    BY DEF Processing, BeginItem, MarkRunning, CallEnds, CallRetryable, DeferItem, CallThrows
  <2>2. UNCHANGED <<finishes, batch, sender, unsent>>
    BY DEF Processing, BeginItem, MarkRunning, CallEnds, CallRetryable, DeferItem, CallThrows
  <2>3. dbItem' = dbItem \/ \E status : dbItem' = [dbItem EXCEPT ![i] = status]
    BY DEF Processing, BeginItem, MarkRunning, CallEnds, CallRetryable, DeferItem, CallThrows
  <2>4. t \in TaskState /\ \A j \in Item : j # i => dbItem'[j] = dbItem[j]
    BY <2>3 DEF Setting, TypeOK
  <2>. QED BY <2>1, <2>2, <2>4 DEF Live, CountsLater
<1>2. finishes[i] = 0 /\ ~t.last
  BY <1>1 DEF Setting, OneCompleter, Orderly, Final, Accounted, Count
<1>3. ASSUME NEW u, SetTask(h, i, u), ~Completes(u), ~Decided(u),
             Reporting(u) => dbItem'[i] = u.outcome
      PROVE  Accounted'
  BY <1>1, <1>2, <1>3, AccountedTask
<1>4. ASSUME NEW s \in {"mark", "call", "defer"}, Goto(h, i, s) PROVE Accounted'
  <2>1. [t EXCEPT !.step = s].step = s
    BY <1>1 DEF TaskState
  <2>. QED BY <1>3, <1>4, <2>1 DEF Goto, Completes, Decided, Reporting
<1>5. CASE BeginItem(h, i) \/ MarkRunning(h, i) \/ CallRetryable(h, i)
  BY <1>4, <1>5 DEF BeginItem, MarkRunning, CallRetryable
<1>6. CASE DeferItem(h, i) \/ CallThrows(h, i)
  BY <1>3, <1>6 DEF DeferItem, CallThrows, Completes, Decided, Reporting, NoTask
<1>7. ASSUME NEW outcome \in Outcome, CallEnds(h, i, outcome) PROVE Accounted'
  <2>. DEFINE u == [t EXCEPT !.step = "delete", !.outcome = outcome, !.todo = DeleteCalls]
  <2>1. u.step = "delete" /\ u.outcome = outcome /\ u.last = t.last
    BY <1>1 DEF TaskState
  <2>2. SetTask(h, i, u) /\ dbItem'[i] = outcome
    BY <1>7 DEF CallEnds, Setting, TypeOK
  <2>. HIDE DEF u
  <2>. QED BY <1>2, <1>3, <2>1, <2>2 DEF Completes, Decided
<1>. QED BY <1>5, <1>6, <1>7 DEF Processing

\* The decrement counts the item off with the outcome its row has; the task that brings
\* pending to zero finds nothing unfinished.
LEMMA AccountedCounting ==
  ASSUME Setting, NEW h \in Host, NEW i \in Item, DeleteCounters(h, i)
  PROVE  Accounted'
<1>. DEFINE t == task[h][i]
            zero == batch.pending - 1 = 0
            u == CallReturned([t EXCEPT !.last = zero], "counters")
<1>1. /\ t \in TaskState /\ t.step = "delete" /\ "counters" \in t.todo
      /\ Live(h, i) /\ CountsLater(t) /\ Reporting(t)
      /\ batch.pending \in Int /\ batch.failed \in Nat
  BY DEF DeleteCounters, Live, CountsLater, Reporting, Setting, TypeOK, BatchState
<1>2. /\ u.last = zero /\ u.outcome = t.outcome
      /\ u.step \in {"delete", "verdict", "tally"} /\ (Completes(u) <=> zero)
  BY <1>1 DEF CallReturned, TaskState, Completes
<1>3. \A g \in Host, j \in Item :
        task'[g][j] = IF g = h /\ j = i THEN u ELSE task[g][j]
  BY SetTaskEffect DEF DeleteCounters, Setting
<1>. HIDE DEF u
<1>4. /\ batch'.pending = batch.pending - 1 /\ batch'.status = batch.status
      /\ batch'.failed = IF t.outcome = "FAILED" THEN batch.failed + 1 ELSE batch.failed
      /\ finishes' = [finishes EXCEPT ![i] = @ + 1]
      /\ UNCHANGED <<dbItem, sender, unsent>>
  BY DEF DeleteCounters, Setting, TypeOK, BatchState, dbVars, sendVars
<1>5. finishes[i] = 0 /\ i \in Unfinished
  BY <1>1 DEF Setting, Orderly, Final, Accounted, Count, Unfinished
<1>6. /\ \A j \in Item : finishes'[j] = IF j = i THEN 1 ELSE finishes[j]
      /\ Unfinished' = Unfinished \ {i}
  BY <1>4, <1>5 DEF Setting, TypeOK, Unfinished
<1>7. sender # "committed"
  BY <1>1, <1>5 DEF Setting, Accounted, Count, Orderly, OnePlace, Carried
<1>8. /\ batch.status \notin Outcome
      /\ \A g \in Host, j \in Item : ~Completes(task[g][j]) /\ ~Decided(task[g][j])
  BY <1>5 DEF Setting, Accounted, Count, Completes, Decided
<1>9. /\ batch'.pending = Cardinality(Unfinished')
      /\ zero => Unfinished' = {}
  <2>1. IsFiniteSet(Unfinished) /\ IsFiniteSet(Unfinished')
    BY <1>6, FS_Subset, FS_RemoveElement, BatchQueueAssumption DEF Unfinished
  <2>2. Cardinality(Unfinished') = Cardinality(Unfinished) - 1
    BY <1>5, <1>6, <2>1, FS_RemoveElement
  <2>3. batch.pending = Cardinality(Unfinished)
    BY <1>7 DEF Setting, Accounted, Count
  <2>. QED BY <1>4, <2>1, <2>2, <2>3, FS_EmptySet
<1>10. Count'
  <2>1. \A j \in Item : finishes'[j] \in {0, 1}
    BY <1>6 DEF Setting, Accounted, Count
  <2>2. \A g \in Host, j \in Item : Completes(task'[g][j]) => u = task'[g][j] /\ zero
    BY <1>2, <1>3, <1>8
  <2>. QED BY <1>2, <1>4, <1>7, <1>8, <1>9, <2>1, <2>2 DEF Count, Outcome
<1>11. dbItem[i] = t.outcome /\ t.outcome \in Outcome
  BY <1>1 DEF Setting, Accounted, Outcomes, TaskState
<1>12. Outcomes'
  <2>1. \A j \in Item : finishes'[j] > 0 => dbItem'[j] \in Outcome
    BY <1>4, <1>6, <1>11 DEF Setting, Accounted, Outcomes
  <2>2. \A g \in Host, j \in Item :
          Reporting(task'[g][j]) => dbItem'[j] = task'[g][j].outcome
    BY <1>2, <1>3, <1>4, <1>11 DEF Setting, Accounted, Outcomes
  <2>. QED BY <2>1, <2>2 DEF Outcomes, Outcome
<1>13. Verdicts'
  <2>1. batch.failed > 0 <=> SomeFailed
    BY <1>5 DEF Setting, Accounted, Verdicts, Deciding
  <2>2. SomeFailed' <=> SomeFailed \/ t.outcome = "FAILED"
    BY <1>4, <1>5, <1>6, <1>11 DEF SomeFailed
  <2>3. batch'.failed > 0 <=> SomeFailed'
    BY <1>1, <1>4, <2>1, <2>2
  <2>4. \A g \in Host, j \in Item : ~Decided(task'[g][j])
    BY <1>2, <1>3, <1>8 DEF Decided
  <2>. QED BY <1>4, <1>8, <2>3, <2>4 DEF Verdicts, Outcome
<1>. QED BY <1>10, <1>12, <1>13 DEF Accounted

\* The completer writes the verdict it has read.
LEMMA AccountedDeciding ==
  ASSUME Setting, NEW h \in Host, NEW i \in Item, UpdateRedisStatus(h, i)
  PROVE  Accounted'
<1>. DEFINE t == task[h][i]
            u == [t EXCEPT !.step = "batchEvent"]
<1>1. /\ t \in TaskState /\ t.step = "redisStatus" /\ Completes(t) /\ Decided(t)
      /\ Reporting(t)
  BY DEF UpdateRedisStatus, Setting, TypeOK, Completes, Decided, Reporting
<1>2. u.step = "batchEvent" /\ u.outcome = t.outcome
  BY <1>1 DEF TaskState
<1>3. \A g \in Host, j \in Item :
        task'[g][j] = IF g = h /\ j = i THEN u ELSE task[g][j]
  BY SetTaskEffect DEF UpdateRedisStatus, Goto, Setting
<1>. HIDE DEF u
<1>4. /\ batch'.pending = batch.pending /\ batch'.failed = batch.failed
      /\ batch'.status = t.verdict
      /\ UNCHANGED <<finishes, dbItem, sender, unsent>>
  BY DEF UpdateRedisStatus, Setting, TypeOK, BatchState, dbVars, sendVars
<1>5. Unfinished = {} /\ Unfinished' = Unfinished /\ (SomeFailed' <=> SomeFailed) /\ Deciding
  BY <1>1, <1>4 DEF Setting, Accounted, Count, Unfinished, SomeFailed, Deciding
<1>6. \A g \in Host, j \in Item : Completes(task[g][j]) => g = h /\ j = i
  BY <1>1 DEF Setting, OneCompleter
<1>7. \A g \in Host, j \in Item :
        Completes(task'[g][j]) => task'[g][j].step = "batchEvent"
  BY <1>2, <1>3, <1>6
<1>8. Count'
  BY <1>4, <1>5, <1>7 DEF Setting, Accounted, Count
<1>9. Outcomes'
  <2>1. dbItem[i] = t.outcome
    BY <1>1 DEF Setting, Accounted, Outcomes
  <2>2. \A g \in Host, j \in Item :
          Reporting(task'[g][j]) => dbItem'[j] = task'[g][j].outcome
    BY <1>2, <1>3, <1>4, <2>1 DEF Setting, Accounted, Outcomes
  <2>. QED BY <1>4, <2>2 DEF Setting, Accounted, Outcomes, Outcome
<1>10. Verdicts'
  <2>1. t.verdict = "FAILED" <=> batch.failed > 0
    BY <1>1 DEF Setting, Accounted, Verdicts
  <2>2. \A g \in Host, j \in Item : ~Decided(task'[g][j])
    BY <1>2, <1>3, <1>6 DEF Decided, Completes
  <2>. QED BY <1>4, <1>5, <2>1, <2>2 DEF Setting, Accounted, Verdicts
<1>. QED BY <1>8, <1>9, <1>10 DEF Accounted

\* A completeBatch that fails gives the batch up: nobody decides it any more.
LEMMA AccountedThrow ==
  ASSUME Setting, NEW h \in Host, NEW i \in Item, CompleteThrows(h, i)
  PROVE  Accounted'
<1>. DEFINE t == task[h][i]
<1>1. t \in TaskState /\ t.step = "dbStatus" /\ Completes(t) /\ Live(h, i)
  BY DEF CompleteThrows, Setting, TypeOK, Completes, Live
<1>2. \A g \in Host, j \in Item :
        task'[g][j] = IF g = h /\ j = i THEN NoTask ELSE task[g][j]
  BY SetTaskEffect DEF CompleteThrows, Setting
<1>3. /\ UNCHANGED <<finishes, batch, sender, unsent>>
      /\ \A j \in Item : dbItem'[j] = IF j = i THEN "FAILED" ELSE dbItem[j]
  BY DEF CompleteThrows, Setting, TypeOK, counterVars, sendVars
<1>4. Unfinished = {} /\ Unfinished' = Unfinished /\ batch.status \notin Outcome
  BY <1>1, <1>3 DEF Setting, Accounted, Count, Unfinished
<1>5. \A g \in Host, j \in Item : ~Completes(task'[g][j])
  BY <1>1, <1>2 DEF Setting, OneCompleter, Completes, NoTask
<1>6. ~Deciding'
  BY <1>3, <1>4, <1>5 DEF Deciding, Outcome
<1>7. Count'
  BY <1>3, <1>4, <1>5 DEF Setting, Accounted, Count
<1>8. Outcomes'
  <2>1. \A g \in Host : ~Reporting(task'[g][i])
    BY <1>1, <1>2, OwnTask DEF Reporting, NoTask
  <2>2. \A g \in Host, j \in Item :
          Reporting(task'[g][j]) => dbItem'[j] = task'[g][j].outcome
    BY <1>2, <1>3, <2>1 DEF Setting, Accounted, Outcomes
  <2>3. \A j \in Item : finishes'[j] > 0 => dbItem'[j] \in Outcome
    BY <1>3 DEF Setting, Accounted, Outcomes, Outcome
  <2>. QED BY <2>2, <2>3 DEF Outcomes, Outcome
<1>9. Verdicts'
  BY <1>3, <1>4, <1>5, <1>6 DEF Verdicts, Decided, Completes, Outcome
<1>. QED BY <1>7, <1>8, <1>9 DEF Accounted

\* The rest of deleteItem and of completeBatch counts nothing and decides nothing.
LEMMA AccountedFinishing ==
  ASSUME Setting, NEW h \in Host, NEW i \in Item, Finishing(h, i)
  PROVE  Accounted'
<1>. DEFINE t == task[h][i]
<1>. USE DEF redisVars, counterVars, dbVars, sendVars
<1>1. t \in TaskState /\ Live(h, i)
  BY DEF Setting, TypeOK, Finishing, DeleteCounters, DeletePayload, DeleteIndex, DeleteEvent,
         ReadVerdict, UpdateDbStatus, UpdateRedisStatus, BatchEvent, TallyItem, CompleteThrows,
         Live
<1>2. Reporting(t) => dbItem[i] = t.outcome
  BY DEF Setting, Accounted, Outcomes
<1>3. ASSUME NEW u, SetTask(h, i, u), UNCHANGED <<finishes, batch, sender, unsent, dbItem>>,
             Completes(u) => Completes(t) /\ u.step # "batchEvent" /\ t.step # "batchEvent",
             Reporting(u) => Reporting(t) /\ u.outcome = t.outcome,
             Decided(u) => (u.verdict = "FAILED" <=> batch.failed > 0)
      PROVE  Accounted'
  BY <1>1, <1>2, <1>3, AccountedTask
<1>4. CASE DeletePayload(h, i) \/ DeleteIndex(h, i) \/ DeleteEvent(h, i)
  <2>1. PICK c \in {"payload", "event", "index"} :
          t.step = "delete" /\ c \in t.todo /\ SetTask(h, i, CallReturned(t, c))
    BY <1>4 DEF DeletePayload, DeleteEvent, DeleteIndex
  <2>2. UNCHANGED <<finishes, batch, sender, unsent, dbItem>>
    BY <1>4 DEF DeletePayload, DeleteEvent, DeleteIndex
  <2>. DEFINE u == CallReturned(t, c)
  <2>3. /\ u.outcome = t.outcome /\ ~Decided(u) /\ u.step # "batchEvent"
        /\ Completes(u) => Completes(t)
    BY <1>1, <2>1, CallReturnedParts DEF Completes, Decided
  <2>4. SetTask(h, i, u) /\ Reporting(t) /\ t.step # "batchEvent"
    BY <2>1 DEF Reporting
  <2>. HIDE DEF u
  <2>. QED BY <1>3, <2>2, <2>3, <2>4
<1>5. CASE ReadVerdict(h, i)
  <2>. DEFINE u == [t EXCEPT !.step = "dbStatus",
                             !.verdict = IF batch.failed > 0 THEN "FAILED" ELSE "COMPLETED"]
  <2>1. /\ u.step = "dbStatus" /\ u.outcome = t.outcome
        /\ u.verdict = "FAILED" <=> batch.failed > 0
    BY <1>1 DEF TaskState
  <2>2. /\ SetTask(h, i, u) /\ t.step = "verdict"
        /\ UNCHANGED <<finishes, batch, sender, unsent, dbItem>>
    BY <1>5 DEF ReadVerdict
  <2>. HIDE DEF u
  <2>. QED BY <1>3, <2>1, <2>2 DEF Completes, Reporting
<1>6. CASE UpdateDbStatus(h, i)
  <2>. DEFINE u == [t EXCEPT !.step = "redisStatus"]
  <2>1. u.step = "redisStatus" /\ u.outcome = t.outcome /\ u.verdict = t.verdict
    BY <1>1 DEF TaskState
  <2>2. /\ SetTask(h, i, u) /\ t.step = "dbStatus"
        /\ UNCHANGED <<finishes, batch, sender, unsent, dbItem>>
    BY <1>6 DEF UpdateDbStatus, Goto
  <2>3. t.verdict = "FAILED" <=> batch.failed > 0
    BY <2>2 DEF Setting, Accounted, Verdicts, Decided
  <2>. HIDE DEF u
  <2>. QED BY <1>3, <2>1, <2>2, <2>3 DEF Completes, Reporting
<1>7. CASE BatchEvent(h, i)
  <2>. DEFINE u == [t EXCEPT !.step = "tally"]
  <2>1. u.step = "tally" /\ u.outcome = t.outcome
    BY <1>1 DEF TaskState
  <2>2. /\ SetTask(h, i, u) /\ t.step = "batchEvent"
        /\ UNCHANGED <<finishes, batch, sender, unsent, dbItem>>
    BY <1>7 DEF BatchEvent, Goto
  <2>. HIDE DEF u
  <2>. QED BY <1>3, <2>1, <2>2 DEF Completes, Reporting, Decided
<1>8. CASE TallyItem(h, i)
  BY <1>3, <1>8 DEF TallyItem, Completes, Reporting, Decided, NoTask
<1>. QED BY <1>4, <1>5, <1>6, <1>7, <1>8, AccountedCounting, AccountedDeciding,
            AccountedThrow DEF Finishing

\* One step of the accounts, whoever takes it.
LEMMA NextJudged ==
  TypeOK /\ OneCompleter /\ HandOver /\ Order /\ Judged /\ [Next]_vars => Judged'
<1>. SUFFICES ASSUME TypeOK, OneCompleter, HandOver, Order, Judged, [Next]_vars, Undisturbed'
              PROVE  Accounted'
  BY DEF Judged
<1>1. Setting /\ ~Fault("crash") /\ ~RedisFails
  BY UndisturbedBefore DEF Setting, Order, Judged
<1>2. \A h \in Host : ~Crash(h)
  BY <1>1 DEF Crash
<1>. QED BY <1>1, <1>2, AccountedOthers, AccountedProcessing, AccountedFinishing DEF Next

\* The completer is unique at every time.
LEMMA CompleterHolds == Spec => []OneCompleter
  BY InitCompleter, NextCompleter, TypeCorrect, PTL DEF Spec

\* The accounts are right at every time.
LEMMA JudgedHolds == Spec => []Judged
  BY InitJudged, NextJudged, TypeCorrect, CompleterHolds, HandOverHolds, OrderHolds, PTL
  DEF Spec

\* Without crash, failed Redis call and overrun the verdict on the batch comes after its
\* last item and is the right one, whatever is retried, cancelled or fails in the database.
THEOREM VerdictSoundHolds == Spec => []VerdictSound
<1>1. Judged => VerdictSound
  <2>. SUFFICES ASSUME Accounted, batch.status \in Outcome
                PROVE  /\ \A i \in Item : finishes[i] = 1 /\ dbItem[i] \in Outcome
                       /\ batch.status = "FAILED" <=> \E i \in Item : dbItem[i] = "FAILED"
    BY DEF Judged, VerdictSound
  <2>1. \A i \in Item : finishes[i] = 1
    BY DEF Accounted, Count, Unfinished
  <2>2. \A i \in Item : dbItem[i] \in Outcome
    BY <2>1 DEF Accounted, Outcomes
  <2>3. batch.status = "FAILED" <=> SomeFailed
    BY DEF Accounted, Verdicts, Deciding
  <2>. QED BY <2>1, <2>2, <2>3 DEF SomeFailed
<1>. QED BY <1>1, JudgedHolds, PTL
-----------------------------------------------------------------------------
(* The contract.                                                           *)
(*                                                                         *)
(* With cancels as the only adverse events every step of the queues is a   *)
(* step of BatchContract or leaves the client's view alone.                *)

Taken(i) == \E h \in Host : Live(h, i)

\* A step the client does not see in item i.
Unseen(i) ==
  /\ finishes'[i] > 0 <=> finishes[i] > 0
  /\ finishes[i] > 0 => dbItem'[i] = dbItem[i]
  /\ finishes[i] > 0 \/ (Taken(i)' <=> Taken(i))

SameVerdict ==
  batch'.status = batch.status \/ (batch.status \notin Outcome /\ batch'.status \notin Outcome)

\* An item whose parts are not seen to change has the same status for the client.
LEMMA UnseenItem ==
  ASSUME NEW i \in Item, Unseen(i)
  PROVE  contractItem'[i] = contractItem[i]
  BY DEF Unseen, Taken, contractItem

\* Nor does the verdict.
LEMMA UnseenVerdict == SameVerdict => contractVerdict' = contractVerdict
  BY DEF SameVerdict, contractVerdict, Outcome

\* The client sees nothing.
LEMMA ContractStutters ==
  ASSUME \A i \in Item : Unseen(i), SameVerdict
  PROVE  UNCHANGED Contract!vars
<1>1. contractItem' = contractItem
  BY UnseenItem DEF contractItem
<1>. QED BY <1>1, UnseenVerdict DEF Contract!vars

\* The client sees one item move.
LEMMA ContractMoves ==
  ASSUME NEW i \in Item, NEW from, NEW to, \A j \in Item : j # i => Unseen(j), SameVerdict,
         contractItem[i] = from, contractItem'[i] = to
  PROVE  Contract!Move(i, from, to)
<1>1. /\ contractItem = [j \in Item |-> contractItem[j]]
      /\ contractItem' = [j \in Item |-> contractItem'[j]]
  BY DEF contractItem
<1>2. contractItem' = [contractItem EXCEPT ![i] = to]
  BY <1>1, UnseenItem
<1>. QED BY <1>2, UnseenVerdict DEF Contract!Move

\* The end of a task: its item is counted off, or waits again.
LEMMA ContractTaskEnds ==
  ASSUME Setting, NEW h \in Host, NEW i \in Item, SetTask(h, i, NoTask), Live(h, i),
         UNCHANGED <<finishes, batch, dbItem>>
  PROVE  Contract!Next \/ UNCHANGED Contract!vars
<1>1. \A g \in Host, j \in Item : Live(g, j)' <=> Live(g, j) /\ ~(g = h /\ j = i)
  BY SetTaskEffect DEF Setting, Live, NoTask
<1>2. \A j \in Item : j # i => Unseen(j)
  BY <1>1 DEF Unseen, Taken
<1>3. SameVerdict
  BY DEF SameVerdict
<1>4. CASE finishes[i] > 0
  <2>1. Unseen(i)
    BY <1>4 DEF Unseen
  <2>. QED BY <1>2, <1>3, <2>1, ContractStutters
<1>5. CASE ~(finishes[i] > 0)
  <2>1. Taken(i) /\ ~Taken(i)'
    BY <1>1, OwnTask DEF Taken, Live
  <2>2. contractItem[i] = "running" /\ contractItem'[i] = "waiting"
    BY <1>5, <2>1 DEF contractItem, Taken
  <2>3. Contract!Move(i, "running", "waiting")
    BY <1>2, <1>3, <2>2, ContractMoves
  <2>. QED BY <2>3 DEF Contract!Next
<1>. QED BY <1>4, <1>5

\* A task that goes on is not seen to.
LEMMA ContractTaskGoesOn ==
  ASSUME Setting, NEW h \in Host, NEW i \in Item, NEW u, SetTask(h, i, u), Live(h, i),
         u.step # "none", finishes' = finishes, SameVerdict,
         \A j \in Item : finishes[j] > 0 => dbItem'[j] = dbItem[j]
  PROVE  UNCHANGED Contract!vars
<1>1. \A g \in Host, j \in Item : Live(g, j)' <=> Live(g, j)
  BY SetTaskEffect DEF Setting, Live
<1>2. \A j \in Item : Unseen(j)
  BY <1>1 DEF Unseen, Taken
<1>. QED BY <1>2, ContractStutters

\* StartTasks starts items that wait.
LEMMA ContractStarts ==
  ASSUME Setting, NEW h \in Host, StartTasks(h)
  PROVE  Contract!Next
<1>. DEFINE S == Startable(fetch[h].items)
<1>1. /\ S \subseteq Item
      /\ \A i \in S : ~(finishes[i] > 0) /\ ~Taken(i)
  BY DEF Startable, Setting, TypeOK, FetchState, Orderly, OnePlace, Final, Carried, Fetched, Taken
<1>2. \A b : NewTask(b).step = "begin"
  BY DEF NewTask, NoTask
<1>3. /\ \A g \in Host, i \in Item : Live(g, i)' <=> Live(g, i) \/ (g = h /\ i \in S)
      /\ UNCHANGED <<finishes, dbItem, batch>>
  BY <1>2 DEF StartTasks, Setting, TypeOK, Live, counterVars, dbVars
<1>. HIDE DEF S
<1>4. \A i \in S : contractItem[i] = "waiting" /\ contractItem'[i] = "running"
  BY <1>1, <1>3 DEF contractItem, Taken
<1>5. \A i \in Item \ S : contractItem'[i] = contractItem[i]
  <2>1. \A i \in Item \ S : Unseen(i)
    BY <1>3 DEF Unseen, Taken
  <2>. QED BY <2>1, UnseenItem
<1>6. contractItem' = [i \in Item |-> contractItem'[i]]
  BY DEF contractItem
<1>7. contractItem' = [i \in Item |-> IF i \in S THEN "running" ELSE contractItem[i]]
  BY <1>4, <1>5, <1>6
<1>8. S \in SUBSET {i \in Item : contractItem[i] = "waiting"}
  BY <1>1, <1>4
<1>9. contractVerdict' = contractVerdict
  BY <1>3, UnseenVerdict DEF SameVerdict
<1>. QED BY <1>7, <1>8, <1>9 DEF Contract!Next, Contract!Start

\* DeleteCounters ends a running item with the outcome its row has.
LEMMA ContractEnds ==
  ASSUME Setting, NEW h \in Host, NEW i \in Item, DeleteCounters(h, i)
  PROVE  Contract!Next
<1>. DEFINE t == task[h][i]
            zero == batch.pending - 1 = 0
            u == CallReturned([t EXCEPT !.last = zero], "counters")
<1>1. /\ t \in TaskState /\ Live(h, i) /\ CountsLater(t) /\ Reporting(t)
  BY DEF DeleteCounters, Live, CountsLater, Reporting, Setting, TypeOK
<1>2. u.step # "none"
  BY <1>1 DEF CallReturned, TaskState
<1>3. \A g \in Host, j \in Item : Live(g, j)' <=> Live(g, j)
  BY <1>1, <1>2, SetTaskEffect DEF DeleteCounters, Setting, Live
<1>. HIDE DEF u
<1>4. /\ batch'.status = batch.status /\ dbItem' = dbItem
      /\ finishes' = [finishes EXCEPT ![i] = @ + 1]
  BY DEF DeleteCounters, Setting, TypeOK, BatchState, dbVars
<1>5. finishes[i] = 0
  BY <1>1 DEF Setting, Orderly, Final, Accounted, Count
<1>6. \A j \in Item : finishes'[j] = IF j = i THEN 1 ELSE finishes[j]
  BY <1>4, <1>5 DEF Setting, TypeOK
<1>7. \A j \in Item : j # i => Unseen(j)
  BY <1>3, <1>4, <1>6 DEF Unseen, Taken
<1>8. dbItem[i] = t.outcome /\ t.outcome \in Outcome
  BY <1>1 DEF Setting, Accounted, Outcomes, TaskState
<1>9. contractItem[i] = "running" /\ contractItem'[i] = t.outcome
  BY <1>1, <1>4, <1>5, <1>6, <1>8 DEF contractItem
<1>10. Contract!Move(i, "running", t.outcome)
  BY <1>4, <1>7, <1>9, ContractMoves DEF SameVerdict
<1>. QED BY <1>8, <1>10 DEF Contract!Next, Contract!Ended, Outcome

\* UpdateRedisStatus decides the batch, after its last item and by all of them.
LEMMA ContractDecides ==
  ASSUME Setting, NEW h \in Host, NEW i \in Item, UpdateRedisStatus(h, i)
  PROVE  Contract!Next
<1>. DEFINE t == task[h][i]
            u == [t EXCEPT !.step = "batchEvent"]
<1>1. /\ t \in TaskState /\ t.step = "redisStatus" /\ Completes(t) /\ Decided(t)
      /\ Live(h, i)
  BY DEF UpdateRedisStatus, Setting, TypeOK, Completes, Decided, Live
<1>2. u.step # "none"
  BY <1>1 DEF TaskState
<1>3. \A g \in Host, j \in Item : Live(g, j)' <=> Live(g, j)
  <2>1. TypeOK /\ SetTask(h, i, u)
    BY DEF UpdateRedisStatus, Goto, Setting
  <2>. HIDE DEF u
  <2>2. \A g \in Host, j \in Item :
          task'[g][j] = IF g = h /\ j = i THEN u ELSE task[g][j]
    BY <2>1, SetTaskEffect
  <2>. QED BY <1>1, <1>2, <2>2 DEF Live
<1>4. batch'.status = t.verdict /\ UNCHANGED <<finishes, dbItem>>
  BY DEF UpdateRedisStatus, Setting, TypeOK, BatchState, dbVars
<1>5. batch.status \notin Outcome /\ Deciding /\ \A j \in Item : finishes[j] > 0
  BY <1>1 DEF Setting, Accounted, Count, Unfinished, Deciding
<1>6. \A j \in Item : contractItem[j] = dbItem[j] /\ dbItem[j] \in Outcome
  BY <1>5 DEF contractItem, Setting, Accounted, Outcomes
<1>7. contractItem' = contractItem
  <2>1. \A j \in Item : Unseen(j)
    BY <1>3, <1>4 DEF Unseen, Taken
  <2>. QED BY <2>1, UnseenItem DEF contractItem
<1>8. t.verdict = "FAILED" <=> \E j \in Item : contractItem[j] = "FAILED"
  <2>1. t.verdict = "FAILED" <=> SomeFailed
    BY <1>1, <1>5 DEF Setting, Accounted, Verdicts
  <2>. QED BY <1>5, <1>6, <2>1 DEF SomeFailed
<1>9. t.verdict \in {"COMPLETED", "FAILED"}
  BY <1>1 DEF TaskState, Outcome
<1>10. contractVerdict = "none" /\ contractVerdict' = t.verdict
  BY <1>4, <1>5, <1>9 DEF contractVerdict, Outcome
<1>11. Contract!Decide
  BY <1>6, <1>7, <1>8, <1>9, <1>10 DEF Contract!Decide, Contract!Ended, Outcome
<1>. QED BY <1>11 DEF Contract!Next

\* The steps of others than the tasks.
LEMMA ContractOthers ==
  ASSUME Setting, ~Fault("crash"),
         \/ Sending \/ SenderCrash \/ Cancel \/ UNCHANGED vars
         \/ \E i \in Item : VisibilityTimeout(i)
         \/ \E h \in Host : Fetching(h) \/ Reprocessing(h)
  PROVE  Contract!Next \/ UNCHANGED Contract!vars
<1>. USE DEF redisVars, counterVars, dbVars, sendVars
<1>1. ASSUME UNCHANGED <<finishes, task>>, SameVerdict,
             \A i \in Item : finishes[i] > 0 => dbItem'[i] = dbItem[i]
      PROVE  UNCHANGED Contract!vars
  BY <1>1, ContractStutters DEF Unseen, Taken, Live
<1>2. CASE SendBatch
  <2>1. batch.status \notin Outcome /\ batch'.status \notin Outcome
    <3>1. Item # {}
      BY BatchQueueAssumption
    <3>. QED BY <1>2, <3>1 DEF SendBatch, Setting, Accounted, Count, TypeOK, BatchState, Outcome
  <2>. QED BY <1>1, <1>2, <2>1 DEF SendBatch, SameVerdict
<1>3. CASE Cancel
  <2>1. \A i \in Item : finishes[i] > 0 => dbItem'[i] = dbItem[i]
    BY <1>3 DEF Cancel, Setting, Accounted, Outcomes, Outcome, TypeOK
  <2>. QED BY <1>1, <1>3, <2>1 DEF Cancel, SameVerdict
<1>4. ASSUME NEW h \in Host, StartTasks(h) PROVE Contract!Next
  BY <1>4, ContractStarts
<1>5. ASSUME NEW h \in Host, RetrieveItems(h) \/ IndexItems(h) \/ Reprocessing(h)
      PROVE  UNCHANGED Contract!vars
  BY <1>1, <1>5
  DEF RetrieveItems, IndexItems, Reprocessing, ReapExpired, ReadPayload, Requeue, SameVerdict
<1>6. ASSUME NEW i \in Item, EnqueueItem(i) \/ VisibilityTimeout(i)
      PROVE  UNCHANGED Contract!vars
  BY <1>1, <1>6 DEF EnqueueItem, VisibilityTimeout, SameVerdict
<1>7. CASE SenderCrash
  BY <1>7 DEF SenderCrash
<1>8. CASE UNCHANGED vars
  BY <1>1, <1>8 DEF vars, SameVerdict
<1>. QED BY <1>2, <1>3, <1>4, <1>5, <1>6, <1>7, <1>8 DEF Sending, Fetching

\* The steps of processItem: the item runs on, or waits for its next attempt.
LEMMA ContractProcessing ==
  ASSUME Setting, ~Fault("dbError"), NEW h \in Host, NEW i \in Item, Processing(h, i)
  PROVE  Contract!Next \/ UNCHANGED Contract!vars
<1>. DEFINE t == task[h][i]
<1>. USE DEF counterVars, dbVars
<1>1. /\ t \in TaskState /\ Live(h, i) /\ CountsLater(t)
      /\ finishes' = finishes /\ batch' = batch
      /\ \A j \in Item : j # i => dbItem'[j] = dbItem[j]
  <2>1. t \in TaskState /\ t.step \in {"begin", "mark", "call", "defer"}
    <3>1. t \in TaskState
      BY DEF Setting, TypeOK
    <3>2. t.step \in {"begin", "mark", "call", "defer"}
      BY DEF Processing, BeginItem, MarkRunning, CallEnds, CallRetryable, DeferItem, CallThrows
    <3>. QED BY <3>1, <3>2
  <2>2. finishes' = finishes /\ batch' = batch
    BY DEF Processing, BeginItem, MarkRunning, CallEnds, CallRetryable, DeferItem, CallThrows
  <2>3. \A j \in Item : j # i => dbItem'[j] = dbItem[j]
    BY DEF Setting, TypeOK, Processing, BeginItem, MarkRunning, CallEnds, CallRetryable,
           DeferItem, CallThrows
  <2>. QED BY <2>1, <2>2, <2>3 DEF Live, CountsLater
<1>2. SameVerdict /\ \A j \in Item : finishes[j] > 0 => dbItem'[j] = dbItem[j]
  BY <1>1 DEF Setting, Orderly, Final, SameVerdict
<1>3. ASSUME NEW u, SetTask(h, i, u), u.step # "none" PROVE UNCHANGED Contract!vars
  BY <1>1, <1>2, <1>3, ContractTaskGoesOn
<1>4. ASSUME NEW s \in {"mark", "call", "defer"}, Goto(h, i, s) PROVE UNCHANGED Contract!vars
  <2>1. [t EXCEPT !.step = s].step = s
    BY <1>1 DEF TaskState
  <2>. QED BY <1>3, <1>4, <2>1 DEF Goto
<1>5. CASE BeginItem(h, i) \/ MarkRunning(h, i) \/ CallRetryable(h, i)
  BY <1>4, <1>5 DEF BeginItem, MarkRunning, CallRetryable
<1>6. CASE DeferItem(h, i)
  BY <1>1, <1>6, ContractTaskEnds DEF DeferItem
<1>7. ASSUME NEW outcome \in Outcome, CallEnds(h, i, outcome) PROVE UNCHANGED Contract!vars
  <2>. DEFINE u == [t EXCEPT !.step = "delete", !.outcome = outcome, !.todo = DeleteCalls]
  <2>1. u.step = "delete" /\ SetTask(h, i, u)
    BY <1>1, <1>7 DEF TaskState, CallEnds
  <2>. HIDE DEF u
  <2>. QED BY <1>3, <2>1
<1>8. ~CallThrows(h, i)
  BY DEF CallThrows
<1>. QED BY <1>5, <1>6, <1>7, <1>8 DEF Processing

\* The steps of deleteItem and completeBatch: the item ends, the batch is decided.
LEMMA ContractFinishing ==
  ASSUME Setting, ~Fault("dbError"), NEW h \in Host, NEW i \in Item, Finishing(h, i)
  PROVE  Contract!Next \/ UNCHANGED Contract!vars
<1>. DEFINE t == task[h][i]
<1>. USE DEF counterVars, dbVars
<1>1. t \in TaskState /\ Live(h, i)
  BY DEF Setting, TypeOK, Finishing, DeleteCounters, DeletePayload, DeleteIndex, DeleteEvent,
         ReadVerdict, UpdateDbStatus, UpdateRedisStatus, BatchEvent, TallyItem, CompleteThrows,
         Live
<1>2. CASE DeleteCounters(h, i) \/ UpdateRedisStatus(h, i)
  BY <1>2, ContractEnds, ContractDecides
<1>3. CASE TallyItem(h, i)
  BY <1>1, <1>3, ContractTaskEnds DEF TallyItem
<1>4. ASSUME NEW u, SetTask(h, i, u), u.step # "none", UNCHANGED <<finishes, batch, dbItem>>
      PROVE  UNCHANGED Contract!vars
  BY <1>1, <1>4, ContractTaskGoesOn DEF SameVerdict
<1>5. CASE DeletePayload(h, i) \/ DeleteIndex(h, i) \/ DeleteEvent(h, i)
  <2>1. PICK c \in {"payload", "event", "index"} :
          t.step = "delete" /\ c \in t.todo /\ SetTask(h, i, CallReturned(t, c))
    BY <1>5 DEF DeletePayload, DeleteEvent, DeleteIndex
  <2>2. UNCHANGED <<finishes, batch, dbItem>>
    BY <1>5 DEF DeletePayload, DeleteEvent, DeleteIndex
  <2>3. CallReturned(t, c).step # "none"
    BY <1>1, <2>1, CallReturnedParts
  <2>. QED BY <1>4, <2>1, <2>2, <2>3
<1>6. CASE ReadVerdict(h, i)
  <2>. DEFINE u == [t EXCEPT !.step = "dbStatus",
                             !.verdict = IF batch.failed > 0 THEN "FAILED" ELSE "COMPLETED"]
  <2>1. u.step = "dbStatus" /\ SetTask(h, i, u) /\ UNCHANGED <<finishes, batch, dbItem>>
    BY <1>1, <1>6 DEF TaskState, ReadVerdict
  <2>. HIDE DEF u
  <2>. QED BY <1>4, <2>1
<1>7. CASE UpdateDbStatus(h, i) \/ BatchEvent(h, i)
  <2>1. PICK s \in {"redisStatus", "tally"} : Goto(h, i, s)
    BY <1>7 DEF UpdateDbStatus, BatchEvent
  <2>2. [t EXCEPT !.step = s].step = s /\ UNCHANGED <<finishes, batch, dbItem>>
    BY <1>1, <1>7 DEF TaskState, UpdateDbStatus, BatchEvent
  <2>. QED BY <1>4, <2>1, <2>2 DEF Goto
<1>8. ~CompleteThrows(h, i)
  BY DEF CompleteThrows
<1>. QED BY <1>2, <1>3, <1>5, <1>6, <1>7, <1>8 DEF Finishing

\* The batch that is sent off is the contract's batch before its first step.
LEMMA InitContract == Init => Contract!Init
<1>. SUFFICES ASSUME Init PROVE Contract!Init
  OBVIOUS
<1>1. /\ \A i \in Item : finishes[i] = 0
      /\ \A h \in Host, i \in Item : ~Live(h, i)
      /\ batch.status = "none"
  BY DEF Init, NoTask, Live
<1>2. \A i \in Item : contractItem[i] = "waiting"
  BY <1>1 DEF contractItem
<1>3. contractItem = [i \in Item |-> "waiting"]
  BY <1>2 DEF contractItem
<1>. QED BY <1>1, <1>3 DEF Contract!Init, contractVerdict, Outcome

\* One step of the queues for the client.
LEMMA NextContract ==
  ASSUME Faults \subseteq {"cancel"}
  PROVE  TypeOK /\ OneCompleter /\ HandOver /\ Order /\ Judged /\ [Next]_vars
           => [Contract!Next]_(Contract!vars)
<1>. SUFFICES ASSUME TypeOK, OneCompleter, HandOver, Order, Judged, [Next]_vars
              PROVE  Contract!Next \/ UNCHANGED Contract!vars
  OBVIOUS
<1>1. Undisturbed
  BY DEF TypeOK, Undisturbed, Happened
<1>2. Setting /\ ~Fault("crash") /\ ~Fault("redisError") /\ ~Fault("dbError")
  BY <1>1 DEF Setting, Order, Judged, Fault
<1>3. ~RedisFails /\ \A h \in Host : ~Crash(h)
  BY <1>2, RedisFailsEffect DEF Crash
<1>. QED BY <1>2, <1>3, ContractOthers, ContractProcessing, ContractFinishing DEF Next

\* With cancels as the only adverse events the queues keep what the client relies on: an
\* item runs in one task at a time, ends once and keeps its outcome, and the batch is decided
\* once, after its last item and by the outcomes of all of them.
THEOREM ContractImplemented ==
  ASSUME Faults \subseteq {"cancel"}
  PROVE  Spec => ImplementsContract
<1>1. TypeOK /\ OneCompleter /\ HandOver /\ Order /\ Judged /\ [Next]_vars
        => [Contract!Next]_(Contract!vars)
  BY NextContract
<1>. QED BY <1>1, InitContract, TypeCorrect, CompleterHolds, HandOverHolds, OrderHolds,
            JudgedHolds, PTL DEF Spec, ImplementsContract, Contract!Spec
-----------------------------------------------------------------------------
(* The books.                                                              *)
(*                                                                         *)
(* Four counters of the database row and two of the batch hash, each the   *)
(* size of a set of items: those whose first attempt has not begun, those  *)
(* under way, and by outcome those tallied and those counted off.          *)

\* The first attempt of i is still to begin: the row counts it as pending.
Fresh(i) ==
  \/ i \in unsent
  \/ payload[i].retryCount = 0 /\ (i \in mainQueue \/ \E h \in Host : Fetched(h, i))
  \/ \E h \in Host : task[h][i].step = "begin" /\ task[h][i].first

\* The task that counted i off has ended.
Tallied(i) == finishes[i] > 0 /\ ~Taken(i)

FreshItems   == {i \in Item : Fresh(i)}
OpenItems    == {i \in Item : ~Fresh(i) /\ ~Tallied(i)}
TalliedAs(o) == {i \in Item : Tallied(i) /\ dbItem[i] = o}
OffAs(o)     == {i \in Item : finishes[i] > 0 /\ dbItem[i] = o}

Books ==
  /\ dbBatch.pending = Cardinality(FreshItems)
  /\ dbBatch.running = Cardinality(OpenItems)
  /\ dbBatch.completed = Cardinality(TalliedAs("COMPLETED"))
  /\ dbBatch.failed = Cardinality(TalliedAs("FAILED"))
  /\ batch.completed = Cardinality(OffAs("COMPLETED"))
  /\ batch.failed = Cardinality(OffAs("FAILED"))
  /\ \A h \in Host, i \in Item :
       Live(h, i) /\ ~CountsLater(task[h][i]) => finishes[i] > 0
  /\ \A h \in Host : fetch[h].step = "idle" => fetch[h].items = {}

Balanced == Undisturbed /\ ~Happened("dbError") => Books

\* What the lemmas about one step start from.
Ledger == Setting /\ Books /\ \A i \in Item : Traceable(i)

\* The sender has all items, and the row counts them as pending.
LEMMA InitBalanced == Init => Balanced
<1>. SUFFICES ASSUME Init PROVE Books
  BY DEF Balanced
<1>1. /\ \A i \in Item : Fresh(i) /\ ~(finishes[i] > 0)
      /\ \A h \in Host, i \in Item : ~Live(h, i)
      /\ \A h \in Host : fetch[h].items = {}
  BY DEF Init, Fresh, Live, NoTask, Idle
<1>2. /\ FreshItems = Item /\ OpenItems = {}
      /\ \A o : TalliedAs(o) = {} /\ OffAs(o) = {}
  BY <1>1 DEF FreshItems, OpenItems, TalliedAs, OffAs, Tallied
<1>. QED BY <1>1, <1>2, FS_EmptySet DEF Init, Books

\* The sets are finite, and Item as a whole is.
LEMMA BooksFinite ==
  /\ IsFiniteSet(FreshItems) /\ IsFiniteSet(OpenItems)
  /\ \A o : IsFiniteSet(TalliedAs(o)) /\ IsFiniteSet(OffAs(o))
<1>1. FreshItems \subseteq Item /\ OpenItems \subseteq Item
  BY DEF FreshItems, OpenItems
<1>2. \A o : TalliedAs(o) \subseteq Item /\ OffAs(o) \subseteq Item
  BY DEF TalliedAs, OffAs
<1>. QED BY <1>1, <1>2, FS_Subset, BatchQueueAssumption

\* A step that moves no item between the sets.
LEMMA BooksUntouched ==
  ASSUME Ledger, finishes' = finishes,
         dbBatch' = [dbBatch EXCEPT !.status = dbBatch'.status],
         batch'.completed = batch.completed, batch'.failed = batch.failed,
         \A i \in Item :
           /\ Fresh(i)' <=> Fresh(i)
           /\ finishes[i] > 0 => dbItem'[i] = dbItem[i] /\ (Taken(i)' <=> Taken(i)),
         \A h \in Host, i \in Item :
           Live(h, i)' /\ ~CountsLater(task'[h][i]) => finishes[i] > 0,
         \A h \in Host : fetch'[h].step = "idle" => fetch'[h].items = {}
  PROVE  Books'
<1>1. /\ FreshItems' = FreshItems /\ OpenItems' = OpenItems
      /\ \A o : TalliedAs(o)' = TalliedAs(o) /\ OffAs(o)' = OffAs(o)
  BY DEF FreshItems, OpenItems, TalliedAs, OffAs, Tallied
<1>2. /\ dbBatch'.pending = dbBatch.pending /\ dbBatch'.running = dbBatch.running
      /\ dbBatch'.completed = dbBatch.completed /\ dbBatch'.failed = dbBatch.failed
  BY DEF Ledger, Setting, TypeOK, DbBatchState
<1>. QED BY <1>1, <1>2 DEF Books, Ledger

\* An item that is with a task is nowhere else.
LEMMA TakenOnly ==
  ASSUME Ledger, NEW h \in Host, NEW i \in Item, Live(h, i)
  PROVE  /\ i \notin unsent /\ i \notin mainQueue
         /\ \A g \in Host : ~Fetched(g, i) /\ (g # h => task[g][i].step = "none")
  BY OwnTask DEF Ledger, Setting, Orderly, OnePlace, Carried

\* A task goes on, or ends before its item is counted off: another attempt of the item,
\* or one behind its beginning.
LEMMA BooksTask ==
  ASSUME Ledger, NEW h \in Host, NEW i \in Item, NEW u, SetTask(h, i, u), Live(h, i),
         UNCHANGED <<unsent, mainQueue, fetch, finishes>>,
         dbBatch' = [dbBatch EXCEPT !.status = dbBatch'.status],
         batch'.completed = batch.completed, batch'.failed = batch.failed,
         \A j \in Item : j # i => payload'[j] = payload[j],
         ~(task[h][i].step = "begin" /\ task[h][i].first), ~(u.step = "begin" /\ u.first),
         \A j \in Item : finishes[j] > 0 => dbItem'[j] = dbItem[j],
         finishes[i] > 0 => u.step # "none",
         u.step # "none" /\ ~CountsLater(u) => finishes[i] > 0
  PROVE  Books'
<1>1. \A g \in Host, j \in Item :
        task'[g][j] = IF g = h /\ j = i THEN u ELSE task[g][j]
  BY SetTaskEffect DEF Ledger, Setting
<1>2. \A j \in Item : j # i => (Fresh(j)' <=> Fresh(j)) /\ (Taken(j)' <=> Taken(j))
  BY <1>1 DEF Fresh, Taken, Live, Fetched
<1>3. ~Fresh(i)
  BY TakenOnly DEF Fresh
<1>4. ~Fresh(i)'
  BY <1>1, TakenOnly DEF Fresh, Fetched
<1>5. finishes[i] > 0 => Taken(i)' /\ Taken(i)
  BY <1>1 DEF Taken, Live
<1>6. \A g \in Host, j \in Item :
        Live(g, j)' /\ ~CountsLater(task'[g][j]) => finishes[j] > 0
  BY <1>1 DEF Live, Ledger, Books
<1>7. \A g \in Host : fetch'[g].step = "idle" => fetch'[g].items = {}
  BY DEF Ledger, Books
<1>. QED BY <1>2, <1>3, <1>4, <1>5, <1>6, <1>7, BooksUntouched

\* An item in the main queue or fetched has its payload: it is traceable, and nobody is
\* deleting it.
LEMMA FetchedFull ==
  ASSUME Ledger, NEW h \in Host, NEW i \in fetch[h].items
  PROVE  i \in Item /\ payload[i].kind = "full"
<1>1. i \in Item
  BY DEF Ledger, Setting, TypeOK, FetchState
<1>2. Carried(h, i) /\ Orderly(i) /\ Traceable(i) /\ Fetched(h, i)
  BY <1>1 DEF Ledger, Setting, Carried, Fetched
<1>3. /\ i \notin unsent /\ i \notin mainQueue /\ ~(finishes[i] > 0)
      /\ \A g \in Host : ~Live(g, i)
  BY <1>2 DEF Orderly, OnePlace, Final, Carried
<1>. QED BY <1>1, <1>2, <1>3 DEF Traceable, Secured, InTransit, Live

\* Sending and time count nothing.
LEMMA BooksSending ==
  ASSUME Ledger, ~Fault("crash"),
         Sending \/ SenderCrash \/ Cancel \/ \E i \in Item : VisibilityTimeout(i)
  PROVE  Books'
<1>. USE DEF redisVars, counterVars, dbVars, sendVars
<1>0. /\ TypeOK /\ dbBatch = [dbBatch EXCEPT !.status = dbBatch.status]
      /\ \A h \in Host, i \in Item : Live(h, i) /\ ~CountsLater(task[h][i]) => finishes[i] > 0
      /\ \A h \in Host : fetch[h].step = "idle" => fetch[h].items = {}
  BY DEF Ledger, Setting, Books, TypeOK, DbBatchState
<1>1. ASSUME UNCHANGED <<unsent, mainQueue, payload, fetch, task, finishes, dbBatch, dbItem>>,
             batch'.completed = batch.completed, batch'.failed = batch.failed
      PROVE  Books'
  <2>1. \A i \in Item : (Fresh(i)' <=> Fresh(i)) /\ (Taken(i)' <=> Taken(i))
    BY <1>1 DEF Fresh, Fetched, Taken, Live
  <2>2. \A h \in Host, i \in Item :
          Live(h, i)' /\ ~CountsLater(task'[h][i]) => finishes[i] > 0
    BY <1>0, <1>1 DEF Live
  <2>. QED BY <1>0, <1>1, <2>1, <2>2, BooksUntouched
<1>2. CASE SendBatch
  <2>1. batch'.completed = batch.completed /\ batch'.failed = batch.failed
    BY <1>0, <1>2 DEF SendBatch, TypeOK, BatchState
  <2>. QED BY <1>1, <1>2, <2>1 DEF SendBatch
<1>3. ASSUME NEW i \in Item, VisibilityTimeout(i) PROVE Books'
  BY <1>1, <1>3 DEF VisibilityTimeout
<1>4. ASSUME NEW i \in Item, EnqueueItem(i) PROVE Books'
  <2>1. /\ unsent' = unsent \ {i} /\ mainQueue' = mainQueue \cup {i} /\ i \in unsent
        /\ \A j \in Item : j # i => payload'[j] = payload[j]
        /\ payload'[i].retryCount = 0
        /\ UNCHANGED <<fetch, task, finishes, dbBatch, batch, dbItem>>
    BY <1>0, <1>4 DEF EnqueueItem, TypeOK
  <2>2. \A j \in Item : (Fresh(j)' <=> Fresh(j)) /\ (Taken(j)' <=> Taken(j))
    BY <2>1 DEF Fresh, Fetched, Taken, Live
  <2>3. \A h \in Host, j \in Item :
          Live(h, j)' /\ ~CountsLater(task'[h][j]) => finishes[j] > 0
    BY <1>0, <2>1 DEF Live
  <2>. QED BY <1>0, <2>1, <2>2, <2>3, BooksUntouched
<1>5. CASE Cancel
  <2>1. \A i \in Item : finishes[i] > 0 => dbItem'[i] = dbItem[i]
    BY <1>0, <1>5 DEF Cancel, TypeOK, Ledger, Setting, Accounted, Outcomes, Outcome
  <2>2. /\ dbBatch' = [dbBatch EXCEPT !.status = dbBatch'.status]
        /\ UNCHANGED <<unsent, mainQueue, payload, fetch, task, finishes, batch>>
    BY <1>0, <1>5 DEF Cancel, TypeOK, DbBatchState
  <2>3. \A i \in Item : (Fresh(i)' <=> Fresh(i)) /\ (Taken(i)' <=> Taken(i))
    BY <2>2 DEF Fresh, Fetched, Taken, Live
  <2>4. \A h \in Host, i \in Item :
          Live(h, i)' /\ ~CountsLater(task'[h][i]) => finishes[i] > 0
    BY <1>0, <2>2 DEF Live
  <2>. QED BY <1>0, <2>1, <2>2, <2>3, <2>4, BooksUntouched
<1>. QED BY <1>2, <1>3, <1>4, <1>5 DEF Sending, SenderCrash

\* Nor does the consumer loop: the items it starts are as fresh as they were.
LEMMA BooksFetching ==
  ASSUME Ledger, NEW h \in Host, Fetching(h)
  PROVE  Books'
<1>. USE DEF redisVars, counterVars, dbVars, sendVars
<1>1. /\ TypeOK /\ dbBatch' = [dbBatch EXCEPT !.status = dbBatch'.status]
      /\ batch'.completed = batch.completed /\ batch'.failed = batch.failed
      /\ UNCHANGED <<unsent, payload, finishes, dbItem>>
  BY DEF Ledger, Setting, TypeOK, DbBatchState, Fetching, RetrieveItems, IndexItems, StartTasks
<1>2. /\ \A g \in Host, i \in Item :
           Live(g, i) /\ ~CountsLater(task[g][i]) => finishes[i] > 0
      /\ \A g \in Host : fetch[g].step = "idle" => fetch[g].items = {}
  BY DEF Ledger, Books
<1>3. ASSUME task' = task,
             \A i \in Item : Fresh(i)' <=> Fresh(i),
             \A g \in Host : fetch'[g].step = "idle" => fetch'[g].items = {}
      PROVE  Books'
  <2>1. \A i \in Item : Taken(i)' <=> Taken(i)
    BY <1>3 DEF Taken, Live
  <2>2. \A g \in Host, i \in Item :
          Live(g, i)' /\ ~CountsLater(task'[g][i]) => finishes[i] > 0
    BY <1>2, <1>3 DEF Live
  <2>. QED BY <1>1, <1>3, <2>1, <2>2, BooksUntouched
<1>4. CASE RetrieveItems(h)
  <2>1. PICK S \in SUBSET mainQueue :
          /\ mainQueue' = mainQueue \ S
          /\ fetch' = [fetch EXCEPT ![h] = [step |-> "index", items |-> S]]
    BY <1>4 DEF RetrieveItems
  <2>2. fetch[h].items = {} /\ task' = task
    BY <1>2, <1>4 DEF RetrieveItems
  <2>3. /\ fetch'[h].items = S /\ fetch'[h].step = "index"
        /\ \A g \in Host : g # h => fetch'[g] = fetch[g]
    BY <1>1, <2>1 DEF TypeOK
  <2>4. \A i \in Item : Fresh(i)' <=> Fresh(i)
    BY <1>1, <2>1, <2>2, <2>3 DEF Fresh, Fetched
  <2>. QED BY <1>2, <1>3, <2>2, <2>3, <2>4
<1>5. CASE IndexItems(h)
  <2>1. /\ UNCHANGED <<mainQueue, task>>
        /\ \A g \in Host : fetch'[g].items = fetch[g].items
        /\ \A g \in Host : fetch'[g].step = "idle" => fetch[g].step = "idle"
    BY <1>1, <1>5 DEF IndexItems, TypeOK, FetchState
  <2>2. \A i \in Item : Fresh(i)' <=> Fresh(i)
    BY <1>1, <2>1 DEF Fresh, Fetched
  <2>. QED BY <1>2, <1>3, <2>1, <2>2
<1>6. CASE StartTasks(h)
  <2>1. Startable(fetch[h].items) = fetch[h].items
    BY FetchedFull DEF Startable
  <2>2. /\ \A i \in Item :
             task'[h][i] = IF Fetched(h, i) THEN NewTask(payload[i].retryCount = 0)
                           ELSE task[h][i]
        /\ \A g \in Host, i \in Item : g # h => task'[g][i] = task[g][i]
        /\ fetch'[h] = Idle /\ \A g \in Host : g # h => fetch'[g] = fetch[g]
        /\ mainQueue' = mainQueue
    BY <1>1, <1>6, <2>1 DEF StartTasks, TypeOK, Fetched
  <2>3. \A b \in BOOLEAN : NewTask(b).step = "begin" /\ NewTask(b).first = b
    BY DEF NewTask, NoTask
  <2>4. \A i \in Item : Fetched(h, i) =>
          /\ i \notin unsent /\ i \notin mainQueue /\ ~(finishes[i] > 0)
          /\ \A g \in Host : ~Live(g, i) /\ (g # h => ~Fetched(g, i))
    BY DEF Ledger, Setting, Orderly, OnePlace, Final, Carried
  <2>5. \A i \in Item : Fresh(i)' <=> Fresh(i)
    <3>. SUFFICES ASSUME NEW i \in Item PROVE Fresh(i)' <=> Fresh(i)
      OBVIOUS
    <3>1. \A g \in Host : Fetched(g, i)' <=> Fetched(g, i) /\ g # h
      BY <2>2 DEF Fetched, Idle
    <3>2. CASE Fetched(h, i)
      <4>1. task'[h][i].step = "begin" /\ (task'[h][i].first <=> payload[i].retryCount = 0)
        BY <2>2, <2>3, <3>2
      <4>. QED BY <1>1, <2>2, <2>4, <3>1, <3>2, <4>1 DEF Fresh, Live
    <3>3. CASE ~Fetched(h, i)
      BY <1>1, <2>2, <3>1, <3>3 DEF Fresh
    <3>. QED BY <3>2, <3>3
  <2>6. \A i \in Item : finishes[i] > 0 => (Taken(i)' <=> Taken(i))
    BY <2>2, <2>4 DEF Taken, Live
  <2>7. \A g \in Host, i \in Item :
          Live(g, i)' /\ ~CountsLater(task'[g][i]) => finishes[i] > 0
    <3>. SUFFICES ASSUME NEW g \in Host, NEW i \in Item
                  PROVE  Live(g, i)' /\ ~CountsLater(task'[g][i]) => finishes[i] > 0
      OBVIOUS
    <3>1. task'[g][i] = task[g][i] \/ task'[g][i].step = "begin"
      BY <2>2, <2>3
    <3>2. task'[g][i].step = "begin" => CountsLater(task'[g][i])
      BY DEF CountsLater
    <3>. QED BY <1>2, <3>1, <3>2 DEF Live
  <2>8. \A g \in Host : fetch'[g].step = "idle" => fetch'[g].items = {}
    BY <1>2, <2>2 DEF Idle
  <2>. QED BY <1>1, <2>5, <2>6, <2>7, <2>8, BooksUntouched
<1>. QED BY <1>4, <1>5, <1>6 DEF Fetching

\* Nor the reprocess loop: what it puts back has been tried.
LEMMA BooksReprocessing ==
  ASSUME Ledger, NEW h \in Host, Reprocessing(h)
  PROVE  Books'
<1>. USE DEF redisVars, counterVars, dbVars, sendVars
<1>1. /\ TypeOK /\ dbBatch' = [dbBatch EXCEPT !.status = dbBatch'.status]
      /\ UNCHANGED <<unsent, finishes, dbItem, batch, task, fetch>>
  BY DEF Ledger, Setting, TypeOK, DbBatchState, Reprocessing, ReapExpired, ReadPayload, Requeue
<1>2. /\ \A g \in Host, i \in Item :
           Live(g, i)' /\ ~CountsLater(task'[g][i]) => finishes[i] > 0
      /\ \A g \in Host : fetch'[g].step = "idle" => fetch'[g].items = {}
      /\ \A i \in Item : Taken(i)' <=> Taken(i)
  BY <1>1 DEF Ledger, Books, Live, Taken
<1>3. ASSUME NEW i \in Item, Requeue(h, i) PROVE \A j \in Item : Fresh(j)' <=> Fresh(j)
  <2>1. Carried(h, i) /\ Reaped(h, i) /\ Orderly(i)
    BY <1>3 DEF Requeue, Ledger, Setting, Carried, Reaped
  <2>2. /\ i \notin unsent /\ i \notin mainQueue
        /\ \A g \in Host : ~Fetched(g, i) /\ ~Live(g, i)
    BY <2>1 DEF Orderly, OnePlace, Carried
  <2>3. /\ payload'[i].retryCount = payload[i].retryCount + 1
        /\ payload[i].retryCount \in Nat
        /\ \A j \in Item : j # i => /\ payload'[j] = payload[j]
                                    /\ j \in mainQueue' <=> j \in mainQueue
    BY <1>1, <1>3 DEF Requeue, TypeOK, PayloadState
  <2>4. ~Fresh(i) /\ ~Fresh(i)'
    BY <1>1, <2>2, <2>3 DEF Fresh, Fetched, Live
  <2>5. \A j \in Item : j # i => (Fresh(j)' <=> Fresh(j))
    BY <1>1, <2>3 DEF Fresh, Fetched
  <2>. QED BY <2>4, <2>5
<1>4. ASSUME ReapExpired(h) \/ \E i \in Item : ReadPayload(h, i)
      PROVE  \A j \in Item : Fresh(j)' <=> Fresh(j)
  BY <1>1, <1>4 DEF ReapExpired, ReadPayload, Fresh, Fetched
<1>. QED BY <1>1, <1>2, <1>3, <1>4, BooksUntouched DEF Reprocessing

\* processItem: the first attempt of an item moves it from pending to running.
LEMMA BooksProcessing ==
  ASSUME Ledger, NEW h \in Host, NEW i \in Item, Processing(h, i), ~CallThrows(h, i)
  PROVE  Books'
<1>. DEFINE t == task[h][i]
<1>. USE DEF redisVars, counterVars, dbVars, sendVars
<1>1. /\ TypeOK /\ t \in TaskState /\ Live(h, i) /\ ~(finishes[i] > 0)
      /\ UNCHANGED <<unsent, mainQueue, fetch, finishes, payload, batch>>
      /\ \A j \in Item : j # i => dbItem'[j] = dbItem[j]
  <2>1. /\ t.step \in {"begin", "mark", "call", "defer"}
        /\ UNCHANGED <<unsent, mainQueue, fetch, finishes, payload, batch>>
        /\ dbItem' = dbItem \/ \E status : dbItem' = [dbItem EXCEPT ![i] = status]
    <3>1. CASE BeginItem(h, i)
      BY <3>1 DEF BeginItem
    <3>2. CASE MarkRunning(h, i)
      BY <3>2 DEF MarkRunning
    <3>3. CASE CallRetryable(h, i)
      BY <3>3 DEF CallRetryable
    <3>4. CASE DeferItem(h, i)
      BY <3>4 DEF DeferItem
    <3>5. ASSUME NEW outcome \in Outcome, CallEnds(h, i, outcome)
          PROVE  /\ t.step = "call"
                 /\ UNCHANGED <<unsent, mainQueue, fetch, finishes, payload, batch>>
                 /\ dbItem' = [dbItem EXCEPT ![i] = outcome]
      BY <3>5 DEF CallEnds
    <3>. QED BY <3>1, <3>2, <3>3, <3>4, <3>5 DEF Processing
  <2>4. TypeOK /\ Live(h, i) /\ CountsLater(t) /\ Orderly(i)
    BY <2>1 DEF Live, CountsLater, Ledger, Setting
  <2>5. ~(finishes[i] > 0) /\ t \in TaskState
    BY <2>1, <2>4 DEF Orderly, Final, TypeOK
  <2>. QED BY <2>1, <2>4, <2>5 DEF TypeOK
<1>2. dbBatch = [dbBatch EXCEPT !.status = dbBatch.status]
  BY <1>1 DEF TypeOK, DbBatchState
<1>3. ASSUME NEW u, SetTask(h, i, u), dbBatch' = dbBatch, ~(t.step = "begin" /\ t.first),
             ~(u.step = "begin" /\ u.first), CountsLater(u)
      PROVE  Books'
  BY <1>1, <1>2, <1>3, BooksTask
<1>4. ASSUME NEW s \in {"mark", "call", "defer"}, Goto(h, i, s), dbBatch' = dbBatch,
             ~(t.step = "begin" /\ t.first)
      PROVE  Books'
  <2>1. [t EXCEPT !.step = s].step = s
    BY <1>1 DEF TaskState
  <2>. QED BY <1>3, <1>4, <2>1 DEF Goto, CountsLater
<1>5. CASE MarkRunning(h, i) \/ CallRetryable(h, i) \/ (BeginItem(h, i) /\ ~t.first)
  BY <1>4, <1>5 DEF MarkRunning, CallRetryable, BeginItem
<1>6. CASE DeferItem(h, i)
  BY <1>3, <1>6 DEF DeferItem, CountsLater, NoTask
<1>7. ASSUME NEW outcome \in Outcome, CallEnds(h, i, outcome) PROVE Books'
  <2>. DEFINE u == [t EXCEPT !.step = "delete", !.outcome = outcome, !.todo = DeleteCalls]
  <2>1. u.step = "delete" /\ u.todo = DeleteCalls
    BY <1>1 DEF TaskState
  <2>2. SetTask(h, i, u) /\ dbBatch' = dbBatch /\ t.step = "call"
    BY <1>7 DEF CallEnds
  <2>. HIDE DEF u
  <2>. QED BY <1>3, <2>1, <2>2 DEF CountsLater, DeleteCalls
<1>8. CASE BeginItem(h, i) /\ t.first
  <2>. DEFINE u == [t EXCEPT !.step = "mark"]
  <2>1. /\ u.step = "mark" /\ t.step = "begin"
        /\ \A g \in Host, j \in Item :
             task'[g][j] = IF g = h /\ j = i THEN u ELSE task[g][j]
    <3>1. u.step = "mark" /\ SetTask(h, i, u) /\ t.step = "begin"
      BY <1>1, <1>8 DEF TaskState, BeginItem, Goto
    <3>. HIDE DEF u
    <3>. QED BY <1>1, <3>1, SetTaskEffect
  <2>. HIDE DEF u
  <2>2. Fresh(i) /\ ~Fresh(i)' /\ ~Tallied(i) /\ ~Tallied(i)'
    BY <1>1, <1>8, <2>1, TakenOnly DEF Fresh, Fetched, Tallied
  <2>3. \A j \in Item : j # i => (Fresh(j)' <=> Fresh(j)) /\ (Tallied(j)' <=> Tallied(j))
    BY <1>1, <2>1 DEF Fresh, Fetched, Tallied, Taken, Live
  <2>4. dbItem' = dbItem
    BY <1>8 DEF BeginItem
  <2>5. /\ FreshItems' = FreshItems \ {i} /\ i \in FreshItems
        /\ OpenItems' = OpenItems \cup {i} /\ i \notin OpenItems
        /\ \A o : TalliedAs(o)' = TalliedAs(o) /\ OffAs(o)' = OffAs(o)
    BY <1>1, <2>2, <2>3, <2>4 DEF FreshItems, OpenItems, TalliedAs, OffAs
  <2>6. /\ dbBatch'.pending = dbBatch.pending - 1 /\ dbBatch'.running = dbBatch.running + 1
        /\ dbBatch'.completed = dbBatch.completed /\ dbBatch'.failed = dbBatch.failed
    BY <1>1, <1>8 DEF BeginItem, TypeOK, DbBatchState
  <2>7. /\ Cardinality(FreshItems') = Cardinality(FreshItems) - 1
        /\ Cardinality(OpenItems') = Cardinality(OpenItems) + 1
    BY <2>5, BooksFinite, FS_AddElement, FS_RemoveElement
  <2>8. \A g \in Host, j \in Item :
          Live(g, j)' /\ ~CountsLater(task'[g][j]) => finishes'[j] > 0
    BY <1>1, <2>1 DEF Live, CountsLater, Ledger, Books
  <2>. QED BY <1>1, <2>5, <2>6, <2>7, <2>8 DEF Ledger, Books
<1>. QED BY <1>5, <1>6, <1>7, <1>8 DEF Processing

\* deleteItem counts the item off with its outcome, in the batch hash.
LEMMA BooksCounting ==
  ASSUME Ledger, NEW h \in Host, NEW i \in Item, DeleteCounters(h, i)
  PROVE  Books'
<1>. DEFINE t == task[h][i]
            u == CallReturned([t EXCEPT !.last = (batch.pending - 1 = 0)], "counters")
<1>. USE DEF redisVars, counterVars, dbVars, sendVars
<1>1. /\ TypeOK /\ t \in TaskState /\ t.step = "delete" /\ "counters" \in t.todo
      /\ Live(h, i) /\ CountsLater(t) /\ t.outcome = dbItem[i] /\ Orderly(i)
      /\ UNCHANGED <<unsent, mainQueue, fetch, payload, dbBatch, dbItem>>
  BY DEF DeleteCounters, Live, CountsLater, Reporting, Ledger, Setting, TypeOK, Accounted,
         Outcomes
<1>2. finishes[i] = 0 /\ u.step \in {"delete", "verdict", "tally"} /\ t.outcome \in Outcome
  BY <1>1 DEF Orderly, Final, CallReturned, TaskState, TypeOK
<1>3. \A g \in Host, j \in Item :
        task'[g][j] = IF g = h /\ j = i THEN u ELSE task[g][j]
  BY SetTaskEffect DEF DeleteCounters, Ledger, Setting
<1>. HIDE DEF u
<1>4. /\ batch'.completed = IF t.outcome = "COMPLETED" THEN batch.completed + 1
                            ELSE batch.completed
      /\ batch'.failed = IF t.outcome = "FAILED" THEN batch.failed + 1 ELSE batch.failed
      /\ \A j \in Item : finishes'[j] = IF j = i THEN 1 ELSE finishes[j]
  BY <1>1, <1>2 DEF DeleteCounters, TypeOK, BatchState
<1>5. ~Fresh(i) /\ ~Fresh(i)'
  BY <1>1, <1>2, <1>3, TakenOnly DEF Fresh, Fetched
<1>6. \A j \in Item : /\ Taken(j)' <=> Taken(j)
                      /\ j # i => (Fresh(j)' <=> Fresh(j))
  BY <1>1, <1>2, <1>3 DEF Fresh, Fetched, Taken, Live
<1>7. Taken(i)
  BY <1>1 DEF Taken
<1>8. \A j \in Item : (Fresh(j)' <=> Fresh(j)) /\ (Tallied(j)' <=> Tallied(j))
  BY <1>4, <1>5, <1>6, <1>7 DEF Tallied
<1>9. /\ FreshItems' = FreshItems /\ OpenItems' = OpenItems
      /\ \A o : TalliedAs(o)' = TalliedAs(o)
  BY <1>1, <1>8 DEF FreshItems, OpenItems, TalliedAs
<1>10. \A o : OffAs(o)' = (IF o = t.outcome THEN OffAs(o) \cup {i} ELSE OffAs(o))
              /\ i \notin OffAs(o)
  BY <1>1, <1>2, <1>4 DEF OffAs
<1>11. \A o : Cardinality(OffAs(o)') = IF o = t.outcome THEN Cardinality(OffAs(o)) + 1
                                       ELSE Cardinality(OffAs(o))
  BY <1>10, BooksFinite, FS_AddElement
<1>12. \A g \in Host, j \in Item :
         Live(g, j)' /\ ~CountsLater(task'[g][j]) => finishes'[j] > 0
  BY <1>1, <1>3, <1>4 DEF Live, Ledger, Books
<1>. QED BY <1>1, <1>2, <1>4, <1>9, <1>11, <1>12 DEF Ledger, Books, Outcome

\* The end of finishItem counts it in the row.
LEMMA BooksTallying ==
  ASSUME Ledger, NEW h \in Host, NEW i \in Item, TallyItem(h, i)
  PROVE  Books'
<1>. DEFINE t == task[h][i]
<1>. USE DEF redisVars, counterVars, dbVars, sendVars
<1>1. /\ TypeOK /\ t \in TaskState /\ t.step = "tally" /\ Live(h, i) /\ ~CountsLater(t)
      /\ t.outcome = dbItem[i] /\ t.outcome \in Outcome
      /\ UNCHANGED <<unsent, mainQueue, fetch, payload, batch, dbItem, finishes>>
  BY DEF TallyItem, Live, CountsLater, Reporting, Ledger, Setting, TypeOK, Accounted,
         Outcomes, TaskState
<1>2. finishes[i] > 0
  BY <1>1 DEF Ledger, Books
<1>3. \A g \in Host, j \in Item :
        task'[g][j] = IF g = h /\ j = i THEN NoTask ELSE task[g][j]
  BY SetTaskEffect DEF TallyItem, Ledger, Setting
<1>4. /\ dbBatch'.pending = dbBatch.pending /\ dbBatch'.running = dbBatch.running - 1
      /\ dbBatch'.completed = IF t.outcome = "COMPLETED" THEN dbBatch.completed + 1
                              ELSE dbBatch.completed
      /\ dbBatch'.failed = IF t.outcome = "FAILED" THEN dbBatch.failed + 1 ELSE dbBatch.failed
  BY <1>1 DEF TallyItem, TypeOK, DbBatchState
<1>5. /\ ~Fresh(i) /\ ~Fresh(i)' /\ Taken(i) /\ ~Taken(i)'
  BY <1>1, <1>3, TakenOnly DEF Fresh, Fetched, NoTask, Taken, Live
<1>6. \A j \in Item : j # i => (Fresh(j)' <=> Fresh(j)) /\ (Taken(j)' <=> Taken(j))
  BY <1>1, <1>3 DEF Fresh, Fetched, Taken, Live
<1>7. \A j \in Item : /\ Fresh(j)' <=> Fresh(j)
                      /\ Tallied(j)' <=> Tallied(j) \/ j = i
  BY <1>1, <1>2, <1>5, <1>6 DEF Tallied
<1>8. ~Tallied(i)
  BY <1>5 DEF Tallied
<1>9. /\ FreshItems' = FreshItems /\ OpenItems' = OpenItems \ {i} /\ i \in OpenItems
      /\ \A o : OffAs(o)' = OffAs(o)
  BY <1>1, <1>5, <1>7, <1>8 DEF FreshItems, OpenItems, OffAs
<1>10. \A o : TalliedAs(o)' = (IF o = t.outcome THEN TalliedAs(o) \cup {i} ELSE TalliedAs(o))
              /\ i \notin TalliedAs(o)
  BY <1>1, <1>7, <1>8 DEF TalliedAs
<1>11. /\ Cardinality(OpenItems') = Cardinality(OpenItems) - 1
       /\ \A o : Cardinality(TalliedAs(o)') =
                   IF o = t.outcome THEN Cardinality(TalliedAs(o)) + 1
                   ELSE Cardinality(TalliedAs(o))
  BY <1>9, <1>10, BooksFinite, FS_AddElement, FS_RemoveElement
<1>12. \A g \in Host, j \in Item :
         Live(g, j)' /\ ~CountsLater(task'[g][j]) => finishes'[j] > 0
  BY <1>1, <1>3 DEF Live, NoTask, Ledger, Books
<1>. QED BY <1>1, <1>4, <1>9, <1>11, <1>12 DEF Ledger, Books, Outcome

\* Nor do the other calls of deleteItem and the steps of completeBatch.
LEMMA BooksFinishing ==
  ASSUME Ledger, NEW h \in Host, NEW i \in Item, Finishing(h, i), ~CompleteThrows(h, i)
  PROVE  Books'
<1>. DEFINE t == task[h][i]
<1>. USE DEF redisVars, counterVars, dbVars, sendVars
<1>1. /\ TypeOK /\ t \in TaskState /\ HandOver
      /\ dbBatch = [dbBatch EXCEPT !.status = dbBatch.status]
  BY DEF Ledger, Setting, TypeOK, DbBatchState
<1>2. ASSUME NEW u, SetTask(h, i, u), u.step # "begin", u.step # "none",
             t.step \notin {"none", "begin"},
             UNCHANGED <<unsent, mainQueue, fetch, finishes, dbItem>>,
             dbBatch' = [dbBatch EXCEPT !.status = dbBatch'.status],
             batch'.completed = batch.completed, batch'.failed = batch.failed,
             \A j \in Item : j # i => payload'[j] = payload[j],
             ~CountsLater(u) => ~CountsLater(t)
      PROVE  Books'
  <2>1. Live(h, i)
    BY <1>2 DEF Live
  <2>2. ~CountsLater(u) => finishes[i] > 0
    BY <1>2, <2>1 DEF Ledger, Books
  <2>. QED BY <1>2, <2>1, <2>2, BooksTask
<1>3. CASE DeletePayload(h, i) \/ DeleteIndex(h, i) \/ DeleteEvent(h, i)
  <2>1. PICK c \in {"payload", "event", "index"} :
          t.step = "delete" /\ c \in t.todo /\ SetTask(h, i, CallReturned(t, c))
    BY <1>3 DEF DeletePayload, DeleteEvent, DeleteIndex
  <2>2. UNCHANGED <<unsent, mainQueue, fetch, finishes, dbItem, dbBatch, batch>>
    BY <1>3 DEF DeletePayload, DeleteEvent, DeleteIndex
  <2>3. \A j \in Item : j # i => payload'[j] = payload[j]
    BY <1>1, <1>3 DEF DeletePayload, DeleteEvent, DeleteIndex, TypeOK
  <2>. DEFINE u == CallReturned(t, c)
  <2>4. /\ u.step \in {"delete", "verdict", "tally"}
        /\ CountsLater(u) <=> "counters" \in u.todo
        /\ u.todo = t.todo \ {c}
    BY <1>1, <2>1, CallReturnedParts
  <2>5. SetTask(h, i, u) /\ (CountsLater(t) <=> "counters" \in t.todo)
    BY <2>1 DEF CountsLater
  <2>. HIDE DEF u
  <2>. QED BY <1>1, <1>2, <2>1, <2>2, <2>3, <2>4, <2>5
<1>4. ASSUME NEW u, SetTask(h, i, u), NEW s \in {"verdict", "dbStatus", "redisStatus", "batchEvent"},
             NEW r \in {"dbStatus", "redisStatus", "batchEvent", "tally"},
             t.step = s, u.step = r,
             UNCHANGED <<unsent, mainQueue, fetch, finishes, dbItem, payload>>,
             dbBatch' = [dbBatch EXCEPT !.status = dbBatch'.status],
             batch'.completed = batch.completed, batch'.failed = batch.failed
      PROVE  Books'
  BY <1>2, <1>4 DEF CountsLater
<1>5. CASE ReadVerdict(h, i)
  <2>. DEFINE u == [t EXCEPT !.step = "dbStatus",
                             !.verdict = IF batch.failed > 0 THEN "FAILED" ELSE "COMPLETED"]
  <2>1. /\ SetTask(h, i, u) /\ t.step = "verdict"
        /\ UNCHANGED <<unsent, mainQueue, fetch, finishes, dbItem, payload, dbBatch, batch>>
    BY <1>5 DEF ReadVerdict
  <2>2. u.step = "dbStatus"
    BY <1>1 DEF TaskState
  <2>. HIDE DEF u
  <2>. QED BY <1>1, <1>4, <2>1, <2>2
<1>6. ASSUME NEW s, NEW r, Goto(h, i, r)
      PROVE  /\ SetTask(h, i, [t EXCEPT !.step = r])
             /\ [t EXCEPT !.step = r].step = r
  BY <1>1, <1>6 DEF Goto, TaskState
<1>7. CASE UpdateDbStatus(h, i)
  <2>1. /\ t.step = "dbStatus" /\ Goto(h, i, "redisStatus")
        /\ UNCHANGED <<unsent, mainQueue, fetch, finishes, dbItem, payload, batch>>
    BY <1>7 DEF UpdateDbStatus
  <2>2. dbBatch' = [dbBatch EXCEPT !.status = dbBatch'.status]
    BY <1>1, <1>7 DEF UpdateDbStatus, TypeOK, DbBatchState
  <2>. QED BY <1>4, <1>6, <2>1, <2>2
<1>8. CASE UpdateRedisStatus(h, i)
  <2>1. /\ t.step = "redisStatus" /\ Goto(h, i, "batchEvent")
        /\ UNCHANGED <<unsent, mainQueue, fetch, finishes, dbItem, payload, dbBatch>>
    BY <1>8 DEF UpdateRedisStatus
  <2>2. batch'.completed = batch.completed /\ batch'.failed = batch.failed
    BY <1>1, <1>8 DEF UpdateRedisStatus, TypeOK, BatchState
  <2>. QED BY <1>1, <1>4, <1>6, <2>1, <2>2
<1>9. CASE BatchEvent(h, i)
  <2>1. /\ t.step = "batchEvent" /\ Goto(h, i, "tally")
        /\ UNCHANGED <<unsent, mainQueue, fetch, finishes, dbItem, payload, dbBatch, batch>>
    BY <1>9 DEF BatchEvent
  <2>. QED BY <1>1, <1>4, <1>6, <2>1
<1>. QED BY <1>3, <1>5, <1>7, <1>8, <1>9, BooksCounting, BooksTallying DEF Finishing

\* A history without database error had none before.
LEMMA NoErrorBefore ==
  ASSUME TypeOK, [Next]_vars, ~Happened("dbError")'
  PROVE  ~Happened("dbError") /\ ~Fault("dbError")
<1>1. faults' = faults \/ \E kind : Fault(kind)
  BY NextFaults
<1>2. faults \in Seq(Faults)
  BY DEF TypeOK
<1>3. ~Happened("dbError")
  BY <1>1, <1>2, FaultStep DEF Happened
<1>. QED BY <1>2, <1>3, FaultStep

\* The books are balanced again after every step.
LEMMA NextBalanced ==
  TypeOK /\ OneCompleter /\ HandOver /\ Order /\ Judged /\ NoItemLost /\ Balanced /\ [Next]_vars
    => Balanced'
<1>. SUFFICES ASSUME TypeOK, OneCompleter, HandOver, Order, Judged, NoItemLost, Balanced,
                     [Next]_vars, Undisturbed', ~Happened("dbError")'
              PROVE  Books'
  BY DEF Balanced
<1>1. Ledger /\ ~Fault("crash") /\ ~Fault("dbError") /\ ~RedisFails
  BY UndisturbedBefore, NoErrorBefore
  DEF Ledger, Setting, Order, Judged, NoItemLost, Balanced, Undisturbed
<1>2. \A h \in Host : /\ ~Crash(h)
                      /\ \A i \in Item : ~CallThrows(h, i) /\ ~CompleteThrows(h, i)
  BY <1>1 DEF Crash, CallThrows, CompleteThrows
<1>3. CASE UNCHANGED vars
  <2>1. UNCHANGED <<dbBatch, batch, dbItem, task, fetch, finishes, unsent, mainQueue, payload>>
    BY <1>3 DEF vars, redisVars, counterVars, dbVars, sendVars
  <2>2. /\ FreshItems' = FreshItems /\ OpenItems' = OpenItems
        /\ \A o : TalliedAs(o)' = TalliedAs(o) /\ OffAs(o)' = OffAs(o)
    BY <2>1 DEF FreshItems, OpenItems, TalliedAs, OffAs, Tallied, Taken, Fresh, Fetched, Live
  <2>. QED BY <1>1, <2>1, <2>2 DEF Ledger, Books, Live
<1>4. CASE Sending \/ SenderCrash \/ Cancel \/ \E i \in Item : VisibilityTimeout(i)
  BY <1>1, <1>4, BooksSending
<1>5. ASSUME NEW h \in Host, Fetching(h) \/ Reprocessing(h) PROVE Books'
  BY <1>1, <1>5, BooksFetching, BooksReprocessing
<1>6. ASSUME NEW h \in Host, NEW i \in Item, Processing(h, i) \/ Finishing(h, i) PROVE Books'
  BY <1>1, <1>2, <1>6, BooksProcessing, BooksFinishing
<1>. QED BY <1>1, <1>2, <1>3, <1>4, <1>5, <1>6 DEF Next

\* The books are balanced at every time.
LEMMA BalancedHolds == Spec => []Balanced
  BY InitBalanced, NextBalanced, TypeCorrect, CompleterHolds, HandOverHolds, OrderHolds,
     JudgedHolds, NoItemLostHolds, PTL DEF Spec

\* Without crash, failed call to Redis or the database and overrun the counters of the row
\* never go negative, and agree with those of Redis once every item is counted off and its
\* task has ended.
THEOREM CountersAgreeHolds == Spec => []CountersAgree
<1>1. TypeOK /\ Order /\ Judged /\ Balanced => CountersAgree
  <2>. SUFFICES ASSUME TypeOK, Accounted, Books, \A i \in Item : Orderly(i)
                PROVE  /\ dbBatch.pending >= 0 /\ dbBatch.running >= 0
                       /\ (\A i \in Item : finishes[i] > 0 /\ ~Held(i)) =>
                            /\ dbBatch.pending = 0 /\ dbBatch.running = 0 /\ batch.pending = 0
                            /\ dbBatch.completed = batch.completed
                            /\ dbBatch.failed = batch.failed
    BY DEF Order, Judged, Balanced, CountersAgree
  <2>1. Cardinality(FreshItems) \in Nat /\ Cardinality(OpenItems) \in Nat
    BY BooksFinite, FS_CardinalityType
  <2>2. dbBatch.pending >= 0 /\ dbBatch.running >= 0
    BY <2>1 DEF Books
  <2>3. ASSUME \A i \in Item : finishes[i] > 0 /\ ~Held(i)
        PROVE  /\ dbBatch.pending = 0 /\ dbBatch.running = 0 /\ batch.pending = 0
               /\ dbBatch.completed = batch.completed
               /\ dbBatch.failed = batch.failed
    <3>1. \A i \in Item : ~Taken(i) /\ Tallied(i)
      BY <2>3 DEF Held, Taken, Tallied
    <3>2. OpenItems = {} /\ \A o : TalliedAs(o) = OffAs(o)
      BY <2>3, <3>1 DEF OpenItems, TalliedAs, OffAs
    <3>3. Unfinished = {}
      BY <2>3 DEF Unfinished, TypeOK
    <3>4. FreshItems = {}
      BY <2>3, <3>1 DEF FreshItems, Fresh, Taken, Live, Orderly, Final
    <3>5. sender # "committed" /\ batch.pending = Cardinality(Unfinished)
      BY <3>3, BatchQueueAssumption DEF Accounted, Count
    <3>. QED BY <3>2, <3>3, <3>4, <3>5, FS_EmptySet DEF Books
  <2>. QED BY <2>2, <2>3
<1>. QED BY <1>1, TypeCorrect, OrderHolds, JudgedHolds, BalancedHolds, PTL
=============================================================================
