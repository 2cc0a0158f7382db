-------------------------- MODULE ResourceScheduler --------------------------
(***************************************************************************)
(* Which resource a batch worker looks at, and when: the active and the    *)
(* standby resources, the wake-up stream and the resource locks of         *)
(* completion/batch/batch-queue.service.ts, and the consumer loop of       *)
(* batch-queue.base-consumer.ts.                                           *)
(*                                                                         *)
(* A member of the active resources is a batch and one of the resources of *)
(* its items; the batches that use a resource share its main queue and its *)
(* lock.  What becomes of an item between the queues is the subject of     *)
(* module BatchQueue: here it is waiting, retrieved, processed or deferred.*)
(***************************************************************************)
EXTENDS Integers, FiniteSets, Sequences

CONSTANTS
  Host,               \* the API processes
  Member, Resource,   \* batch and resource; resource
  ResourceOf,         \* the resource of each member
  Item, MemberOf,     \* the items; the batch and resource of each
  ResourcesPerBatch,  \* how many active resources a worker picks at once (10)
  MaxTasks,           \* how many tasks a worker wants to run (1000)
  Available,          \* the values availableRequests may have, where it is not negative
  MaxStandbys,        \* bound: how often capacity is found exhausted
  MaxRequeues,        \* bound: how many tasks are deferred
  Faults, MaxFaults   \* the kinds of adverse event, and a bound on their number

ASSUME SchedulerAssumption ==
  /\ ResourceOf \in [Member -> Resource] /\ MemberOf \in [Item -> Member]
  /\ IsFiniteSet(Member) /\ IsFiniteSet(Item) /\ Member \cap Item = {}
  /\ ResourcesPerBatch \in Nat \ {0} /\ MaxTasks \in Nat \ {0}
  /\ Available \subseteq Nat
  /\ MaxStandbys \in Nat /\ MaxRequeues \in Nat
  /\ Faults \subseteq {"crash", "throw", "lockExpired"} /\ MaxFaults \in Nat

VARIABLES
  \* Redis
  active,      \* the active resources, oldest score first
  standby,     \* the standby resources
  stream,      \* number of wake-ups in the new-resources stream not delivered yet
  lock,        \* the owner of each resource lock: {} or {h}
  queued,      \* items in the main queue of their resource
  deferred,    \* items in the global processing queue without a task
  \* memory of the processes
  unsent,      \* items their sendBatch has not enqueued
  activation,  \* calls on their way to the active resources and then to the stream
  loop,        \* where the consumer loop of each host is
  pick,        \* per host and member: the callback of start's Promise.all
  tasks,       \* per host: the items of pendingTasks
  \* bounds and history
  standbys, requeues, faults

queueVars == <<queued, deferred, unsent>>
boundVars == <<standbys, requeues, faults>>
vars == <<active, standby, stream, lock, queueVars, activation, loop, pick, tasks, boundVars>>

-----------------------------------------------------------------------------
PickSteps == {"none", "lock", "retrieve", "standby", "remove", "unlock", "touch"}

\* A callback never asks for zero items, for which ZRANGE would read the whole queue.
PickState == {p \in [step : PickSteps, count : Nat, items : SUBSET Item] :
                p.step \in {"lock", "retrieve"} => p.count > 0}

NoPick == [step |-> "none", count |-> 0, items |-> {}]

\* A call of sendBatch (cause: the member) or of the reprocess loop (cause: the
\* item) that is about to make its ZADD, or its XADD.
Activation == [host : Host, cause : Member \cup Item, step : {"add", "signal"}]

MemberBehind(a) == IF a.cause \in Item THEN MemberOf[a.cause] ELSE a.cause

Queue(r) == {i \in queued : ResourceOf[MemberOf[i]] = r}

InActive(m) == \E n \in DOMAIN active : active[n] = m

\* ZREM; a sorted set has a member once.
WithoutActive(m) ==
  LET n == CHOOSE k \in DOMAIN active : active[k] = m
  IN  IF InActive(m)
        THEN [k \in 1..(Len(active) - 1) |-> IF k < n THEN active[k] ELSE active[k + 1]]
        ELSE active

\* ZADD NX, or ZADD LT with the current time: a member there keeps its score.
AddActive(m) == IF InActive(m) THEN active ELSE Append(active, m)

AtMost(m, n) == IF m <= n THEN m ELSE n

\* What ZRANGE key 0 max-1 reads of n members: all of them when max is 0.
RangeSize(max, n) == IF max = 0 THEN n ELSE AtMost(max, n)

Fault(kind) ==
  /\ kind \in Faults
  /\ Len(faults) < MaxFaults
  /\ faults' = Append(faults, kind)

Happened(kind) == \E n \in DOMAIN faults : faults[n] = kind

\* Between lockResource and unlockResource.
InSection(h, m) == pick[h][m].step \in {"retrieve", "standby", "remove", "unlock"}

Init ==
  /\ active = <<>> /\ standby = {} /\ stream = 0
  /\ lock = [r \in Resource |-> {}]
  /\ queued = {} /\ deferred = {} /\ unsent = Item
  /\ activation = {}
  /\ loop = [h \in Host |-> "poll"]
  /\ pick = [h \in Host |-> [m \in Member |-> NoPick]]
  /\ tasks = [h \in Host |-> {}]
  /\ standbys = 0 /\ requeues = 0 /\ faults = <<>>

-----------------------------------------------------------------------------
(* Activation: sendBatch, the end of the reprocess loop, the standby loop. *)

\* sendBatch enqueues an item; behind the last one of a resource it activates it.
SendItem(h, i) ==
  /\ loop[h] # "down"
  /\ i \in unsent
  /\ unsent' = unsent \ {i}
  /\ queued' = queued \cup {i}
  /\ activation' =
       IF \A j \in unsent' : MemberOf[j] # MemberOf[i]
         THEN activation \cup {[host |-> h, cause |-> MemberOf[i], step |-> "add"]}
         ELSE activation
  /\ UNCHANGED <<active, standby, stream, lock, deferred, loop, pick, tasks, boundVars>>

\* The MULTI of the reprocess loop: the item is in the main queue again.
RequeueItem(h, i) ==
  /\ loop[h] # "down"
  /\ i \in deferred
  /\ \A a \in activation : a.cause # i
  /\ deferred' = deferred \ {i}
  /\ queued' = queued \cup {i}
  /\ activation' = activation \cup {[host |-> h, cause |-> i, step |-> "add"]}
  /\ UNCHANGED <<active, standby, stream, lock, unsent, loop, pick, tasks, boundVars>>

\* Seeded bug: the member is added without a signal.
ActivateSilently(a) ==
  /\ a \in activation /\ a.step = "add"
  /\ active' = AddActive(MemberBehind(a))
  /\ activation' = activation \ {a}
  /\ UNCHANGED <<standby, stream, lock, queueVars, loop, pick, tasks, boundVars>>

\* ZADD NX in sendBatch, ZADD LT in updateActiveResourceTimestamp; only a member
\* that was added is signalled.
Activate(a) ==
  /\ a \in activation /\ a.step = "add"
  /\ active' = AddActive(MemberBehind(a))
  /\ activation' = (activation \ {a}) \cup
                   IF InActive(MemberBehind(a)) THEN {} ELSE {[a EXCEPT !.step = "signal"]}
  /\ UNCHANGED <<standby, stream, lock, queueVars, loop, pick, tasks, boundVars>>

\* sendActiveResourceEvent.
Signal(a) ==
  /\ a \in activation /\ a.step = "signal"
  /\ stream' = stream + 1
  /\ activation' = activation \ {a}
  /\ UNCHANGED <<active, standby, lock, queueVars, loop, pick, tasks, boundVars>>

\* The ZADD or the XADD rejects: sendBatch ends, the reprocess loop logs it.
ActivationFails(a) ==
  /\ a \in activation
  /\ Fault("throw")
  /\ activation' = activation \ {a}
  /\ UNCHANGED <<active, standby, stream, lock, queueVars, loop, pick, tasks, standbys,
                 requeues>>

\* Seeded bug: the standby loop does not wake the workers.
ExpireStandbySilently(m) ==
  /\ m \in standby
  /\ standby' = standby \ {m}
  /\ active' = Append(WithoutActive(m), m)
  /\ UNCHANGED <<stream, lock, queueVars, activation, loop, pick, tasks, boundVars>>

\* standbyResourcesLoop: an expired member becomes the youngest active resource.
\* (The Lua script handles up to 100 of them; one per step allows more orders.)
ExpireStandby(m) ==
  /\ m \in standby
  /\ standby' = standby \ {m}
  /\ active' = Append(WithoutActive(m), m)
  /\ stream' = stream + 1
  /\ UNCHANGED <<lock, queueVars, activation, loop, pick, tasks, boundVars>>

-----------------------------------------------------------------------------
(* The consumer loop.                                                      *)

\* No resource is active: waitForNewResources.
Sleep(h) ==
  /\ loop[h] = "poll" /\ Cardinality(tasks[h]) < MaxTasks
  /\ active = <<>>
  /\ loop' = [loop EXCEPT ![h] = "waiting"]
  /\ UNCHANGED <<active, standby, stream, lock, queueVars, activation, pick, tasks, boundVars>>

\* XREADGROUP delivers each entry to one worker, XACK follows.
Wake(h) ==
  /\ loop[h] = "waiting" /\ stream > 0
  /\ stream' = stream - 1
  /\ loop' = [loop EXCEPT ![h] = "poll"]
  /\ UNCHANGED <<active, standby, lock, queueVars, activation, pick, tasks, boundVars>>

\* Seeded bug: the loop does not wait for a free slot, so that ZRANGE is asked for 0.
PollWithoutWaiting(h) ==
  LET free   == MaxTasks - Cardinality(tasks[h])
      number == RangeSize(AtMost(free, ResourcesPerBatch), Len(active))
      Slots(n) == free \div number + IF n = 1 THEN free % number ELSE 0
  IN  /\ loop[h] = "poll"
      /\ active # <<>>
      /\ loop' = [loop EXCEPT ![h] = "busy"]
      /\ pick' = [pick EXCEPT ![h] = [m \in Member |->
           IF @[m] = NoPick /\ \E n \in 1..number : active[n] = m
             THEN [NoPick EXCEPT !.step = "lock",
                     !.count = Slots(CHOOSE n \in 1..number : active[n] = m)]
             ELSE @[m]]]
      /\ UNCHANGED <<active, standby, stream, lock, queueVars, activation, tasks, boundVars>>

\* The oldest resources share the free slots; the first one gets the remainder.
\* (At most one callback per host and member, also behind an exception: a bound.)
Poll(h) ==
  LET free   == MaxTasks - Cardinality(tasks[h])
      number == RangeSize(AtMost(free, ResourcesPerBatch), Len(active))
      Slots(n) == free \div number + IF n = 1 THEN free % number ELSE 0
  IN  /\ loop[h] = "poll" /\ free > 0
      /\ active # <<>>
      /\ loop' = [loop EXCEPT ![h] = "busy"]
      /\ pick' = [pick EXCEPT ![h] = [m \in Member |->
           IF @[m] = NoPick /\ \E n \in 1..number : active[n] = m
             THEN [NoPick EXCEPT !.step = "lock",
                     !.count = Slots(CHOOSE n \in 1..number : active[n] = m)]
             ELSE @[m]]]
      /\ UNCHANGED <<active, standby, stream, lock, queueVars, activation, tasks, boundVars>>

\* The Promise.all has resolved.
LoopEnds(h) ==
  /\ loop[h] = "busy" /\ \A m \in Member : pick[h][m] = NoPick
  /\ loop' = [loop EXCEPT ![h] = "poll"]
  /\ UNCHANGED <<active, standby, stream, lock, queueVars, activation, pick, tasks, boundVars>>

SetPick(h, m, p) == pick' = [pick EXCEPT ![h][m] = p]

StepTo(h, m, step) == SetPick(h, m, [pick[h][m] EXCEPT !.step = step])

\* Seeded bug: SET without NX, so the last one has the lock.
LockWithoutNX(h, m) ==
  /\ pick[h][m].step = "lock"
  /\ lock' = [lock EXCEPT ![ResourceOf[m]] = {h}]
  /\ StepTo(h, m, "retrieve")
  /\ UNCHANGED <<active, standby, stream, queueVars, activation, loop, tasks, boundVars>>

\* SET NX and GET: the lock is ours if its value is our host name, which it is
\* as well when another callback of this host has set it.
Lock(h, m) ==
  LET r == ResourceOf[m]
  IN  /\ pick[h][m].step = "lock"
      /\ lock' = [lock EXCEPT ![r] = IF @ = {} THEN {h} ELSE @]
      /\ IF lock[r] \subseteq {h} THEN StepTo(h, m, "retrieve") ELSE SetPick(h, m, NoPick)
      /\ UNCHANGED <<active, standby, stream, queueVars, activation, loop, tasks, boundVars>>

\* Requests or tokens are overdrawn.
Exhausted(h, m) ==
  /\ pick[h][m].step = "retrieve"
  /\ standbys < MaxStandbys /\ standbys' = standbys + 1
  /\ SetPick(h, m, [NoPick EXCEPT !.step = "standby"])
  /\ UNCHANGED <<active, standby, stream, lock, queueVars, activation, loop, tasks,
                 requeues, faults>>

\* The Lua script of retrieveItems.  It takes what ZRANGE reads, or less if the
\* tokens do not suffice; the order of the queue, and the index of the processing
\* queue that is written behind it, are in BatchQueue.
Retrieve(h, m) ==
  /\ pick[h][m].step = "retrieve"
  /\ \E requests \in Available, S \in SUBSET Queue(ResourceOf[m]) :
       LET read == RangeSize(AtMost(pick[h][m].count, requests),
                             Cardinality(Queue(ResourceOf[m])))
       IN  /\ Cardinality(S) <= read
           /\ queued' = queued \ S
           /\ IF S # {}
                THEN /\ SetPick(h, m, [NoPick EXCEPT !.step = "unlock", !.items = S])
                     /\ UNCHANGED standbys
                ELSE IF read > 0
                THEN /\ SetPick(h, m, [NoPick EXCEPT !.step = "standby"])
                     /\ standbys < MaxStandbys /\ standbys' = standbys + 1
                ELSE SetPick(h, m, [NoPick EXCEPT !.step = "remove"]) /\ UNCHANGED standbys
  /\ UNCHANGED <<active, standby, stream, lock, deferred, unsent, activation, loop, tasks,
                 requeues, faults>>

\* Seeded bug: ZREM without ZADD to the standby resources.
MoveToNowhere(h, m) ==
  /\ pick[h][m].step = "standby"
  /\ active' = WithoutActive(m)
  /\ StepTo(h, m, "unlock")
  /\ UNCHANGED <<standby, stream, lock, queueVars, activation, loop, tasks, boundVars>>

\* moveBatchToStandby.
MoveToStandby(h, m) ==
  /\ pick[h][m].step = "standby"
  /\ standby' = standby \cup {m}
  /\ active' = WithoutActive(m)
  /\ StepTo(h, m, "unlock")
  /\ UNCHANGED <<stream, lock, queueVars, activation, loop, tasks, boundVars>>

\* deleteBatchResourceFromActiveResources, after the script found the queue empty.
RemoveActive(h, m) ==
  /\ pick[h][m].step = "remove"
  /\ active' = WithoutActive(m)
  /\ StepTo(h, m, "unlock")
  /\ UNCHANGED <<standby, stream, lock, queueVars, activation, loop, tasks, boundVars>>

\* DEL, whoever owns the lock by now.
Unlock(h, m) ==
  /\ pick[h][m].step = "unlock"
  /\ lock' = [lock EXCEPT ![ResourceOf[m]] = {}]
  /\ IF pick[h][m].items = {} THEN SetPick(h, m, NoPick) ELSE StepTo(h, m, "touch")
  /\ UNCHANGED <<active, standby, stream, queueVars, activation, loop, tasks, boundVars>>

\* updateActiveResourceTimestamp, without a signal, and the start of the tasks.
Touch(h, m) ==
  /\ pick[h][m].step = "touch"
  /\ active' = AddActive(m)
  /\ tasks' = [tasks EXCEPT ![h] = @ \cup pick[h][m].items]
  /\ SetPick(h, m, NoPick)
  /\ UNCHANGED <<standby, stream, lock, queueVars, activation, loop, boundVars>>

\* A call of the callback rejects: the loop goes on, the lock stays and so do the other
\* callbacks of the Promise.all; items already retrieved are in the processing queue and
\* come back from there.
CallbackThrows(h, m) ==
  /\ pick[h][m].step # "none"
  /\ Fault("throw")
  /\ deferred' = deferred \cup pick[h][m].items
  /\ SetPick(h, m, NoPick)
  /\ loop' = [loop EXCEPT ![h] = IF @ = "busy" THEN "poll" ELSE @]
  /\ UNCHANGED <<active, standby, stream, lock, queued, unsent, activation, tasks, standbys,
                 requeues>>

-----------------------------------------------------------------------------
(* Tasks, time and crashes.                                                *)

TaskEnds(h, i) ==
  /\ i \in tasks[h]
  /\ tasks' = [tasks EXCEPT ![h] = @ \ {i}]
  /\ UNCHANGED <<active, standby, stream, lock, queueVars, activation, loop, pick, boundVars>>

\* A retryable error: the item waits in the global processing queue.
TaskDefers(h, i) ==
  /\ i \in tasks[h]
  /\ requeues < MaxRequeues /\ requeues' = requeues + 1
  /\ tasks' = [tasks EXCEPT ![h] = @ \ {i}]
  /\ deferred' = deferred \cup {i}
  /\ UNCHANGED <<active, standby, stream, lock, queued, unsent, activation, loop, pick,
                 standbys, faults>>

\* The ten seconds of a lock have passed; in its section that is an adverse event.
LockExpires(r) ==
  /\ lock[r] # {}
  /\ IF \E h \in lock[r], m \in Member : ResourceOf[m] = r /\ InSection(h, m)
       THEN Fault("lockExpired")
       ELSE UNCHANGED faults
  /\ lock' = [lock EXCEPT ![r] = {}]
  /\ UNCHANGED <<active, standby, stream, queueVars, activation, loop, pick, tasks, standbys,
                 requeues>>

\* A process dies; its items are in the processing queue and come back from there.
Crash(h) ==
  /\ Fault("crash")
  /\ loop[h] # "down"
  /\ loop' = [loop EXCEPT ![h] = "down"]
  /\ deferred' = deferred \cup tasks[h] \cup UNION {pick[h][m].items : m \in Member}
  /\ tasks' = [tasks EXCEPT ![h] = {}]
  /\ pick' = [pick EXCEPT ![h] = [m \in Member |-> NoPick]]
  /\ activation' = {a \in activation : a.host # h}
  /\ UNCHANGED <<active, standby, stream, lock, queued, unsent, standbys, requeues>>

Restart(h) ==
  /\ loop[h] = "down"
  /\ loop' = [loop EXCEPT ![h] = "poll"]
  /\ UNCHANGED <<active, standby, stream, lock, queueVars, activation, pick, tasks, boundVars>>

-----------------------------------------------------------------------------
Looping(h) == Sleep(h) \/ Wake(h) \/ Poll(h) \/ LoopEnds(h) \/ Restart(h)

Picking(h, m) ==
  \/ Lock(h, m) \/ Exhausted(h, m) \/ Retrieve(h, m) \/ MoveToStandby(h, m)
  \/ RemoveActive(h, m) \/ Unlock(h, m) \/ Touch(h, m)

Sending(i) == \E h \in Host : SendItem(h, i)

Next ==
  \/ \E i \in Item : Sending(i)
  \/ \E a \in activation : Activate(a) \/ Signal(a) \/ ActivationFails(a)
  \/ \E m \in Member : ExpireStandby(m)
  \/ \E r \in Resource : LockExpires(r)
  \/ \E h \in Host :
       \/ Looping(h) \/ Crash(h)
       \/ \E m \in Member : Picking(h, m) \/ CallbackThrows(h, m)
       \/ \E i \in Item : RequeueItem(h, i) \/ TaskEnds(h, i) \/ TaskDefers(h, i)

Spec == Init /\ [][Next]_vars

\* The loops and their callbacks run on, requests are served, completions return,
\* scores and locks expire.  Each item is sent once and deferred finitely often, so that it is
\* enough if some item is sent, some task ends, some item is requeued.
Fairness ==
  /\ WF_vars(\E i \in Item : Sending(i))
  /\ WF_vars(\E a \in activation : Activate(a) \/ Signal(a))
  /\ \A m \in Member : WF_vars(ExpireStandby(m))
  /\ \A r \in Resource : WF_vars(LockExpires(r))
  /\ WF_vars(\E h \in Host, i \in Item : RequeueItem(h, i))
  /\ \A h \in Host :
       /\ WF_vars(Looping(h))
       /\ \A m \in Member : WF_vars(Picking(h, m))
       /\ WF_vars(\E i \in Item : TaskEnds(h, i))

FairSpec == Spec /\ Fairness

-----------------------------------------------------------------------------
(* Properties.                                                             *)

\* The types of all variables; the active resources are a set with an order, and no callback
\* asks for zero items.
TypeOK ==
  /\ active \in Seq(Member)
  /\ \A k, n \in DOMAIN active : active[k] = active[n] => k = n
  /\ standby \in SUBSET Member /\ stream \in Nat
  /\ lock \in [Resource -> SUBSET Host]
  /\ queued \in SUBSET Item /\ deferred \in SUBSET Item /\ unsent \in SUBSET Item
  /\ activation \in SUBSET Activation
  /\ loop \in [Host -> {"poll", "waiting", "busy", "down"}]
  /\ pick \in [Host -> [Member -> PickState]]
  /\ tasks \in [Host -> SUBSET Item]
  /\ standbys \in Nat /\ requeues \in Nat /\ faults \in Seq(Faults)

\* The workers never all sleep while a resource is active, unless a wake-up is on
\* its way: this is what the stream beside the active resources is for.
SomeoneAwake ==
  ~Happened("throw") =>
    \/ active = <<>> \/ stream > 0
    \/ \E a \in activation : a.step = "signal"
    \/ \E h \in Host : loop[h] # "waiting"

\* Items wait in the queue of r and nobody will look there.
Stranded(r) ==
  /\ Queue(r) # {}
  /\ \A m \in Member : ResourceOf[m] = r =>
       /\ ~InActive(m) /\ m \notin standby
       /\ \A i \in unsent : MemberOf[i] # m
       /\ \A a \in activation : a.step = "add" => MemberBehind(a) # m
       /\ \A h \in Host : pick[h][m].items = {}

\* A queue with items is only left to itself by a crash or a failed call, or by the removal
\* of a resource whose queue was found empty before an item was put back into it.
StrandedByRequeueOnly ==
  [][\A r \in Resource : (~Stranded(r) /\ Stranded(r)') =>
       \/ \E kind \in {"crash", "throw"} : faults' = Append(faults, kind)
       \/ /\ requeues > 0 \/ Happened("crash") \/ Happened("throw")
          /\ \E h \in Host, m \in Member :
               ResourceOf[m] = r /\ pick[h][m].step = "remove"]_vars

\* While no lock expires in its section two hosts never retrieve at once for a
\* resource that only one batch uses.
LockExclusive ==
  ~Happened("lockExpired") =>
    \A m \in Member : (\A n \in Member : ResourceOf[n] = ResourceOf[m] => n = m) =>
      \A h, g \in Host : InSection(h, m) /\ InSection(g, m) => h = g

\* The calls that failed; one in a callback ends a Promise.all before its other callbacks.
Throws == {n \in DOMAIN faults : faults[n] = "throw"}

\* "Process items concurrently (up to 1,000 concurrent tasks)": while requests are left a
\* worker keeps to its slots, however many callbacks fill them at once.  A failed call leaves
\* callbacks behind whose slots the next Poll does not see, at most a whole set each time.
TasksBounded ==
  0 \notin Available =>
    \A h \in Host : Cardinality(tasks[h]) <= MaxTasks * (1 + Cardinality(Throws))

\* All workers sleep beside an active resource: the wake-up of some resource was not sent.
Overslept == Happened("throw") /\ active # <<>> /\ \A h \in Host : loop[h] = "waiting"

\* Every item is retrieved sooner or later, unless its queue is left to itself for good, or
\* a wake-up that could not be sent is never made up for: neither standby nor a lock left
\* behind nor the end of a worker keeps an item for ever.
EventuallyRetrieved ==
  \/ <>[](unsent = {} /\ queued = {})
  \/ <>[](\E r \in Resource : Stranded(r))
  \/ <>[]Overslept
=============================================================================
