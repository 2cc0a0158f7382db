----------------------- MODULE ResourceSchedulerProofs -----------------------
(***************************************************************************)
(* Proofs about ResourceScheduler, for every number of processes, batches, *)
(* resources and items.                                                    *)
(***************************************************************************)
EXTENDS ResourceScheduler, FiniteSetTheorems, SequenceTheorems, TLAPS

\* An adverse event keeps the history a sequence of the kinds that may happen, and
\* never takes one back.
LEMMA FaultStep ==
  ASSUME faults \in Seq(Faults), NEW kind, Fault(kind)
  PROVE  /\ faults' \in Seq(Faults)
         /\ Happened(kind)'
         /\ \A k : Happened(k) => Happened(k)'
<1>1. faults' \in Seq(Faults) /\ kind \in Faults /\ Len(faults') = Len(faults) + 1
  BY DEF Fault
<1>2. \A n \in 1..Len(faults) : faults'[n] = faults[n]
  BY DEF Fault
<1>3. faults'[Len(faults) + 1] = kind
  BY DEF Fault
<1>4. DOMAIN faults = 1..Len(faults) /\ DOMAIN faults' = 1..(Len(faults) + 1) /\ Len(faults) \in Nat
  BY <1>1
<1>. QED BY <1>1, <1>2, <1>3, <1>4 DEF Happened

-----------------------------------------------------------------------------
(* Type correctness.                                                       *)

\* A sequence of members in which no member occurs twice.
IsOrder(s) ==
  s \in Seq(Member) /\ \A k, n \in DOMAIN s : s[k] = s[n] => k = n

\* Appending a member that does not occur keeps an order.
LEMMA AppendOrder ==
  ASSUME NEW s, IsOrder(s), NEW m \in Member, \A n \in DOMAIN s : s[n] # m
  PROVE  IsOrder(Append(s, m))
  BY DEF IsOrder

\* ZADD NX keeps the active resources an order.
LEMMA AddOrder ==
  ASSUME IsOrder(active), NEW m \in Member
  PROVE  IsOrder(AddActive(m))
  BY AppendOrder DEF AddActive, InActive

\* ZREM keeps them one, and the member is gone.
LEMMA WithoutOrder ==
  ASSUME IsOrder(active), NEW m \in Member
  PROVE  /\ IsOrder(WithoutActive(m))
         /\ \A n \in DOMAIN WithoutActive(m) : WithoutActive(m)[n] # m
<1>1. CASE ~InActive(m)
  BY <1>1 DEF WithoutActive, InActive
<1>2. CASE InActive(m)
  <2>. DEFINE n == CHOOSE k \in DOMAIN active : active[k] = m
              w == [k \in 1..(Len(active) - 1) |-> IF k < n THEN active[k] ELSE active[k + 1]]
  <2>1. n \in 1..Len(active) /\ active[n] = m /\ active \in Seq(Member) /\ Len(active) \in Nat
    <3>1. active \in Seq(Member) /\ \E k \in DOMAIN active : active[k] = m
      BY <1>2 DEF InActive, IsOrder
    <3>2. n \in DOMAIN active /\ active[n] = m
      BY <3>1
    <3>. QED BY <3>1, <3>2
  <2>2. WithoutActive(m) = w
    BY <1>2 DEF WithoutActive
  <2>. HIDE DEF n
  <2>3. w \in Seq(Member) /\ DOMAIN w = 1..(Len(active) - 1)
    <3>1. w \in [1..(Len(active) - 1) -> Member] /\ Len(active) - 1 \in Nat
      BY <2>1
    <3>. QED BY <3>1
  <2>4. \A k \in DOMAIN w : w[k] # m
    BY <2>1, <2>3 DEF IsOrder
  <2>5. \A j, k \in DOMAIN w : w[j] = w[k] => j = k
    BY <2>1, <2>3 DEF IsOrder
  <2>. QED BY <2>2, <2>3, <2>4, <2>5 DEF IsOrder
<1>. QED BY <1>1, <1>2

\* The values SetPick is given are well-formed.
LEMMA PickUpdate ==
  /\ NoPick \in PickState
  /\ \A p \in PickState, s \in PickSteps \ {"lock", "retrieve"} :
       [p EXCEPT !.step = s] \in PickState
  /\ \A p \in PickState : p.step = "lock" => [p EXCEPT !.step = "retrieve"] \in PickState
  /\ \A s \in PickSteps \ {"lock", "retrieve"} : [NoPick EXCEPT !.step = s] \in PickState
  /\ \A S \in SUBSET Item : [NoPick EXCEPT !.step = "unlock", !.items = S] \in PickState
  /\ \A c \in Nat \ {0} : [NoPick EXCEPT !.step = "lock", !.count = c] \in PickState
<1>. DEFINE R == [step : PickSteps, count : Nat, items : SUBSET Item]
<1>1. NoPick \in R /\ NoPick.step = "none"
  BY DEF NoPick, PickSteps
<1>2. \A p \in PickState : p \in R /\ (p.step = "lock" => p.count > 0)
  BY DEF PickState
<1>3. \A p \in R, s \in PickSteps :
        /\ [p EXCEPT !.step = s] \in R
        /\ [p EXCEPT !.step = s].step = s /\ [p EXCEPT !.step = s].count = p.count
  OBVIOUS
<1>4. \A S \in SUBSET Item : /\ [NoPick EXCEPT !.step = "unlock", !.items = S] \in R
                            /\ [NoPick EXCEPT !.step = "unlock", !.items = S].step = "unlock"
  BY DEF NoPick, PickSteps
<1>5. \A c \in Nat : /\ [NoPick EXCEPT !.step = "lock", !.count = c] \in R
                    /\ [NoPick EXCEPT !.step = "lock", !.count = c].count = c
  BY DEF NoPick, PickSteps
<1>6. \A p \in R : (p.step \in {"lock", "retrieve"} => p.count > 0) => p \in PickState
  BY DEF PickState
<1>7. \A c \in Nat \ {0} : c > 0
  OBVIOUS
<1>8. \A s \in PickSteps \ {"lock", "retrieve"} : s \in PickSteps /\ s \notin {"lock", "retrieve"}
  OBVIOUS
<1>9. "retrieve" \in PickSteps /\ "unlock" \notin {"lock", "retrieve"}
      /\ "none" \notin {"lock", "retrieve"}
  BY DEF PickSteps
<1>. HIDE DEF R
<1>10. \A p \in R : p.step \notin {"lock", "retrieve"} => p \in PickState
  BY <1>6
<1>11. NoPick \in PickState
  BY <1>1, <1>9, <1>10
<1>12. \A p \in R, s \in PickSteps \ {"lock", "retrieve"} : [p EXCEPT !.step = s] \in PickState
  BY <1>3, <1>8, <1>10
<1>13. \A p \in PickState : p.step = "lock" => [p EXCEPT !.step = "retrieve"] \in PickState
  BY <1>2, <1>3, <1>6, <1>9
<1>14. \A S \in SUBSET Item : [NoPick EXCEPT !.step = "unlock", !.items = S] \in PickState
  BY <1>4, <1>9, <1>10
<1>15. \A c \in Nat \ {0} : [NoPick EXCEPT !.step = "lock", !.count = c] \in PickState
  BY <1>5, <1>6, <1>7
<1>. QED BY <1>1, <1>2, <1>11, <1>12, <1>13, <1>14, <1>15

\* SetPick preserves the type of pick.
LEMMA SetPickType ==
  ASSUME TypeOK, NEW h \in Host, NEW m \in Member, NEW p \in PickState, SetPick(h, m, p)
  PROVE  pick' \in [Host -> [Member -> PickState]]
  BY DEF TypeOK, SetPick

\* The member behind an activation is one.
LEMMA MemberBehindType == \A a \in Activation : MemberBehind(a) \in Member
  BY SchedulerAssumption DEF Activation, MemberBehind

\* Divided among no more resources than there are slots, every resource gets one.
LEMMA ShareIsPositive ==
  ASSUME NEW free \in Nat \ {0}, NEW number \in Nat \ {0}, number <= free
  PROVE  free \div number \in Nat \ {0} /\ free % number \in Nat
  BY SMTT(30)

\* The initial values have their types.
LEMMA InitType == Init => TypeOK
<1> SUFFICES ASSUME Init PROVE TypeOK
  OBVIOUS
<1>1. active \in Seq(Member) /\ DOMAIN active = {} /\ faults \in Seq(Faults)
  BY DEF Init
<1>2. pick \in [Host -> [Member -> PickState]]
  BY PickUpdate DEF Init
<1>3. lock \in [Resource -> SUBSET Host] /\ tasks \in [Host -> SUBSET Item]
  BY DEF Init
<1>. QED BY <1>1, <1>2, <1>3 DEF Init, TypeOK

\* Every step keeps the types.
LEMMA NextType == TypeOK /\ [Next]_vars => TypeOK'
<1> SUFFICES ASSUME TypeOK, [Next]_vars PROVE TypeOK'
  OBVIOUS
<1>. USE DEF queueVars, boundVars
<1>0. IsOrder(active) /\ (IsOrder(active') <=> /\ active' \in Seq(Member)
        /\ \A k, n \in DOMAIN active' : active'[k] = active'[n] => k = n)
  BY DEF TypeOK, IsOrder
<1>1. ASSUME NEW h \in Host, NEW i \in Item, SendItem(h, i) PROVE TypeOK'
  <2>1. [host |-> h, cause |-> MemberOf[i], step |-> "add"] \in Activation
    BY SchedulerAssumption DEF Activation
  <2>. QED BY <1>1, <2>1 DEF TypeOK, SendItem
<1>2. ASSUME NEW a \in activation, Activate(a) \/ Signal(a) PROVE TypeOK'
  <2>1. a \in Activation /\ [a EXCEPT !.step = "signal"] \in Activation
    BY DEF TypeOK, Activation
  <2>2. CASE Activate(a)
    <3>1. IsOrder(active')
      BY <1>0, <2>1, <2>2, AddOrder, MemberBehindType DEF Activate
    <3>. QED BY <1>0, <2>1, <2>2, <3>1 DEF TypeOK, Activate
  <2>3. CASE Signal(a)
    BY <2>3 DEF TypeOK, Signal
  <2>. QED BY <1>2, <2>2, <2>3
<1>11. ASSUME NEW a \in activation, ActivationFails(a) PROVE TypeOK'
  <2>1. faults' \in Seq(Faults)
    BY <1>11, FaultStep DEF TypeOK, ActivationFails
  <2>. QED BY <1>11, <2>1 DEF TypeOK, ActivationFails
<1>3. ASSUME NEW m \in Member, ExpireStandby(m) PROVE TypeOK'
  <2>1. IsOrder(active')
    BY <1>0, <1>3, WithoutOrder, AppendOrder DEF ExpireStandby
  <2>. QED BY <1>0, <1>3, <2>1 DEF TypeOK, ExpireStandby
<1>4. ASSUME NEW r \in Resource, LockExpires(r) PROVE TypeOK'
  <2>1. faults' \in Seq(Faults)
    BY <1>4, FaultStep DEF TypeOK, LockExpires
  <2>. QED BY <1>4, <2>1 DEF TypeOK, LockExpires
<1>5. ASSUME NEW h \in Host, Looping(h) PROVE TypeOK'
  <2>1. CASE Poll(h)
    <3>. DEFINE free   == MaxTasks - Cardinality(tasks[h])
                number == RangeSize(AtMost(free, ResourcesPerBatch), Len(active))
                Slots(n) == free \div number + IF n = 1 THEN free % number ELSE 0
    <3>1. Cardinality(tasks[h]) \in Nat
      BY FS_CardinalityType, FS_Subset, SchedulerAssumption DEF TypeOK
    <3>2. Len(active) \in Nat \ {0}
      BY <2>1, EmptySeq DEF Poll, TypeOK
    <3>a. free \in Nat \ {0}
      <4>1. free > 0
        BY <2>1, Zenon DEF Poll
      <4>. QED BY <3>1, <4>1, SchedulerAssumption
    <3>3. free \in Nat /\ number \in Nat \ {0} /\ number <= free
      BY <3>2, <3>a, SchedulerAssumption DEF AtMost, RangeSize
    <3>. HIDE DEF number, free
    <3>4. \A n : Slots(n) \in Nat \ {0}
      BY <3>3, ShareIsPositive
    <3>5. pick' = [pick EXCEPT ![h] = [m \in Member |->
                     IF pick[h][m] = NoPick /\ \E n \in 1..number : active[n] = m
                       THEN [NoPick EXCEPT !.step = "lock",
                               !.count = Slots(CHOOSE n \in 1..number : active[n] = m)]
                       ELSE pick[h][m]]]
      BY <2>1 DEF Poll, number, free
    <3>. HIDE DEF Slots
    <3>6. pick' \in [Host -> [Member -> PickState]]
      BY <3>4, <3>5, PickUpdate DEF TypeOK
    <3>. QED BY <2>1, <3>6 DEF TypeOK, Poll
  <2>2. CASE Wake(h)
    BY <2>2 DEF TypeOK, Wake
  <2>3. CASE Sleep(h) \/ LoopEnds(h) \/ Restart(h)
    BY <2>3 DEF TypeOK, Sleep, LoopEnds, Restart
  <2>. QED BY <1>5, <2>1, <2>2, <2>3 DEF Looping
<1>6. ASSUME NEW h \in Host, Crash(h) PROVE TypeOK'
  <2>1. faults' \in Seq(Faults)
    BY <1>6, FaultStep DEF TypeOK, Crash
  <2>2. UNION {pick[h][m].items : m \in Member} \subseteq Item
    BY DEF TypeOK, PickState
  <2>3. tasks' \in [Host -> SUBSET Item] /\ pick' \in [Host -> [Member -> PickState]]
    BY <1>6, PickUpdate DEF Crash, TypeOK
  <2>4. deferred' \in SUBSET Item
    BY <1>6, <2>2 DEF Crash, TypeOK
  <2>. QED BY <1>6, <2>1, <2>3, <2>4 DEF TypeOK, Crash
<1>7. ASSUME NEW h \in Host, NEW m \in Member, CallbackThrows(h, m) PROVE TypeOK'
  <2>1. faults' \in Seq(Faults)
    BY <1>7, FaultStep DEF TypeOK, CallbackThrows
  <2>2. pick' \in [Host -> [Member -> PickState]]
    BY <1>7, SetPickType, PickUpdate DEF CallbackThrows
  <2>3. deferred' \in SUBSET Item
    BY <1>7 DEF CallbackThrows, TypeOK, PickState
  <2>. QED BY <1>7, <2>1, <2>2, <2>3 DEF TypeOK, CallbackThrows
<1>8. ASSUME NEW h \in Host, NEW m \in Member, Picking(h, m) PROVE TypeOK'
  <2>. DEFINE p == pick[h][m]
  <2>0. p \in PickState /\ ResourceOf[m] \in Resource
    BY SchedulerAssumption DEF TypeOK
  <2>1. CASE Lock(h, m)
    <3>1. pick' \in [Host -> [Member -> PickState]]
      BY <2>0, <2>1, SetPickType, PickUpdate DEF Lock, StepTo, PickSteps
    <3>. QED BY <2>0, <2>1, <3>1 DEF TypeOK, Lock
  <2>2. CASE Exhausted(h, m)
    <3>1. pick' \in [Host -> [Member -> PickState]]
      BY <2>2, SetPickType, PickUpdate DEF Exhausted, PickSteps
    <3>. QED BY <2>2, <3>1 DEF TypeOK, Exhausted
  <2>3. CASE Retrieve(h, m)
    <3>1. PICK S \in SUBSET Queue(ResourceOf[m]) :
            /\ queued' = queued \ S
            /\ \/ SetPick(h, m, [p EXCEPT !.step = "standby"])
               \/ SetPick(h, m, [NoPick EXCEPT !.step = "unlock", !.items = S])
               \/ SetPick(h, m, [NoPick EXCEPT !.step = "standby"])
               \/ SetPick(h, m, [NoPick EXCEPT !.step = "remove"])
            /\ standbys' \in {standbys, standbys + 1}
      BY <2>3 DEF Retrieve
    <3>2. S \in SUBSET Item
      BY DEF TypeOK, Queue
    <3>3. pick' \in [Host -> [Member -> PickState]]
      BY <2>0, <3>1, <3>2, SetPickType, PickUpdate DEF PickSteps
    <3>. QED BY <2>3, <3>1, <3>3 DEF TypeOK, Retrieve
  <2>4. CASE MoveToStandby(h, m)
    <3>1. IsOrder(active')
      BY <1>0, <2>4, WithoutOrder DEF MoveToStandby
    <3>2. pick' \in [Host -> [Member -> PickState]]
      BY <2>0, <2>4, SetPickType, PickUpdate DEF MoveToStandby, StepTo, PickSteps
    <3>. QED BY <1>0, <2>4, <3>1, <3>2 DEF TypeOK, MoveToStandby
  <2>5. CASE RemoveActive(h, m)
    <3>1. IsOrder(active')
      BY <1>0, <2>5, WithoutOrder DEF RemoveActive
    <3>2. pick' \in [Host -> [Member -> PickState]]
      BY <2>0, <2>5, SetPickType, PickUpdate DEF RemoveActive, StepTo, PickSteps
    <3>. QED BY <1>0, <2>5, <3>1, <3>2 DEF TypeOK, RemoveActive
  <2>6. CASE Unlock(h, m)
    <3>1. pick' \in [Host -> [Member -> PickState]]
      BY <2>0, <2>6, SetPickType, PickUpdate DEF Unlock, StepTo, PickSteps
    <3>. QED BY <2>6, <3>1 DEF TypeOK, Unlock
  <2>7. CASE Touch(h, m)
    <3>1. IsOrder(active')
      BY <1>0, <2>7, AddOrder DEF Touch
    <3>2. pick' \in [Host -> [Member -> PickState]]
      BY <2>7, SetPickType, PickUpdate DEF Touch
    <3>3. tasks' \in [Host -> SUBSET Item]
      BY <2>0, <2>7 DEF Touch, TypeOK, PickState
    <3>. QED BY <1>0, <2>7, <3>1, <3>2, <3>3 DEF TypeOK, Touch
  <2>. QED BY <1>8, <2>1, <2>2, <2>3, <2>4, <2>5, <2>6, <2>7 DEF Picking
<1>9. ASSUME NEW h \in Host, NEW i \in Item,
             RequeueItem(h, i) \/ TaskEnds(h, i) \/ TaskDefers(h, i)
      PROVE  TypeOK'
  <2>1. CASE RequeueItem(h, i)
    <3>1. [host |-> h, cause |-> i, step |-> "add"] \in Activation
      BY DEF Activation
    <3>. QED BY <2>1, <3>1 DEF TypeOK, RequeueItem
  <2>2. CASE TaskEnds(h, i)
    BY <2>2 DEF TypeOK, TaskEnds
  <2>3. CASE TaskDefers(h, i)
    BY <2>3 DEF TypeOK, TaskDefers
  <2>. QED BY <1>9, <2>1, <2>2, <2>3
<1>10. CASE UNCHANGED vars
  BY <1>10 DEF TypeOK, vars
<1>. QED BY <1>1, <1>2, <1>3, <1>4, <1>5, <1>6, <1>7, <1>8, <1>9, <1>10, <1>11 DEF Next, Sending

\* The variables keep their types; in particular the active resources stay a set
\* with an order, whoever adds, moves and removes them.
THEOREM SchedulerTypeCorrect == Spec => []TypeOK
  BY InitType, NextType, PTL DEF Spec

-----------------------------------------------------------------------------
(* The workers do not all sleep.                                           *)
(*                                                                         *)
(* The loop of a worker that is inside a Promise.all is not waiting, unless *)
(* a failed call has ended it early; so whoever takes a member out of the   *)
(* active resources or puts one in without a signal is awake itself.       *)

\* The inductive invariant: a callback runs inside its loop.
CallbackInLoop ==
  ~Happened("throw") =>
    \A h \in Host, m \in Member : pick[h][m].step # "none" => loop[h] = "busy"

\* SetPick changes one callback.
LEMMA SetPickEffect ==
  ASSUME TypeOK, NEW h \in Host, NEW m \in Member, NEW p, SetPick(h, m, p)
  PROVE  \A g \in Host, n \in Member :
           pick'[g][n] = IF g = h /\ n = m THEN p ELSE pick[g][n]
  BY DEF TypeOK, SetPick

\* A callback that makes a step, whatever it turns into, has been running before.
LEMMA PickingEffect ==
  ASSUME TypeOK, NEW h \in Host, NEW m \in Member, Picking(h, m)
  PROVE  /\ pick[h][m].step # "none"
         /\ \E p : SetPick(h, m, p)
         /\ loop' = loop /\ faults' = faults /\ stream' = stream /\ activation' = activation
<1>. USE DEF queueVars, boundVars
<1>1. CASE Retrieve(h, m)
  <2>1. \E p : SetPick(h, m, p)
    BY <1>1 DEF Retrieve, StepTo
  <2>. QED BY <1>1, <2>1 DEF Retrieve
<1>2. CASE Lock(h, m)
  <2>1. \E p : SetPick(h, m, p)
    BY <1>2 DEF Lock, StepTo
  <2>. QED BY <1>2, <2>1 DEF Lock
<1>3. CASE Exhausted(h, m) \/ MoveToStandby(h, m) \/ RemoveActive(h, m)
  BY <1>3 DEF Exhausted, MoveToStandby, RemoveActive, StepTo
<1>4. CASE Unlock(h, m) \/ Touch(h, m)
  <2>1. \E p : SetPick(h, m, p)
    BY <1>4 DEF Unlock, Touch, StepTo
  <2>. QED BY <1>4, <2>1 DEF Unlock, Touch
<1>. QED BY <1>1, <1>2, <1>3, <1>4, Picking(h, m) DEF Picking

\* Adverse events are the only change of the history.
LEMMA NextFaults == [Next]_vars => faults' = faults \/ \E kind : Fault(kind)
<1> SUFFICES ASSUME [Next]_vars PROVE faults' = faults \/ \E kind : Fault(kind)
  OBVIOUS
<1>. USE DEF queueVars, boundVars
<1>1. ASSUME NEW h \in Host, NEW i \in Item,
             SendItem(h, i) \/ RequeueItem(h, i) \/ TaskEnds(h, i) \/ TaskDefers(h, i)
      PROVE  faults' = faults
  BY <1>1 DEF SendItem, RequeueItem, TaskEnds, TaskDefers
<1>2. ASSUME NEW a \in activation, Activate(a) \/ Signal(a) PROVE faults' = faults
  BY <1>2 DEF Activate, Signal
<1>3. ASSUME NEW m \in Member, ExpireStandby(m) PROVE faults' = faults
  BY <1>3 DEF ExpireStandby
<1>4. ASSUME NEW r \in Resource, LockExpires(r)
      PROVE  faults' = faults \/ \E kind : Fault(kind)
  BY <1>4 DEF LockExpires
<1>5. ASSUME NEW h \in Host, Looping(h) PROVE faults' = faults
  <2>1. CASE Poll(h)
    BY <2>1, Zenon DEF Poll
  <2>. QED BY <1>5, <2>1 DEF Looping, Sleep, Wake, LoopEnds, Restart
<1>6. ASSUME NEW h \in Host, NEW m \in Member, Picking(h, m) PROVE faults' = faults
  <2>1. CASE Retrieve(h, m)
    BY <2>1 DEF Retrieve
  <2>2. CASE Lock(h, m)
    BY <2>2 DEF Lock
  <2>. QED BY <1>6, <2>1, <2>2 DEF Picking, Exhausted, MoveToStandby, RemoveActive, Unlock, Touch
<1>7. ASSUME NEW h \in Host, Crash(h) \/ \E m \in Member : CallbackThrows(h, m)
      PROVE  \E kind : Fault(kind)
  BY <1>7 DEF Crash, CallbackThrows
<1>9. ASSUME NEW a \in activation, ActivationFails(a) PROVE \E kind : Fault(kind)
  BY <1>9 DEF ActivationFails
<1>8. CASE UNCHANGED vars
  BY <1>8 DEF vars
<1>. QED BY <1>1, <1>2, <1>3, <1>4, <1>5, <1>6, <1>7, <1>8, <1>9 DEF Next, Sending

\* The events of the past stay.
LEMMA HappenedStays ==
  ASSUME TypeOK, [Next]_vars
  PROVE  \A k : Happened(k) => Happened(k)'
<1>1. ASSUME faults' = faults PROVE \A k : Happened(k) => Happened(k)'
  BY <1>1 DEF Happened
<1>2. ASSUME NEW kind, Fault(kind) PROVE \A k : Happened(k) => Happened(k)'
  BY <1>2, FaultStep DEF TypeOK
<1>3. faults' = faults \/ \E kind : Fault(kind)
  BY NextFaults
<1>. QED BY <1>1, <1>2, <1>3

\* A step of the loops other than that of a callback: it starts callbacks only
\* when the loop becomes busy, and leaves busy only when they have all ended.
LEMMA NextCallbackInLoop == TypeOK /\ CallbackInLoop /\ [Next]_vars => CallbackInLoop'
<1> SUFFICES ASSUME TypeOK, CallbackInLoop, [Next]_vars, ~Happened("throw")'
             PROVE  \A h \in Host, m \in Member :
                      pick'[h][m].step # "none" => loop'[h] = "busy"
  BY DEF CallbackInLoop
<1>. USE DEF queueVars, boundVars
<1>0. \A h \in Host, m \in Member : pick[h][m].step # "none" => loop[h] = "busy"
  BY HappenedStays DEF CallbackInLoop
<1>. DEFINE Goal == \A h \in Host, m \in Member :
                      pick'[h][m].step # "none" => loop'[h] = "busy"
<1>1. ASSUME pick' = pick, loop' = loop PROVE Goal
  BY <1>0, <1>1
<1>2. ASSUME NEW h \in Host, NEW i \in Item,
             SendItem(h, i) \/ RequeueItem(h, i) \/ TaskEnds(h, i) \/ TaskDefers(h, i)
      PROVE  Goal
  BY <1>1, <1>2 DEF SendItem, RequeueItem, TaskEnds, TaskDefers
<1>3. ASSUME NEW a \in activation, Activate(a) \/ Signal(a) \/ ActivationFails(a) PROVE Goal
  BY <1>1, <1>3 DEF Activate, Signal, ActivationFails
<1>4. ASSUME NEW m \in Member, ExpireStandby(m) PROVE Goal
  BY <1>1, <1>4 DEF ExpireStandby
<1>5. ASSUME NEW r \in Resource, LockExpires(r) PROVE Goal
  BY <1>1, <1>5 DEF LockExpires
<1>6. ASSUME NEW h \in Host, Looping(h) PROVE Goal
  <2>1. CASE Poll(h)
    <3>1. \A g \in Host : g # h => pick'[g] = pick[g] /\ loop'[g] = loop[g]
      BY <2>1, Zenon DEF Poll, TypeOK
    <3>2. loop'[h] = "busy"
      BY <2>1 DEF Poll, TypeOK
    <3>. QED BY <1>0, <3>1, <3>2
  <2>2. CASE LoopEnds(h)
    <3>1. \A m \in Member : pick[h][m].step = "none"
      BY <2>2 DEF LoopEnds, NoPick
    <3>2. \A g \in Host : g # h => loop'[g] = loop[g]
      BY <2>2 DEF LoopEnds, TypeOK
    <3>3. pick' = pick
      BY <2>2 DEF LoopEnds
    <3>. QED BY <1>0, <3>1, <3>2, <3>3
  <2>3. CASE Sleep(h) \/ Wake(h) \/ Restart(h)
    <3>1. \A g \in Host : loop[g] = "busy" => loop'[g] = "busy"
      BY <2>3 DEF Sleep, Wake, Restart, TypeOK
    <3>2. pick' = pick
      BY <2>3 DEF Sleep, Wake, Restart
    <3>. QED BY <1>0, <3>1, <3>2
  <2>. QED BY <1>6, <2>1, <2>2, <2>3 DEF Looping
<1>7. ASSUME NEW h \in Host, Crash(h) PROVE Goal
  <2>1. \A m \in Member : pick'[h][m].step = "none"
    BY <1>7 DEF Crash, TypeOK, NoPick
  <2>2. \A g \in Host : g # h => pick'[g] = pick[g] /\ loop'[g] = loop[g]
    BY <1>7 DEF Crash, TypeOK
  <2>. QED BY <1>0, <2>1, <2>2
<1>8. ASSUME NEW h \in Host, NEW m \in Member, CallbackThrows(h, m) PROVE Goal
  BY <1>8, FaultStep DEF CallbackThrows, TypeOK
<1>9. ASSUME NEW h \in Host, NEW m \in Member, Picking(h, m) PROVE Goal
  <2>1. PICK p : SetPick(h, m, p)
    BY <1>9, PickingEffect
  <2>2. loop' = loop /\ loop[h] = "busy"
    BY <1>0, <1>9, PickingEffect
  <2>. QED BY <1>0, <2>1, <2>2, SetPickEffect
<1>10. CASE UNCHANGED vars
  BY <1>1, <1>10 DEF vars
<1>. QED BY <1>2, <1>3, <1>4, <1>5, <1>6, <1>7, <1>8, <1>9, <1>10 DEF Next, Sending

\* Every step keeps somebody awake, or a wake-up on its way.
LEMMA NextAwake ==
  TypeOK /\ CallbackInLoop /\ SomeoneAwake /\ [Next]_vars => SomeoneAwake'
<1> SUFFICES ASSUME TypeOK, CallbackInLoop, SomeoneAwake, [Next]_vars, ~Happened("throw")'
             PROVE  \/ active' = <<>> \/ stream' > 0
                    \/ \E a \in activation' : a.step = "signal"
                    \/ \E h \in Host : loop'[h] # "waiting"
  BY DEF SomeoneAwake
<1>. USE DEF queueVars, boundVars
<1>. DEFINE Goal == \/ active' = <<>> \/ stream' > 0
                    \/ \E a \in activation' : a.step = "signal"
                    \/ \E h \in Host : loop'[h] # "waiting"
<1>0. /\ ~Happened("throw")
      /\ \/ active = <<>> \/ stream > 0
         \/ \E a \in activation : a.step = "signal"
         \/ \E h \in Host : loop[h] # "waiting"
  BY HappenedStays DEF SomeoneAwake
<1>1. ASSUME active' = active, stream' = stream, loop' = loop,
             \A a \in activation : a.step = "signal" => a \in activation'
      PROVE  Goal
  BY <1>0, <1>1
<1>2. ASSUME NEW h \in Host, NEW i \in Item,
             SendItem(h, i) \/ RequeueItem(h, i) \/ TaskEnds(h, i) \/ TaskDefers(h, i)
      PROVE  Goal
  BY <1>1, <1>2 DEF SendItem, RequeueItem, TaskEnds, TaskDefers
<1>3. ASSUME NEW a \in activation, Activate(a) PROVE Goal
  <2>1. CASE InActive(MemberBehind(a))
    BY <1>1, <1>3, <2>1 DEF Activate, AddActive
  <2>2. CASE ~InActive(MemberBehind(a))
    <3>1. [a EXCEPT !.step = "signal"] \in activation'
      BY <1>3, <2>2 DEF Activate
    <3>2. [a EXCEPT !.step = "signal"].step = "signal"
      BY DEF TypeOK, Activation
    <3>. QED BY <3>1, <3>2
  <2>. QED BY <2>1, <2>2
<1>4. ASSUME NEW a \in activation, Signal(a) PROVE Goal
  BY <1>4 DEF Signal, TypeOK
<1>12. ASSUME NEW a \in activation, ActivationFails(a) PROVE Goal
  BY <1>12, FaultStep DEF ActivationFails, TypeOK
<1>5. ASSUME NEW m \in Member, ExpireStandby(m) PROVE Goal
  BY <1>5 DEF ExpireStandby, TypeOK
<1>6. ASSUME NEW r \in Resource, LockExpires(r) PROVE Goal
  BY <1>1, <1>6 DEF LockExpires
<1>7. ASSUME NEW h \in Host, Looping(h) PROVE Goal
  <2>1. CASE Poll(h)
    <3>1. loop'[h] = "busy"
      BY <2>1 DEF Poll, TypeOK
    <3>. QED BY <3>1
  <2>2. CASE Sleep(h)
    BY <2>2 DEF Sleep
  <2>3. CASE LoopEnds(h) \/ Wake(h) \/ Restart(h)
    <3>1. loop'[h] = "poll"
      BY <2>3 DEF LoopEnds, Wake, Restart, TypeOK
    <3>. QED BY <3>1
  <2>. QED BY <1>7, <2>1, <2>2, <2>3 DEF Looping
<1>8. ASSUME NEW h \in Host, Crash(h) PROVE Goal
  <2>1. loop'[h] = "down"
    BY <1>8 DEF Crash, TypeOK
  <2>. QED BY <2>1
<1>9. ASSUME NEW h \in Host, NEW m \in Member, CallbackThrows(h, m) PROVE Goal
  BY <1>9, FaultStep DEF CallbackThrows, TypeOK
<1>10. ASSUME NEW h \in Host, NEW m \in Member, Picking(h, m) PROVE Goal
  <2>1. loop'[h] = "busy"
    BY <1>0, <1>10, PickingEffect DEF CallbackInLoop
  <2>. QED BY <2>1
<1>11. CASE UNCHANGED vars
  BY <1>1, <1>11 DEF vars
<1>. QED BY <1>2, <1>3, <1>4, <1>5, <1>6, <1>7, <1>8, <1>9, <1>10, <1>11, <1>12 DEF Next, Sending

\* No lost wake-up: unless a call fails, which may end a Promise.all early, the workers never
\* all block in XREADGROUP while a resource is active and no entry is on its way,
\* also if processes crash and are restarted.
THEOREM SomeoneAwakeHolds == Spec => []SomeoneAwake
<1>1. Init => CallbackInLoop /\ SomeoneAwake
  BY DEF Init, CallbackInLoop, SomeoneAwake, NoPick
<1>. QED BY <1>1, NextCallbackInLoop, NextAwake, SchedulerTypeCorrect, PTL DEF Spec

-----------------------------------------------------------------------------
(* The locks.                                                              *)

\* The batch and resource m is the only one of its resource.
Sole(m) == \A n \in Member : ResourceOf[n] = ResourceOf[m] => n = m

\* The inductive invariant: whoever is in a section owns the lock, if no lock has
\* expired there; a lock has one owner.
OwnsLock ==
  /\ \A r \in Resource : \A h, g \in lock[r] : h = g
  /\ ~Happened("lockExpired") =>
       \A h \in Host, m \in Member :
         (Sole(m) /\ InSection(h, m)) => h \in lock[ResourceOf[m]]

\* The steps that leave the locks alone, and enter no section.
LEMMA LockKept ==
  ASSUME OwnsLock, lock' = lock, Happened("lockExpired") => Happened("lockExpired")',
         \A h \in Host, m \in Member : InSection(h, m)' => InSection(h, m)
  PROVE  OwnsLock'
  BY DEF OwnsLock

\* The lock is taken before a section is entered, and only the owner of the lock
\* of a resource with one batch gives it back.
LEMMA NextOwnsLock == TypeOK /\ OwnsLock /\ [Next]_vars => OwnsLock'
<1> SUFFICES ASSUME TypeOK, OwnsLock, [Next]_vars PROVE OwnsLock'
  OBVIOUS
<1>. USE DEF queueVars, boundVars
<1>0. Happened("lockExpired") => Happened("lockExpired")'
  BY HappenedStays
<1>a. \A m \in Member : ResourceOf[m] \in Resource
  BY SchedulerAssumption
<1>1. ASSUME pick' = pick, lock' = lock PROVE OwnsLock'
  BY <1>0, <1>1, LockKept DEF InSection
<1>2. ASSUME NEW h \in Host, NEW i \in Item,
             SendItem(h, i) \/ RequeueItem(h, i) \/ TaskEnds(h, i) \/ TaskDefers(h, i)
      PROVE  OwnsLock'
  BY <1>1, <1>2 DEF SendItem, RequeueItem, TaskEnds, TaskDefers
<1>3. ASSUME NEW a \in activation, Activate(a) \/ Signal(a) \/ ActivationFails(a)
      PROVE  OwnsLock'
  BY <1>1, <1>3 DEF Activate, Signal, ActivationFails
<1>4. ASSUME NEW m \in Member, ExpireStandby(m) PROVE OwnsLock'
  BY <1>1, <1>4 DEF ExpireStandby
<1>5. ASSUME NEW r \in Resource, LockExpires(r) PROVE OwnsLock'
  <2>1. \A s \in Resource : lock'[s] = IF s = r THEN {} ELSE lock[s]
    BY <1>5 DEF LockExpires, TypeOK
  <2>2. CASE \E h \in lock[r], m \in Member : ResourceOf[m] = r /\ InSection(h, m)
    <3>1. Happened("lockExpired")'
      BY <1>5, <2>2, FaultStep DEF LockExpires, TypeOK
    <3>. QED BY <2>1, <3>1 DEF OwnsLock
  <2>3. CASE ~\E h \in lock[r], m \in Member : ResourceOf[m] = r /\ InSection(h, m)
    <3>1. \A g \in Host, m \in Member : InSection(g, m)' <=> InSection(g, m)
      BY <1>5 DEF LockExpires, InSection
    <3>2. \A g \in Host, m \in Member :
            (~Happened("lockExpired") /\ Sole(m) /\ InSection(g, m)) => ResourceOf[m] # r
      BY <2>3 DEF OwnsLock
    <3>3. \A s \in Resource : \A g, k \in lock'[s] : g = k
      BY <2>1 DEF OwnsLock
    <3>4. ASSUME ~Happened("lockExpired")', NEW g \in Host, NEW m \in Member,
                 Sole(m), InSection(g, m)'
          PROVE  g \in lock'[ResourceOf[m]]
      <4>1. InSection(g, m) /\ ~Happened("lockExpired")
        BY <1>0, <3>1, <3>4
      <4>2. g \in lock[ResourceOf[m]] /\ ResourceOf[m] # r
        BY <3>2, <3>4, <4>1 DEF OwnsLock
      <4>. QED BY <1>a, <2>1, <4>2
    <3>. QED BY <3>3, <3>4 DEF OwnsLock
  <2>. QED BY <2>2, <2>3
<1>6. ASSUME NEW h \in Host, Looping(h) PROVE OwnsLock'
  <2>1. CASE Poll(h)
    <3>1. \A g \in Host, m \in Member : pick'[g][m] = pick[g][m] \/ pick'[g][m].step = "lock"
      <4>. DEFINE free   == MaxTasks - Cardinality(tasks[h])
                  number == RangeSize(AtMost(free, ResourcesPerBatch), Len(active))
                  Slots(n) == free \div number + IF n = 1 THEN free % number ELSE 0
      <4>1. pick' = [pick EXCEPT ![h] = [m \in Member |->
                       IF pick[h][m] = NoPick /\ \E n \in 1..number : active[n] = m
                         THEN [NoPick EXCEPT !.step = "lock",
                                 !.count = Slots(CHOOSE n \in 1..number : active[n] = m)]
                         ELSE pick[h][m]]]
        BY <2>1 DEF Poll
      <4>2. \A c : [NoPick EXCEPT !.step = "lock", !.count = c].step = "lock"
        BY DEF NoPick
      <4>. HIDE DEF free, number, Slots
      <4>. QED BY <4>1, <4>2 DEF TypeOK
    <3>2. \A g \in Host, m \in Member : InSection(g, m)' => InSection(g, m)
      BY <3>1 DEF InSection
    <3>3. lock' = lock
      BY <2>1, Zenon DEF Poll
    <3>. QED BY <1>0, <3>2, <3>3, LockKept
  <2>2. CASE Sleep(h) \/ Wake(h) \/ LoopEnds(h) \/ Restart(h)
    BY <1>1, <2>2 DEF Sleep, Wake, LoopEnds, Restart
  <2>. QED BY <1>6, <2>1, <2>2 DEF Looping
<1>7. ASSUME NEW h \in Host, Crash(h) PROVE OwnsLock'
  <2>1. \A g \in Host, m \in Member : pick'[g][m] = IF g = h THEN NoPick ELSE pick[g][m]
    BY <1>7 DEF Crash, TypeOK
  <2>2. \A g \in Host, m \in Member : InSection(g, m)' => InSection(g, m)
    BY <2>1 DEF InSection, NoPick
  <2>. QED BY <1>0, <1>7, <2>2, LockKept DEF Crash
<1>8. ASSUME NEW h \in Host, NEW m \in Member, NEW p, SetPick(h, m, p), lock' = lock,
             p.step \in {"retrieve", "standby", "remove", "unlock"} => InSection(h, m)
      PROVE  OwnsLock'
  <2>1. \A g \in Host, n \in Member : InSection(g, n)' => InSection(g, n)
    BY <1>8, SetPickEffect DEF InSection
  <2>. QED BY <1>0, <1>8, <2>1, LockKept
<1>9. ASSUME NEW h \in Host, NEW m \in Member, CallbackThrows(h, m) PROVE OwnsLock'
  BY <1>8, <1>9 DEF CallbackThrows, NoPick
<1>10. ASSUME NEW h \in Host, NEW m \in Member, Picking(h, m) PROVE OwnsLock'
  <2>. DEFINE r == ResourceOf[m]
  <2>1. CASE Lock(h, m)
    <3>1. \A s \in Resource : lock'[s] = IF s = r /\ lock[r] = {} THEN {h} ELSE lock[s]
      BY <2>1 DEF Lock, TypeOK
    <3>2. CASE lock[r] \subseteq {h}
      <4>1. h \in lock'[r]
        BY <1>a, <3>1, <3>2
      <4>2. PICK p : SetPick(h, m, p)
        BY <2>1, <3>2 DEF Lock, StepTo
      <4>3. \A g \in Host, n \in Member :
              InSection(g, n)' => (InSection(g, n) \/ (g = h /\ n = m))
        BY <4>2, SetPickEffect DEF InSection
      <4>. QED BY <1>0, <1>a, <3>1, <4>1, <4>3 DEF OwnsLock
    <3>3. CASE ~(lock[r] \subseteq {h})
      <4>1. SetPick(h, m, NoPick)
        BY <2>1, <3>3 DEF Lock
      <4>2. lock' = lock
        BY <2>1, <3>3 DEF Lock, TypeOK
      <4>. QED BY <1>8, <4>1, <4>2 DEF NoPick
    <3>. QED BY <3>2, <3>3
  <2>2. CASE Unlock(h, m)
    <3>1. \A s \in Resource : lock'[s] = IF s = r THEN {} ELSE lock[s]
      BY <2>2 DEF Unlock, TypeOK
    <3>2. \A g \in Host, n \in Member :
            InSection(g, n)' => InSection(g, n) /\ ~(g = h /\ n = m)
      <4>1. \A g \in Host, n \in Member : ~(g = h /\ n = m) => pick'[g][n] = pick[g][n]
        BY <2>2, SetPickEffect DEF Unlock, StepTo
      <4>2. pick'[h][m].step \in {"none", "touch"}
        <5>1. [pick[h][m] EXCEPT !.step = "touch"].step = "touch" /\ NoPick.step = "none"
          BY DEF TypeOK, PickState, NoPick
        <5>2. CASE SetPick(h, m, NoPick)
          BY <5>1, <5>2, SetPickEffect
        <5>3. CASE SetPick(h, m, [pick[h][m] EXCEPT !.step = "touch"])
          <6>. DEFINE touched == [pick[h][m] EXCEPT !.step = "touch"]
          <6>1. SetPick(h, m, touched) /\ touched.step = "touch"
            BY <5>1, <5>3
          <6>. HIDE DEF touched
          <6>. QED BY <6>1, SetPickEffect
        <5>. QED BY <2>2, <5>2, <5>3 DEF Unlock, StepTo
      <4>. QED BY <4>1, <4>2 DEF InSection
    <3>3. InSection(h, m)
      BY <2>2 DEF Unlock, InSection
    <3>4. \A g \in Host, n \in Member :
            (~Happened("lockExpired") /\ Sole(n) /\ InSection(g, n) /\ ~(g = h /\ n = m))
              => ResourceOf[n] # r
      BY <1>a, <3>3 DEF OwnsLock, Sole
    <3>. QED BY <1>0, <1>a, <3>1, <3>2, <3>4 DEF OwnsLock
  <2>3. CASE Retrieve(h, m)
    <3>1. PICK p : SetPick(h, m, p)
      BY <2>3 DEF Retrieve, StepTo
    <3>2. lock' = lock /\ InSection(h, m)
      BY <2>3 DEF Retrieve, InSection
    <3>. QED BY <1>8, <3>1, <3>2
  <2>4. CASE Exhausted(h, m) \/ MoveToStandby(h, m) \/ RemoveActive(h, m)
    <3>1. PICK p : SetPick(h, m, p)
      BY <2>4 DEF Exhausted, MoveToStandby, RemoveActive, StepTo
    <3>2. lock' = lock /\ InSection(h, m)
      BY <2>4 DEF Exhausted, MoveToStandby, RemoveActive, InSection
    <3>. QED BY <1>8, <3>1, <3>2
  <2>5. CASE Touch(h, m)
    BY <1>8, <2>5 DEF Touch, NoPick
  <2>. QED BY <1>10, <2>1, <2>2, <2>3, <2>4, <2>5 DEF Picking
<1>11. CASE UNCHANGED vars
  BY <1>1, <1>11 DEF vars
<1>. QED BY <1>2, <1>3, <1>4, <1>5, <1>6, <1>7, <1>9, <1>10, <1>11 DEF Next, Sending

\* Two processes are never both between lockResource and unlockResource for a
\* resource of one batch, unless the ten seconds of the lock pass there.
THEOREM LockExclusiveHolds == Spec => []LockExclusive
<1>1. Init => OwnsLock
  BY SchedulerAssumption DEF Init, OwnsLock, InSection, NoPick
<1>2. OwnsLock => LockExclusive
  BY SchedulerAssumption DEF OwnsLock, LockExclusive, Sole
<1>. QED BY <1>1, <1>2, NextOwnsLock, SchedulerTypeCorrect, PTL DEF Spec
-----------------------------------------------------------------------------
(* The tasks.                                                              *)
(*                                                                         *)
(* Poll shares the free slots among the callbacks it starts; a callback    *)
(* retrieves no more items than it has slots, and starts their tasks.  The *)
(* slots in the hands of callbacks and the running tasks stay within       *)
(* MaxTasks together; each failed call may lose sight of MaxTasks slots.   *)

\* The slots a callback may still fill.
Reserve(p) ==
  IF p.step \in {"lock", "retrieve"} THEN p.count
  ELSE IF p.step \in {"unlock", "touch"} THEN Cardinality(p.items) ELSE 0

\* The slots of the callbacks of h, numbered per callback.
Reserved(h) == {s \in Member \X (1..MaxTasks) : s[2] <= Reserve(pick[h][s[1]])}

Stock(h) == Cardinality(Reserved(h))

\* The slots that the failed calls so far may have lost sight of.
Lost == MaxTasks * Cardinality(Throws)

\* A callback has at most MaxTasks slots, and no items before it has retrieved them.
Sized(p) ==
  /\ Reserve(p) <= MaxTasks
  /\ p.step \notin {"unlock", "touch"} => p.items = {}

\* The inductive invariant.
Budget ==
  \A h \in Host :
    /\ \A m \in Member : Sized(pick[h][m])
    /\ Stock(h) + Cardinality(tasks[h]) <= MaxTasks + Lost
    /\ loop[h] # "busy" => Stock(h) <= Lost

\* The numbers are natural numbers.
LEMMA BudgetTypes ==
  ASSUME TypeOK
  PROVE  /\ Cardinality(Throws) \in Nat /\ Lost \in Nat
         /\ \A p \in PickState : Reserve(p) \in Nat
         /\ \A h \in Host : /\ IsFiniteSet(Reserved(h)) /\ Stock(h) \in Nat
                            /\ IsFiniteSet(tasks[h]) /\ Cardinality(tasks[h]) \in Nat
<1>1. IsFiniteSet(Throws) /\ Cardinality(Throws) \in Nat
  <2>1. Throws \subseteq 1..Len(faults) /\ Len(faults) \in Nat
    BY DEF Throws, TypeOK
  <2>2. IsFiniteSet(1..Len(faults))
    BY <2>1, FS_Interval
  <2>. QED BY <2>1, <2>2, FS_Subset, FS_CardinalityType
<1>2. Lost \in Nat
  BY <1>1, SchedulerAssumption DEF Lost
<1>3. ASSUME NEW p \in PickState PROVE Reserve(p) \in Nat
  <2>1. Cardinality(p.items) \in Nat
    BY SchedulerAssumption, FS_Subset, FS_CardinalityType DEF PickState
  <2>. QED BY <2>1 DEF Reserve, PickState
<1>4. ASSUME NEW h \in Host PROVE IsFiniteSet(Reserved(h)) /\ Stock(h) \in Nat
  <2>1. IsFiniteSet(1..MaxTasks)
    BY SchedulerAssumption, FS_Interval
  <2>2. IsFiniteSet(Member \X (1..MaxTasks))
    BY <2>1, SchedulerAssumption, FS_Product
  <2>3. Reserved(h) \subseteq Member \X (1..MaxTasks)
    BY DEF Reserved
  <2>. QED BY <2>2, <2>3, FS_Subset, FS_CardinalityType DEF Stock
<1>5. ASSUME NEW h \in Host PROVE IsFiniteSet(tasks[h]) /\ Cardinality(tasks[h]) \in Nat
  BY SchedulerAssumption, FS_Subset, FS_CardinalityType DEF TypeOK
<1>. QED BY <1>1, <1>2, <1>3, <1>4, <1>5

\* A failed call is counted, and nothing takes one back.
LEMMA LostSteps ==
  ASSUME TypeOK, [Next]_vars
  PROVE  /\ Lost' \in Nat /\ Lost' >= Lost
         /\ Fault("throw") => Lost' = Lost + MaxTasks
<1>. DEFINE last == Len(faults) + 1
<1>1. ASSUME NEW kind, Fault(kind)
      PROVE  Throws' = IF kind = "throw" THEN Throws \cup {last} ELSE Throws
  <2>1. faults' = Append(faults, kind) /\ faults \in Seq(Faults) /\ kind \in Faults
    BY <1>1 DEF Fault, TypeOK
  <2>2. /\ DOMAIN faults = 1..Len(faults) /\ DOMAIN faults' = 1..last /\ Len(faults) \in Nat
        /\ faults'[last] = kind /\ \A n \in 1..Len(faults) : faults'[n] = faults[n]
    BY <2>1
  <2>. QED BY <2>2 DEF Throws
<1>2. IsFiniteSet(Throws) /\ last \notin Throws
  <2>1. Throws \subseteq 1..Len(faults) /\ Len(faults) \in Nat
    BY DEF Throws, TypeOK
  <2>2. IsFiniteSet(1..Len(faults)) /\ last \notin 1..Len(faults)
    BY <2>1, FS_Interval
  <2>. QED BY <2>1, <2>2, FS_Subset
<1>3. ASSUME Fault("throw") PROVE Lost' = Lost + MaxTasks
  <2>1. Cardinality(Throws') = Cardinality(Throws) + 1
    BY <1>1, <1>2, <1>3, FS_AddElement
  <2>. QED BY <2>1, BudgetTypes, SchedulerAssumption DEF Lost
<1>4. ASSUME NEW kind, Fault(kind), kind # "throw" PROVE Lost' = Lost
  BY <1>1, <1>4 DEF Lost
<1>5. ASSUME faults' = faults PROVE Lost' = Lost
  BY <1>5 DEF Lost, Throws
<1>. QED BY <1>3, <1>4, <1>5, NextFaults, BudgetTypes, SchedulerAssumption

\* A callback that turns into p gives slots back.
LEMMA StockPick ==
  ASSUME TypeOK, Budget, NEW h \in Host, NEW m \in Member, NEW p \in PickState, SetPick(h, m, p),
         Reserve(p) <= Reserve(pick[h][m])
  PROVE  \A g \in Host :
           Stock(g)' = IF g = h THEN Stock(g) - (Reserve(pick[h][m]) - Reserve(p)) ELSE Stock(g)
<1>. DEFINE a == Reserve(p)
            b == Reserve(pick[h][m])
            D == {<<m, k>> : k \in (a + 1)..b}
<1>1. \A g \in Host, n \in Member : pick'[g][n] = IF g = h /\ n = m THEN p ELSE pick[g][n]
  BY SetPickEffect
<1>2. a \in Nat /\ b \in Nat /\ a <= b /\ b <= MaxTasks
  BY BudgetTypes DEF Budget, Sized, TypeOK
<1>3. \A g \in Host : g # h => Reserved(g)' = Reserved(g)
  BY <1>1 DEF Reserved
<1>. HIDE DEF a, b
<1>4. Reserved(h)' = Reserved(h) \ D
  <2>1. \A n \in Member : Reserve(pick'[h][n]) = IF n = m THEN a ELSE Reserve(pick[h][n])
    BY <1>1 DEF a
  <2>2. Reserved(h)' = {s \in Member \X (1..MaxTasks) :
                          s[2] <= IF s[1] = m THEN a ELSE Reserve(pick[h][s[1]])}
    BY <2>1 DEF Reserved
  <2>3. ASSUME NEW n \in Member, NEW k \in 1..MaxTasks
        PROVE  <<n, k>> \in Reserved(h)' <=> <<n, k>> \in Reserved(h) \ D
    <3>1. <<n, k>> \in D <=> n = m /\ k \in (a + 1)..b
      OBVIOUS
    <3>2. <<n, k>> \in Reserved(h) <=> k <= Reserve(pick[h][n])
      BY DEF Reserved
    <3>3. <<n, k>> \in Reserved(h)' <=> k <= IF n = m THEN a ELSE Reserve(pick[h][n])
      BY <2>2
    <3>4. CASE n = m
      BY <1>2, <3>1, <3>2, <3>3, <3>4 DEF b
    <3>5. CASE n # m
      BY <3>1, <3>2, <3>3, <3>5
    <3>. QED BY <3>4, <3>5
  <2>4. Reserved(h)' \subseteq Member \X (1..MaxTasks) /\ Reserved(h) \subseteq Member \X (1..MaxTasks)
    BY <2>2 DEF Reserved
  <2>. QED BY <2>3, <2>4
<1>5. D \subseteq Reserved(h)
  <2>. SUFFICES ASSUME NEW k \in (a + 1)..b PROVE <<m, k>> \in Reserved(h)
    OBVIOUS
  <2>1. k \in 1..MaxTasks /\ k <= b
    BY <1>2, SchedulerAssumption
  <2>. QED BY <2>1 DEF Reserved, b
<1>6. Cardinality(D) = b - a
  <2>. DEFINE f == [k \in (a + 1)..b |-> <<m, k>>]
  <2>1. f \in Bijection((a + 1)..b, D)
    BY DEF Bijection, Injection, Surjection, IsInjective
  <2>2. ExistsBijection((a + 1)..b, D)
    BY <2>1 DEF ExistsBijection
  <2>3. a + 1 \in Int /\ b \in Int /\ b - (a + 1) + 1 = b - a /\ (a + 1 > b => b - a = 0)
    BY <1>2
  <2>4. IsFiniteSet((a + 1)..b) /\ Cardinality((a + 1)..b) = b - a
    BY <2>3, FS_Interval
  <2>. QED BY <2>2, <2>4, FS_Bijection
<1>7. Cardinality(Reserved(h)') = Cardinality(Reserved(h)) - Cardinality(D)
  <2>1. Reserved(h) \cap D = D
    BY <1>5
  <2>. QED BY <1>4, <2>1, BudgetTypes, FS_Difference
<1>. QED BY <1>2, <1>3, <1>6, <1>7, BudgetTypes DEF Stock, a, b

\* A callback goes on, with its slots or fewer of them, and starts no more tasks than it gives
\* up slots.
LEMMA BudgetPick ==
  ASSUME TypeOK, Budget, TypeOK', Lost' \in Nat, Lost' >= Lost,
         NEW h \in Host, NEW m \in Member, NEW p \in PickState, SetPick(h, m, p), Sized(p),
         Reserve(p) <= Reserve(pick[h][m]),
         loop' = loop \/ Lost' = Lost + MaxTasks,
         \A g \in Host : g # h => tasks'[g] = tasks[g],
         Cardinality(tasks'[h]) <= Cardinality(tasks[h]) + Reserve(pick[h][m]) - Reserve(p)
  PROVE  Budget'
<1>1. \A g \in Host, n \in Member : pick'[g][n] = IF g = h /\ n = m THEN p ELSE pick[g][n]
  BY SetPickEffect
<1>2. \A g \in Host :
        Stock(g)' = IF g = h THEN Stock(g) - (Reserve(pick[h][m]) - Reserve(p)) ELSE Stock(g)
  BY StockPick
<1>3. \A g \in Host, n \in Member : Sized(pick'[g][n])
  BY <1>1 DEF Budget
<1>4. Reserve(p) \in Nat /\ Reserve(pick[h][m]) \in Nat
  BY BudgetTypes DEF TypeOK
<1>5. ASSUME NEW g \in Host
      PROVE  /\ Stock(g)' + Cardinality(tasks'[g]) <= MaxTasks + Lost'
             /\ loop'[g] # "busy" => Stock(g)' <= Lost'
  <2>1. /\ Stock(g) \in Nat /\ Cardinality(tasks[g]) \in Nat /\ Lost \in Nat /\ MaxTasks \in Nat
        /\ Stock(g)' \in Int /\ Cardinality(tasks'[g]) \in Nat
    <3>1. tasks'[g] \subseteq Item
      BY DEF TypeOK
    <3>2. Cardinality(tasks'[g]) \in Nat
      BY <3>1, FS_Subset, FS_CardinalityType, SchedulerAssumption
    <3>3. Stock(g) \in Nat /\ Cardinality(tasks[g]) \in Nat /\ Lost \in Nat
      BY BudgetTypes
    <3>. QED BY <1>2, <1>4, <3>2, <3>3, SchedulerAssumption
  <2>2. /\ Stock(g) + Cardinality(tasks[g]) <= MaxTasks + Lost
        /\ loop[g] # "busy" => Stock(g) <= Lost
    BY DEF Budget
  <2>3. Stock(g)' <= Stock(g)
    BY <1>2, <1>4, <2>1
  <2>4. Stock(g)' + Cardinality(tasks'[g]) <= Stock(g) + Cardinality(tasks[g])
    BY <1>2, <1>4, <2>1
  <2>. QED BY <2>1, <2>2, <2>3, <2>4
<1>. QED BY <1>3, <1>5 DEF Budget

\* What retrieveItems reads, while requests are left, are at most the slots of the callback.
LEMMA RangeWithin ==
  ASSUME NEW count \in Nat \ {0}, NEW requests \in Nat \ {0}, NEW n \in Nat
  PROVE  RangeSize(AtMost(count, requests), n) <= count
  BY DEF RangeSize, AtMost

\* Every step of a callback keeps to its slots.
LEMMA BudgetPicking ==
  ASSUME TypeOK, Budget, TypeOK', Lost' \in Nat, Lost' >= Lost, 0 \notin Available,
         NEW h \in Host, NEW m \in Member, Picking(h, m)
  PROVE  Budget'
<1>. DEFINE o == pick[h][m]
<1>. USE DEF queueVars, boundVars
<1>1. /\ o \in PickState /\ Sized(o) /\ Reserve(o) \in Nat /\ IsFiniteSet(o.items)
      /\ Cardinality(o.items) \in Nat
  <2>1. o \in PickState
    BY DEF TypeOK
  <2>2. o.items \subseteq Item
    BY <2>1 DEF PickState
  <2>. QED BY <2>1, <2>2, BudgetTypes, FS_Subset, FS_CardinalityType, SchedulerAssumption
       DEF Budget
<1>2. loop' = loop
  BY PickingEffect
<1>3. ASSUME NEW p \in PickState, SetPick(h, m, p), Sized(p), Reserve(p) <= Reserve(o),
             tasks' = tasks
      PROVE  Budget'
  <2>1. Reserve(p) \in Nat /\ Cardinality(tasks[h]) \in Nat
    BY BudgetTypes
  <2>2. Cardinality(tasks'[h]) <= Cardinality(tasks[h]) + Reserve(o) - Reserve(p)
    BY <1>1, <1>3, <2>1
  <2>. QED BY <1>2, <1>3, <2>2, BudgetPick
<1>4. Reserve(NoPick) = 0 /\ Sized(NoPick) /\ NoPick \in PickState
  <2>1. NoPick.step = "none" /\ NoPick.items = {}
    BY DEF NoPick
  <2>2. Reserve(NoPick) = 0 /\ Sized(NoPick)
    BY <2>1, SchedulerAssumption DEF Reserve, Sized
  <2>3. NoPick \in PickState
    BY DEF NoPick, PickState, PickSteps
  <2>. QED BY <2>2, <2>3
<1>5. ASSUME NEW s \in {"standby", "remove"}, NEW p, p = [NoPick EXCEPT !.step = s]
      PROVE  Reserve(p) = 0 /\ Sized(p) /\ p \in PickState
  <2>1. p.step = s /\ p.items = {}
    BY <1>5 DEF NoPick
  <2>3. p \in PickState
    BY <1>5 DEF PickState, PickSteps, NoPick
  <2>. QED BY <2>1, <2>3, SchedulerAssumption DEF Reserve, Sized
<1>a. ASSUME NEW s \in PickSteps, NEW p, p = [o EXCEPT !.step = s],
             s \in {"lock", "retrieve"} => o.step \in {"lock", "retrieve"}
      PROVE  p \in PickState /\ p.step = s /\ p.count = o.count /\ p.items = o.items
  <2>1. p.step = s /\ p.count = o.count /\ p.items = o.items
    BY <1>1, <1>a DEF PickState
  <2>2. p \in PickState
    BY <1>1, <1>a DEF PickState
  <2>. QED BY <2>1, <2>2
<1>6. CASE Lock(h, m)
  <2>1. o.step = "lock" /\ tasks' = tasks
    BY <1>6 DEF Lock
  <2>2. CASE SetPick(h, m, NoPick)
    BY <1>1, <1>3, <1>4, <2>1, <2>2
  <2>3. CASE StepTo(h, m, "retrieve")
    <3>. DEFINE p == [o EXCEPT !.step = "retrieve"]
    <3>1. p \in PickState /\ p.step = "retrieve" /\ p.count = o.count /\ p.items = o.items
      BY <1>a, <2>1 DEF PickSteps
    <3>2. SetPick(h, m, p)
      BY <2>3 DEF StepTo
    <3>. HIDE DEF p
    <3>3. Reserve(p) = Reserve(o) /\ Sized(p)
      BY <1>1, <2>1, <3>1 DEF Reserve, Sized
    <3>. QED BY <1>1, <1>3, <2>1, <3>1, <3>2, <3>3
  <2>. QED BY <1>6, <2>2, <2>3 DEF Lock
<1>7. CASE Exhausted(h, m)
  <2>. DEFINE p == [NoPick EXCEPT !.step = "standby"]
  <2>1. SetPick(h, m, p) /\ tasks' = tasks
    BY <1>7 DEF Exhausted
  <2>2. Reserve(p) = 0 /\ Sized(p) /\ p \in PickState
    BY <1>5
  <2>. HIDE DEF p
  <2>. QED BY <1>1, <1>3, <2>1, <2>2
<1>8. CASE Retrieve(h, m)
  <2>. DEFINE Q == Queue(ResourceOf[m])
  <2>1. o.step = "retrieve" /\ tasks' = tasks
    BY <1>8 DEF Retrieve
  <2>2. PICK requests \in Available, S \in SUBSET Q :
          /\ Cardinality(S) <= RangeSize(AtMost(o.count, requests), Cardinality(Q))
          /\ \/ SetPick(h, m, [NoPick EXCEPT !.step = "unlock", !.items = S])
             \/ SetPick(h, m, [NoPick EXCEPT !.step = "standby"])
             \/ SetPick(h, m, [NoPick EXCEPT !.step = "remove"])
    BY <1>8, Zenon DEF Retrieve
  <2>3. /\ S \in SUBSET Item /\ Cardinality(S) \in Nat /\ Cardinality(Q) \in Nat
    <3>1. Q \subseteq Item
      BY DEF Queue, TypeOK
    <3>. QED BY <3>1, FS_Subset, FS_CardinalityType, SchedulerAssumption
  <2>4. o.count \in Nat \ {0} /\ requests \in Nat \ {0} /\ Reserve(o) = o.count
    BY <1>1, <2>1, SchedulerAssumption DEF Sized, Reserve, PickState
  <2>5. Cardinality(S) <= o.count
    <3>1. RangeSize(AtMost(o.count, requests), Cardinality(Q)) <= o.count
      BY <2>3, <2>4, RangeWithin
    <3>2. RangeSize(AtMost(o.count, requests), Cardinality(Q)) \in Nat
      BY <2>3, <2>4 DEF RangeSize, AtMost
    <3>. QED BY <2>2, <2>3, <2>4, <3>1, <3>2
  <2>6. CASE SetPick(h, m, [NoPick EXCEPT !.step = "unlock", !.items = S])
    <3>. DEFINE p == [NoPick EXCEPT !.step = "unlock", !.items = S]
    <3>1. p.step = "unlock" /\ p.items = S
      BY DEF NoPick
    <3>2. SetPick(h, m, p)
      BY <2>6
    <3>5. p \in PickState
      BY <2>3 DEF PickState, PickSteps, NoPick
    <3>. HIDE DEF p
    <3>3. Reserve(p) = Cardinality(S)
      BY <3>1 DEF Reserve
    <3>4. Sized(p)
      BY <1>1, <2>3, <2>4, <2>5, <3>1, <3>3, SchedulerAssumption DEF Sized
    <3>. QED BY <1>3, <2>1, <2>4, <2>5, <3>2, <3>3, <3>4, <3>5
  <2>7. ASSUME NEW s \in {"standby", "remove"}, SetPick(h, m, [NoPick EXCEPT !.step = s])
        PROVE  Budget'
    <3>. DEFINE p == [NoPick EXCEPT !.step = s]
    <3>1. SetPick(h, m, p) /\ Reserve(p) = 0 /\ Sized(p) /\ p \in PickState
      BY <1>5, <2>7
    <3>. HIDE DEF p
    <3>. QED BY <1>1, <1>3, <2>1, <3>1
  <2>. QED BY <2>2, <2>6, <2>7
<1>9. CASE MoveToStandby(h, m) \/ RemoveActive(h, m)
  <2>. DEFINE p == [o EXCEPT !.step = "unlock"]
  <2>1. o.step \in {"standby", "remove"} /\ tasks' = tasks /\ SetPick(h, m, p)
    BY <1>9 DEF MoveToStandby, RemoveActive, StepTo
  <2>2. p \in PickState /\ p.step = "unlock" /\ p.items = o.items /\ o.items = {}
    BY <1>1, <1>a, <2>1 DEF PickSteps, Sized
  <2>. HIDE DEF p
  <2>3. Reserve(p) = 0 /\ Sized(p)
    BY <2>2, FS_EmptySet, SchedulerAssumption DEF Reserve, Sized
  <2>. QED BY <1>1, <1>3, <2>1, <2>2, <2>3
<1>10. CASE Unlock(h, m)
  <2>1. o.step = "unlock" /\ tasks' = tasks
    BY <1>10 DEF Unlock
  <2>2. CASE SetPick(h, m, NoPick)
    BY <1>1, <1>3, <1>4, <2>1, <2>2
  <2>3. CASE StepTo(h, m, "touch")
    <3>. DEFINE p == [o EXCEPT !.step = "touch"]
    <3>1. p \in PickState /\ p.step = "touch" /\ p.count = o.count /\ p.items = o.items
      BY <1>a DEF PickSteps
    <3>2. SetPick(h, m, p)
      BY <2>3 DEF StepTo
    <3>. HIDE DEF p
    <3>3. Reserve(p) = Reserve(o) /\ Sized(p)
      BY <1>1, <2>1, <3>1 DEF Reserve, Sized
    <3>. QED BY <1>1, <1>3, <2>1, <3>1, <3>2, <3>3
  <2>. QED BY <1>10, <2>2, <2>3 DEF Unlock
<1>11. CASE Touch(h, m)
  <2>1. o.step = "touch" /\ SetPick(h, m, NoPick)
    BY <1>11 DEF Touch
  <2>2. /\ tasks'[h] = tasks[h] \cup o.items
        /\ \A g \in Host : g # h => tasks'[g] = tasks[g]
    BY <1>11 DEF Touch, TypeOK
  <2>3. Reserve(o) = Cardinality(o.items)
    BY <2>1 DEF Reserve
  <2>4. Cardinality(tasks'[h]) <= Cardinality(tasks[h]) + Cardinality(o.items)
    <3>1. IsFiniteSet(tasks[h]) /\ Cardinality(tasks[h]) \in Nat
      BY BudgetTypes
    <3>2. Cardinality(tasks[h] \cap o.items) \in Nat
      BY <3>1, FS_Intersection, FS_CardinalityType
    <3>3. Cardinality(tasks[h] \cup o.items) =
            Cardinality(tasks[h]) + Cardinality(o.items) - Cardinality(tasks[h] \cap o.items)
      BY <1>1, <3>1, FS_Union
    <3>. QED BY <1>1, <2>2, <3>1, <3>2, <3>3
  <2>5. Cardinality(tasks'[h]) <= Cardinality(tasks[h]) + Reserve(o) - Reserve(NoPick)
    <3>1. Cardinality(tasks[h]) \in Nat
      BY BudgetTypes
    <3>. QED BY <1>1, <1>4, <2>3, <2>4, <3>1
  <2>6. Reserve(NoPick) <= Reserve(o)
    BY <1>1, <1>4
  <2>. QED BY <1>2, <1>4, <2>1, <2>2, <2>5, <2>6, BudgetPick
<1>. QED BY <1>6, <1>7, <1>8, <1>9, <1>10, <1>11 DEF Picking

\* The shares of number callbacks in the free slots lie behind each other in 1..free: the
\* first one, with the remainder, in front.
Share(q, rem, n)  == IF n = 1 THEN q + rem ELSE q
Before(q, rem, n) == IF n = 1 THEN 0 ELSE rem + (n - 1) * q

Fit(number, q, rem) ==
  \A n, p \in 1..number :
    \A k \in 1..Share(q, rem, n), l \in 1..Share(q, rem, p) :
      /\ Before(q, rem, n) + k \in 1..(number * q + rem)
      /\ Before(q, rem, n) + k = Before(q, rem, p) + l => n = p /\ k = l

LEMMA SharesFit ==
  ASSUME NEW number \in Nat \ {0}, NEW q \in Nat \ {0}, NEW rem \in Nat
  PROVE  Fit(number, q, rem)
<1>. SUFFICES ASSUME NEW n \in 1..number, NEW p \in 1..number,
                     NEW k \in 1..Share(q, rem, n), NEW l \in 1..Share(q, rem, p)
              PROVE  /\ Before(q, rem, n) + k \in 1..(number * q + rem)
                     /\ Before(q, rem, n) + k = Before(q, rem, p) + l => n = p /\ k = l
  BY DEF Fit
<1>1. \A a, b \in Nat : a <= b => a * q <= b * q
  <2>. SUFFICES ASSUME NEW a \in Nat, NEW b \in Nat, a <= b PROVE a * q <= b * q
    OBVIOUS
  <2>1. b = a + (b - a) /\ b - a \in Nat
    OBVIOUS
  <2>2. (b - a) * q \in Nat /\ a * q \in Nat
    BY <2>1
  <2>3. b * q = a * q + (b - a) * q
    BY <2>1
  <2>. QED BY <2>2, <2>3
<1>2. \A a \in Nat : (a + 1) * q = a * q + q /\ a * q \in Nat
  OBVIOUS
<1>3. \A a \in 1..number :
        /\ Before(q, rem, a) \in Nat
        /\ Before(q, rem, a) + Share(q, rem, a) = rem + a * q
  <2>. SUFFICES ASSUME NEW a \in 1..number
                PROVE  /\ Before(q, rem, a) \in Nat
                       /\ Before(q, rem, a) + Share(q, rem, a) = rem + a * q
    OBVIOUS
  <2>1. a - 1 \in Nat /\ a = (a - 1) + 1
    OBVIOUS
  <2>2. a * q = (a - 1) * q + q /\ (a - 1) * q \in Nat
    BY <1>2, <2>1
  <2>3. a = 1 => (a - 1) * q = 0
    OBVIOUS
  <2>. QED BY <2>2, <2>3 DEF Before, Share
<1>4. \A a, b \in 1..number : a < b => Before(q, rem, a) + Share(q, rem, a) <= Before(q, rem, b)
  <2>. SUFFICES ASSUME NEW a \in 1..number, NEW b \in 1..number, a < b
                PROVE  Before(q, rem, a) + Share(q, rem, a) <= Before(q, rem, b)
    OBVIOUS
  <2>1. a * q <= (b - 1) * q
    BY <1>1
  <2>2. a * q \in Nat /\ (b - 1) * q \in Nat
    BY <1>2
  <2>. QED BY <1>3, <2>1, <2>2 DEF Before
<1>5. n * q <= number * q /\ n * q \in Nat /\ number * q \in Nat
  BY <1>1
<1>6. Share(q, rem, n) \in Nat /\ Share(q, rem, p) \in Nat
  BY DEF Share
<1>7. Before(q, rem, n) + k \in 1..(number * q + rem)
  BY <1>3, <1>5, <1>6
<1>8. n < p => Before(q, rem, n) + k < Before(q, rem, p) + l
  BY <1>3, <1>4, <1>6
<1>9. p < n => Before(q, rem, p) + l < Before(q, rem, n) + k
  BY <1>3, <1>4, <1>6
<1>. QED BY <1>3, <1>7, <1>8, <1>9

\* Poll gives the callbacks it starts the free slots, and no slot to two of them.
LEMMA BudgetPolling ==
  ASSUME TypeOK, Budget, Lost' \in Nat, Lost' >= Lost, NEW h \in Host, Poll(h)
  PROVE  Budget'
<1>. DEFINE free   == MaxTasks - Cardinality(tasks[h])
            number == RangeSize(AtMost(free, ResourcesPerBatch), Len(active))
            Slots(n) == free \div number + IF n = 1 THEN free % number ELSE 0
            Chosen(m) == pick[h][m] = NoPick /\ \E n \in 1..number : active[n] = m
            Place(m) == CHOOSE n \in 1..number : active[n] = m
            New(m) == [NoPick EXCEPT !.step = "lock", !.count = Slots(Place(m))]
            q == free \div number
            rem == free % number
<1>1. loop[h] = "poll" /\ loop' = [loop EXCEPT ![h] = "busy"] /\ tasks' = tasks
  BY Zenon DEF Poll
<1>a. free > 0
  BY Zenon DEF Poll
<1>b. active # <<>>
  BY Zenon DEF Poll
<1>c. pick' = [pick EXCEPT ![h] = [m \in Member |-> IF Chosen(m) THEN New(m) ELSE pick[h][m]]]
  BY Zenon DEF Poll
<1>2. /\ Cardinality(tasks[h]) \in Nat /\ Stock(h) \in Nat /\ Lost \in Nat
      /\ MaxTasks \in Nat \ {0}
  BY BudgetTypes, SchedulerAssumption
<1>3. free \in Nat \ {0} /\ free <= MaxTasks
  BY <1>a, <1>2
<1>4. Len(active) \in Nat \ {0} /\ active \in Seq(Member)
  BY <1>b, EmptySeq DEF TypeOK
<1>. HIDE DEF free
<1>5. number \in Nat \ {0} /\ number <= Len(active) /\ number <= free
  BY <1>3, <1>4, SchedulerAssumption DEF AtMost, RangeSize
<1>. HIDE DEF number
<1>6. q \in Nat \ {0} /\ rem \in Nat /\ free = number * q + rem
  BY <1>3, <1>5
<1>7. \A n : Slots(n) = Share(q, rem, n)
  BY <1>6 DEF Share
<1>. HIDE DEF Slots, q, rem
<1>e. \A n, p \in 1..number :
        \A k \in 1..Share(q, rem, n), l \in 1..Share(q, rem, p) :
          /\ Before(q, rem, n) + k \in 1..free
          /\ Before(q, rem, n) + k = Before(q, rem, p) + l => n = p /\ k = l
  <2>1. Fit(number, q, rem)
    BY <1>5, <1>6, SharesFit
  <2>. QED BY <1>6, <2>1 DEF Fit
<1>8. \A n \in 1..number : Slots(n) \in 1..free
  <2>. SUFFICES ASSUME NEW n \in 1..number PROVE Slots(n) \in 1..free
    OBVIOUS
  <2>1. 1 \in 1..number /\ Share(q, rem, 1) \in Nat \ {0} /\ Share(q, rem, n) \in Nat \ {0}
    BY <1>5, <1>6 DEF Share
  <2>2. Share(q, rem, 1) \in 1..Share(q, rem, 1)
    BY <2>1
  <2>3. Before(q, rem, 1) + Share(q, rem, 1) \in 1..free
    BY <1>e, <2>1, <2>2
  <2>4. Before(q, rem, 1) = 0 /\ Share(q, rem, n) <= Share(q, rem, 1)
    BY <1>6 DEF Before, Share
  <2>. QED BY <1>3, <1>7, <2>1, <2>3, <2>4
<1>9. \A m \in Member : Chosen(m) =>
        /\ Place(m) \in 1..number /\ active[Place(m)] = m
        /\ Reserve(pick[h][m]) = 0
  BY DEF NoPick, Reserve
<1>10. \A m, n \in Member : Chosen(m) /\ Chosen(n) /\ Place(m) = Place(n) => m = n
  BY <1>9
<1>. HIDE DEF Place
<1>d. \A m : New(m).step = "lock" /\ New(m).count = Slots(Place(m)) /\ New(m).items = {}
  BY DEF NoPick
<1>. HIDE DEF New, Chosen
<1>11. \A m \in Member : pick'[h][m] = IF Chosen(m) THEN New(m) ELSE pick[h][m]
  BY <1>c DEF TypeOK
<1>12. \A g \in Host : g # h => pick'[g] = pick[g] /\ loop'[g] = loop[g]
  BY <1>1, <1>c DEF TypeOK
<1>13. loop'[h] = "busy"
  BY <1>1 DEF TypeOK
<1>14. \A m \in Member : Chosen(m) =>
         /\ Reserve(pick'[h][m]) = Slots(Place(m)) /\ Sized(pick'[h][m])
  <2>. SUFFICES ASSUME NEW m \in Member, Chosen(m)
                PROVE  Reserve(pick'[h][m]) = Slots(Place(m)) /\ Sized(pick'[h][m])
    OBVIOUS
  <2>1. /\ pick'[h][m].step = "lock" /\ pick'[h][m].count = Slots(Place(m))
        /\ pick'[h][m].items = {}
    BY <1>11, <1>d
  <2>2. Slots(Place(m)) \in 1..MaxTasks
    <3>1. Slots(Place(m)) \in 1..free
      BY <1>8, <1>9
    <3>. QED BY <1>2, <1>3, <3>1
  <2>. QED BY <1>2, <2>1, <2>2 DEF Reserve, Sized
<1>. DEFINE N == {s \in Member \X (1..MaxTasks) : Chosen(s[1]) /\ s[2] <= Slots(Place(s[1]))}
<1>15. Reserved(h)' \subseteq Reserved(h) \cup N
  <2>. SUFFICES ASSUME NEW m \in Member, NEW k \in 1..MaxTasks, k <= Reserve(pick'[h][m])
                PROVE  <<m, k>> \in Reserved(h) \cup N
    BY DEF Reserved
  <2>1. CASE Chosen(m)
    BY <1>14, <2>1
  <2>2. CASE ~Chosen(m)
    BY <1>11, <2>2 DEF Reserved
  <2>. QED BY <2>1, <2>2
<1>16. IsFiniteSet(N) /\ Cardinality(N) \in Nat /\ Cardinality(N) <= free
  <2>. DEFINE f == [s \in N |-> Before(q, rem, Place(s[1])) + s[2]]
  <2>1. \A s \in N : /\ Place(s[1]) \in 1..number /\ s[1] \in Member /\ Chosen(s[1])
                     /\ s[2] \in 1..Share(q, rem, Place(s[1]))
    <3>. SUFFICES ASSUME NEW s \in N
                  PROVE  /\ Place(s[1]) \in 1..number /\ s[1] \in Member /\ Chosen(s[1])
                         /\ s[2] \in 1..Share(q, rem, Place(s[1]))
      OBVIOUS
    <3>1. s[1] \in Member /\ Chosen(s[1]) /\ s[2] \in 1..MaxTasks /\ s[2] <= Slots(Place(s[1]))
      OBVIOUS
    <3>2. Place(s[1]) \in 1..number
      BY <1>9, <3>1
    <3>3. Slots(Place(s[1])) \in 1..free
      BY <1>8, <3>2
    <3>. QED BY <1>3, <1>7, <3>1, <3>2, <3>3
  <2>2. \A s \in N : f[s] \in 1..free
    BY <1>e, <2>1
  <2>3. ASSUME NEW s \in N, NEW t \in N, f[s] = f[t] PROVE s = t
    <3>1. Place(s[1]) = Place(t[1]) /\ s[2] = t[2]
      BY <1>e, <2>1, <2>3
    <3>2. s[1] = t[1]
      BY <1>10, <2>1, <3>1
    <3>. QED BY <3>1, <3>2
  <2>. HIDE DEF f, N
  <2>4. f \in [N -> 1..free]
    BY <2>2 DEF f
  <2>5. f \in Injection(N, 1..free)
    BY <2>3, <2>4 DEF Injection, IsInjective
  <2>6. IsFiniteSet(1..free) /\ Cardinality(1..free) = free
    BY <1>3, FS_Interval
  <2>. QED BY <2>5, <2>6, FS_Injection, FS_CardinalityType
<1>. HIDE DEF N
<1>17. Stock(h)' \in Nat /\ Stock(h)' <= Stock(h) + free
  <2>1. IsFiniteSet(Reserved(h))
    BY BudgetTypes
  <2>2. /\ IsFiniteSet(Reserved(h) \cup N)
        /\ Cardinality(Reserved(h) \cup N) =
             Cardinality(Reserved(h)) + Cardinality(N) - Cardinality(Reserved(h) \cap N)
    BY <1>16, <2>1, FS_Union
  <2>3. Cardinality(Reserved(h) \cap N) \in Nat
    BY <2>1, FS_Intersection, FS_CardinalityType
  <2>4. /\ Cardinality(Reserved(h)') \in Nat
        /\ Cardinality(Reserved(h)') <= Cardinality(Reserved(h) \cup N)
    BY <1>15, <2>2, FS_Subset, FS_CardinalityType
  <2>. QED BY <1>2, <1>3, <1>16, <2>2, <2>3, <2>4 DEF Stock
<1>18. \A g \in Host : g # h => Stock(g)' = Stock(g)
  BY <1>12 DEF Stock, Reserved
<1>19. \A g \in Host, m \in Member : Sized(pick'[g][m])
  BY <1>11, <1>12, <1>14 DEF Budget
<1>20. ASSUME NEW g \in Host
       PROVE  /\ Stock(g)' + Cardinality(tasks'[g]) <= MaxTasks + Lost'
              /\ loop'[g] # "busy" => Stock(g)' <= Lost'
  <2>1. CASE g = h
    BY <1>1, <1>2, <1>3, <1>13, <1>17, <2>1 DEF Budget, free
  <2>2. CASE g # h
    <3>1. Stock(g) \in Nat /\ Cardinality(tasks[g]) \in Nat
      BY BudgetTypes
    <3>. QED BY <1>1, <1>2, <1>12, <1>18, <2>2, <3>1 DEF Budget
  <2>. QED BY <2>1, <2>2
<1>. QED BY <1>19, <1>20 DEF Budget

\* A host without callbacks has no reserved slots.
LEMMA StockEmpty ==
  ASSUME NEW h \in Host, \A m \in Member : pick[h][m] = NoPick
  PROVE  Stock(h) = 0
<1>1. Reserve(NoPick) = 0
  BY DEF Reserve, NoPick
<1>2. Reserved(h) = {}
  BY <1>1, SchedulerAssumption DEF Reserved
<1>. QED BY <1>2, FS_EmptySet DEF Stock

\* While requests are left every step keeps the budget.
LEMMA NextBudget == 0 \notin Available /\ TypeOK /\ Budget /\ [Next]_vars => Budget'
<1>. SUFFICES ASSUME 0 \notin Available, TypeOK, Budget, [Next]_vars PROVE Budget'
  OBVIOUS
<1>. USE DEF queueVars, boundVars
<1>0. /\ TypeOK' /\ Lost' \in Nat /\ Lost' >= Lost /\ Lost \in Nat /\ MaxTasks \in Nat
      /\ \A h \in Host : Stock(h) \in Nat /\ Cardinality(tasks[h]) \in Nat
  BY NextType, LostSteps, BudgetTypes, SchedulerAssumption
<1>1. ASSUME pick' = pick, \A g \in Host : tasks'[g] \subseteq tasks[g],
             \A g \in Host : loop'[g] # "busy" => loop[g] # "busy" \/ Stock(g) = 0
      PROVE  Budget'
  <2>1. \A g \in Host : Stock(g)' = Stock(g)
    BY <1>1 DEF Stock, Reserved
  <2>2. \A g \in Host : /\ Cardinality(tasks'[g]) \in Nat
                        /\ Cardinality(tasks'[g]) <= Cardinality(tasks[g])
    BY <1>1, BudgetTypes, FS_Subset, FS_CardinalityType
  <2>3. ASSUME NEW g \in Host
        PROVE  /\ Stock(g)' + Cardinality(tasks'[g]) <= MaxTasks + Lost'
               /\ loop'[g] # "busy" => Stock(g)' <= Lost'
    BY <1>0, <1>1, <2>1, <2>2 DEF Budget
  <2>. QED BY <1>1, <2>3 DEF Budget
<1>2. ASSUME pick' = pick, tasks' = tasks, loop' = loop PROVE Budget'
  BY <1>1, <1>2
<1>3. ASSUME NEW h \in Host, NEW i \in Item, SendItem(h, i) \/ RequeueItem(h, i) PROVE Budget'
  BY <1>2, <1>3 DEF SendItem, RequeueItem
<1>4. ASSUME NEW h \in Host, NEW i \in Item, TaskEnds(h, i) \/ TaskDefers(h, i) PROVE Budget'
  <2>1. pick' = pick /\ loop' = loop
    BY <1>4 DEF TaskEnds, TaskDefers
  <2>2. \A g \in Host : tasks'[g] \subseteq tasks[g]
    BY <1>4 DEF TaskEnds, TaskDefers, TypeOK
  <2>. QED BY <1>1, <2>1, <2>2
<1>5. ASSUME NEW a \in activation, Activate(a) \/ Signal(a) \/ ActivationFails(a) PROVE Budget'
  BY <1>2, <1>5 DEF Activate, Signal, ActivationFails
<1>6. ASSUME NEW m \in Member, ExpireStandby(m) PROVE Budget'
  BY <1>2, <1>6 DEF ExpireStandby
<1>7. ASSUME NEW r \in Resource, LockExpires(r) PROVE Budget'
  BY <1>2, <1>7 DEF LockExpires
<1>8. ASSUME NEW h \in Host, Looping(h) PROVE Budget'
  <2>1. CASE Poll(h)
    BY <1>0, <2>1, BudgetPolling
  <2>2. CASE Sleep(h) \/ Wake(h) \/ Restart(h)
    <3>1. pick' = pick /\ tasks' = tasks
      BY <2>2 DEF Sleep, Wake, Restart
    <3>2. \A g \in Host : loop'[g] # "busy" => loop[g] # "busy"
      BY <2>2 DEF Sleep, Wake, Restart, TypeOK
    <3>. QED BY <1>1, <3>1, <3>2
  <2>3. CASE LoopEnds(h)
    <3>1. pick' = pick /\ tasks' = tasks /\ Stock(h) = 0
      BY <2>3, StockEmpty DEF LoopEnds
    <3>2. \A g \in Host : g # h => loop'[g] = loop[g]
      BY <2>3 DEF LoopEnds, TypeOK
    <3>. QED BY <1>1, <3>1, <3>2
  <2>. QED BY <1>8, <2>1, <2>2, <2>3 DEF Looping
<1>9. ASSUME NEW h \in Host, Crash(h) PROVE Budget'
  <2>1. /\ \A m \in Member : pick'[h][m] = NoPick
        /\ tasks'[h] = {}
        /\ \A g \in Host : g # h => /\ pick'[g] = pick[g] /\ tasks'[g] = tasks[g]
                                    /\ loop'[g] = loop[g]
    BY <1>9 DEF Crash, TypeOK
  <2>2. Sized(NoPick)
    BY SchedulerAssumption DEF Sized, Reserve, NoPick
  <2>3. Reserved(h)' = {}
    <3>1. Reserve(NoPick) = 0
      BY DEF Reserve, NoPick
    <3>. QED BY <2>1, <3>1, SchedulerAssumption DEF Reserved
  <2>4. Stock(h)' = 0 /\ Cardinality(tasks'[h]) = 0
    BY <2>1, <2>3, FS_EmptySet DEF Stock
  <2>5. \A g \in Host : g # h => Stock(g)' = Stock(g)
    BY <2>1 DEF Stock, Reserved
  <2>6. ASSUME NEW g \in Host
        PROVE  /\ Stock(g)' + Cardinality(tasks'[g]) <= MaxTasks + Lost'
               /\ loop'[g] # "busy" => Stock(g)' <= Lost'
    BY <1>0, <2>1, <2>4, <2>5 DEF Budget
  <2>7. \A g \in Host, m \in Member : Sized(pick'[g][m])
    BY <2>1, <2>2 DEF Budget
  <2>. QED BY <2>6, <2>7 DEF Budget
<1>10. ASSUME NEW h \in Host, NEW m \in Member, CallbackThrows(h, m) PROVE Budget'
  <2>1. SetPick(h, m, NoPick) /\ tasks' = tasks /\ Fault("throw")
    BY <1>10 DEF CallbackThrows
  <2>2. Lost' = Lost + MaxTasks
    BY <2>1, LostSteps
  <2>3. NoPick \in PickState /\ Sized(NoPick) /\ Reserve(NoPick) = 0
    BY SchedulerAssumption DEF NoPick, PickState, PickSteps, Sized, Reserve
  <2>4. Reserve(pick[h][m]) \in Nat
    BY BudgetTypes DEF TypeOK
  <2>5. /\ Reserve(NoPick) <= Reserve(pick[h][m])
        /\ Cardinality(tasks'[h]) <= Cardinality(tasks[h]) + Reserve(pick[h][m]) - Reserve(NoPick)
    BY <1>0, <2>1, <2>3, <2>4
  <2>. QED BY <1>0, <2>1, <2>2, <2>3, <2>5, BudgetPick
<1>11. ASSUME NEW h \in Host, NEW m \in Member, Picking(h, m) PROVE Budget'
  BY <1>0, <1>11, BudgetPicking
<1>12. CASE UNCHANGED vars
  BY <1>2, <1>12 DEF vars
<1>. QED BY <1>3, <1>4, <1>5, <1>6, <1>7, <1>8, <1>9, <1>10, <1>11, <1>12 DEF Next, Sending

\* A worker runs at most MaxTasks tasks, however its callbacks interleave; each call that
\* fails adds at most as many again.
THEOREM TasksBoundedHolds == Spec => []TasksBounded
<1>1. Init => Budget
  <2>. SUFFICES ASSUME Init PROVE Budget
    OBVIOUS
  <2>1. /\ \A h \in Host, m \in Member : pick[h][m] = NoPick
        /\ \A h \in Host : tasks[h] = {}
    BY DEF Init
  <2>2. \A h \in Host : Stock(h) = 0 /\ Cardinality(tasks[h]) = 0
    BY <2>1, StockEmpty, FS_EmptySet
  <2>3. Sized(NoPick)
    BY SchedulerAssumption DEF Sized, Reserve, NoPick
  <2>4. Lost \in Nat
    BY InitType, BudgetTypes
  <2>. QED BY <2>1, <2>2, <2>3, <2>4, SchedulerAssumption DEF Budget
<1>2. TypeOK /\ Budget => TasksBounded
  <2>. SUFFICES ASSUME TypeOK, Budget, NEW h \in Host
                PROVE  Cardinality(tasks[h]) <= MaxTasks * (1 + Cardinality(Throws))
    BY DEF TasksBounded
  <2>1. /\ Stock(h) \in Nat /\ Cardinality(tasks[h]) \in Nat /\ Lost \in Nat
        /\ Cardinality(Throws) \in Nat /\ MaxTasks \in Nat
    BY BudgetTypes, SchedulerAssumption
  <2>2. MaxTasks * (1 + Cardinality(Throws)) = MaxTasks + Lost
    BY <2>1 DEF Lost
  <2>. QED BY <2>1, <2>2 DEF Budget
<1>3. CASE 0 \in Available
  <2>1. TypeOK => TasksBounded
    BY <1>3 DEF TasksBounded
  <2>. QED BY <2>1, SchedulerTypeCorrect, PTL
<1>4. CASE 0 \notin Available
  <2>1. TypeOK /\ Budget /\ [Next]_vars => Budget'
    BY <1>4, NextBudget
  <2>. QED BY <1>1, <1>2, <2>1, SchedulerTypeCorrect, PTL DEF Spec
<1>. QED BY <1>3, <1>4

-----------------------------------------------------------------------------
(* No queue is left to itself.                                             *)
(*                                                                         *)
(* The workers come to a queue with items through a member that is on its  *)
(* way: items of it are still to be sent, its activation is under way, it  *)
(* is on standby or it is active.  Only a removal takes a member off its   *)
(* way.  Until an item comes back, a resource gets items only from members *)
(* that nobody has looked at yet, so whoever removes a member of a queue   *)
(* that is not empty any more leaves another one behind.                   *)

Unsent(m) == \E i \in unsent : MemberOf[i] = m

Adding(m) == \E a \in activation : a.step = "add" /\ MemberBehind(a) = m

OnItsWay(m) == Unsent(m) \/ Adding(m) \/ m \in standby \/ InActive(m)

\* A callback for the member has items in its hands.
Held(m) == \E h \in Host : pick[h][m].items # {}

\* No item has come back to a main queue, and none will until one is deferred.
Straight == requeues = 0 /\ ~Happened("crash") /\ ~Happened("throw")

\* A step in which a process dies or a call fails.
Mishap ==
  \/ \E h \in Host : Crash(h) \/ \E m \in Member : CallbackThrows(h, m)
  \/ \E a \in activation : ActivationFails(a)

\* Part of the inductive invariant: between its sections a callback has no items.
EmptyHanded ==
  \A h \in Host, m \in Member :
    pick[h][m].step \notin {"unlock", "touch"} => pick[h][m].items = {}

\* Part of the inductive invariant: a member is added once, after the last of its items,
\* and nobody has looked at it before.
Announced ==
  Straight =>
    /\ deferred = {}
    /\ \A m \in Member : Unsent(m) \/ Adding(m) =>
         /\ ~(Unsent(m) /\ Adding(m))
         /\ ~InActive(m) /\ m \notin standby
         /\ \A h \in Host : pick[h][m] = NoPick
    /\ \A a, b \in activation :
         a.step = "add" /\ b.step = "add" /\ MemberBehind(a) = MemberBehind(b) => a = b

\* Part of the inductive invariant: a queue with items has a member on its way that no
\* callback is about to remove.
Watched ==
  Straight =>
    \A r \in Resource : Queue(r) # {} =>
      \E m \in Member : /\ ResourceOf[m] = r /\ OnItsWay(m)
                        /\ \A h \in Host : pick[h][m].step # "remove"

\* ZADD adds the member to the active resources and leaves the others.
LEMMA ActiveWith ==
  ASSUME TypeOK, NEW m \in Member, active' = AddActive(m)
  PROVE  \A n \in Member : InActive(n)' <=> InActive(n) \/ n = m
<1>1. CASE InActive(m)
  BY <1>1 DEF AddActive, InActive
<1>2. CASE ~InActive(m)
  <2>1. active' = Append(active, m) /\ active \in Seq(Member)
    BY <1>2 DEF AddActive, TypeOK
  <2>. QED BY <2>1 DEF InActive
<1>. QED BY <1>1, <1>2

\* ZREM takes the member from the active resources and leaves the others.
LEMMA ActiveWithout ==
  ASSUME TypeOK, NEW m \in Member
  PROVE  \A n \in Member :
           (\E k \in DOMAIN WithoutActive(m) : WithoutActive(m)[k] = n) <=> InActive(n) /\ n # m
<1>0. IsOrder(active) /\ Len(active) \in Nat /\ DOMAIN active = 1..Len(active)
  BY DEF TypeOK, IsOrder
<1>1. CASE ~InActive(m)
  BY <1>1 DEF WithoutActive, InActive
<1>2. CASE InActive(m)
  <2>. DEFINE at == CHOOSE k \in DOMAIN active : active[k] = m
              w == [k \in 1..(Len(active) - 1) |-> IF k < at THEN active[k] ELSE active[k + 1]]
  <2>1. at \in 1..Len(active) /\ active[at] = m
    <3>1. \E k \in DOMAIN active : active[k] = m
      BY <1>2 DEF InActive
    <3>2. at \in DOMAIN active /\ active[at] = m
      BY <3>1
    <3>. QED BY <1>0, <3>2
  <2>2. WithoutActive(m) = w
    BY <1>2 DEF WithoutActive
  <2>. HIDE DEF at
  <2>3. ASSUME NEW n \in Member, InActive(n), n # m PROVE \E k \in DOMAIN w : w[k] = n
    <3>1. PICK k \in 1..Len(active) : active[k] = n
      BY <1>0, <2>3 DEF InActive
    <3>2. k # at
      BY <2>1, <2>3, <3>1
    <3>3. CASE k < at
      <4>1. k \in 1..(Len(active) - 1)
        BY <1>0, <2>1, <3>3
      <4>2. w[k] = n
        BY <3>1, <3>3, <4>1
      <4>. QED BY <4>1, <4>2
    <3>4. CASE k > at
      <4>1. k - 1 \in 1..(Len(active) - 1) /\ ~(k - 1 < at) /\ k - 1 + 1 = k
        BY <1>0, <2>1, <3>4
      <4>2. w[k - 1] = n
        BY <3>1, <4>1
      <4>. QED BY <4>1, <4>2
    <3>. QED BY <2>1, <3>2, <3>3, <3>4
  <2>4. ASSUME NEW n \in Member, NEW k \in DOMAIN w, w[k] = n PROVE InActive(n)
    <3>1. k \in 1..(Len(active) - 1) /\ k \in DOMAIN active /\ k + 1 \in DOMAIN active
      BY <1>0, <2>4
    <3>2. w[k] = active[k] \/ w[k] = active[k + 1]
      BY <3>1
    <3>. QED BY <2>4, <3>1, <3>2 DEF InActive
  <2>5. \A k \in DOMAIN w : w[k] # m
    BY <1>0, <2>2, WithoutOrder
  <2>6. \A n \in Member : (\E k \in DOMAIN w : w[k] = n) <=> InActive(n) /\ n # m
    BY <2>3, <2>4, <2>5
  <2>. QED BY <2>2, <2>6
<1>. QED BY <1>1, <1>2

\* A removal from the active resources.
LEMMA ActiveRemoved ==
  ASSUME TypeOK, NEW m \in Member, active' = WithoutActive(m)
  PROVE  \A n \in Member : InActive(n)' <=> InActive(n) /\ n # m
  BY ActiveWithout DEF InActive

\* An expired member moves to the end, or is added there.
LEMMA ActiveMoved ==
  ASSUME TypeOK, NEW m \in Member, active' = Append(WithoutActive(m), m)
  PROVE  \A n \in Member : InActive(n)' <=> InActive(n) \/ n = m
<1>. DEFINE w == WithoutActive(m)
<1>1. w \in Seq(Member)
  BY WithoutOrder DEF IsOrder, TypeOK
<1>2. \A n \in Member : (\E k \in DOMAIN w : w[k] = n) <=> InActive(n) /\ n # m
  BY ActiveWithout
<1>. HIDE DEF w
<1>3. \A n \in Member :
        (\E k \in DOMAIN Append(w, m) : Append(w, m)[k] = n)
          <=> (\E k \in DOMAIN w : w[k] = n) \/ n = m
  BY <1>1
<1>4. active' = Append(w, m)
  BY DEF w
<1>. QED BY <1>2, <1>3, <1>4 DEF InActive

\* What a step makes of a callback.  It has no items but between its script and the start of
\* their tasks, it turns to the removal of its member only when the queue was empty, it lets go
\* of its items only by starting their tasks or in a mishap, and it starts for an active member.
CallbackStep(h, m) ==
  LET p == pick[h][m]
      q == pick'[h][m]
  IN  /\ q.step \notin {"unlock", "touch"} => q.items = {}
      /\ q.step = "remove" => p.step = "remove" \/ Queue(ResourceOf[m]) = {}
      /\ p.items # {} => q.items # {} \/ Touch(h, m) \/ Mishap
      /\ q # p => p # NoPick \/ InActive(m)

\* A callback that does not change satisfies it.
LEMMA CallbackRests ==
  ASSUME EmptyHanded, NEW h \in Host, NEW m \in Member, pick'[h][m] = pick[h][m]
  PROVE  CallbackStep(h, m)
  BY DEF CallbackStep, EmptyHanded

\* Every callback satisfies it when its host makes a step of the callback of another member,
\* or of this one.
LEMMA CallbackSet ==
  ASSUME TypeOK, EmptyHanded, NEW h \in Host, NEW m \in Member, NEW p, SetPick(h, m, p),
         pick[h][m] # NoPick,
         p.step \notin {"unlock", "touch"} => p.items = {},
         p.step = "remove" => pick[h][m].step = "remove" \/ Queue(ResourceOf[m]) = {},
         pick[h][m].items # {} => p.items # {} \/ Touch(h, m) \/ Mishap
  PROVE  \A g \in Host, n \in Member : CallbackStep(g, n)
<1>. SUFFICES ASSUME NEW g \in Host, NEW n \in Member PROVE CallbackStep(g, n)
  OBVIOUS
<1>1. pick'[g][n] = IF g = h /\ n = m THEN p ELSE pick[g][n]
  BY SetPickEffect
<1>2. CASE g = h /\ n = m
  BY <1>1, <1>2 DEF CallbackStep
<1>3. CASE ~(g = h /\ n = m)
  BY <1>1, <1>3, CallbackRests
<1>. QED BY <1>2, <1>3

\* The last alternative of Retrieve: nothing was read because the queue is empty.
LEMMA NothingRead ==
  ASSUME TypeOK, NEW r, NEW max \in Nat, ~(RangeSize(max, Cardinality(Queue(r))) > 0)
  PROVE  Queue(r) = {}
<1>1. IsFiniteSet(Queue(r)) /\ Cardinality(Queue(r)) \in Nat
  BY FS_Subset, FS_CardinalityType, SchedulerAssumption DEF Queue, TypeOK
<1>2. Cardinality(Queue(r)) = 0
  BY <1>1 DEF RangeSize, AtMost
<1>. QED BY <1>1, <1>2, FS_EmptySet

\* Every step of a callback.
LEMMA CallbackPicking ==
  ASSUME TypeOK, EmptyHanded, NEW h \in Host, NEW m \in Member,
         Picking(h, m) \/ CallbackThrows(h, m)
  PROVE  \A g \in Host, n \in Member : CallbackStep(g, n)
<1>. DEFINE o == pick[h][m]
            Goal == \A g \in Host, n \in Member : CallbackStep(g, n)
<1>. SUFFICES Goal
  OBVIOUS
<1>. HIDE DEF Goal
<1>1. o \in PickState /\ (o.step \notin {"unlock", "touch"} => o.items = {})
  BY DEF TypeOK, EmptyHanded
<1>2. NoPick.step = "none" /\ NoPick.items = {}
  BY DEF NoPick
<1>3. o.step # "none" => o # NoPick
  BY <1>2
<1>4. ASSUME NEW s \in {"standby", "remove"}, NEW p, p = [NoPick EXCEPT !.step = s]
      PROVE  p.step = s /\ p.items = {}
  BY <1>4 DEF NoPick
<1>5. ASSUME NEW s, NEW p, p = [o EXCEPT !.step = s]
      PROVE  p.step = s /\ p.items = o.items
  BY <1>1, <1>5 DEF PickState
<1>6. ASSUME SetPick(h, m, NoPick), o.step # "none", o.items = {} \/ Touch(h, m) \/ Mishap
      PROVE  Goal
  BY <1>2, <1>3, <1>6, CallbackSet DEF Goal
<1>7. CASE Lock(h, m)
  <2>1. o.step = "lock" /\ (SetPick(h, m, NoPick) \/ SetPick(h, m, [o EXCEPT !.step = "retrieve"]))
    BY <1>7 DEF Lock, StepTo
  <2>2. CASE SetPick(h, m, NoPick)
    BY <1>1, <1>6, <2>1, <2>2
  <2>3. CASE SetPick(h, m, [o EXCEPT !.step = "retrieve"])
    <3>. DEFINE p == [o EXCEPT !.step = "retrieve"]
    <3>1. p.step = "retrieve" /\ p.items = {}
      BY <1>1, <1>5, <2>1
    <3>. HIDE DEF p
    <3>2. SetPick(h, m, p)
      BY <2>3 DEF p
    <3>. QED BY <1>1, <1>3, <2>1, <3>1, <3>2, CallbackSet DEF Goal
  <2>. QED BY <2>1, <2>2, <2>3
<1>8. CASE Exhausted(h, m)
  <2>1. PICK p : p = [NoPick EXCEPT !.step = "standby"] /\ SetPick(h, m, p) /\ o.step = "retrieve"
    BY <1>8 DEF Exhausted
  <2>2. p.step = "standby" /\ p.items = {}
    BY <1>4, <2>1
  <2>. QED BY <1>1, <1>3, <2>1, <2>2, CallbackSet DEF Goal
<1>9. CASE Retrieve(h, m)
  <2>1. o.step = "retrieve" /\ o.items = {} /\ o.count \in Nat
    BY <1>1, <1>9 DEF Retrieve, PickState
  <2>2. PICK requests \in Available, S \in SUBSET Queue(ResourceOf[m]) :
          \/ /\ S # {}
             /\ SetPick(h, m, [NoPick EXCEPT !.step = "unlock", !.items = S])
          \/ SetPick(h, m, [NoPick EXCEPT !.step = "standby"])
          \/ /\ ~(RangeSize(AtMost(o.count, requests), Cardinality(Queue(ResourceOf[m]))) > 0)
             /\ SetPick(h, m, [NoPick EXCEPT !.step = "remove"])
    BY <1>9 DEF Retrieve
  <2>3. CASE S # {} /\ SetPick(h, m, [NoPick EXCEPT !.step = "unlock", !.items = S])
    <3>1. PICK p : p = [NoPick EXCEPT !.step = "unlock", !.items = S] /\ SetPick(h, m, p)
      BY <2>3
    <3>2. p.step = "unlock"
      BY <3>1 DEF NoPick
    <3>. QED BY <1>3, <2>1, <3>1, <3>2, CallbackSet DEF Goal
  <2>4. CASE SetPick(h, m, [NoPick EXCEPT !.step = "standby"])
    <3>1. PICK p : p = [NoPick EXCEPT !.step = "standby"] /\ SetPick(h, m, p)
      BY <2>4
    <3>. QED BY <1>3, <1>4, <2>1, <3>1, CallbackSet DEF Goal
  <2>5. CASE /\ ~(RangeSize(AtMost(o.count, requests), Cardinality(Queue(ResourceOf[m]))) > 0)
             /\ SetPick(h, m, [NoPick EXCEPT !.step = "remove"])
    <3>1. PICK p : p = [NoPick EXCEPT !.step = "remove"] /\ SetPick(h, m, p)
      BY <2>5
    <3>2. AtMost(o.count, requests) \in Nat
      BY <2>1, SchedulerAssumption DEF AtMost
    <3>3. Queue(ResourceOf[m]) = {}
      BY <2>5, <3>2, NothingRead
    <3>. QED BY <1>3, <1>4, <2>1, <3>1, <3>3, CallbackSet DEF Goal
  <2>. QED BY <2>2, <2>3, <2>4, <2>5
<1>10. CASE MoveToStandby(h, m) \/ RemoveActive(h, m)
  <2>1. PICK p : /\ p = [o EXCEPT !.step = "unlock"] /\ SetPick(h, m, p)
                 /\ o.step \in {"standby", "remove"}
    BY <1>10 DEF MoveToStandby, RemoveActive, StepTo
  <2>2. p.step = "unlock" /\ o.items = {}
    BY <1>1, <1>5, <2>1
  <2>. QED BY <1>3, <2>1, <2>2, CallbackSet DEF Goal
<1>11. CASE Unlock(h, m)
  <2>1. /\ o.step = "unlock"
        /\ \/ o.items = {} /\ SetPick(h, m, NoPick)
           \/ o.items # {} /\ SetPick(h, m, [o EXCEPT !.step = "touch"])
    BY <1>11 DEF Unlock, StepTo
  <2>2. CASE o.items = {} /\ SetPick(h, m, NoPick)
    BY <1>6, <2>1, <2>2
  <2>3. CASE o.items # {} /\ SetPick(h, m, [o EXCEPT !.step = "touch"])
    <3>1. PICK p : p = [o EXCEPT !.step = "touch"] /\ SetPick(h, m, p)
      BY <2>3
    <3>2. p.step = "touch" /\ p.items # {}
      BY <1>5, <2>3, <3>1
    <3>. QED BY <1>3, <2>1, <3>1, <3>2, CallbackSet DEF Goal
  <2>. QED BY <2>1, <2>2, <2>3
<1>12. CASE Touch(h, m)
  <2>1. o.step = "touch" /\ SetPick(h, m, NoPick)
    BY <1>12 DEF Touch
  <2>. QED BY <1>6, <1>12, <2>1
<1>13. CASE CallbackThrows(h, m)
  <2>1. o.step # "none" /\ SetPick(h, m, NoPick) /\ Mishap
    BY <1>13 DEF CallbackThrows, Mishap
  <2>. QED BY <1>1, <1>6, <2>1
<1>. QED BY <1>7, <1>8, <1>9, <1>10, <1>11, <1>12, <1>13 DEF Picking

\* Every step of the system.
LEMMA CallbackSteps ==
  ASSUME TypeOK, EmptyHanded, [Next]_vars
  PROVE  \A h \in Host, m \in Member : CallbackStep(h, m)
<1>. DEFINE Goal == \A h \in Host, m \in Member : CallbackStep(h, m)
<1>. SUFFICES Goal
  OBVIOUS
<1>. HIDE DEF Goal
<1>. USE DEF queueVars, boundVars
<1>1. pick' = pick => Goal
  BY CallbackRests DEF Goal
<1>2. ASSUME NEW h \in Host, NEW i \in Item,
             SendItem(h, i) \/ RequeueItem(h, i) \/ TaskEnds(h, i) \/ TaskDefers(h, i)
      PROVE  Goal
  BY <1>1, <1>2 DEF SendItem, RequeueItem, TaskEnds, TaskDefers
<1>3. ASSUME NEW a \in activation, Activate(a) \/ Signal(a) \/ ActivationFails(a) PROVE Goal
  BY <1>1, <1>3 DEF Activate, Signal, ActivationFails
<1>4. ASSUME NEW m \in Member, ExpireStandby(m) PROVE Goal
  BY <1>1, <1>4 DEF ExpireStandby
<1>5. ASSUME NEW r \in Resource, LockExpires(r) PROVE Goal
  BY <1>1, <1>5 DEF LockExpires
<1>6. ASSUME NEW h \in Host, Looping(h) PROVE Goal
  <2>1. CASE Sleep(h) \/ Wake(h) \/ LoopEnds(h) \/ Restart(h)
    BY <1>1, <2>1 DEF Sleep, Wake, LoopEnds, Restart
  <2>2. CASE Poll(h)
    <3>. DEFINE free   == MaxTasks - Cardinality(tasks[h])
                number == RangeSize(AtMost(free, ResourcesPerBatch), Len(active))
                Slots(n) == free \div number + IF n = 1 THEN free % number ELSE 0
                Picked(m) == pick[h][m] = NoPick /\ \E n \in 1..number : active[n] = m
                Started(m) == [NoPick EXCEPT !.step = "lock",
                                 !.count = Slots(CHOOSE n \in 1..number : active[n] = m)]
    <3>1. pick' = [pick EXCEPT ![h] = [m \in Member |->
                     IF Picked(m) THEN Started(m) ELSE pick[h][m]]]
      BY <2>2 DEF Poll
    <3>2. \A m \in Member : Picked(m) => InActive(m)
      <4>1. number \in Int /\ number <= Len(active) /\ DOMAIN active = 1..Len(active)
        <5>1. Cardinality(tasks[h]) \in Nat
          BY FS_CardinalityType, FS_Subset, SchedulerAssumption DEF TypeOK
        <5>2. Len(active) \in Nat /\ DOMAIN active = 1..Len(active)
          BY DEF TypeOK
        <5>3. MaxTasks - Cardinality(tasks[h]) > 0
          BY <2>2, Zenon DEF Poll
        <5>. QED BY <5>1, <5>2, <5>3, SchedulerAssumption DEF AtMost, RangeSize
      <4>. QED BY <4>1 DEF InActive
    <3>3. \A m : Started(m).step = "lock" /\ Started(m).items = {}
      BY DEF NoPick
    <3>. HIDE DEF Picked, Started
    <3>4. \A g \in Host, m \in Member :
            pick'[g][m] = IF g = h /\ Picked(m) THEN Started(m) ELSE pick[g][m]
      BY <3>1 DEF TypeOK
    <3>5. \A m \in Member : Picked(m) => pick[h][m].items = {}
      BY DEF Picked, NoPick
    <3>6. ASSUME NEW g \in Host, NEW m \in Member PROVE CallbackStep(g, m)
      <4>1. CASE g = h /\ Picked(m)
        BY <3>2, <3>3, <3>4, <3>5, <4>1 DEF CallbackStep
      <4>2. CASE ~(g = h /\ Picked(m))
        BY <3>4, <4>2, CallbackRests
      <4>. QED BY <4>1, <4>2
    <3>. QED BY <3>6 DEF Goal
  <2>. QED BY <1>6, <2>1, <2>2 DEF Looping
<1>7. ASSUME NEW h \in Host, Crash(h) PROVE Goal
  <2>1. \A g \in Host, m \in Member :
          pick'[g][m] = IF g = h THEN NoPick ELSE pick[g][m]
    BY <1>7 DEF Crash, TypeOK
  <2>2. ASSUME NEW g \in Host, NEW m \in Member PROVE CallbackStep(g, m)
    <3>1. CASE g = h
      <4>1. NoPick.items = {} /\ NoPick.step = "none"
        BY DEF NoPick
      <4>2. Mishap
        BY <1>7 DEF Mishap
      <4>. QED BY <2>1, <3>1, <4>1, <4>2 DEF CallbackStep
    <3>2. CASE g # h
      BY <2>1, <3>2, CallbackRests
    <3>. QED BY <3>1, <3>2
  <2>. QED BY <2>2 DEF Goal
<1>8. ASSUME NEW h \in Host, NEW m \in Member, Picking(h, m) \/ CallbackThrows(h, m) PROVE Goal
  BY <1>8, CallbackPicking DEF Goal
<1>9. CASE UNCHANGED vars
  BY <1>1, <1>9 DEF vars
<1>. QED BY <1>2, <1>3, <1>4, <1>5, <1>6, <1>7, <1>8, <1>9 DEF Next, Sending

\* sendBatch takes an item from what its member has left, and behind the last one it starts an
\* activation of that member; it touches no other one.
LEMMA SendEffect ==
  ASSUME TypeOK, NEW h \in Host, NEW i \in Item, SendItem(h, i)
  PROVE  /\ Unsent(MemberOf[i])
         /\ \A n \in Member : Unsent(n)' => Unsent(n)
         /\ \A n \in Member : n # MemberOf[i] /\ Unsent(n) => Unsent(n)'
         /\ \/ Unsent(MemberOf[i])' /\ activation' = activation
            \/ /\ ~Unsent(MemberOf[i])'
               /\ \E a : /\ a.step = "add" /\ MemberBehind(a) = MemberOf[i]
                         /\ activation' = activation \cup {a}
<1>. DEFINE m == MemberOf[i]
            a == [host |-> h, cause |-> m, step |-> "add"]
<1>1. unsent' = unsent \ {i} /\ i \in unsent /\ unsent \subseteq Item
  BY DEF SendItem, TypeOK
<1>2. m \in Member /\ m \notin Item
  BY SchedulerAssumption
<1>3. a.step = "add" /\ MemberBehind(a) = m
  BY <1>2 DEF MemberBehind
<1>. HIDE DEF a
<1>4. activation' = IF \A j \in unsent' : MemberOf[j] # m THEN activation \cup {a} ELSE activation
  BY DEF SendItem, a
<1>. QED BY <1>1, <1>3, <1>4 DEF Unsent

\* An item comes to a main queue when it is sent or put back.
LEMMA QueuedBy ==
  ASSUME TypeOK, [Next]_vars
  PROVE  \A i \in queued' \ queued :
           i \in Item /\ \E h \in Host : SendItem(h, i) \/ RequeueItem(h, i)
<1>. DEFINE Goal == \A i \in queued' \ queued :
                      i \in Item /\ \E h \in Host : SendItem(h, i) \/ RequeueItem(h, i)
<1>. SUFFICES Goal
  OBVIOUS
<1>1. queued' \subseteq queued => Goal
  OBVIOUS
<1>2. ASSUME NEW h \in Host, NEW i \in Item, queued' = queued \cup {i},
             SendItem(h, i) \/ RequeueItem(h, i)
      PROVE  Goal
  BY <1>2
<1>. HIDE DEF Goal
<1>. USE DEF queueVars, boundVars
<1>3. ASSUME NEW h \in Host, NEW i \in Item, SendItem(h, i) \/ RequeueItem(h, i) PROVE Goal
  BY <1>2, <1>3 DEF SendItem, RequeueItem
<1>4. ASSUME NEW h \in Host, NEW i \in Item, TaskEnds(h, i) \/ TaskDefers(h, i) PROVE Goal
  BY <1>1, <1>4 DEF TaskEnds, TaskDefers
<1>5. ASSUME NEW a \in activation, Activate(a) \/ Signal(a) \/ ActivationFails(a) PROVE Goal
  BY <1>1, <1>5 DEF Activate, Signal, ActivationFails
<1>6. ASSUME NEW m \in Member, ExpireStandby(m) PROVE Goal
  BY <1>1, <1>6 DEF ExpireStandby
<1>7. ASSUME NEW r \in Resource, LockExpires(r) PROVE Goal
  BY <1>1, <1>7 DEF LockExpires
<1>8. ASSUME NEW h \in Host, Looping(h) \/ Crash(h) PROVE Goal
  <2>1. CASE Poll(h)
    <3>1. queued' = queued
      BY <2>1, Zenon DEF Poll
    <3>. QED BY <1>1, <3>1
  <2>2. CASE Crash(h)
    BY <1>1, <2>2 DEF Crash
  <2>3. CASE Sleep(h) \/ Wake(h) \/ LoopEnds(h) \/ Restart(h)
    BY <1>1, <2>3 DEF Sleep, Wake, LoopEnds, Restart
  <2>. QED BY <1>8, <2>1, <2>2, <2>3 DEF Looping
<1>9. ASSUME NEW h \in Host, NEW m \in Member, Picking(h, m) \/ CallbackThrows(h, m) PROVE Goal
  <2>1. CASE Retrieve(h, m)
    <3>1. queued' \subseteq queued
      BY <2>1 DEF Retrieve
    <3>. QED BY <1>1, <3>1
  <2>2. CASE Lock(h, m) \/ Exhausted(h, m) \/ MoveToStandby(h, m) \/ RemoveActive(h, m)
    BY <1>1, <2>2 DEF Lock, Exhausted, MoveToStandby, RemoveActive
  <2>3. CASE Unlock(h, m) \/ Touch(h, m) \/ CallbackThrows(h, m)
    BY <1>1, <2>3 DEF Unlock, Touch, CallbackThrows
  <2>. QED BY <1>9, <2>1, <2>2, <2>3 DEF Picking
<1>10. CASE UNCHANGED vars
  BY <1>1, <1>10 DEF vars
<1>. QED BY <1>3, <1>4, <1>5, <1>6, <1>7, <1>8, <1>9, <1>10 DEF Next, Sending

\* Then its member is on its way.
LEMMA QueuedOnItsWay ==
  ASSUME TypeOK, [Next]_vars
  PROVE  \A i \in queued' \ queued : OnItsWay(MemberOf[i])'
<1>1. ASSUME NEW h \in Host, NEW i \in Item, SendItem(h, i) PROVE OnItsWay(MemberOf[i])'
  BY <1>1, SendEffect DEF OnItsWay, Adding
<1>2. ASSUME NEW h \in Host, NEW i \in Item, RequeueItem(h, i) PROVE OnItsWay(MemberOf[i])'
  <2>. DEFINE a == [host |-> h, cause |-> i, step |-> "add"]
  <2>1. a.step = "add" /\ MemberBehind(a) = MemberOf[i]
    BY DEF MemberBehind
  <2>. HIDE DEF a
  <2>2. a \in activation'
    BY <1>2 DEF RequeueItem, a
  <2>. QED BY <2>1, <2>2 DEF OnItsWay, Adding
<1>. QED BY <1>1, <1>2, QueuedBy

\* Only a removal or a mishap takes a member off its way.
Kept(n) ==
  OnItsWay(n) => OnItsWay(n)' \/ Mishap \/ \E h \in Host : RemoveActive(h, n)

\* Every step satisfies this.
LEMMA WayKept ==
  ASSUME TypeOK, [Next]_vars
  PROVE  \A n \in Member : Kept(n)
<1>. DEFINE Goal == \A n \in Member : Kept(n)
<1>. SUFFICES Goal
  OBVIOUS
<1>. USE DEF queueVars, boundVars
<1>1. ASSUME active' = active, standby' = standby, unsent' = unsent, activation' = activation
      PROVE  Goal
  BY <1>1 DEF Kept, OnItsWay, Unsent, Adding, InActive
<1>. HIDE DEF Goal
<1>2. ASSUME NEW h \in Host, NEW i \in Item, SendItem(h, i) PROVE Goal
  <2>1. active' = active /\ standby' = standby /\ activation \subseteq activation'
    BY <1>2 DEF SendItem
  <2>2. \A n \in Member : InActive(n) => InActive(n)'
    BY <2>1 DEF InActive
  <2>3. OnItsWay(MemberOf[i])'
    BY <1>2, SendEffect DEF OnItsWay, Adding
  <2>4. \A n \in Member : n # MemberOf[i] /\ Unsent(n) => Unsent(n)'
    BY <1>2, SendEffect
  <2>5. \A n \in Member : Adding(n) => Adding(n)'
    BY <2>1 DEF Adding
  <2>. QED BY <2>1, <2>2, <2>3, <2>4, <2>5 DEF Goal, Kept, OnItsWay
<1>3. ASSUME NEW h \in Host, NEW i \in Item, RequeueItem(h, i) PROVE Goal
  <2>1. /\ active' = active /\ standby' = standby /\ unsent' = unsent
        /\ activation \subseteq activation'
    BY <1>3 DEF RequeueItem
  <2>. QED BY <2>1 DEF Goal, Kept, OnItsWay, Unsent, Adding, InActive
<1>4. ASSUME NEW h \in Host, NEW i \in Item, TaskEnds(h, i) \/ TaskDefers(h, i) PROVE Goal
  BY <1>1, <1>4 DEF TaskEnds, TaskDefers
<1>5. ASSUME NEW a \in activation, Activate(a) PROVE Goal
  <2>1. MemberBehind(a) \in Member
    BY <1>5, MemberBehindType DEF TypeOK
  <2>2. \A n \in Member : InActive(n)' <=> InActive(n) \/ n = MemberBehind(a)
    BY <1>5, <2>1, ActiveWith DEF Activate
  <2>3. standby' = standby /\ unsent' = unsent /\ activation \ {a} \subseteq activation'
    BY <1>5 DEF Activate
  <2>. QED BY <2>2, <2>3 DEF Goal, Kept, OnItsWay, Unsent, Adding
<1>6. ASSUME NEW a \in activation, Signal(a) PROVE Goal
  <2>1. /\ active' = active /\ standby' = standby /\ unsent' = unsent
        /\ activation' = activation \ {a} /\ a.step = "signal"
    BY <1>6 DEF Signal
  <2>. QED BY <2>1 DEF Goal, Kept, OnItsWay, Unsent, Adding, InActive
<1>7. ASSUME NEW m \in Member, ExpireStandby(m) PROVE Goal
  <2>1. \A n \in Member : InActive(n)' <=> InActive(n) \/ n = m
    BY <1>7, ActiveMoved DEF ExpireStandby
  <2>2. standby' = standby \ {m} /\ unsent' = unsent /\ activation' = activation
    BY <1>7 DEF ExpireStandby
  <2>. QED BY <2>1, <2>2 DEF Goal, Kept, OnItsWay, Unsent, Adding
<1>8. ASSUME NEW r \in Resource, LockExpires(r) PROVE Goal
  BY <1>1, <1>8 DEF LockExpires
<1>9. ASSUME NEW h \in Host, Looping(h) PROVE Goal
  <2>1. CASE Poll(h)
    <3>1. active' = active /\ standby' = standby /\ unsent' = unsent /\ activation' = activation
      BY <2>1, Zenon DEF Poll
    <3>. QED BY <1>1, <3>1
  <2>2. CASE Sleep(h) \/ Wake(h) \/ LoopEnds(h) \/ Restart(h)
    BY <1>1, <2>2 DEF Sleep, Wake, LoopEnds, Restart
  <2>. QED BY <1>9, <2>1, <2>2 DEF Looping
<1>10. ASSUME Mishap PROVE Goal
  BY <1>10 DEF Goal, Kept
<1>11. ASSUME NEW h \in Host, NEW m \in Member, Picking(h, m) PROVE Goal
  <2>1. CASE Retrieve(h, m)
    <3>1. active' = active /\ standby' = standby /\ unsent' = unsent /\ activation' = activation
      BY <2>1 DEF Retrieve
    <3>. QED BY <1>1, <3>1
  <2>2. CASE Lock(h, m) \/ Exhausted(h, m) \/ Unlock(h, m)
    BY <1>1, <2>2 DEF Lock, Exhausted, Unlock
  <2>3. CASE MoveToStandby(h, m)
    <3>1. /\ standby' = standby \cup {m} /\ unsent' = unsent /\ activation' = activation
          /\ active' = WithoutActive(m)
      BY <2>3 DEF MoveToStandby
    <3>2. \A n \in Member : InActive(n)' <=> InActive(n) /\ n # m
      BY <3>1, ActiveRemoved
    <3>. QED BY <3>1, <3>2 DEF Goal, Kept, OnItsWay, Unsent, Adding
  <2>4. CASE RemoveActive(h, m)
    <3>1. /\ standby' = standby /\ unsent' = unsent /\ activation' = activation
          /\ active' = WithoutActive(m)
      BY <2>4 DEF RemoveActive
    <3>2. \A n \in Member : InActive(n)' <=> InActive(n) /\ n # m
      BY <3>1, ActiveRemoved
    <3>3. \A n \in Member : n # m => (OnItsWay(n) => OnItsWay(n)')
      BY <3>1, <3>2 DEF OnItsWay, Unsent, Adding
    <3>. QED BY <2>4, <3>3 DEF Goal, Kept
  <2>5. CASE Touch(h, m)
    <3>1. /\ standby' = standby /\ unsent' = unsent /\ activation' = activation
          /\ active' = AddActive(m)
      BY <2>5 DEF Touch
    <3>2. \A n \in Member : InActive(n)' <=> InActive(n) \/ n = m
      BY <3>1, ActiveWith
    <3>. QED BY <3>1, <3>2 DEF Goal, Kept, OnItsWay, Unsent, Adding
  <2>. QED BY <1>11, <2>1, <2>2, <2>3, <2>4, <2>5 DEF Picking
<1>12. CASE UNCHANGED vars
  BY <1>1, <1>12 DEF vars
<1>. QED BY <1>2, <1>3, <1>4, <1>5, <1>6, <1>7, <1>8, <1>9, <1>10, <1>11, <1>12
         DEF Next, Sending, Mishap

\* While everything goes straight nothing is deferred, and nothing was before.
LEMMA StraightSteps ==
  ASSUME TypeOK, [Next]_vars, Straight'
  PROVE  Straight /\ deferred' \subseteq deferred /\ ~Mishap
<1>. DEFINE Goal == requeues = 0 /\ deferred' \subseteq deferred
<1>1. ~Mishap
  BY FaultStep DEF Mishap, Crash, CallbackThrows, ActivationFails, Straight, TypeOK
<1>2. ~Happened("crash") /\ ~Happened("throw")
  BY HappenedStays DEF Straight
<1>3. requeues' = 0 /\ requeues \in Nat
  BY DEF Straight, TypeOK
<1>. USE DEF queueVars, boundVars
<1>4. requeues' = requeues /\ deferred' \subseteq deferred => Goal
  BY <1>3
<1>. SUFFICES Goal
  BY <1>1, <1>2 DEF Straight
<1>. HIDE DEF Goal
<1>5. ASSUME NEW h \in Host, NEW i \in Item, SendItem(h, i) \/ RequeueItem(h, i) \/ TaskEnds(h, i)
      PROVE  Goal
  BY <1>4, <1>5 DEF SendItem, RequeueItem, TaskEnds
<1>6. ASSUME NEW h \in Host, NEW i \in Item, TaskDefers(h, i) PROVE Goal
  BY <1>3, <1>6 DEF TaskDefers
<1>7. ASSUME NEW a \in activation, Activate(a) \/ Signal(a) PROVE Goal
  BY <1>4, <1>7 DEF Activate, Signal
<1>8. ASSUME NEW m \in Member, ExpireStandby(m) PROVE Goal
  BY <1>4, <1>8 DEF ExpireStandby
<1>9. ASSUME NEW r \in Resource, LockExpires(r) PROVE Goal
  BY <1>4, <1>9 DEF LockExpires
<1>10. ASSUME NEW h \in Host, Looping(h) PROVE Goal
  <2>1. CASE Poll(h)
    <3>1. requeues' = requeues /\ deferred' = deferred
      BY <2>1, Zenon DEF Poll
    <3>. QED BY <1>4, <3>1
  <2>2. CASE Sleep(h) \/ Wake(h) \/ LoopEnds(h) \/ Restart(h)
    BY <1>4, <2>2 DEF Sleep, Wake, LoopEnds, Restart
  <2>. QED BY <1>10, <2>1, <2>2 DEF Looping
<1>11. ASSUME NEW h \in Host, NEW m \in Member, Picking(h, m) PROVE Goal
  <2>1. CASE Retrieve(h, m)
    <3>1. requeues' = requeues /\ deferred' = deferred
      BY <2>1 DEF Retrieve
    <3>. QED BY <1>4, <3>1
  <2>2. CASE Lock(h, m) \/ Exhausted(h, m) \/ MoveToStandby(h, m) \/ RemoveActive(h, m)
    BY <1>4, <2>2 DEF Lock, Exhausted, MoveToStandby, RemoveActive
  <2>3. CASE Unlock(h, m) \/ Touch(h, m)
    BY <1>4, <2>3 DEF Unlock, Touch
  <2>. QED BY <1>11, <2>1, <2>2, <2>3 DEF Picking
<1>12. CASE UNCHANGED vars
  BY <1>4, <1>12 DEF vars
<1>. QED BY <1>1, <1>5, <1>6, <1>7, <1>8, <1>9, <1>10, <1>11, <1>12
         DEF Next, Sending, Mishap

\* Nobody has looked at the member.
Quiet(m) == ~InActive(m) /\ m \notin standby /\ \A h \in Host : pick[h][m] = NoPick

\* A step that starts no activation, and does not turn to a member nobody has looked at.
LEMMA AnnouncedStays ==
  ASSUME Announced, Straight, deferred' \subseteq deferred,
         \A h \in Host, n \in Member : CallbackStep(h, n),
         unsent' = unsent,
         \A a \in activation' : a.step = "add" => a \in activation,
         \A n \in Member : Quiet(n) /\ (Unsent(n)' \/ Adding(n)') => ~InActive(n)' /\ n \notin standby'
  PROVE  Announced'
<1>1. \A n \in Member : (Unsent(n)' => Unsent(n)) /\ (Adding(n)' => Adding(n))
  BY DEF Unsent, Adding
<1>2. \A n \in Member : Quiet(n) => \A h \in Host : pick'[h][n] = NoPick
  BY DEF Quiet, CallbackStep
<1>3. \A n \in Member : Unsent(n) \/ Adding(n) => Quiet(n) /\ ~(Unsent(n) /\ Adding(n))
  BY DEF Announced, Quiet
<1>4. deferred' = {}
  BY DEF Announced
<1>5. \A n \in Member : Unsent(n)' \/ Adding(n)' =>
        /\ ~(Unsent(n)' /\ Adding(n)') /\ ~InActive(n)' /\ n \notin standby'
        /\ \A h \in Host : pick'[h][n] = NoPick
  BY <1>1, <1>2, <1>3
<1>6. \A a, b \in activation' :
        a.step = "add" /\ b.step = "add" /\ MemberBehind(a) = MemberBehind(b) => a = b
  BY DEF Announced
<1>. QED BY <1>4, <1>5, <1>6 DEF Announced

\* Every step keeps the announcement.
LEMMA NextAnnounced ==
  TypeOK /\ EmptyHanded /\ Announced /\ [Next]_vars => Announced'
<1>. SUFFICES ASSUME TypeOK, EmptyHanded, Announced, [Next]_vars, Straight' PROVE Announced'
  BY DEF Announced
<1>0. /\ Straight /\ deferred' \subseteq deferred /\ ~Mishap
      /\ \A h \in Host, n \in Member : CallbackStep(h, n)
  BY StraightSteps, CallbackSteps
<1>. USE DEF queueVars, boundVars
<1>1. ASSUME active' = active, standby' = standby, unsent' = unsent, activation' = activation
      PROVE  Announced'
  <2>1. \A n \in Member : Quiet(n) => ~InActive(n)' /\ n \notin standby'
    BY <1>1 DEF Quiet, InActive
  <2>. QED BY <1>0, <1>1, <2>1, AnnouncedStays
<1>2. ASSUME NEW h \in Host, NEW i \in Item, SendItem(h, i) PROVE Announced'
  <2>. DEFINE m == MemberOf[i]
  <2>1. active' = active /\ standby' = standby /\ pick' = pick /\ deferred' = deferred
    BY <1>2 DEF SendItem
  <2>2. /\ m \in Member /\ Unsent(m)
        /\ \A n \in Member : Unsent(n)' => Unsent(n)
        /\ \/ Unsent(m)' /\ activation' = activation
           \/ /\ ~Unsent(m)'
              /\ \E a : /\ a.step = "add" /\ MemberBehind(a) = m
                        /\ activation' = activation \cup {a}
    BY <1>2, SendEffect, SchedulerAssumption
  <2>3. ~Adding(m) /\ Straight
    BY <1>0, <2>2 DEF Announced
  <2>4. \A n \in Member : n # m => (Adding(n)' <=> Adding(n))
    BY <2>2 DEF Adding
  <2>5. ~(Unsent(m)' /\ Adding(m)')
    BY <2>2, <2>3 DEF Adding
  <2>6. \A n \in Member : Unsent(n)' \/ Adding(n)' =>
          /\ Unsent(n) \/ Adding(n)
          /\ ~(Unsent(n)' /\ Adding(n)')
    BY <2>2, <2>3, <2>4, <2>5 DEF Announced
  <2>7. \A n \in Member : Unsent(n)' \/ Adding(n)' =>
          /\ ~(Unsent(n)' /\ Adding(n)') /\ ~InActive(n)' /\ n \notin standby'
          /\ \A g \in Host : pick'[g][n] = NoPick
    BY <2>1, <2>3, <2>6 DEF Announced, InActive
  <2>8. \A a, b \in activation' :
          a.step = "add" /\ b.step = "add" /\ MemberBehind(a) = MemberBehind(b) => a = b
    <3>1. CASE activation' = activation
      BY <2>3, <3>1 DEF Announced
    <3>2. CASE \E c : c.step = "add" /\ MemberBehind(c) = m /\ activation' = activation \cup {c}
      BY <2>3, <3>2 DEF Announced, Adding
    <3>. QED BY <2>2, <3>1, <3>2
  <2>9. deferred' = {}
    BY <2>1, <2>3 DEF Announced
  <2>. QED BY <2>7, <2>8, <2>9 DEF Announced
<1>3. ASSUME NEW h \in Host, NEW i \in Item,
             RequeueItem(h, i) \/ TaskEnds(h, i) \/ TaskDefers(h, i)
      PROVE  Announced'
  <2>1. ~RequeueItem(h, i)
    BY <1>0 DEF Announced, RequeueItem
  <2>. QED BY <1>1, <1>3, <2>1 DEF TaskEnds, TaskDefers
<1>4. ASSUME NEW a \in activation, Activate(a) PROVE Announced'
  <2>. DEFINE m == MemberBehind(a)
  <2>1. m \in Member /\ a.step = "add" /\ Adding(m) /\ a \in Activation
    BY <1>4, MemberBehindType DEF TypeOK, Activate, Adding
  <2>2. \A n \in Member : InActive(n)' <=> InActive(n) \/ n = m
    BY <1>4, <2>1, ActiveWith DEF Activate
  <2>3. standby' = standby /\ unsent' = unsent
    BY <1>4 DEF Activate
  <2>4. [a EXCEPT !.step = "signal"].step = "signal"
    BY <2>1 DEF Activation
  <2>5. \A b \in activation' : b.step = "add" => b \in activation \ {a}
    BY <1>4, <2>4 DEF Activate
  <2>6. ~Unsent(m)' /\ ~Adding(m)'
    <3>1. ~Unsent(m)
      BY <1>0, <2>1 DEF Announced
    <3>2. \A b \in activation \ {a} : b.step = "add" => MemberBehind(b) # m
      BY <1>0, <2>1 DEF Announced
    <3>. QED BY <2>3, <2>5, <3>1, <3>2 DEF Unsent, Adding
  <2>. HIDE DEF m
  <2>7. \A n \in Member : Quiet(n) /\ (Unsent(n)' \/ Adding(n)') => ~InActive(n)' /\ n \notin standby'
    BY <2>2, <2>3, <2>6 DEF Quiet
  <2>. QED BY <1>0, <2>3, <2>5, <2>7, AnnouncedStays
<1>5. ASSUME NEW a \in activation, Signal(a) PROVE Announced'
  <2>1. /\ active' = active /\ standby' = standby /\ unsent' = unsent
        /\ activation' = activation \ {a}
    BY <1>5 DEF Signal
  <2>2. \A n \in Member : Quiet(n) => ~InActive(n)' /\ n \notin standby'
    BY <2>1 DEF Quiet, InActive
  <2>. QED BY <1>0, <2>1, <2>2, AnnouncedStays
<1>6. ASSUME NEW m \in Member, ExpireStandby(m) PROVE Announced'
  <2>1. \A n \in Member : InActive(n)' <=> InActive(n) \/ n = m
    BY <1>6, ActiveMoved DEF ExpireStandby
  <2>2. m \in standby /\ standby' = standby \ {m} /\ unsent' = unsent /\ activation' = activation
    BY <1>6 DEF ExpireStandby
  <2>3. \A n \in Member : Quiet(n) => ~InActive(n)' /\ n \notin standby'
    BY <2>1, <2>2 DEF Quiet
  <2>. QED BY <1>0, <2>2, <2>3, AnnouncedStays
<1>7. ASSUME NEW r \in Resource, LockExpires(r) PROVE Announced'
  BY <1>1, <1>7 DEF LockExpires
<1>8. ASSUME NEW h \in Host, Looping(h) PROVE Announced'
  <2>1. CASE Poll(h)
    <3>1. active' = active /\ standby' = standby /\ unsent' = unsent /\ activation' = activation
      BY <2>1, Zenon DEF Poll
    <3>. QED BY <1>1, <3>1
  <2>2. CASE Sleep(h) \/ Wake(h) \/ LoopEnds(h) \/ Restart(h)
    BY <1>1, <2>2 DEF Sleep, Wake, LoopEnds, Restart
  <2>. QED BY <1>8, <2>1, <2>2 DEF Looping
<1>9. ASSUME NEW h \in Host, NEW m \in Member, Picking(h, m) PROVE Announced'
  <2>1. CASE Retrieve(h, m)
    <3>1. active' = active /\ standby' = standby /\ unsent' = unsent /\ activation' = activation
      BY <2>1 DEF Retrieve
    <3>. QED BY <1>1, <3>1
  <2>2. CASE Lock(h, m) \/ Exhausted(h, m) \/ Unlock(h, m)
    BY <1>1, <2>2 DEF Lock, Exhausted, Unlock
  <2>3. CASE MoveToStandby(h, m) \/ RemoveActive(h, m)
    <3>1. /\ standby' \subseteq standby \cup {m} /\ unsent' = unsent /\ activation' = activation
          /\ active' = WithoutActive(m)
      BY <2>3 DEF MoveToStandby, RemoveActive
    <3>2. \A n \in Member : InActive(n)' <=> InActive(n) /\ n # m
      BY <3>1, ActiveRemoved
    <3>3. ~Quiet(m)
      BY <2>3 DEF MoveToStandby, RemoveActive, Quiet, NoPick
    <3>4. \A n \in Member : Quiet(n) => ~InActive(n)' /\ n \notin standby'
      <4>. SUFFICES ASSUME NEW n \in Member, Quiet(n) PROVE ~InActive(n)' /\ n \notin standby'
        OBVIOUS
      <4>1. n # m /\ ~InActive(n) /\ n \notin standby
        BY <3>3 DEF Quiet
      <4>. QED BY <3>1, <3>2, <4>1
    <3>. QED BY <1>0, <3>1, <3>4, AnnouncedStays
  <2>4. CASE Touch(h, m)
    <3>1. /\ standby' = standby /\ unsent' = unsent /\ activation' = activation
          /\ active' = AddActive(m)
      BY <2>4 DEF Touch
    <3>2. \A n \in Member : InActive(n)' <=> InActive(n) \/ n = m
      BY <3>1, ActiveWith
    <3>3. ~Quiet(m)
      BY <2>4 DEF Touch, Quiet, NoPick
    <3>4. \A n \in Member : Quiet(n) => ~InActive(n)' /\ n \notin standby'
      <4>. SUFFICES ASSUME NEW n \in Member, Quiet(n) PROVE ~InActive(n)' /\ n \notin standby'
        OBVIOUS
      <4>1. n # m /\ ~InActive(n) /\ n \notin standby
        BY <3>3 DEF Quiet
      <4>. QED BY <3>1, <3>2, <4>1
    <3>. QED BY <1>0, <3>1, <3>4, AnnouncedStays
  <2>. QED BY <1>9, <2>1, <2>2, <2>3, <2>4 DEF Picking
<1>10. CASE UNCHANGED vars
  BY <1>1, <1>10 DEF vars
<1>. QED BY <1>0, <1>2, <1>3, <1>4, <1>5, <1>6, <1>7, <1>8, <1>9, <1>10
         DEF Next, Sending, Mishap

\* Every step keeps a member on its way to a queue with items.
LEMMA NextWatched ==
  TypeOK /\ EmptyHanded /\ Announced /\ Watched /\ [Next]_vars => Watched'
<1>. SUFFICES ASSUME TypeOK, EmptyHanded, Announced, Watched, [Next]_vars, Straight',
                     NEW r \in Resource, Queue(r)' # {}
              PROVE  \E m \in Member : /\ ResourceOf[m] = r /\ OnItsWay(m)'
                                       /\ \A h \in Host : pick'[h][m].step # "remove"
  BY DEF Watched
<1>0. /\ Straight /\ ~Mishap
      /\ \A h \in Host, n \in Member : CallbackStep(h, n)
  BY StraightSteps, CallbackSteps
<1>1. CASE Queue(r) # {}
  <2>1. PICK m \in Member : /\ ResourceOf[m] = r /\ OnItsWay(m)
                            /\ \A h \in Host : pick[h][m].step # "remove"
    BY <1>0, <1>1 DEF Watched
  <2>2. OnItsWay(m)'
    <3>1. Kept(m)
      BY WayKept
    <3>. QED BY <1>0, <2>1, <3>1 DEF Kept, RemoveActive
  <2>3. \A h \in Host : pick'[h][m].step # "remove"
    BY <1>0, <1>1, <2>1 DEF CallbackStep
  <2>. QED BY <2>1, <2>2, <2>3
<1>2. CASE Queue(r) = {}
  <2>1. PICK i \in queued' \ queued : i \in Item /\ ResourceOf[MemberOf[i]] = r
    <3>1. PICK i \in queued' : ResourceOf[MemberOf[i]] = r
      BY DEF Queue
    <3>2. i \notin queued
      BY <1>2, <3>1 DEF Queue
    <3>3. queued' \subseteq Item
      BY NextType DEF TypeOK
    <3>. QED BY <3>1, <3>2, <3>3
  <2>. DEFINE m == MemberOf[i]
  <2>2. m \in Member /\ OnItsWay(m)'
    BY <2>1, QueuedOnItsWay, SchedulerAssumption
  <2>3. Quiet(m)
    <3>1. PICK h \in Host : SendItem(h, i)
      BY <1>0, <2>1, QueuedBy DEF Announced, RequeueItem
    <3>2. Unsent(m)
      BY <2>1, <3>1, SendEffect
    <3>. QED BY <1>0, <2>2, <3>2 DEF Announced, Quiet
  <2>4. \A h \in Host : pick'[h][m].step # "remove"
    <3>1. \A h \in Host : pick'[h][m] = NoPick
      BY <1>0, <2>2, <2>3 DEF Quiet, CallbackStep
    <3>. QED BY <3>1 DEF NoPick
  <2>. QED BY <2>1, <2>2, <2>4
<1>. QED BY <1>1, <1>2

\* Every step keeps what callbacks may have in their hands.
LEMMA NextEmptyHanded == TypeOK /\ EmptyHanded /\ [Next]_vars => EmptyHanded'
  BY CallbackSteps DEF EmptyHanded, CallbackStep

\* A resource, in the words of this section, whose queue nobody will look at.
LEMMA StrandedIs ==
  ASSUME NEW r \in Resource
  PROVE  Stranded(r) <=>
           /\ Queue(r) # {}
           /\ \A m \in Member : ResourceOf[m] = r => ~OnItsWay(m) /\ ~Held(m)
  BY DEF Stranded, OnItsWay, Held, Unsent, Adding

\* Only a mishap, or the removal of a member of a queue that has items, strands the queue.
LEMMA StrandedBy ==
  ASSUME TypeOK, EmptyHanded, [Next]_vars, NEW r \in Resource, ~Stranded(r), Stranded(r)'
  PROVE  \/ Mishap
         \/ /\ Queue(r) # {}
            /\ \E h \in Host, m \in Member : ResourceOf[m] = r /\ RemoveActive(h, m)
<1>1. /\ Queue(r)' # {}
      /\ \A m \in Member : ResourceOf[m] = r =>
           /\ ~OnItsWay(m)'
           /\ \A h \in Host : pick'[h][m].items = {}
  BY DEF Stranded, OnItsWay, Unsent, Adding
<1>2. Queue(r) # {}
  <2>. SUFFICES ASSUME Queue(r) = {} PROVE FALSE
    OBVIOUS
  <2>1. PICK i \in queued' : ResourceOf[MemberOf[i]] = r
    BY <1>1 DEF Queue
  <2>2. i \notin queued
    BY <2>1 DEF Queue
  <2>3. OnItsWay(MemberOf[i])' /\ MemberOf[i] \in Member
    BY <2>1, <2>2, QueuedOnItsWay, QueuedBy, SchedulerAssumption
  <2>. QED BY <1>1, <2>1, <2>3
<1>3. PICK m \in Member : ResourceOf[m] = r /\ (OnItsWay(m) \/ Held(m))
  BY <1>2, StrandedIs
<1>4. CASE OnItsWay(m)
  <2>1. Kept(m)
    BY WayKept
  <2>. QED BY <1>1, <1>2, <1>3, <1>4, <2>1 DEF Kept
<1>5. CASE Held(m)
  <2>1. PICK h \in Host : pick[h][m].items # {}
    BY <1>5 DEF Held
  <2>2. CallbackStep(h, m)
    BY CallbackSteps
  <2>3. Touch(h, m) \/ Mishap
    BY <1>1, <1>3, <2>1, <2>2 DEF CallbackStep
  <2>4. Touch(h, m) => InActive(m)'
    BY ActiveWith DEF Touch
  <2>. QED BY <1>1, <1>3, <2>3, <2>4 DEF OnItsWay
<1>. QED BY <1>3, <1>4, <1>5

\* A queue with items is stranded only by a crash or a failed call, or by the removal of a
\* member after an item has come back: however many batches share the queue, and whatever the
\* order of their callbacks, sendings and expiries.
THEOREM StrandedByRequeueOnlyHolds == Spec => StrandedByRequeueOnly
<1>. DEFINE Stranding ==
       \A r \in Resource : (~Stranded(r) /\ Stranded(r)') =>
         \/ \E kind \in {"crash", "throw"} : faults' = Append(faults, kind)
         \/ /\ requeues > 0 \/ Happened("crash") \/ Happened("throw")
            /\ \E h \in Host, m \in Member :
                 ResourceOf[m] = r /\ pick[h][m].step = "remove"
       Inv == TypeOK /\ EmptyHanded /\ Announced /\ Watched
<1>1. Init => Inv
  <2>. SUFFICES ASSUME Init PROVE Inv
    OBVIOUS
  <2>1. EmptyHanded
    BY DEF Init, EmptyHanded, NoPick
  <2>2. Announced
    <3>1. /\ activation = {} /\ deferred = {} /\ standby = {}
          /\ \A m \in Member : ~InActive(m)
          /\ \A h \in Host, m \in Member : pick[h][m] = NoPick
      BY DEF Init, InActive
    <3>. QED BY <3>1 DEF Announced, Adding
  <2>3. Watched
    BY DEF Init, Watched, Queue
  <2>. QED BY <2>1, <2>2, <2>3, InitType
<1>2. Inv /\ [Next]_vars => Inv'
  BY NextType, NextEmptyHanded, NextAnnounced, NextWatched
<1>3. Inv /\ [Next]_vars => Stranding
  <2>. SUFFICES ASSUME Inv, [Next]_vars, NEW r \in Resource, ~Stranded(r), Stranded(r)'
                PROVE  \/ \E kind \in {"crash", "throw"} : faults' = Append(faults, kind)
                       \/ /\ requeues > 0 \/ Happened("crash") \/ Happened("throw")
                          /\ \E h \in Host, m \in Member :
                               ResourceOf[m] = r /\ pick[h][m].step = "remove"
    OBVIOUS
  <2>1. CASE Mishap
    BY <2>1 DEF Mishap, Crash, CallbackThrows, ActivationFails, Fault
  <2>2. ASSUME Queue(r) # {}, NEW h \in Host, NEW m \in Member,
               ResourceOf[m] = r, RemoveActive(h, m)
        PROVE  /\ requeues > 0 \/ Happened("crash") \/ Happened("throw")
               /\ pick[h][m].step = "remove"
    <3>1. pick[h][m].step = "remove"
      BY <2>2 DEF RemoveActive
    <3>2. ~Straight
      <4>. SUFFICES ASSUME Straight PROVE FALSE
        OBVIOUS
      <4>1. PICK n \in Member : /\ ResourceOf[n] = r /\ OnItsWay(n)
                                /\ \A g \in Host : pick[g][n].step # "remove"
        BY <2>2 DEF Watched
      <4>2. n # m
        BY <3>1, <4>1
      <4>3. /\ active' = WithoutActive(m) /\ standby' = standby
            /\ unsent' = unsent /\ activation' = activation
        BY <2>2 DEF RemoveActive, queueVars
      <4>4. InActive(n) => InActive(n)'
        BY <4>2, <4>3, ActiveRemoved
      <4>5. OnItsWay(n)'
        BY <4>1, <4>3, <4>4 DEF OnItsWay, Unsent, Adding
      <4>. QED BY <4>1, <4>5 DEF Stranded, OnItsWay, Unsent, Adding
    <3>3. requeues \in Nat
      BY DEF TypeOK
    <3>. QED BY <3>1, <3>2, <3>3 DEF Straight
  <2>. QED BY <2>1, <2>2, StrandedBy
<1>. HIDE DEF Stranding, Inv
<1>4. Spec => [][Stranding]_vars
  BY <1>1, <1>2, <1>3, PTL DEF Spec
<1>. QED BY <1>4 DEF Stranding, StrandedByRequeueOnly
==============================================================================
