------------------------------- MODULE Telemetry -------------------------------
(***************************************************************************)
(* The records a completion leaves behind, on their way out of the         *)
(* process: the write buffers of completion/usage/usage.service.ts and     *)
(* completion/audit/audit.service.ts, which are the same code with two     *)
(* thresholds, and the counters of completion/metrics/metrics.service.ts.  *)
(*                                                                         *)
(* A push appends to an array in memory.  A flush works on the first       *)
(* elements of that array while pushes go on behind them.                  *)
(***************************************************************************)
EXTENDS Naturals, FiniteSets, Sequences

CONSTANTS
  Store,         \* the write buffers
  Threshold,     \* how many items make a push flush (usage: 100, audit: 25)
  Bucket,        \* metrics: one resource, connection, model and minute
  MaxAttempts,   \* how often a metrics item is put back (3)
  MaxPushed,     \* bound: items pushed to a buffer
  Loads          \* bound: the pairs of pushes to each store and to the metrics that a
                 \* behaviour may be about

ASSUME TelemetryAssumption ==
  /\ Threshold \in [Store -> Nat \ {0}]
  /\ MaxAttempts \in Nat \ {0} /\ MaxPushed \in Nat
  /\ Loads \subseteq (0..MaxPushed) \X (0..MaxPushed)

VARIABLES
  load,                  \* bound; it does not change
  buffer, flushing,      \* of each store: the array; the items in transit (0: no flush)
  pushed, stored, lost,  \* of each store: items pushed; copies stored; items given up
  metrics,               \* the array of metrics items
  transit,               \* metrics: the items being flushed (0: no flush)
  result,                \* metrics: what became of each bucket of the flush
  measured,              \* metrics: items pushed
  counted,               \* Redis: how often each item is in its bucket's counter
  disturbed              \* history: metrics items of a rejected bucket, or put back

storeVars == <<buffer, flushing, pushed, stored, lost>>
metricsVars == <<metrics, transit, result, measured, counted, disturbed>>
vars == <<load, storeVars, metricsVars>>

-----------------------------------------------------------------------------
Id == 1..MaxPushed

\* attempts 0 stands for undefined: a push sets none.
Item == [id : Id, attempts : Nat]
Measure == [id : Id, bucket : Bucket, attempts : 0..MaxAttempts]

IdsOf(s) == {s[k].id : k \in DOMAIN s}

\* The n-th smallest of a set of indices.
Nth(S, n) == CHOOSE i \in S : Cardinality({j \in S : j <= i}) = n

\* Mutant: the attempts of an item that is put back are not counted.
PutBackUncounted(item) == item

PutBack(item) == [item EXCEPT !.attempts = @ + 1]

\* The elements at these indices, in their order, to be put back.
AgainAt(array, S) == [n \in 1..Cardinality(S) |-> PutBack(array[Nth(S, n)])]

Init ==
  /\ load \in Loads
  /\ buffer = [s \in Store |-> <<>>] /\ flushing = [s \in Store |-> 0]
  /\ pushed = [s \in Store |-> 0]
  /\ stored = [s \in Store |-> [x \in Id |-> 0]] /\ lost = [s \in Store |-> {}]
  /\ metrics = <<>> /\ transit = 0 /\ result = [b \in Bucket |-> "none"]
  /\ measured = 0 /\ counted = [x \in Id |-> 0] /\ disturbed = {}

-----------------------------------------------------------------------------
(* A write buffer. *)

\* A push may start a flush; a flush under way is left alone.
Push(s) ==
  /\ pushed[s] < load[1]
  /\ pushed' = [pushed EXCEPT ![s] = @ + 1]
  /\ LET longer == Append(buffer[s], [id |-> pushed'[s], attempts |-> 0])
     IN  /\ buffer' = [buffer EXCEPT ![s] = longer]
         /\ flushing' = IF Len(longer) >= Threshold[s] /\ flushing[s] = 0
                          THEN [flushing EXCEPT ![s] = Len(longer)] ELSE flushing
  /\ UNCHANGED <<load, stored, lost, metricsVars>>

\* Mutant: only a full buffer is flushed.
FlushWhenFull(s) ==
  /\ Len(buffer[s]) >= Threshold[s] /\ flushing[s] = 0
  /\ flushing' = [flushing EXCEPT ![s] = Len(buffer[s])]
  /\ UNCHANGED <<load, buffer, pushed, stored, lost, metricsVars>>

\* The cron job, every ten seconds.
Flush(s) ==
  /\ buffer[s] # <<>> /\ flushing[s] = 0
  /\ flushing' = [flushing EXCEPT ![s] = Len(buffer[s])]
  /\ UNCHANGED <<load, buffer, pushed, stored, lost, metricsVars>>

Transit(s) == SubSeq(buffer[s], 1, flushing[s])

\* Mutant: the buffer is emptied.
BehindDropsAll(array, n) == <<>>

\* splice(0, bufferLength)
Behind(array, n) == SubSeq(array, n + 1, Len(array))

\* The database takes the items in ids.
Insert(s, ids) ==
  stored' = [stored EXCEPT ![s] = [x \in Id |-> @[x] + (IF x \in ids THEN 1 ELSE 0)]]

Flushed(s) ==
  /\ flushing[s] > 0
  /\ Insert(s, IdsOf(Transit(s)))
  /\ buffer' = [buffer EXCEPT ![s] = Behind(@, flushing[s])]
  /\ flushing' = [flushing EXCEPT ![s] = 0]
  /\ UNCHANGED <<load, pushed, lost, metricsVars>>

\* Mutant: an item that was never put back has 0 attempts, and is put back.
RetryableFromZero(item) == item.attempts <= 3

\* item.attempts && item.attempts <= 3
Retryable(item) == item.attempts # 0 /\ item.attempts <= 3

\* The insert fails, or its answer does: any of the items may have been stored.
FlushFails(s) ==
  /\ flushing[s] > 0
  /\ \E taken \in SUBSET IdsOf(Transit(s)) : Insert(s, taken)
  /\ LET again == AgainAt(buffer[s], {k \in 1..flushing[s] : Retryable(buffer[s][k])})
     IN  /\ buffer' = [buffer EXCEPT ![s] = Behind(@, flushing[s]) \o again]
         /\ lost' = [lost EXCEPT ![s] = @ \cup (IdsOf(Transit(s)) \ IdsOf(again))]
  /\ flushing' = [flushing EXCEPT ![s] = 0]
  /\ UNCHANGED <<load, pushed, metricsVars>>

-----------------------------------------------------------------------------
(* The metrics. *)

Measured ==
  /\ measured < load[2]
  /\ measured' = measured + 1
  /\ \E b \in Bucket :
       metrics' = Append(metrics, [id |-> measured', bucket |-> b, attempts |-> 0])
  /\ UNCHANGED <<load, storeVars, transit, result, counted, disturbed>>

\* Mutant: the array is read when the transactions are sent.
InTransitAll == metrics

InTransit == SubSeq(metrics, 1, transit)

\* The ids of the items of the flush that are counted under bucket b.
Grouped(b) == {InTransit[k].id : k \in {j \in DOMAIN InTransit : InTransit[j].bucket = b}}

\* The cron job, every second: the first elements are grouped by bucket.
FlushMetrics ==
  /\ transit = 0 /\ metrics # <<>>
  /\ transit' = Len(metrics)
  /\ result' = [b \in Bucket |->
                  IF \E k \in DOMAIN metrics : metrics[k].bucket = b THEN "sent" ELSE "none"]
  /\ UNCHANGED <<load, storeVars, metrics, measured, counted, disturbed>>

Count(ids) ==
  counted' = [x \in Id |-> counted[x] + (IF x \in ids THEN 1 ELSE 0)]

\* One transaction of Redis per bucket.
CountBucket(b) ==
  /\ result[b] = "sent"
  /\ result' = [result EXCEPT ![b] = "fulfilled"]
  /\ Count(Grouped(b))
  /\ UNCHANGED <<load, storeVars, metrics, transit, measured, disturbed>>

\* It may have been executed, and its answer lost.
CountBucketFails(b) ==
  /\ result[b] = "sent"
  /\ result' = [result EXCEPT ![b] = "rejected"]
  /\ Count(Grouped(b)) \/ UNCHANGED counted
  /\ disturbed' = disturbed \cup Grouped(b)
  /\ UNCHANGED <<load, storeVars, metrics, transit, measured>>

\* Buckets in the order in which their first item was pushed.
FirstOf(b) == CHOOSE k \in 1..transit :
                /\ metrics[k].bucket = b
                /\ \A j \in 1..(k - 1) : metrics[j].bucket # b

Position(b) ==
  Cardinality({c \in Bucket : result[c] # "none" /\ FirstOf(c) <= FirstOf(b)})

\* Mutant: one attempt more.
GivesUpLate(item) == item.attempts > MaxAttempts

GivesUp(item) == item.attempts >= MaxAttempts

\* For the i-th bucket, if it was rejected, the i-th item of the buffer is put back,
\* whatever bucket that item belongs to.
Failed ==
  LET rejected == {Position(b) : b \in {c \in Bucket : result[c] = "rejected"}}
  IN  AgainAt(metrics, {i \in rejected : ~GivesUp(metrics[i])})

\* Every transaction has settled.
MetricsFlushed ==
  /\ transit > 0 /\ \A b \in Bucket : result[b] # "sent"
  /\ metrics' = Behind(metrics, transit) \o Failed
  /\ disturbed' = disturbed \cup IdsOf(Failed)
  /\ transit' = 0 /\ result' = [b \in Bucket |-> "none"]
  /\ UNCHANGED <<load, storeVars, measured, counted>>

-----------------------------------------------------------------------------
\* The process ends with what it has in memory, and another one starts.
Restart ==
  /\ metrics # <<>> \/ \E s \in Store : buffer[s] # <<>>
  /\ lost' = [s \in Store |-> lost[s] \cup IdsOf(buffer[s])]
  /\ buffer' = [s \in Store |-> <<>>] /\ flushing' = [s \in Store |-> 0]
  /\ disturbed' = disturbed \cup IdsOf(metrics)
  /\ metrics' = <<>> /\ transit' = 0 /\ result' = [b \in Bucket |-> "none"]
  /\ UNCHANGED <<load, pushed, stored, measured, counted>>

FlushStep(s) == Flush(s) \/ Flushed(s) \/ FlushFails(s)

MetricsStep ==
  \/ FlushMetrics \/ MetricsFlushed
  \/ \E b \in Bucket : CountBucket(b) \/ CountBucketFails(b)

Next ==
  \/ \E s \in Store : Push(s) \/ FlushStep(s)
  \/ Measured \/ MetricsStep
  \/ Restart

Spec == Init /\ [][Next]_vars

\* Cron jobs fire, and every call to a database settles.
FairSpec ==
  /\ Spec
  /\ \A s \in Store : WF_vars(FlushStep(s))
  /\ WF_vars(MetricsStep)

-----------------------------------------------------------------------------
\* The types of the variables; a flush works on elements the array has.
TypeOK ==
  /\ load \in Loads
  /\ buffer \in [Store -> Seq(Item)] /\ flushing \in [Store -> Nat]
  /\ \A s \in Store : flushing[s] <= Len(buffer[s])
  /\ pushed \in [Store -> 0..MaxPushed]
  /\ stored \in [Store -> [Id -> Nat]] /\ lost \in [Store -> SUBSET Id]
  /\ metrics \in Seq(Measure) /\ transit \in 0..Len(metrics)
  /\ result \in [Bucket -> {"none", "sent", "fulfilled", "rejected"}]
  /\ measured \in 0..MaxPushed /\ counted \in [Id -> Nat] /\ disturbed \subseteq Id

\* An item pushed to a write buffer is still in it, once, or it is stored, or a failed
\* flush or the end of the process took it: a push while a flush runs is not lost.
NothingDisappears ==
  \A s \in Store : \A x \in 1..pushed[s] :
    LET places == Cardinality({k \in DOMAIN buffer[s] : buffer[s][k].id = x})
    IN  places = 1 \/ (places = 0 /\ (stored[s][x] > 0 \/ x \in lost[s]))

\* No record is stored twice, though a flush that seems to fail may have stored it.
StoredOnce == \A s \in Store : \A x \in Id : stored[s][x] <= 1

\* A metrics item that no rejected bucket disturbed is counted once.
CountedExactly ==
  \A x \in (1..measured) \ disturbed :
    \/ counted[x] = 1 /\ \A k \in DOMAIN metrics :
         metrics[k].id = x => k <= transit /\ result[metrics[k].bucket] = "fulfilled"
    \/ counted[x] = 0 /\ x \in IdsOf(metrics)

\* However many buckets are rejected, no item is counted more often than once and
\* once for every time an item may be put back.
CountedBounded == \A x \in Id : counted[x] <= 1 + MaxAttempts

\* Whatever fails, an item does not stay in a buffer for ever.
BuffersDrain ==
  \A x \in Id :
    /\ \A s \in Store : x \in IdsOf(buffer[s]) ~> x \notin IdsOf(buffer[s])
    /\ x \in IdsOf(metrics) ~> x \notin IdsOf(metrics)
=============================================================================
