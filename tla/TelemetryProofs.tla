--------------------------- MODULE TelemetryProofs ---------------------------
(***************************************************************************)
(* Proofs about Telemetry, for every set of buffers and buckets, every     *)
(* threshold and every number of attempts and of records.                  *)
(***************************************************************************)
EXTENDS Telemetry, Integers, FiniteSetTheorems, SequenceTheorems, WellFoundedInduction,
        NaturalsInduction, TLAPS

-----------------------------------------------------------------------------
(* Indices.                                                                *)

\* A set of natural numbers that is not empty has a least element.
LEMMA LeastElement ==
  ASSUME NEW S \in SUBSET Nat, S # {}
  PROVE  \E x \in S : \A y \in S : x <= y
<1>1. PICK x \in S : \A y \in S : ~(<<y, x>> \in OpToRel(<, Nat))
  BY NatLessThanWellFounded, WFMin
<1>2. \A y \in S : ~(y < x)
  BY <1>1 DEF OpToRel
<1>. QED BY <1>2

\* The n-th smallest of a finite set of indices exists, and is another one for every n.
LEMMA NthProperties ==
  ASSUME NEW S \in SUBSET Nat, IsFiniteSet(S)
  PROVE  /\ Cardinality(S) \in Nat
         /\ \A n \in 1..Cardinality(S) : Nth(S, n) \in S
         /\ \A m, n \in 1..Cardinality(S) : Nth(S, m) = Nth(S, n) => m = n
<1>. DEFINE UpTo(i) == {j \in S : j <= i}
            size == Cardinality(S)
            f == [i \in S |-> Cardinality(UpTo(i))]
<1>1. size \in Nat
  BY FS_CardinalityType
<1>2. \A i \in S : IsFiniteSet(UpTo(i)) /\ Cardinality(UpTo(i)) \in 1..size
  <2>. SUFFICES ASSUME NEW i \in S
                PROVE  IsFiniteSet(UpTo(i)) /\ Cardinality(UpTo(i)) \in 1..size
    OBVIOUS
  <2>1. UpTo(i) \in SUBSET S /\ i \in UpTo(i)
    OBVIOUS
  <2>2. IsFiniteSet(UpTo(i)) /\ Cardinality(UpTo(i)) <= size
    BY <2>1, FS_Subset
  <2>3. Cardinality(UpTo(i)) \in Nat /\ Cardinality(UpTo(i)) # 0
    BY <2>1, <2>2, FS_CardinalityType, FS_EmptySet
  <2>. QED BY <1>1, <2>2, <2>3
<1>. HIDE DEF UpTo
<1>3. \A i, j \in S : i < j => Cardinality(UpTo(i)) # Cardinality(UpTo(j))
  <2>. SUFFICES ASSUME NEW i \in S, NEW j \in S, i < j
                PROVE  Cardinality(UpTo(i)) # Cardinality(UpTo(j))
    OBVIOUS
  <2>0. (\A k \in S : k <= i => k <= j) /\ j <= j /\ ~(j <= i)
    OBVIOUS
  <2>1. UpTo(i) \in SUBSET UpTo(j) /\ j \in UpTo(j) /\ j \notin UpTo(i)
    BY <2>0, Zenon DEF UpTo
  <2>. QED BY <1>2, <2>1, FS_Subset
<1>4. f \in Injection(S, 1..size)
  <2>1. f \in [S -> 1..size]
    BY <1>2
  <2>2. \A i, j \in S : f[i] = f[j] => i = j
    BY <1>3
  <2>. QED BY <2>1, <2>2 DEF Injection, IsInjective
<1>5. IsFiniteSet(1..size) /\ Cardinality(1..size) = size
  BY <1>1, FS_Interval
<1>6. f \in Surjection(S, 1..size)
  BY <1>4, <1>5, FS_Injection
<1>7. \A n \in 1..size : \E i \in S : Cardinality(UpTo(i)) = n
  BY <1>6 DEF Surjection
<1>8. \A n \in 1..size : Nth(S, n) \in S /\ Cardinality(UpTo(Nth(S, n))) = n
  BY <1>7 DEF Nth, UpTo
<1>. QED BY <1>1, <1>8 DEF Nth

\* The array behind its first n elements.
LEMMA BehindProperties ==
  ASSUME NEW T, NEW array \in Seq(T), NEW n \in 0..Len(array)
  PROVE  /\ Behind(array, n) \in Seq(T)
         /\ Len(Behind(array, n)) = Len(array) - n
         /\ \A k \in 1..(Len(array) - n) : Behind(array, n)[k] = array[n + k]
<1>1. Len(array) \in Nat /\ n \in Nat
  OBVIOUS
<1>2. CASE n = Len(array)
  <2>1. Behind(array, n) = <<>>
    BY <1>1, <1>2, SubSeqEmpty DEF Behind
  <2>. QED BY <1>1, <1>2, <2>1
<1>3. CASE n < Len(array)
  <2>1. n + 1 \in 1..(Len(array) + 1) /\ Len(array) \in (n + 1 - 1)..Len(array)
    BY <1>1, <1>3
  <2>. QED BY <1>1, <1>3, <2>1, SubSeqProperties DEF Behind
<1>. QED BY <1>1, <1>2, <1>3

\* What is put back is a sequence.
LEMMA AgainAtType ==
  ASSUME NEW T, NEW array, NEW n \in Nat, NEW S \in SUBSET (1..n),
         \A i \in S : PutBack(array[i]) \in T
  PROVE  /\ AgainAt(array, S) \in Seq(T)
         /\ \A k \in DOMAIN AgainAt(array, S) :
              \E i \in S : AgainAt(array, S)[k] = PutBack(array[i])
<1>1. S \in SUBSET Nat /\ IsFiniteSet(S)
  <2>1. IsFiniteSet(1..n)
    BY FS_Interval
  <2>2. IsFiniteSet(S)
    BY <2>1, FS_Subset
  <2>. QED BY <2>2
<1>2. Cardinality(S) \in Nat /\ \A k \in 1..Cardinality(S) : Nth(S, k) \in S
  BY <1>1, NthProperties
<1>. DEFINE size == Cardinality(S)
            again == [k \in 1..size |-> PutBack(array[Nth(S, k)])]
<1>3. again \in [1..size -> T] /\ \A k \in 1..size : \E i \in S : again[k] = PutBack(array[i])
  BY <1>2
<1>. HIDE DEF again, size
<1>4. again \in Seq(T) /\ DOMAIN again = 1..size
  BY <1>2, <1>3 DEF size
<1>5. AgainAt(array, S) = again
  BY DEF AgainAt, again, size
<1>. QED BY <1>3, <1>4, <1>5

\* Every element of the new array comes from a place of its own in the old one: from behind
\* the first n, where none is left out, or from a place of S, and then it was put back.
Reordered(new, array, n, S) ==
  \E from \in [DOMAIN new -> DOMAIN array] :
    /\ \A j, k \in DOMAIN new : from[j] = from[k] => j = k
    /\ \A k \in DOMAIN new :
         \/ from[k] > n /\ new[k] = array[from[k]]
         \/ /\ from[k] \in S /\ new[k] = PutBack(array[from[k]])
            /\ \E j \in DOMAIN AgainAt(array, S) : AgainAt(array, S)[j] = new[k]
    /\ (n + 1)..Len(array) \subseteq {from[k] : k \in DOMAIN new}

\* What is left of an array, with what is put back behind it.
LEMMA PutBackBehind ==
  ASSUME NEW T, NEW array \in Seq(T), NEW n \in 0..Len(array), NEW S \in SUBSET (1..n),
         \A i \in S : PutBack(array[i]) \in T,
         NEW new, new = Behind(array, n) \o AgainAt(array, S)
  PROVE  /\ new \in Seq(T)
         /\ Reordered(new, array, n, S)
<1>1. Len(array) \in Nat /\ n \in Nat /\ n <= Len(array) /\ DOMAIN array = 1..Len(array)
  OBVIOUS
<1>2. S \in SUBSET Nat /\ IsFiniteSet(S)
  <2>1. IsFiniteSet(1..n)
    BY <1>1, FS_Interval
  <2>2. IsFiniteSet(S)
    BY <2>1, FS_Subset
  <2>3. 1..n \subseteq Nat
    BY <1>1
  <2>. QED BY <2>2, <2>3
<1>. DEFINE size == Cardinality(S)
            rest == Len(array) - n
            behind == Behind(array, n)
            again == AgainAt(array, S)
            from == [k \in 1..(rest + size) |-> IF k <= rest THEN n + k ELSE Nth(S, k - rest)]
<1>. HIDE DEF from
<1>3. /\ size \in Nat /\ \A k \in 1..size : Nth(S, k) \in S
      /\ \A j, k \in 1..size : Nth(S, j) = Nth(S, k) => j = k
  BY <1>2, NthProperties
<1>4. /\ behind \in Seq(T) /\ Len(behind) = rest
      /\ \A k \in 1..rest : behind[k] = array[n + k]
  BY BehindProperties
<1>5. /\ again = [k \in 1..size |-> PutBack(array[Nth(S, k)])]
      /\ again \in [1..size -> T] /\ again \in Seq(T) /\ Len(again) = size
  <2>1. again = [k \in 1..size |-> PutBack(array[Nth(S, k)])]
    BY DEF AgainAt
  <2>2. again \in [1..size -> T]
    BY <1>3, <2>1
  <2>. HIDE DEF again, size
  <2>3. again \in Seq(T) /\ Len(again) = size
    BY <1>3, <2>2
  <2>. QED BY <2>1, <2>2, <2>3
<1>6. rest \in Nat /\ n + rest = Len(array)
  BY <1>1
<1>. HIDE DEF size, behind, again, rest
<1>7. /\ new = behind \o again /\ new \in Seq(T) /\ Len(new) = rest + size
      /\ \A k \in 1..(rest + size) : new[k] = IF k <= rest THEN behind[k] ELSE again[k - rest]
  <2>1. new = behind \o again
    BY DEF behind, again
  <2>2. behind \in Seq(T) /\ again \in Seq(T) /\ Len(behind) = rest /\ Len(again) = size
    BY <1>4, <1>5
  <2>. QED BY <2>1, <2>2, ConcatProperties
<1>8. DOMAIN new = 1..(rest + size)
  BY <1>3, <1>6, <1>7
<1>a. \A k \in 1..(rest + size) : from[k] = IF k <= rest THEN n + k ELSE Nth(S, k - rest)
  BY DEF from
<1>9. from \in [DOMAIN new -> DOMAIN array]
  <2>1. ASSUME NEW k \in 1..(rest + size) PROVE from[k] \in 1..Len(array)
    <3>1. CASE k <= rest
      BY <1>1, <1>6, <1>a, <2>1, <3>1
    <3>2. CASE ~(k <= rest)
      <4>1. k - rest \in 1..size
        BY <1>3, <1>6, <2>1, <3>2
      <4>2. from[k] \in 1..n
        BY <1>3, <1>a, <3>2, <4>1
      <4>. QED BY <1>1, <4>2
    <3>. QED BY <3>1, <3>2
  <2>. QED BY <1>1, <1>8, <2>1 DEF from
<1>10. ASSUME NEW k \in DOMAIN new
       PROVE  \/ from[k] > n /\ new[k] = array[from[k]]
              \/ /\ from[k] \in S /\ new[k] = PutBack(array[from[k]])
                 /\ \E j \in DOMAIN AgainAt(array, S) : AgainAt(array, S)[j] = new[k]
  <2>1. CASE k <= rest
    BY <1>1, <1>4, <1>6, <1>7, <1>8, <1>a, <1>10, <2>1
  <2>2. CASE ~(k <= rest)
    <3>1. k - rest \in 1..size /\ from[k] = Nth(S, k - rest)
      BY <1>3, <1>6, <1>8, <1>a, <1>10, <2>2
    <3>2. new[k] = again[k - rest]
      BY <1>7, <1>8, <1>10, <2>2
    <3>3. k - rest \in DOMAIN again
      BY <1>5, <3>1
    <3>4. \E j \in DOMAIN AgainAt(array, S) : AgainAt(array, S)[j] = new[k]
      BY <3>2, <3>3 DEF again
    <3>5. from[k] \in S /\ new[k] = PutBack(array[from[k]])
      BY <1>3, <1>5, <3>1, <3>2
    <3>. QED BY <3>4, <3>5
  <2>. QED BY <2>1, <2>2
<1>11. ASSUME NEW j \in DOMAIN new, NEW k \in DOMAIN new, from[j] = from[k] PROVE j = k
  <2>1. CASE j <= rest /\ k <= rest
    BY <1>1, <1>6, <1>8, <1>a, <1>11, <2>1
  <2>2. CASE ~(j <= rest) /\ ~(k <= rest)
    <3>1. /\ j - rest \in 1..size /\ k - rest \in 1..size
          /\ from[j] = Nth(S, j - rest) /\ from[k] = Nth(S, k - rest)
      BY <1>3, <1>6, <1>8, <1>a, <1>11, <2>2
    <3>2. j - rest = k - rest
      BY <1>3, <1>11, <3>1
    <3>. QED BY <1>3, <1>6, <1>8, <1>a, <3>2
  <2>3. CASE ~(j <= rest <=> k <= rest)
    <3>1. \A m \in DOMAIN new : m <= rest => from[m] > n
      BY <1>1, <1>6, <1>8, <1>a
    <3>2. \A m \in DOMAIN new : ~(m <= rest) => from[m] <= n
      <4>. SUFFICES ASSUME NEW m \in DOMAIN new, ~(m <= rest) PROVE from[m] <= n
        OBVIOUS
      <4>1. m - rest \in 1..size /\ from[m] = Nth(S, m - rest)
        BY <1>3, <1>6, <1>8, <1>a
      <4>2. from[m] \in 1..n
        BY <1>3, <4>1
      <4>. QED BY <1>1, <4>2
    <3>3. from[j] \in Nat /\ from[k] \in Nat
      BY <1>1, <1>9
    <3>. QED BY <1>1, <1>11, <2>3, <3>1, <3>2, <3>3
  <2>. QED BY <2>1, <2>2, <2>3
<1>12. (n + 1)..Len(array) \subseteq {from[k] : k \in DOMAIN new}
  <2>. SUFFICES ASSUME NEW i \in (n + 1)..Len(array) PROVE \E k \in DOMAIN new : from[k] = i
    OBVIOUS
  <2>1. i - n \in DOMAIN new /\ i - n <= rest
    BY <1>1, <1>3, <1>6, <1>8, <1>a
  <2>2. from[i - n] = i
    BY <1>1, <1>8, <1>a, <2>1
  <2>. QED BY <2>1, <2>2
<1>. QED BY <1>7, <1>9, <1>10, <1>11, <1>12 DEF Reordered

-----------------------------------------------------------------------------
(* Type correctness.                                                       *)

\* A bucket has a result exactly while the flush has items of it.
Sent ==
  /\ \A b \in Bucket : result[b] # "none" => \E k \in 1..transit : metrics[k].bucket = b
  /\ \A k \in 1..transit : result[metrics[k].bucket] # "none"

\* What the types say about the arrays.
LEMMA Arrays ==
  ASSUME TypeOK
  PROVE  /\ MaxPushed \in Nat /\ MaxAttempts \in Nat /\ MaxAttempts > 0
         /\ load[1] \in 0..MaxPushed /\ load[2] \in 0..MaxPushed
         /\ metrics \in Seq(Measure) /\ Len(metrics) \in Nat /\ DOMAIN metrics = 1..Len(metrics)
         /\ transit \in 0..Len(metrics)
         /\ \A s \in Store :
              /\ buffer[s] \in Seq(Item) /\ Len(buffer[s]) \in Nat
              /\ DOMAIN buffer[s] = 1..Len(buffer[s])
              /\ flushing[s] \in 0..Len(buffer[s])
<1>1. load \in (0..MaxPushed) \X (0..MaxPushed)
  BY TelemetryAssumption DEF TypeOK
<1>2. load[1] \in 0..MaxPushed /\ load[2] \in 0..MaxPushed
  BY <1>1
<1>. QED BY <1>2, TelemetryAssumption DEF TypeOK

\* The ids of a sequence of items are ids.
LEMMA IdsType ==
  ASSUME NEW array, array \in Seq(Item) \/ array \in Seq(Measure)
  PROVE  IdsOf(array) \subseteq Id
<1>1. \A k \in DOMAIN array : array[k] \in Item \/ array[k] \in Measure
  OBVIOUS
<1>. QED BY <1>1 DEF IdsOf, Item, Measure

\* The items in transit are the first of the array.
LEMMA TransitIds ==
  ASSUME TypeOK, NEW s \in Store
  PROVE  IdsOf(Transit(s)) = {buffer[s][k].id : k \in 1..flushing[s]}
<1>1. /\ flushing[s] \in Int /\ 1 \in Int /\ flushing[s] \in Nat
      /\ \A k \in 1..flushing[s] : buffer[s][k] \in Item
  BY Arrays
<1>2. /\ Transit(s) \in Seq(Item) /\ Len(Transit(s)) = flushing[s]
      /\ \A k \in 1..flushing[s] : Transit(s)[k] = buffer[s][k]
  BY <1>1, SubSeqProperties DEF Transit
<1>3. DOMAIN Transit(s) = 1..flushing[s]
  BY <1>1, <1>2
<1>. QED BY <1>2, <1>3 DEF IdsOf

\* So are those of the metrics.
LEMMA GroupedIds ==
  ASSUME TypeOK, NEW b \in Bucket
  PROVE  /\ Grouped(b) = {metrics[k].id : k \in {j \in 1..transit : metrics[j].bucket = b}}
         /\ Grouped(b) \subseteq Id
<1>1. /\ transit \in Int /\ 1 \in Int /\ transit \in Nat
      /\ \A k \in 1..transit : metrics[k] \in Measure
  BY Arrays
<1>2. /\ InTransit \in Seq(Measure) /\ Len(InTransit) = transit
      /\ \A k \in 1..transit : InTransit[k] = metrics[k]
  BY <1>1, SubSeqProperties DEF InTransit
<1>3. DOMAIN InTransit = 1..transit
  BY <1>1, <1>2
<1>4. Grouped(b) = {metrics[k].id : k \in {j \in 1..transit : metrics[j].bucket = b}}
  BY <1>2, <1>3 DEF Grouped
<1>. QED BY <1>1, <1>4 DEF Measure

\* The bucket of an item in transit has a first item there.
LEMMA FirstExists ==
  ASSUME TypeOK, Sent, NEW b \in Bucket, result[b] # "none"
  PROVE  FirstOf(b) \in 1..transit /\ metrics[FirstOf(b)].bucket = b
<1>. DEFINE S == {k \in 1..transit : metrics[k].bucket = b}
<1>1. transit \in Nat
  BY Arrays
<1>2. S \in SUBSET Nat /\ S # {}
  BY <1>1 DEF Sent
<1>3. PICK k \in S : \A j \in S : k <= j
  BY <1>2, LeastElement
<1>4. /\ k \in 1..transit /\ metrics[k].bucket = b
      /\ \A j \in 1..(k - 1) : metrics[j].bucket # b
  BY <1>1, <1>3
<1>. QED BY <1>4 DEF FirstOf

\* The position of a bucket among those of the flush is the index of an item in transit:
\* there are no more buckets than items.
LEMMA PositionInTransit ==
  ASSUME TypeOK, Sent, NEW b \in Bucket, result[b] # "none"
  PROVE  Position(b) \in 1..transit
<1>. DEFINE C == {c \in Bucket : result[c] # "none" /\ FirstOf(c) <= FirstOf(b)}
            f == [c \in C |-> FirstOf(c)]
<1>1. transit \in Nat /\ FirstOf(b) \in 1..transit
  BY Arrays, FirstExists
<1>2. \A c \in C : FirstOf(c) \in 1..FirstOf(b) /\ metrics[FirstOf(c)].bucket = c
  BY <1>1, FirstExists
<1>3. f \in Injection(C, 1..FirstOf(b))
  <2>1. f \in [C -> 1..FirstOf(b)]
    BY <1>2
  <2>2. \A c, d \in C : f[c] = f[d] => c = d
    BY <1>2
  <2>. QED BY <2>1, <2>2 DEF Injection, IsInjective
<1>4. IsFiniteSet(1..FirstOf(b)) /\ Cardinality(1..FirstOf(b)) = FirstOf(b)
  BY <1>1, FS_Interval
<1>5. IsFiniteSet(C) /\ Cardinality(C) <= FirstOf(b)
  BY <1>3, <1>4, FS_Injection
<1>6. b \in C
  BY <1>1
<1>7. Cardinality(C) \in Nat /\ Cardinality(C) # 0
  BY <1>5, <1>6, FS_CardinalityType, FS_EmptySet
<1>. HIDE DEF C
<1>8. Cardinality(C) \in 1..transit
  BY <1>1, <1>5, <1>7
<1>. QED BY <1>8 DEF Position, C

\* The indices of the items that are put back.
Again ==
  {i \in {Position(b) : b \in {c \in Bucket : result[c] = "rejected"}} : ~GivesUp(metrics[i])}

\* They are indices of items in transit, with an attempt left.
LEMMA AgainInTransit ==
  ASSUME TypeOK, Sent
  PROVE  /\ Failed = AgainAt(metrics, Again)
         /\ Again \in SUBSET (1..transit)
         /\ \A i \in Again : /\ PutBack(metrics[i]) \in Measure
                            /\ PutBack(metrics[i]).id = metrics[i].id
                            /\ PutBack(metrics[i]).attempts = metrics[i].attempts + 1
<1>1. Failed = AgainAt(metrics, Again)
  BY DEF Failed, Again
<1>2. Again \in SUBSET (1..transit)
  BY PositionInTransit DEF Again
<1>3. \A i \in Again : metrics[i] \in Measure /\ ~GivesUp(metrics[i])
  BY <1>2, Arrays DEF Again
<1>4. ASSUME NEW item \in Measure, ~GivesUp(item)
      PROVE  /\ PutBack(item) \in Measure /\ PutBack(item).id = item.id
             /\ PutBack(item).attempts = item.attempts + 1
  <2>1. MaxAttempts \in Nat /\ item.attempts + 1 \in 0..MaxAttempts
    BY <1>4, TelemetryAssumption DEF GivesUp, Measure
  <2>. QED BY <2>1 DEF PutBack, Measure
<1>. QED BY <1>1, <1>2, <1>3, <1>4

\* What an item of a write buffer becomes when it is put back.
LEMMA PutBackType == \A item \in Item : PutBack(item) \in Item
  BY DEF PutBack, Item

\* The metrics array behind a flush.
LEMMA MetricsBehind ==
  ASSUME TypeOK, Sent, MetricsFlushed
  PROVE  metrics' \in Seq(Measure) /\ Reordered(metrics', metrics, transit, Again)
<1>1. metrics' = Behind(metrics, transit) \o AgainAt(metrics, Again)
  BY AgainInTransit DEF MetricsFlushed
<1>2. /\ metrics \in Seq(Measure) /\ transit \in 0..Len(metrics)
      /\ Again \in SUBSET (1..transit) /\ \A i \in Again : PutBack(metrics[i]) \in Measure
  BY Arrays, AgainInTransit
<1>. QED BY <1>1, <1>2, PutBackBehind

\* A push and a flush of a write buffer keep the types.
LEMMA StoreTyped ==
  ASSUME TypeOK, Sent, NEW s \in Store, Push(s) \/ FlushStep(s)
  PROVE  TypeOK'
<1>. DEFINE array == buffer[s]
<1>1. /\ array \in Seq(Item) /\ Len(array) \in Nat /\ flushing[s] \in 0..Len(array)
      /\ MaxPushed \in Nat /\ load[1] \in 0..MaxPushed
  BY Arrays
<1>2. UNCHANGED <<load, metricsVars>>
  BY DEF FlushStep, Push, Flush, Flushed, FlushFails
<1>3. SUFFICES /\ buffer' \in [Store -> Seq(Item)] /\ flushing' \in [Store -> Nat]
               /\ \A r \in Store : flushing'[r] <= Len(buffer'[r])
               /\ pushed' \in [Store -> 0..MaxPushed]
               /\ stored' \in [Store -> [Id -> Nat]] /\ lost' \in [Store -> SUBSET Id]
  BY <1>2, Zenon DEF TypeOK, metricsVars
<1>4. ASSUME NEW a \in Seq(Item), NEW n \in Nat, n <= Len(a),
             buffer' = [buffer EXCEPT ![s] = a], flushing' = [flushing EXCEPT ![s] = n]
      PROVE  /\ buffer' \in [Store -> Seq(Item)] /\ flushing' \in [Store -> Nat]
             /\ \A r \in Store : flushing'[r] <= Len(buffer'[r])
  BY <1>4 DEF TypeOK
<1>5. ASSUME NEW ids, Insert(s, ids)
      PROVE  stored' \in [Store -> [Id -> Nat]]
  <2>1. stored \in [Store -> [Id -> Nat]]
    BY DEF TypeOK
  <2>2. [x \in Id |-> stored[s][x] + (IF x \in ids THEN 1 ELSE 0)] \in [Id -> Nat]
    BY <2>1
  <2>. QED BY <1>5, <2>1, <2>2 DEF Insert
<1>6. CASE Push(s)
  <2>. DEFINE item == [id |-> pushed'[s], attempts |-> 0]
              longer == Append(array, item)
  <2>1. pushed' = [pushed EXCEPT ![s] = pushed[s] + 1] /\ pushed[s] < load[1]
    BY <1>6 DEF Push
  <2>2. pushed[s] \in 0..MaxPushed /\ pushed[s] + 1 \in 1..MaxPushed
    BY <1>1, <2>1 DEF TypeOK
  <2>3. pushed' \in [Store -> 0..MaxPushed] /\ pushed'[s] \in Id
    BY <2>1, <2>2 DEF TypeOK, Id
  <2>4. item \in Item
    BY <2>3 DEF Item
  <2>. HIDE DEF item
  <2>5. longer \in Seq(Item) /\ Len(longer) = Len(array) + 1
    BY <1>1, <2>4
  <2>6. /\ buffer' = [buffer EXCEPT ![s] = longer] /\ UNCHANGED <<stored, lost>>
        /\ flushing' = IF Len(longer) >= Threshold[s] /\ flushing[s] = 0
                         THEN [flushing EXCEPT ![s] = Len(longer)] ELSE flushing
    BY <1>6 DEF Push, item
  <2>. HIDE DEF longer
  <2>7. PICK n \in {Len(longer), flushing[s]} : flushing' = [flushing EXCEPT ![s] = n]
    BY <2>6 DEF TypeOK
  <2>8. n \in Nat /\ n <= Len(longer)
    BY <1>1, <2>5, <2>7
  <2>. QED BY <1>4, <2>3, <2>5, <2>6, <2>7, <2>8 DEF TypeOK
<1>7. CASE Flush(s)
  <2>1. /\ flushing' = [flushing EXCEPT ![s] = Len(array)] /\ UNCHANGED <<buffer, pushed, stored, lost>>
    BY <1>7 DEF Flush
  <2>2. buffer' = [buffer EXCEPT ![s] = array]
    BY <2>1 DEF TypeOK
  <2>. QED BY <1>1, <1>4, <2>1, <2>2 DEF TypeOK
<1>8. CASE Flushed(s)
  <2>1. /\ Insert(s, IdsOf(Transit(s))) /\ UNCHANGED <<pushed, lost>>
        /\ buffer' = [buffer EXCEPT ![s] = Behind(array, flushing[s])]
        /\ flushing' = [flushing EXCEPT ![s] = 0]
    BY <1>8 DEF Flushed
  <2>2. Behind(array, flushing[s]) \in Seq(Item) /\ 0 <= Len(Behind(array, flushing[s]))
    BY <1>1, BehindProperties
  <2>. QED BY <1>4, <1>5, <2>1, <2>2 DEF TypeOK
<1>9. CASE FlushFails(s)
  <2>. DEFINE S == {k \in 1..flushing[s] : Retryable(array[k])}
              again == AgainAt(array, S)
              new == Behind(array, flushing[s]) \o again
  <2>1. /\ \E taken \in SUBSET IdsOf(Transit(s)) : Insert(s, taken)
        /\ buffer' = [buffer EXCEPT ![s] = new]
        /\ lost' = [lost EXCEPT ![s] = lost[s] \cup (IdsOf(Transit(s)) \ IdsOf(again))]
        /\ flushing' = [flushing EXCEPT ![s] = 0] /\ UNCHANGED pushed
    BY <1>9 DEF FlushFails
  <2>2. S \in SUBSET (1..flushing[s]) /\ \A i \in S : PutBack(array[i]) \in Item
    BY <1>1, PutBackType
  <2>. HIDE DEF S
  <2>3. new \in Seq(Item)
    BY <1>1, <2>2, PutBackBehind
  <2>4. IdsOf(Transit(s)) \subseteq Id
    <3>1. Transit(s) \in Seq(Item)
      BY <1>1, SubSeqProperties DEF Transit
    <3>. QED BY <3>1, IdsType
  <2>. HIDE DEF new, again
  <2>5. stored' \in [Store -> [Id -> Nat]]
    BY <1>5, <2>1
  <2>6. lost' \in [Store -> SUBSET Id]
    BY <2>1, <2>4 DEF TypeOK
  <2>7. 0 <= Len(new)
    BY <2>3
  <2>. QED BY <1>4, <2>1, <2>3, <2>5, <2>6, <2>7 DEF TypeOK
<1>. QED BY <1>6, <1>7, <1>8, <1>9 DEF FlushStep

\* Counting items keeps the counters' type.
LEMMA CountTyped ==
  ASSUME TypeOK, NEW ids, Count(ids)
  PROVE  counted' \in [Id -> Nat]
<1>1. counted \in [Id -> Nat]
  BY DEF TypeOK
<1>. QED BY <1>1 DEF Count

\* A step of the metrics keeps the types, and a result for each bucket of a flush.
LEMMA MetricsTyped ==
  ASSUME TypeOK, Sent, Measured \/ MetricsStep
  PROVE  TypeOK' /\ Sent'
<1>1. /\ metrics \in Seq(Measure) /\ Len(metrics) \in Nat /\ transit \in 0..Len(metrics)
      /\ MaxPushed \in Nat /\ MaxAttempts \in Nat /\ load[2] \in 0..MaxPushed
      /\ DOMAIN metrics = 1..Len(metrics)
  BY Arrays
<1>. DEFINE Verdict == {"none", "sent", "fulfilled", "rejected"}
<1>2. UNCHANGED <<load, storeVars>>
  BY DEF MetricsStep, Measured, FlushMetrics, MetricsFlushed, CountBucket, CountBucketFails
<1>3. SUFFICES /\ metrics' \in Seq(Measure) /\ transit' \in 0..Len(metrics')
               /\ result' \in [Bucket -> Verdict]
               /\ measured' \in 0..MaxPushed /\ counted' \in [Id -> Nat] /\ disturbed' \subseteq Id
               /\ Sent'
  BY <1>2, Zenon DEF TypeOK, storeVars
<1>4. /\ result \in [Bucket -> Verdict] /\ measured \in 0..MaxPushed
      /\ counted \in [Id -> Nat] /\ disturbed \subseteq Id
  BY DEF TypeOK
<1>9. /\ \A k \in DOMAIN metrics : metrics[k].bucket \in Bucket
      /\ \A k \in 1..transit : metrics[k].bucket \in Bucket
  <2>1. \A k \in 1..Len(metrics) : metrics[k] \in Measure
    BY <1>1
  <2>2. \A k \in 1..Len(metrics) : metrics[k].bucket \in Bucket
    BY <2>1, Zenon DEF Measure
  <2>. QED BY <1>1, <2>2
<1>. HIDE DEF Verdict
<1>5. CASE Measured
  <2>1. PICK b \in Bucket :
          metrics' = Append(metrics, [id |-> measured', bucket |-> b, attempts |-> 0])
    BY <1>5 DEF Measured
  <2>2. measured' = measured + 1 /\ measured < load[2] /\ UNCHANGED <<transit, result, counted, disturbed>>
    BY <1>5 DEF Measured
  <2>3. measured' \in 1..MaxPushed
    BY <1>1, <1>4, <2>2
  <2>. DEFINE item == [id |-> measured', bucket |-> b, attempts |-> 0]
  <2>4. item \in Measure
    BY <1>1, <2>3 DEF Measure, Id
  <2>. HIDE DEF item
  <2>5. /\ metrics' = Append(metrics, item)
        /\ metrics' \in Seq(Measure) /\ Len(metrics') = Len(metrics) + 1
        /\ \A k \in 1..Len(metrics) : metrics'[k] = metrics[k]
    BY <1>1, <2>1, <2>4 DEF item
  <2>6. transit \in 0..Len(metrics') /\ \A k \in 1..transit : metrics'[k] = metrics[k]
    BY <1>1, <2>5
  <2>7. Sent'
    BY <2>2, <2>6 DEF Sent
  <2>. QED BY <1>4, <2>2, <2>3, <2>5, <2>6, <2>7
<1>6. CASE FlushMetrics
  <2>1. /\ transit' = Len(metrics) /\ UNCHANGED <<metrics, measured, counted, disturbed>>
        /\ result' = [b \in Bucket |-> IF \E k \in DOMAIN metrics : metrics[k].bucket = b
                                        THEN "sent" ELSE "none"]
    BY <1>6 DEF FlushMetrics
  <2>2. result' \in [Bucket -> Verdict]
    BY <2>1 DEF Verdict
  <2>4. Sent'
    BY <1>1, <1>9, <2>1 DEF Sent
  <2>. QED BY <1>1, <1>4, <2>1, <2>2, <2>4
<1>7. CASE MetricsFlushed
  <2>1. metrics' \in Seq(Measure)
    BY <1>7, MetricsBehind
  <2>2. /\ transit' = 0 /\ result' = [b \in Bucket |-> "none"] /\ UNCHANGED <<measured, counted>>
        /\ disturbed' = disturbed \cup IdsOf(Failed)
    BY <1>7 DEF MetricsFlushed
  <2>3. IdsOf(Failed) \subseteq Id
    <3>1. Again \in SUBSET (1..transit) /\ \A i \in Again : PutBack(metrics[i]) \in Measure
      BY AgainInTransit
    <3>2. transit \in Nat
      BY <1>1
    <3>3. AgainAt(metrics, Again) \in Seq(Measure)
      BY <3>1, <3>2, AgainAtType
    <3>4. Failed \in Seq(Measure)
      BY <3>3, AgainInTransit
    <3>. QED BY <3>4, IdsType
  <2>4. result' \in [Bucket -> Verdict] /\ Sent'
    BY <2>2 DEF Verdict, Sent
  <2>. QED BY <1>4, <2>1, <2>2, <2>3, <2>4
<1>8. ASSUME NEW b \in Bucket, CountBucket(b) \/ CountBucketFails(b)
      PROVE  /\ metrics' \in Seq(Measure) /\ transit' \in 0..Len(metrics')
             /\ result' \in [Bucket -> Verdict]
             /\ measured' \in 0..MaxPushed /\ counted' \in [Id -> Nat] /\ disturbed' \subseteq Id
             /\ Sent'
  <2>1. /\ result[b] = "sent" /\ UNCHANGED <<metrics, transit, measured>>
        /\ \E r \in {"fulfilled", "rejected"} : result' = [result EXCEPT ![b] = r]
        /\ Count(Grouped(b)) \/ UNCHANGED counted
        /\ disturbed' \in {disturbed, disturbed \cup Grouped(b)}
    BY <1>8 DEF CountBucket, CountBucketFails
  <2>2. counted' \in [Id -> Nat]
    BY <1>4, <2>1, CountTyped
  <2>3. disturbed' \subseteq Id
    BY <1>4, <2>1, GroupedIds
  <2>4. result' \in [Bucket -> Verdict]
    BY <1>4, <2>1 DEF Verdict
  <2>5. \A c \in Bucket : result'[c] # "none" <=> result[c] # "none"
    BY <1>4, <2>1
  <2>7. Sent'
    BY <1>9, <2>1, <2>5 DEF Sent
  <2>. QED BY <1>1, <1>4, <2>1, <2>2, <2>3, <2>4, <2>7
<1>. QED BY <1>5, <1>6, <1>7, <1>8 DEF MetricsStep

\* The end of the process empties the arrays.
LEMMA RestartTyped ==
  ASSUME TypeOK, Restart
  PROVE  TypeOK' /\ Sent'
<1>1. /\ load \in Loads /\ pushed \in [Store -> 0..MaxPushed]
      /\ stored \in [Store -> [Id -> Nat]] /\ lost \in [Store -> SUBSET Id]
      /\ measured \in 0..MaxPushed /\ counted \in [Id -> Nat] /\ disturbed \subseteq Id
  BY DEF TypeOK
<1>2. /\ lost' = [s \in Store |-> lost[s] \cup IdsOf(buffer[s])]
      /\ buffer' = [s \in Store |-> <<>>] /\ flushing' = [s \in Store |-> 0]
      /\ disturbed' = disturbed \cup IdsOf(metrics)
      /\ metrics' = <<>> /\ transit' = 0 /\ result' = [b \in Bucket |-> "none"]
      /\ UNCHANGED <<load, pushed, stored, measured, counted>>
  BY DEF Restart
<1>3. IdsOf(metrics) \subseteq Id /\ \A s \in Store : IdsOf(buffer[s]) \subseteq Id
  BY Arrays, IdsType
<1>4. lost' \in [Store -> SUBSET Id] /\ disturbed' \subseteq Id
  BY <1>1, <1>2, <1>3
<1>5. buffer' \in [Store -> Seq(Item)] /\ \A s \in Store : flushing'[s] <= Len(buffer'[s])
  BY <1>2
<1>6. metrics' \in Seq(Measure) /\ transit' \in 0..Len(metrics')
  BY <1>2
<1>7. Sent'
  BY <1>2 DEF Sent
<1>. QED BY <1>1, <1>2, <1>4, <1>5, <1>6, <1>7 DEF TypeOK

\* Nothing has been pushed at first.
LEMMA InitTyped ==
  ASSUME Init
  PROVE  TypeOK /\ Sent
<1>1. TypeOK
  <2>1. <<>> \in Seq(Item) /\ <<>> \in Seq(Measure) /\ 0 \in 0..MaxPushed
        /\ [x \in Id |-> 0] \in [Id -> Nat] /\ Len(<<>>) = 0
    BY TelemetryAssumption
  <2>. QED BY <2>1 DEF Init, TypeOK
<1>. QED BY <1>1 DEF Init, Sent

\* The types, with a result for each bucket of a flush, are inductive.
LEMMA NextTyped ==
  ASSUME TypeOK, Sent, [Next]_vars
  PROVE  TypeOK' /\ Sent'
<1>1. CASE \E s \in Store : Push(s) \/ FlushStep(s)
  <2>1. UNCHANGED metricsVars
    BY <1>1 DEF FlushStep, Push, Flush, Flushed, FlushFails
  <2>. QED BY <1>1, <2>1, StoreTyped DEF Sent, metricsVars
<1>2. CASE Measured \/ MetricsStep
  BY <1>2, MetricsTyped
<1>3. CASE Restart
  BY <1>3, RestartTyped
<1>4. CASE UNCHANGED vars
  BY <1>4, Zenon DEF vars, storeVars, metricsVars, TypeOK, Sent
<1>. QED BY <1>1, <1>2, <1>3, <1>4 DEF Next

\* The values of metrics.service.ts, usage.service.ts and audit.service.ts keep their types
\* whatever is flushed, fails or is put back; a flush never works on more items than there are.
THEOREM TypeCorrect == Spec => []TypeOK
<1>1. Init => TypeOK /\ Sent
  BY InitTyped
<1>2. TypeOK /\ Sent /\ [Next]_vars => TypeOK' /\ Sent'
  BY NextTyped
<1>. QED BY <1>1, <1>2, PTL DEF Spec

-----------------------------------------------------------------------------
(* The write buffers.                                                      *)

\* A record is in the buffer once, was pushed and is not stored yet; and it has never been
\* put back, since a push sets no attempts and only an item with attempts is retried.
Waiting(s) ==
  /\ \A j, k \in DOMAIN buffer[s] : buffer[s][j].id = buffer[s][k].id => j = k
  /\ \A k \in DOMAIN buffer[s] :
       LET item == buffer[s][k]
       IN  item.attempts = 0 /\ item.id <= pushed[s] /\ stored[s][item.id] = 0

\* Every record is accounted for, none is stored twice, and none before it is pushed.
Accounted(s) ==
  /\ \A x \in 1..pushed[s] : x \in IdsOf(buffer[s]) \/ stored[s][x] > 0 \/ x \in lost[s]
  /\ \A x \in Id : stored[s][x] <= 1 /\ (x > pushed[s] => stored[s][x] = 0)

Shelved == \A s \in Store : Waiting(s) /\ Accounted(s)

\* What is in the counters of a store, and the ids of its records.
LEMMA Records ==
  ASSUME TypeOK, NEW s \in Store
  PROVE  /\ pushed[s] \in 0..MaxPushed /\ MaxPushed \in Nat /\ Id = 1..MaxPushed
         /\ stored[s] \in [Id -> Nat] /\ 1..pushed[s] \subseteq Id
         /\ \A k \in DOMAIN buffer[s] : buffer[s][k].id \in Id
<1>1. pushed[s] \in 0..MaxPushed /\ MaxPushed \in Nat /\ stored[s] \in [Id -> Nat]
  BY TelemetryAssumption DEF TypeOK
<1>2. IdsOf(buffer[s]) \subseteq Id
  BY Arrays, IdsType
<1>. QED BY <1>1, <1>2 DEF IdsOf, Id

\* The first n records of a buffer leave it, each of them to be stored or to be lost.
LEMMA Leaving ==
  ASSUME TypeOK, TypeOK', NEW s \in Store, Waiting(s), Accounted(s),
         NEW n \in 0..Len(buffer[s]),
         NEW taken, \A x \in taken : \E k \in 1..n : buffer[s][k].id = x,
         buffer'[s] = Behind(buffer[s], n), pushed'[s] = pushed[s],
         stored'[s] = [x \in Id |-> stored[s][x] + (IF x \in taken THEN 1 ELSE 0)],
         lost[s] \subseteq lost'[s],
         \A k \in 1..n : buffer[s][k].id \in taken \cup lost'[s]
  PROVE  Waiting(s)' /\ Accounted(s)'
<1>. DEFINE array == buffer[s]
            new == buffer'[s]
<1>1. /\ array \in Seq(Item) /\ Len(array) \in Nat /\ DOMAIN array = 1..Len(array)
      /\ n \in Nat /\ n <= Len(array)
  BY Arrays
<1>2. /\ DOMAIN new = 1..(Len(array) - n)
      /\ \A k \in DOMAIN new : new[k] = array[n + k] /\ n + k \in DOMAIN array /\ k > 0
  <2>1. /\ Behind(array, n) \in Seq(Item) /\ Len(Behind(array, n)) = Len(array) - n
        /\ \A k \in 1..(Len(array) - n) : Behind(array, n)[k] = array[n + k]
    BY <1>1, BehindProperties
  <2>2. Len(array) - n \in Nat /\ DOMAIN new = 1..(Len(array) - n)
    BY <1>1, <2>1
  <2>. QED BY <1>1, <2>1, <2>2
<1>3. /\ \A k \in DOMAIN array : array[k].id \in Id
      /\ stored[s] \in [Id -> Nat] /\ 1..pushed[s] \subseteq Id
      /\ pushed[s] \in Nat /\ Id \subseteq Nat
  BY Records
<1>4. /\ \A j, k \in DOMAIN array : array[j].id = array[k].id => j = k
      /\ \A k \in DOMAIN array :
           array[k].attempts = 0 /\ array[k].id <= pushed[s] /\ stored[s][array[k].id] = 0
  BY DEF Waiting
<1>5. ASSUME NEW x \in taken PROVE \E k \in 1..n : k \in DOMAIN array /\ array[k].id = x
  BY <1>1
<1>. HIDE DEF array, new
<1>6. Waiting(s)'
  <2>1. \A j, k \in DOMAIN new : new[j].id = new[k].id => j = k
    <3>. SUFFICES ASSUME NEW j \in DOMAIN new, NEW k \in DOMAIN new, new[j].id = new[k].id
                  PROVE  j = k
      OBVIOUS
    <3>1. n + j = n + k
      BY <1>2, <1>4
    <3>. QED BY <1>1, <1>2, <3>1
  <2>2. ASSUME NEW k \in DOMAIN new
        PROVE  /\ new[k].attempts = 0 /\ new[k].id <= pushed'[s]
               /\ stored'[s][new[k].id] = 0
    <3>1. new[k] = array[n + k] /\ n + k \in DOMAIN array /\ n + k \notin 1..n
      BY <1>1, <1>2
    <3>2. array[n + k].id \notin taken
      BY <1>4, <1>5, <3>1
    <3>. QED BY <1>3, <1>4, <3>1, <3>2
  <2>. QED BY <2>1, <2>2 DEF Waiting, new
<1>7. ASSUME NEW x \in 1..pushed[s]
      PROVE  x \in IdsOf(new) \/ stored'[s][x] > 0 \/ x \in lost'[s]
  <2>1. x \in Id /\ stored[s][x] \in Nat
    BY <1>3
  <2>2. CASE x \in IdsOf(array)
    <3>1. PICK j \in DOMAIN array : array[j].id = x
      BY <2>2 DEF IdsOf
    <3>2. CASE j \in 1..n
      <4>1. x \in taken \cup lost'[s]
        BY <3>1, <3>2 DEF array
      <4>. QED BY <2>1, <4>1
    <3>3. CASE j \notin 1..n
      <4>1. j - n \in DOMAIN new /\ n + (j - n) = j
        BY <1>1, <1>2, <3>3
      <4>2. new[j - n].id = x
        BY <1>2, <3>1, <4>1
      <4>. QED BY <4>1, <4>2 DEF IdsOf
    <3>. QED BY <3>2, <3>3
  <2>3. CASE stored[s][x] > 0
    BY <2>1, <2>3
  <2>4. CASE x \in lost[s]
    BY <2>4
  <2>. QED BY <2>2, <2>3, <2>4 DEF Accounted, array
<1>8. ASSUME NEW x \in Id
      PROVE  stored'[s][x] <= 1 /\ (x > pushed[s] => stored'[s][x] = 0)
  <2>1. stored[s][x] \in Nat /\ stored[s][x] <= 1 /\ (x > pushed[s] => stored[s][x] = 0)
    BY <1>3 DEF Accounted
  <2>2. CASE x \in taken
    <3>1. stored[s][x] = 0 /\ x <= pushed[s]
      BY <1>4, <1>5, <2>2
    <3>. QED BY <1>3, <2>2, <3>1
  <2>. QED BY <2>1, <2>2
<1>9. Accounted(s)'
  BY <1>7, <1>8 DEF Accounted, new
<1>. QED BY <1>6, <1>9

\* A record is appended to a buffer.
LEMMA Pushing ==
  ASSUME TypeOK, TypeOK', NEW s \in Store, Waiting(s), Accounted(s), Push(s)
  PROVE  Waiting(s)' /\ Accounted(s)'
<1>. DEFINE array == buffer[s]
            new == buffer'[s]
            fresh == pushed[s] + 1
<1>1. /\ array \in Seq(Item) /\ Len(array) \in Nat /\ DOMAIN array = 1..Len(array)
  BY Arrays
<1>2. /\ pushed'[s] = fresh /\ stored'[s] = stored[s] /\ lost'[s] = lost[s]
      /\ new = Append(array, [id |-> fresh, attempts |-> 0])
  <2>1. /\ pushed' = [pushed EXCEPT ![s] = fresh] /\ UNCHANGED <<stored, lost>>
        /\ buffer' = [buffer EXCEPT ![s] = Append(array, [id |-> pushed'[s], attempts |-> 0])]
    BY DEF Push
  <2>2. pushed'[s] = fresh
    BY <2>1 DEF TypeOK
  <2>. QED BY <2>1, <2>2 DEF TypeOK
<1>3. /\ pushed[s] \in Nat /\ fresh \in Id /\ stored[s] \in [Id -> Nat]
      /\ 1..pushed[s] \subseteq Id /\ Id \subseteq Nat
      /\ \A k \in DOMAIN array : array[k].id \in Id
  <2>1. fresh \in 1..MaxPushed
    BY <1>2, Records DEF TypeOK
  <2>. QED BY <2>1, Records
<1>4. /\ \A j, k \in DOMAIN array : array[j].id = array[k].id => j = k
      /\ \A k \in DOMAIN array :
           array[k].attempts = 0 /\ array[k].id <= pushed[s] /\ stored[s][array[k].id] = 0
  BY DEF Waiting
<1>5. /\ DOMAIN new = DOMAIN array \cup {Len(array) + 1} /\ Len(array) + 1 \notin DOMAIN array
      /\ \A k \in DOMAIN array : new[k] = array[k]
      /\ new[Len(array) + 1] = [id |-> fresh, attempts |-> 0]
  BY <1>1, <1>2
<1>. HIDE DEF array, new
<1>6. stored[s][fresh] = 0
  BY <1>3 DEF Accounted
<1>7. \A j, k \in DOMAIN new : new[j].id = new[k].id => j = k
  BY <1>3, <1>4, <1>5
<1>8. ASSUME NEW k \in DOMAIN new
      PROVE  new[k].attempts = 0 /\ new[k].id <= fresh /\ stored[s][new[k].id] = 0
  <2>1. CASE k \in DOMAIN array
    <3>1. new[k] = array[k] /\ array[k].id \in Nat /\ array[k].id <= pushed[s]
      BY <1>3, <1>4, <1>5, <2>1
    <3>2. array[k].id <= fresh
      BY <1>3, <3>1
    <3>. QED BY <1>4, <2>1, <3>1, <3>2
  <2>2. CASE k = Len(array) + 1
    BY <1>3, <1>5, <1>6, <2>2
  <2>. QED BY <1>5, <2>1, <2>2
<1>9. Waiting(s)'
  BY <1>2, <1>7, <1>8 DEF Waiting, new
<1>10. IdsOf(new) = IdsOf(array) \cup {fresh}
  BY <1>5 DEF IdsOf
<1>11. Accounted(s)'
  <2>1. \A x \in 1..fresh : x \in IdsOf(new) \/ stored[s][x] > 0 \/ x \in lost[s]
    BY <1>3, <1>10 DEF Accounted, array
  <2>2. \A x \in Id : stored[s][x] <= 1 /\ (x > fresh => stored[s][x] = 0)
    BY <1>3 DEF Accounted
  <2>. QED BY <1>2, <2>1, <2>2 DEF Accounted, new
<1>. QED BY <1>9, <1>11

\* A flush that has ended takes its records out of the buffer, whether it failed or not:
\* none of them is retried.
LEMMA Flushing ==
  ASSUME TypeOK, TypeOK', NEW s \in Store, Waiting(s), Accounted(s), Flushed(s) \/ FlushFails(s)
  PROVE  Waiting(s)' /\ Accounted(s)'
<1>. DEFINE array == buffer[s]
            n == flushing[s]
            ids == {array[k].id : k \in 1..n}
<1>1. /\ array \in Seq(Item) /\ Len(array) \in Nat /\ DOMAIN array = 1..Len(array)
      /\ n \in 0..Len(array) /\ n \in Nat
  BY Arrays
<1>2. IdsOf(Transit(s)) = ids
  BY TransitIds
<1>6. /\ \A k \in 1..n : array[k].id \in ids
      /\ \A x \in ids : \E k \in 1..n : array[k].id = x
  OBVIOUS
<1>. HIDE DEF ids
<1>3. ASSUME NEW taken, Insert(s, taken)
      PROVE  stored'[s] = [x \in Id |-> stored[s][x] + (IF x \in taken THEN 1 ELSE 0)]
  BY <1>3 DEF Insert, TypeOK
<1>4. CASE Flushed(s)
  <2>1. buffer'[s] = Behind(array, n) /\ pushed'[s] = pushed[s] /\ lost'[s] = lost[s]
    BY <1>4 DEF Flushed, TypeOK
  <2>4. Insert(s, ids)
    BY <1>2, <1>4 DEF Flushed
  <2>5. stored'[s] = [x \in Id |-> stored[s][x] + (IF x \in ids THEN 1 ELSE 0)]
    BY <1>3, <2>4
  <2>2. \A k \in 1..n : array[k].id \in ids \cup lost'[s]
    BY <1>6
  <2>3. lost[s] \subseteq lost'[s]
    BY <2>1
  <2>. QED BY <1>1, <1>6, <2>1, <2>2, <2>3, <2>5, Leaving
<1>5. CASE FlushFails(s)
  <2>. DEFINE S == {k \in 1..n : Retryable(array[k])}
  <2>1. S = {}
    <3>1. \A k \in 1..n : array[k].attempts = 0
      BY <1>1 DEF Waiting
    <3>. QED BY <3>1 DEF Retryable
  <2>2. AgainAt(array, S) = <<>>
    <3>1. Cardinality(S) = 0
      BY <2>1, FS_EmptySet
    <3>2. 1..Cardinality(S) = {}
      BY <3>1
    <3>. QED BY <3>2 DEF AgainAt
  <2>3. IdsOf(<<>>) = {}
    BY DEF IdsOf
  <2>4. /\ \E taken \in SUBSET IdsOf(Transit(s)) : Insert(s, taken)
        /\ buffer'[s] = Behind(array, n) \o AgainAt(array, S)
        /\ lost'[s] = lost[s] \cup (IdsOf(Transit(s)) \ IdsOf(AgainAt(array, S)))
        /\ pushed'[s] = pushed[s]
    BY <1>5 DEF FlushFails, TypeOK
  <2>. HIDE DEF S
  <2>5. buffer'[s] = Behind(array, n) /\ lost'[s] = lost[s] \cup ids
    <3>1. Behind(array, n) \in Seq(Item)
      BY <1>1, BehindProperties
    <3>2. Behind(array, n) \o <<>> = Behind(array, n)
      BY <3>1, ConcatEmptySeq
    <3>. QED BY <1>2, <2>2, <2>3, <2>4, <3>2
  <2>6. PICK taken \in SUBSET ids : Insert(s, taken)
    BY <1>2, <2>4
  <2>7. stored'[s] = [x \in Id |-> stored[s][x] + (IF x \in taken THEN 1 ELSE 0)]
    BY <1>3, <2>6
  <2>8. /\ lost[s] \subseteq lost'[s] /\ \A k \in 1..n : array[k].id \in taken \cup lost'[s]
        /\ \A x \in taken : \E k \in 1..n : array[k].id = x
    BY <1>6, <2>5, <2>6
  <2>. QED BY <1>1, <2>4, <2>5, <2>7, <2>8, Leaving
<1>. QED BY <1>4, <1>5

\* The end of the process takes every record out of the buffer.
LEMMA Ending ==
  ASSUME TypeOK, TypeOK', NEW s \in Store, Waiting(s), Accounted(s), Restart
  PROVE  Waiting(s)' /\ Accounted(s)'
<1>. DEFINE array == buffer[s]
            n == Len(array)
<1>1. array \in Seq(Item) /\ n \in Nat /\ DOMAIN array = 1..n /\ n \in 0..Len(array)
  BY Arrays
<1>2. /\ buffer'[s] = <<>> /\ pushed'[s] = pushed[s] /\ stored'[s] = stored[s]
      /\ lost'[s] = lost[s] \cup IdsOf(array)
  BY DEF Restart
<1>3. Behind(array, n) = <<>>
  BY <1>1, SubSeqEmpty DEF Behind
<1>4. /\ lost[s] \subseteq lost'[s]
      /\ \A k \in 1..n : array[k].id \in {} \cup lost'[s]
  BY <1>1, <1>2 DEF IdsOf
<1>. DEFINE taken == {}
<1>5. stored'[s] = [x \in Id |-> stored[s][x] + (IF x \in taken THEN 1 ELSE 0)]
  BY <1>2, Records
<1>6. /\ \A x \in taken : \E k \in 1..n : array[k].id = x
      /\ \A k \in 1..n : array[k].id \in taken \cup lost'[s]
  BY <1>4
<1>. HIDE DEF taken, n
<1>. QED BY <1>1, <1>2, <1>3, <1>4, <1>5, <1>6, Leaving

\* The invariant of the write buffers is inductive.
LEMMA NextShelved ==
  ASSUME TypeOK, TypeOK', Shelved, [Next]_vars
  PROVE  Shelved'
<1>. SUFFICES ASSUME NEW r \in Store PROVE Waiting(r)' /\ Accounted(r)'
  BY DEF Shelved
<1>1. Waiting(r) /\ Accounted(r)
  BY DEF Shelved
<1>2. ASSUME buffer'[r] = buffer[r], pushed'[r] = pushed[r], stored'[r] = stored[r], lost'[r] = lost[r]
      PROVE  Waiting(r)' /\ Accounted(r)'
  BY <1>1, <1>2 DEF Waiting, Accounted
<1>3. ASSUME NEW s \in Store, Push(s) \/ FlushStep(s)
      PROVE  Waiting(r)' /\ Accounted(r)'
  <2>1. CASE s = r /\ Push(s)
    BY <1>1, <2>1, Pushing
  <2>2. CASE s = r /\ (Flushed(s) \/ FlushFails(s))
    BY <1>1, <2>2, Flushing
  <2>3. CASE Flush(s)
    BY <1>2, <2>3 DEF Flush
  <2>4. CASE s # r
    <3>1. /\ buffer' = [buffer EXCEPT ![s] = buffer'[s]] /\ pushed' = [pushed EXCEPT ![s] = pushed'[s]]
          /\ stored' = [stored EXCEPT ![s] = stored'[s]] /\ lost' = [lost EXCEPT ![s] = lost'[s]]
      <4>. USE DEF TypeOK
      <4>1. CASE Push(s)
        BY <4>1 DEF Push
      <4>2. CASE Flush(s)
        BY <4>2 DEF Flush
      <4>3. CASE Flushed(s)
        BY <4>3 DEF Flushed, Insert
      <4>4. CASE FlushFails(s)
        BY <4>4 DEF FlushFails, Insert
      <4>. QED BY <1>3, <4>1, <4>2, <4>3, <4>4 DEF FlushStep
    <3>. QED BY <1>2, <2>4, <3>1 DEF TypeOK
  <2>. QED BY <1>3, <2>1, <2>2, <2>3, <2>4 DEF FlushStep
<1>4. CASE Measured \/ MetricsStep
  <2>1. UNCHANGED storeVars
    BY <1>4 DEF MetricsStep, Measured, FlushMetrics, MetricsFlushed, CountBucket, CountBucketFails
  <2>. QED BY <1>2, <2>1 DEF storeVars
<1>5. CASE Restart
  BY <1>1, <1>5, Ending
<1>6. CASE UNCHANGED vars
  BY <1>2, <1>6 DEF vars, storeVars
<1>. QED BY <1>3, <1>4, <1>5, <1>6 DEF Next

\* The invariant of the write buffers holds in every state.
LEMMA ShelvedHolds == Spec => [](TypeOK /\ Shelved)
<1>1. Init => Shelved
  BY TelemetryAssumption DEF Init, Shelved, Waiting, Accounted, IdsOf
<1>2. TypeOK /\ TypeOK' /\ Shelved /\ [Next]_vars => Shelved'
  BY NextShelved
<1>. QED BY <1>1, <1>2, TypeCorrect, PTL DEF Spec

\* No flush of usage.service.ts or audit.service.ts stores a record twice, not even one whose
\* insert failed after the database had taken it: the flush gives up on all its records.
THEOREM StoredOnceHolds == Spec => []StoredOnce
<1>1. TypeOK /\ Shelved => StoredOnce
  BY DEF Shelved, Accounted, StoredOnce
<1>. QED BY <1>1, ShelvedHolds, PTL

\* A record pushed while a flush runs stays in the buffer behind those in transit, and leaves
\* it, once, to be stored or because a flush failed or the process ended.
THEOREM NothingDisappearsHolds == Spec => []NothingDisappears
<1>1. ASSUME TypeOK, Shelved PROVE NothingDisappears
  <2>. SUFFICES ASSUME NEW s \in Store, NEW x \in 1..pushed[s],
                       NEW P, P = {k \in DOMAIN buffer[s] : buffer[s][k].id = x}
                PROVE  \/ Cardinality(P) = 1
                       \/ Cardinality(P) = 0 /\ (stored[s][x] > 0 \/ x \in lost[s])
    BY DEF NothingDisappears
  <2>1. /\ \A j, k \in DOMAIN buffer[s] : buffer[s][j].id = buffer[s][k].id => j = k
        /\ x \in IdsOf(buffer[s]) \/ stored[s][x] > 0 \/ x \in lost[s]
    BY <1>1 DEF Shelved, Waiting, Accounted
  <2>2. CASE x \in IdsOf(buffer[s])
    <3>1. PICK k \in DOMAIN buffer[s] : buffer[s][k].id = x
      BY <2>2 DEF IdsOf
    <3>2. P = {k}
      BY <2>1, <3>1
    <3>. QED BY <3>2, FS_Singleton
  <2>3. CASE x \notin IdsOf(buffer[s])
    <3>1. P = {}
      BY <2>3 DEF IdsOf
    <3>2. Cardinality(P) = 0
      BY <3>1, FS_EmptySet
    <3>. QED BY <2>1, <2>3, <3>2
  <2>. QED BY <2>2, <2>3
<1>. QED BY <1>1, ShelvedHolds, PTL

-----------------------------------------------------------------------------
(* The metrics.                                                            *)

\* The transaction for the k-th item has settled in this flush.
Settled(k) == k <= transit /\ result[metrics[k].bucket] \in {"fulfilled", "rejected"}

\* How often the flush may have counted the k-th item by now.
Done(k) == IF Settled(k) THEN 1 ELSE 0

\* An item is in the array once, and has been counted at most once for every attempt.
Attempted ==
  /\ \A j, k \in DOMAIN metrics : metrics[j].id = metrics[k].id => j = k
  /\ \A k \in DOMAIN metrics :
       LET item == metrics[k]
       IN  item.id <= measured /\ counted[item.id] <= item.attempts + Done(k)
  /\ \A x \in Id : counted[x] <= 1 + MaxAttempts /\ (x > measured => counted[x] = 0)

\* An item nothing has disturbed is counted with its bucket, and not before.
Undisturbed ==
  /\ \A k \in DOMAIN metrics :
       LET item == metrics[k]
       IN  item.id \notin disturbed =>
             /\ Settled(k) => result[item.bucket] = "fulfilled"
             /\ counted[item.id] = Done(k)
  /\ \A x \in (1..measured) \ disturbed : x \in IdsOf(metrics) \/ counted[x] = 1

\* What an item and the counters are.
LEMMA Items ==
  ASSUME TypeOK
  PROVE  /\ \A k \in DOMAIN metrics :
              /\ k \in Nat /\ k > 0 /\ k <= Len(metrics)
              /\ metrics[k].id \in Id /\ metrics[k].bucket \in Bucket
              /\ metrics[k].attempts \in Nat /\ metrics[k].attempts <= MaxAttempts
         /\ transit \in Nat /\ transit <= Len(metrics) /\ Len(metrics) \in Nat
         /\ MaxAttempts \in Nat /\ measured \in Nat /\ 1..measured \subseteq Id /\ Id \subseteq Nat
         /\ counted \in [Id -> Nat]
         /\ result \in [Bucket -> {"none", "sent", "fulfilled", "rejected"}]
<1>1. /\ metrics \in Seq(Measure) /\ Len(metrics) \in Nat /\ DOMAIN metrics = 1..Len(metrics)
      /\ transit \in 0..Len(metrics) /\ MaxAttempts \in Nat /\ MaxPushed \in Nat
  BY Arrays
<1>2. measured \in 0..MaxPushed /\ counted \in [Id -> Nat]
      /\ result \in [Bucket -> {"none", "sent", "fulfilled", "rejected"}]
  BY DEF TypeOK
<1>3. \A k \in DOMAIN metrics : metrics[k] \in Measure
  BY <1>1
<1>4. \A item \in Measure : /\ item.id \in Id /\ item.bucket \in Bucket
                            /\ item.attempts \in Nat /\ item.attempts <= MaxAttempts
  BY <1>1 DEF Measure
<1>. QED BY <1>1, <1>2, <1>3, <1>4 DEF Id

\* The items of a bucket, each of which is in the array once.
LEMMA GroupedItems ==
  ASSUME TypeOK, Attempted, NEW b \in Bucket
  PROVE  /\ \A k \in DOMAIN metrics :
              metrics[k].id \in Grouped(b) <=> k <= transit /\ metrics[k].bucket = b
         /\ \A x \in Grouped(b) : \E k \in DOMAIN metrics : metrics[k].id = x
<1>1. Grouped(b) = {metrics[k].id : k \in {j \in 1..transit : metrics[j].bucket = b}}
  BY GroupedIds
<1>2. 1..transit \subseteq DOMAIN metrics
  BY Arrays
<1>3. \A k \in DOMAIN metrics : k <= transit <=> k \in 1..transit
  BY Items
<1>4. \A j, k \in DOMAIN metrics : metrics[j].id = metrics[k].id => j = k
  BY DEF Attempted
<1>. QED BY <1>1, <1>2, <1>3, <1>4

\* A transaction settles: its items may be counted once more, the others are not.
LEMMA BucketSettles ==
  ASSUME TypeOK, TypeOK', Attempted, NEW b \in Bucket, CountBucket(b) \/ CountBucketFails(b)
  PROVE  Attempted' /\ (Undisturbed => Undisturbed')
<1>1. /\ result[b] = "sent" /\ UNCHANGED <<metrics, transit, measured>>
      /\ Count(Grouped(b)) \/ UNCHANGED counted
  BY DEF CountBucket, CountBucketFails
<1>2. \/ /\ CountBucket(b) /\ result' = [result EXCEPT ![b] = "fulfilled"]
         /\ Count(Grouped(b)) /\ disturbed' = disturbed
      \/ /\ CountBucketFails(b) /\ result' = [result EXCEPT ![b] = "rejected"]
         /\ disturbed' = disturbed \cup Grouped(b)
  BY DEF CountBucket, CountBucketFails
<1>3. \A x \in Id : /\ counted[x] \in Nat /\ counted'[x] \in Nat
                    /\ x \in Grouped(b) => counted'[x] <= counted[x] + 1
                    /\ x \notin Grouped(b) => counted'[x] = counted[x]
  BY <1>1, Items DEF Count
<1>4. ASSUME NEW k \in DOMAIN metrics, metrics[k].id \in Grouped(b)
      PROVE  /\ ~Settled(k) /\ Settled(k)' /\ Done(k) = 0 /\ Done(k)' = 1
             /\ result'[metrics[k].bucket] = result'[b]
  <2>1. k <= transit /\ metrics[k].bucket = b
    BY <1>4, GroupedItems
  <2>2. result'[b] \in {"fulfilled", "rejected"}
    BY <1>2, Items
  <2>3. ~Settled(k) /\ Settled(k)'
    BY <1>1, <2>1, <2>2 DEF Settled
  <2>. QED BY <2>1, <2>3 DEF Done
<1>5. ASSUME NEW k \in DOMAIN metrics, metrics[k].id \notin Grouped(b)
      PROVE  /\ Settled(k)' <=> Settled(k)
             /\ Done(k)' = Done(k)
             /\ Settled(k) => result'[metrics[k].bucket] = result[metrics[k].bucket]
  <2>1. k <= transit => metrics[k].bucket # b
    BY <1>5, GroupedItems
  <2>2. k <= transit => result'[metrics[k].bucket] = result[metrics[k].bucket]
    BY <1>2, <2>1, Items
  <2>3. Settled(k)' <=> Settled(k)
    BY <1>1, <2>2 DEF Settled
  <2>. QED BY <2>2, <2>3 DEF Done, Settled
<1>6. \A k \in DOMAIN metrics :
        /\ metrics[k].id \in Id /\ metrics[k].attempts \in Nat /\ metrics[k].attempts <= MaxAttempts
        /\ metrics[k].id <= measured /\ counted[metrics[k].id] <= metrics[k].attempts + Done(k)
        /\ Done(k) \in Nat
  BY Items DEF Attempted, Done
<1>7. Attempted'
  <2>1. ASSUME NEW k \in DOMAIN metrics
        PROVE  counted'[metrics[k].id] <= metrics[k].attempts + Done(k)'
    <3>1. CASE metrics[k].id \in Grouped(b)
      BY <1>3, <1>4, <1>6, <3>1
    <3>2. CASE metrics[k].id \notin Grouped(b)
      BY <1>3, <1>5, <1>6, <3>2
    <3>. QED BY <3>1, <3>2
  <2>2. ASSUME NEW x \in Id
        PROVE  counted'[x] <= 1 + MaxAttempts /\ (x > measured => counted'[x] = 0)
    <3>1. CASE x \in Grouped(b)
      <4>1. PICK k \in DOMAIN metrics : metrics[k].id = x
        BY <3>1, GroupedItems
      <4>2. counted[x] <= metrics[k].attempts /\ x <= measured
        BY <1>4, <1>6, <3>1, <4>1
      <4>3. x \in Nat /\ measured \in Nat /\ MaxAttempts \in Nat
        BY Items
      <4>. QED BY <1>3, <1>6, <3>1, <4>1, <4>2, <4>3
    <3>2. CASE x \notin Grouped(b)
      BY <1>3, <3>2 DEF Attempted
    <3>. QED BY <3>1, <3>2
  <2>. QED BY <1>1, <1>6, <2>1, <2>2 DEF Attempted
<1>8. ASSUME Undisturbed PROVE Undisturbed'
  <2>1. ASSUME NEW k \in DOMAIN metrics, metrics[k].id \notin disturbed'
        PROVE  /\ Settled(k)' => result'[metrics[k].bucket] = "fulfilled"
               /\ counted'[metrics[k].id] = Done(k)'
    <3>1. metrics[k].id \in Id /\ metrics[k].id \notin disturbed
      BY <1>2, <1>6, <2>1
    <3>2. /\ Settled(k) => result[metrics[k].bucket] = "fulfilled"
          /\ counted[metrics[k].id] = Done(k)
      BY <1>8, <3>1 DEF Undisturbed
    <3>3. CASE metrics[k].id \in Grouped(b)
      <4>1. result' = [result EXCEPT ![b] = "fulfilled"] /\ Count(Grouped(b))
        BY <1>2, <2>1, <3>3
      <4>2. result'[b] = "fulfilled" /\ counted'[metrics[k].id] = counted[metrics[k].id] + 1
        BY <3>1, <3>3, <4>1, Items DEF Count
      <4>. QED BY <1>4, <3>2, <3>3, <4>2
    <3>4. CASE metrics[k].id \notin Grouped(b)
      BY <1>3, <1>5, <3>1, <3>2, <3>4
    <3>. QED BY <3>3, <3>4
  <2>2. ASSUME NEW x \in (1..measured) \ disturbed', x \notin IdsOf(metrics)
        PROVE  counted'[x] = 1
    <3>1. x \in Id /\ counted[x] = 1
      BY <1>2, <1>8, <2>2, Items DEF Undisturbed
    <3>2. x \notin Grouped(b)
      BY <2>2, GroupedItems DEF IdsOf
    <3>. QED BY <1>3, <3>1, <3>2
  <2>. QED BY <1>1, <2>1, <2>2 DEF Undisturbed, IdsOf
<1>. QED BY <1>7, <1>8

\* An item is appended; it is not in transit, and was never counted.
LEMMA Measuring ==
  ASSUME TypeOK, TypeOK', Attempted, Measured
  PROVE  Attempted' /\ (Undisturbed => Undisturbed')
<1>. DEFINE fresh == measured + 1
            last == Len(metrics) + 1
<1>1. /\ measured' = fresh /\ UNCHANGED <<transit, result, counted, disturbed>>
      /\ \E b \in Bucket : metrics' = Append(metrics, [id |-> fresh, bucket |-> b, attempts |-> 0])
  BY DEF Measured
<1>2. /\ DOMAIN metrics' = DOMAIN metrics \cup {last} /\ last \notin DOMAIN metrics
      /\ \A k \in DOMAIN metrics : metrics'[k] = metrics[k]
      /\ metrics'[last].id = fresh /\ metrics'[last].attempts = 0
  <2>1. metrics \in Seq(Measure) /\ Len(metrics) \in Nat /\ DOMAIN metrics = 1..Len(metrics)
    BY Arrays
  <2>. QED BY <1>1, <2>1
<1>3. /\ transit \in Nat /\ last > transit /\ fresh \in Nat /\ fresh > measured /\ fresh \in Id
      /\ 1..fresh \subseteq (1..measured) \cup {fresh}
  <2>1. fresh \in 1..fresh
    BY Items
  <2>2. 1..measured' \subseteq Id
    BY TelemetryAssumption DEF TypeOK, Id
  <2>. QED BY <1>1, <2>1, <2>2, Items
<1>4. ASSUME NEW k \in DOMAIN metrics
      PROVE  /\ Settled(k)' <=> Settled(k)
             /\ Done(k)' = Done(k)
  <2>1. Settled(k)' <=> Settled(k)
    BY <1>1, <1>2 DEF Settled
  <2>. QED BY <2>1 DEF Done
<1>6. \A k \in DOMAIN metrics :
        /\ metrics[k].id \in Nat /\ metrics[k].id <= measured
        /\ counted[metrics[k].id] <= metrics[k].attempts + Done(k)
  BY Items DEF Attempted
<1>7. counted[fresh] = 0 /\ measured \in Nat
  BY <1>3, Items DEF Attempted
<1>. HIDE DEF fresh, last
<1>8. Attempted'
  <2>1. \A j, k \in DOMAIN metrics' : metrics'[j].id = metrics'[k].id => j = k
    <3>1. \A k \in DOMAIN metrics : metrics[k].id # fresh
      BY <1>3, <1>6, <1>7
    <3>. QED BY <1>2, <3>1 DEF Attempted
  <2>2. ASSUME NEW k \in DOMAIN metrics'
        PROVE  /\ metrics'[k].id <= fresh
               /\ counted[metrics'[k].id] <= metrics'[k].attempts + Done(k)'
    <3>1. CASE k \in DOMAIN metrics
      <4>1. metrics[k].id <= fresh
        BY <1>3, <1>6, <1>7, <3>1
      <4>. QED BY <1>2, <1>4, <1>6, <3>1, <4>1
    <3>2. CASE k = last
      <4>1. Done(k)' = 0
        BY <1>1, <1>3, <3>2 DEF Done, Settled
      <4>. QED BY <1>2, <1>3, <1>7, <3>2, <4>1
    <3>. QED BY <1>2, <3>1, <3>2
  <2>3. \A x \in Id : counted[x] <= 1 + MaxAttempts /\ (x > fresh => counted[x] = 0)
    BY <1>3, <1>7, Items DEF Attempted
  <2>. QED BY <1>1, <2>1, <2>2, <2>3 DEF Attempted
<1>9. ASSUME Undisturbed PROVE Undisturbed'
  <2>1. ASSUME NEW k \in DOMAIN metrics', metrics'[k].id \notin disturbed
        PROVE  /\ Settled(k)' => result[metrics'[k].bucket] = "fulfilled"
               /\ counted[metrics'[k].id] = Done(k)'
    <3>1. CASE k \in DOMAIN metrics
      BY <1>2, <1>4, <1>9, <2>1, <3>1 DEF Undisturbed
    <3>2. CASE k = last
      <4>1. ~Settled(k)'
        BY <1>1, <1>3, <3>2 DEF Settled
      <4>2. Done(k)' = 0
        BY <4>1 DEF Done
      <4>. QED BY <1>2, <1>7, <3>2, <4>1, <4>2
    <3>. QED BY <1>2, <2>1, <3>1, <3>2
  <2>2. ASSUME NEW x \in (1..fresh) \ disturbed
        PROVE  x \in IdsOf(metrics') \/ counted[x] = 1
    <3>1. fresh \in IdsOf(metrics') /\ IdsOf(metrics) \subseteq IdsOf(metrics')
      BY <1>2 DEF IdsOf
    <3>. QED BY <1>3, <1>9, <2>2, <3>1 DEF Undisturbed
  <2>. QED BY <1>1, <2>1, <2>2 DEF Undisturbed
<1>. QED BY <1>8, <1>9

\* A flush begins: no transaction of it has settled, and none had before.
LEMMA FlushBegins ==
  ASSUME TypeOK, TypeOK', Attempted, FlushMetrics
  PROVE  Attempted' /\ (Undisturbed => Undisturbed')
<1>1. /\ transit = 0 /\ UNCHANGED <<metrics, measured, counted, disturbed>>
      /\ result' = [b \in Bucket |-> IF \E k \in DOMAIN metrics : metrics[k].bucket = b
                                      THEN "sent" ELSE "none"]
  BY DEF FlushMetrics
<1>2. ASSUME NEW k \in DOMAIN metrics
      PROVE  ~Settled(k) /\ ~Settled(k)' /\ Done(k) = 0 /\ Done(k)' = 0
  <2>1. ~Settled(k)
    BY <1>1, Items DEF Settled
  <2>2. result'[metrics[k].bucket] = "sent"
    BY <1>1, Items
  <2>3. ~Settled(k)'
    BY <1>1, <2>2 DEF Settled
  <2>. QED BY <2>1, <2>3 DEF Done
<1>. QED BY <1>1, <1>2 DEF Attempted, Undisturbed, IdsOf

\* A flush ends: what was put back has an attempt more, and is disturbed; the rest of what
\* was in transit is counted, or disturbed.
LEMMA FlushEnds ==
  ASSUME TypeOK, TypeOK', Sent, Attempted, MetricsFlushed
  PROVE  Attempted' /\ (Undisturbed => Undisturbed')
<1>1. Reordered(metrics', metrics, transit, Again) /\ Failed = AgainAt(metrics, Again)
  BY MetricsBehind, AgainInTransit
<1>2. PICK from \in [DOMAIN metrics' -> DOMAIN metrics] :
        /\ \A j, k \in DOMAIN metrics' : from[j] = from[k] => j = k
        /\ \A k \in DOMAIN metrics' :
             \/ from[k] > transit /\ metrics'[k] = metrics[from[k]]
             \/ /\ from[k] \in Again /\ metrics'[k] = PutBack(metrics[from[k]])
                /\ \E j \in DOMAIN Failed : Failed[j] = metrics'[k]
        /\ (transit + 1)..Len(metrics) \subseteq {from[k] : k \in DOMAIN metrics'}
  BY <1>1 DEF Reordered
<1>3. /\ transit > 0 /\ \A b \in Bucket : result[b] # "sent"
      /\ disturbed' = disturbed \cup IdsOf(Failed)
      /\ transit' = 0 /\ UNCHANGED <<measured, counted>>
  BY DEF MetricsFlushed
<1>4. ASSUME NEW k \in DOMAIN metrics' PROVE ~Settled(k)' /\ Done(k)' = 0
  <2>1. k > 0 /\ k \in Nat
    BY <1>4 DEF TypeOK
  <2>. QED BY <1>3, <2>1 DEF Settled, Done
<1>5. ASSUME NEW k \in DOMAIN metrics'
      PROVE  /\ from[k] \in DOMAIN metrics /\ metrics'[k].id = metrics[from[k]].id
             /\ metrics[from[k]].id \notin disturbed' => from[k] > transit
             /\ metrics[from[k]].attempts + Done(from[k]) <= metrics'[k].attempts
  <2>1. from[k] \in DOMAIN metrics /\ metrics[from[k]].attempts \in Nat
    BY Items
  <2>2. CASE from[k] > transit /\ metrics'[k] = metrics[from[k]]
    <3>1. ~Settled(from[k])
      BY <2>1, <2>2, Items DEF Settled
    <3>. QED BY <2>1, <2>2, <3>1 DEF Done
  <2>3. CASE /\ from[k] \in Again /\ metrics'[k] = PutBack(metrics[from[k]])
             /\ \E j \in DOMAIN Failed : Failed[j] = metrics'[k]
    <3>1. /\ metrics'[k].id = metrics[from[k]].id
          /\ metrics'[k].attempts = metrics[from[k]].attempts + 1
      BY <2>3, AgainInTransit
    <3>2. metrics[from[k]].id \in disturbed'
      BY <1>3, <2>3, <3>1 DEF IdsOf
    <3>3. Done(from[k]) \in {0, 1}
      BY DEF Done
    <3>. QED BY <2>1, <3>1, <3>2, <3>3
  <2>. QED BY <1>2, <2>2, <2>3
<1>6. Attempted'
  <2>1. \A j, k \in DOMAIN metrics' : metrics'[j].id = metrics'[k].id => j = k
    BY <1>2, <1>5 DEF Attempted
  <2>2. ASSUME NEW k \in DOMAIN metrics'
        PROVE  /\ metrics'[k].id <= measured
               /\ counted[metrics'[k].id] <= metrics'[k].attempts + 0
    <3>1. /\ metrics[from[k]].id <= measured
          /\ counted[metrics[from[k]].id] <= metrics[from[k]].attempts + Done(from[k])
      BY <1>5, <2>2 DEF Attempted
    <3>2. /\ counted[metrics[from[k]].id] \in Nat /\ metrics[from[k]].attempts \in Nat
          /\ Done(from[k]) \in Nat
      BY <1>5, <2>2, Items DEF Done
    <3>3. metrics'[k] \in Measure
      BY <2>2 DEF TypeOK
    <3>4. metrics'[k].attempts \in Nat
      BY <3>3, TelemetryAssumption DEF Measure
    <3>. QED BY <1>5, <2>2, <3>1, <3>2, <3>4
  <2>3. \A x \in Id : counted[x] <= 1 + MaxAttempts /\ (x > measured => counted[x] = 0)
    BY DEF Attempted
  <2>. QED BY <1>3, <1>4, <2>1, <2>2, <2>3 DEF Attempted
<1>7. ASSUME Undisturbed PROVE Undisturbed'
  <2>1. ASSUME NEW k \in DOMAIN metrics', metrics'[k].id \notin disturbed'
        PROVE  counted[metrics'[k].id] = 0
    <3>1. from[k] > transit /\ from[k] \in DOMAIN metrics /\ metrics[from[k]].id \notin disturbed
      BY <1>3, <1>5, <2>1
    <3>2. Done(from[k]) = 0
      BY <3>1, Items DEF Settled, Done
    <3>. QED BY <1>5, <1>7, <2>1, <3>1, <3>2 DEF Undisturbed
  <2>2. ASSUME NEW x \in (1..measured) \ disturbed'
        PROVE  x \in IdsOf(metrics') \/ counted[x] = 1
    <3>1. x \in IdsOf(metrics) \/ counted[x] = 1
      BY <1>3, <1>7, <2>2 DEF Undisturbed
    <3>2. ASSUME NEW j \in DOMAIN metrics, metrics[j].id = x
          PROVE  x \in IdsOf(metrics') \/ counted[x] = 1
      <4>1. j \in Nat /\ j > 0 /\ j <= Len(metrics) /\ transit \in Nat /\ Len(metrics) \in Nat
        BY <3>2, Items
      <4>2. CASE j > transit
        <5>1. j \in (transit + 1)..Len(metrics)
          BY <4>1, <4>2
        <5>2. PICK k \in DOMAIN metrics' : from[k] = j
          BY <1>2, <5>1
        <5>3. metrics'[k].id = x
          BY <1>5, <3>2, <5>2
        <5>. QED BY <5>3 DEF IdsOf
      <4>3. CASE ~(j > transit)
        <5>1. j \in 1..transit /\ metrics[j].bucket \in Bucket
          BY <3>2, <4>1, <4>3, Items
        <5>2. Settled(j)
          BY <1>3, <4>1, <5>1, Items DEF Sent, Settled
        <5>3. x \notin disturbed
          BY <1>3, <2>2
        <5>. QED BY <1>7, <3>2, <5>2, <5>3 DEF Undisturbed, Done
      <4>. QED BY <4>2, <4>3
    <3>. QED BY <3>1, <3>2 DEF IdsOf
  <2>. QED BY <1>3, <1>4, <2>1, <2>2 DEF Undisturbed
<1>. QED BY <1>6, <1>7

\* The end of the process disturbs every item in the array.
LEMMA MetricsEnd ==
  ASSUME TypeOK, Attempted, Restart
  PROVE  Attempted' /\ (Undisturbed => Undisturbed')
<1>1. /\ metrics' = <<>> /\ disturbed' = disturbed \cup IdsOf(metrics)
      /\ UNCHANGED <<measured, counted>>
  BY DEF Restart
<1>2. DOMAIN metrics' = {}
  BY <1>1
<1>3. Attempted'
  BY <1>1, <1>2 DEF Attempted
<1>4. ASSUME Undisturbed PROVE Undisturbed'
  <2>1. \A x \in (1..measured) \ disturbed' : counted[x] = 1
    BY <1>1, <1>4 DEF Undisturbed
  <2>. QED BY <1>1, <1>2, <2>1 DEF Undisturbed
<1>. QED BY <1>3, <1>4

\* The invariant of the metrics is inductive, in its two parts.
LEMMA NextCounted ==
  ASSUME TypeOK, TypeOK', Sent, Attempted, [Next]_vars
  PROVE  Attempted' /\ (Undisturbed => Undisturbed')
<1>1. CASE UNCHANGED metricsVars
  <2>1. UNCHANGED <<metrics, transit, result, measured, counted, disturbed>>
    BY <1>1 DEF metricsVars
  <2>. QED BY <2>1 DEF Attempted, Undisturbed, Settled, Done
<1>2. CASE \E s \in Store : Push(s) \/ FlushStep(s)
  BY <1>1, <1>2 DEF FlushStep, Push, Flush, Flushed, FlushFails
<1>3. CASE Measured
  BY <1>3, Measuring
<1>4. CASE MetricsStep
  BY <1>4, FlushBegins, FlushEnds, BucketSettles DEF MetricsStep
<1>5. CASE Restart
  BY <1>5, MetricsEnd
<1>6. CASE UNCHANGED vars
  BY <1>1, <1>6 DEF vars
<1>. QED BY <1>2, <1>3, <1>4, <1>5, <1>6 DEF Next

\* The invariant of the metrics holds in every state.
LEMMA CountedHolds == Spec => [](TypeOK /\ Attempted /\ Undisturbed)
<1>1. Init => Attempted /\ Undisturbed
  <2>. SUFFICES ASSUME Init PROVE Attempted /\ Undisturbed
    OBVIOUS
  <2>1. /\ metrics = <<>> /\ measured = 0 /\ counted = [x \in Id |-> 0]
    BY DEF Init
  <2>2. DOMAIN metrics = {} /\ 1..measured = {}
    BY <2>1
  <2>. QED BY <2>1, <2>2, TelemetryAssumption DEF Attempted, Undisturbed
<1>2. Init => TypeOK /\ Sent
  BY InitTyped
<1>3. TypeOK /\ Sent /\ [Next]_vars => TypeOK' /\ Sent'
  BY NextTyped
<1>4. TypeOK /\ TypeOK' /\ Sent /\ Attempted /\ Undisturbed /\ [Next]_vars
        => Attempted' /\ Undisturbed'
  BY NextCounted
<1>. QED BY <1>1, <1>2, <1>3, <1>4, PTL DEF Spec

\* However many transactions of metrics.service.ts fail after Redis has executed them, an item
\* is counted at most once for its first flush and once for every time it may be put back.
THEOREM CountedBoundedHolds == Spec => []CountedBounded
<1>1. TypeOK /\ Attempted => CountedBounded
  BY DEF Attempted, CountedBounded
<1>. QED BY <1>1, CountedHolds, PTL

\* A metrics item that no failed transaction, no mistaken retry of another one and no end of
\* the process has disturbed is counted once: not before its flush, and never again.
THEOREM CountedExactlyHolds == Spec => []CountedExactly
<1>1. ASSUME TypeOK, Attempted, Undisturbed PROVE CountedExactly
  <2>. SUFFICES ASSUME NEW x \in (1..measured) \ disturbed
                PROVE  \/ counted[x] = 1 /\ \A k \in DOMAIN metrics :
                            metrics[k].id = x =>
                              k <= transit /\ result[metrics[k].bucket] = "fulfilled"
                       \/ counted[x] = 0 /\ x \in IdsOf(metrics)
    BY DEF CountedExactly
  <2>1. CASE x \notin IdsOf(metrics)
    BY <1>1, <2>1 DEF Undisturbed, IdsOf
  <2>2. CASE x \in IdsOf(metrics)
    <3>1. PICK k \in DOMAIN metrics : metrics[k].id = x
      BY <2>2 DEF IdsOf
    <3>2. /\ Settled(k) => result[metrics[k].bucket] = "fulfilled"
          /\ counted[x] = Done(k)
      BY <1>1, <3>1 DEF Undisturbed
    <3>3. \A j \in DOMAIN metrics : metrics[j].id = x => j = k
      BY <1>1, <3>1 DEF Attempted
    <3>4. CASE Settled(k)
      BY <3>2, <3>3, <3>4 DEF Done, Settled
    <3>5. CASE ~Settled(k)
      BY <2>2, <3>2, <3>5 DEF Done
    <3>. QED BY <3>4, <3>5
  <2>. QED BY <2>1, <2>2
<1>. QED BY <1>1, CountedHolds, PTL
==============================================================================
