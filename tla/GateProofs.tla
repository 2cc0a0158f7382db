----------------------------- MODULE GateProofs -----------------------------
(***************************************************************************)
(* Proofs about Gate, for every set of requests, every list of capacities, *)
(* every length of the period and every cost of a request or an answer.    *)
(***************************************************************************)
EXTENDS Gate, FiniteSetTheorems, TLAPS

-----------------------------------------------------------------------------
(* Type correctness.                                                       *)

\* The keys a request moves are keys of the address or the shared one.
LEMMA KeysType ==
  ASSUME setup \in Setups, NEW r \in Request
  PROVE  /\ Keys(r) \subseteq Key
         /\ \A i \in DOMAIN Capacities(r) : Capacities(r)[i] \in Capacity
<1>1. Capacities(r) \in Seq(Capacity) /\ setup.period \in Period
  BY GateAssumption DEF Capacities
<1>2. \A i \in DOMAIN Capacities(r) : Capacities(r)[i] \in Capacity
  BY <1>1
<1>3. \A cap : KeyOf(r, cap) \in Key
  BY GateAssumption DEF KeyOf, Key
<1>. QED BY <1>2, <1>3 DEF Keys

\* The remaining seconds are those of a second of the period, or none.
LEMMA RemainingType ==
  ASSUME setup \in Setups, second \in 0..(Seconds - 1)
  PROVE  RemainingSeconds(second) \in -1..Seconds
BY GateAssumption DEF RemainingSeconds, Period

\* A counter stays one when it is moved, expires or ages.
LEMMA CounterType ==
  ASSUME NEW c \in Counter
  PROVE  /\ Aged(c) \in Counter /\ Aged(c).n <= c.n
         /\ \A k \in Nat : IncrBy(c, k) \in Counter /\ IncrBy(c, k).n = c.n + k
         /\ \A s \in Nat : Expire(c, s) \in Counter /\ Expire(c, s).n <= c.n
<1>1. Absent \in Counter /\ Absent.n = 0
  BY DEF Absent, Counter, NoExpiry
<1>2. Aged(c) \in Counter /\ Aged(c).n <= c.n
  BY <1>1 DEF Aged, Counter, NoExpiry
<1>3. ASSUME NEW k \in Nat PROVE IncrBy(c, k) \in Counter /\ IncrBy(c, k).n = c.n + k
  BY DEF IncrBy, Counter
<1>4. ASSUME NEW s \in Nat PROVE Expire(c, s) \in Counter /\ Expire(c, s).n <= c.n
  BY <1>1 DEF Expire, Counter, NoExpiry
<1>. QED BY <1>2, <1>3, <1>4

\* Answers cost natural numbers of tokens.
LEMMA AnswersType ==
  ASSUME setup \in Setups
  PROVE  setup.answers \subseteq Nat
BY GateAssumption

\* The state of a request keeps its type when its call ends or one of its counters is moved.
LEMMA MovedType ==
  ASSUME NEW g \in GateState, NEW k \in Key, NEW keys \in SUBSET Key
  PROVE  /\ CountedOff(g, k) \in GateState /\ Answered(g, k) \in GateState
         /\ Settled([g EXCEPT !.step = "respond", !.answer = keys]) \in GateState
<1>1. Idle \in GateState
  BY GateAssumption DEF Idle, GateState
<1>2. \A h \in GateState : Settled(h) \in GateState
  BY <1>1 DEF Settled
<1>3. /\ [g EXCEPT !.todo = g.todo \ {k}] \in GateState
      /\ [g EXCEPT !.answer = g.answer \ {k}] \in GateState
      /\ [g EXCEPT !.step = "respond", !.answer = keys] \in GateState
  BY DEF GateState
<1>. QED BY <1>2, <1>3 DEF CountedOff, Answered

\* A request that is not over keeps everything else when a counter of it is moved.
LEMMA MovedFields ==
  ASSUME NEW g \in GateState, NEW k
  PROVE  /\ \/ CountedOff(g, k) = Idle
            \/ CountedOff(g, k) = [g EXCEPT !.todo = g.todo \ {k}]
         /\ \/ Answered(g, k) = Idle
            \/ Answered(g, k) = [g EXCEPT !.answer = g.answer \ {k}]
  BY DEF CountedOff, Answered, Settled

\* So does one whose call ends.
LEMMA EndedFields ==
  ASSUME NEW r \in Request, ProviderEnds(r)
  PROVE  \E keys \in {{}, Keys(r)} :
           \/ gate' = [gate EXCEPT ![r] = Idle]
           \/ gate' = [gate EXCEPT ![r] = [gate[r] EXCEPT !.step = "respond", !.answer = keys]]
  BY DEF ProviderEnds, Settled

\* The transaction adds to both counters of the key, unless it deletes them.
LEMMA CountersMoved ==
  ASSUME TypeOK, NEW r \in Request, NEW k \in Key, IncreaseRpmTpmCounters(r, k)
  PROVE  /\ requests' \in [Key -> Counter] /\ tokens' \in [Key -> Counter]
         /\ requests'[k].n <= requests[k].n + 1
         /\ tokens'[k].n <= tokens[k].n + RequestTokens
         /\ \A j \in Key \ {k} : requests'[j] = requests[j] /\ tokens'[j] = tokens[j]
<1>. DEFINE left == gate[r].remaining
            Kept(c) == IF left > 0 THEN Expire(c, left - 1) ELSE c
<1>1. left \in -1..Seconds /\ Seconds \in Nat /\ RequestTokens \in Nat
  BY GateAssumption DEF TypeOK, GateState
<1>2. ASSUME NEW c \in Counter, NEW i \in Nat
      PROVE  Kept(IncrBy(c, i)) \in Counter /\ Kept(IncrBy(c, i)).n <= c.n + i
  <2>1. IncrBy(c, i) \in Counter /\ IncrBy(c, i).n = c.n + i
    BY CounterType
  <2>2. CASE left > 0
    <3>1. left - 1 \in Nat
      BY <1>1, <2>2
    <3>. QED BY <2>1, <2>2, <3>1, CounterType
  <2>3. CASE ~(left > 0)
    BY <2>1, <2>3 DEF Counter
  <2>. QED BY <2>2, <2>3
<1>3. /\ requests' = [requests EXCEPT ![k] = Kept(IncrBy(requests[k], 1))]
      /\ tokens' = [tokens EXCEPT ![k] = Kept(IncrBy(tokens[k], RequestTokens))]
  BY DEF IncreaseRpmTpmCounters
<1>4. requests[k] \in Counter /\ tokens[k] \in Counter
  BY DEF TypeOK
<1>5. /\ Kept(IncrBy(requests[k], 1)) \in Counter
      /\ Kept(IncrBy(requests[k], 1)).n <= requests[k].n + 1
      /\ Kept(IncrBy(tokens[k], RequestTokens)) \in Counter
      /\ Kept(IncrBy(tokens[k], RequestTokens)).n <= tokens[k].n + RequestTokens
  BY <1>1, <1>2, <1>4
<1>. HIDE DEF Kept
<1>. QED BY <1>3, <1>5 DEF TypeOK

\* A request never counts, expires or answers for a counter it has not been given, and
\* every counter has a value and either no expiry or one that lies ahead.
THEOREM TypeCorrect == Spec => []TypeOK
<1>1. Init => TypeOK
  BY GateAssumption DEF Init, TypeOK, Absent, Counter, NoExpiry, Idle, GateState
<1>2. TypeOK /\ [Next]_vars => TypeOK'
  <2>. SUFFICES ASSUME TypeOK, [Next]_vars PROVE TypeOK'
    OBVIOUS
  <2>. USE GateAssumption
  <2>0. Idle \in GateState
    BY DEF Idle, GateState
  <2>1. CASE UNCHANGED vars
    BY <2>1 DEF TypeOK, vars
  <2>2. CASE Tick
    <3>1. requests' \in [Key -> Counter] /\ tokens' \in [Key -> Counter]
      BY <2>2, CounterType DEF Tick, TypeOK
    <3>2. gate' \in [Request -> GateState]
      <4>1. \A g \in GateState : [g EXCEPT !.stale = TRUE] \in GateState
        BY DEF GateState
      <4>. QED BY <2>2, <4>1 DEF Tick, TypeOK
    <3>3. second' \in 0..(Seconds - 1)
      BY <2>2 DEF Tick, TypeOK
    <3>4. counted' \in [Key -> Nat] /\ late' \in SUBSET Key
      BY <2>2 DEF Tick, TypeOK
    <3>. QED BY <2>2, <3>1, <3>2, <3>3, <3>4 DEF Tick, TypeOK
  <2>3. ASSUME NEW r \in Request, RequestGate(r) PROVE TypeOK'
    <3>1. CASE Arrive(r)
      <4>1. [Idle EXCEPT !.step = "arrived", !.remaining = RemainingSeconds(second)] \in GateState
        BY RemainingType DEF Idle, GateState, TypeOK
      <4>. QED BY <3>1, <4>1 DEF Arrive, TypeOK
    <3>2. CASE ReadRequests(r)
      <4>1. RequestsPass(r, requests[Decisive(r)].n) \in BOOLEAN
        BY DEF RequestsPass
      <4>2. [gate[r] EXCEPT !.step = "readTokens",
                            !.fits = RequestsPass(r, requests[Decisive(r)].n)] \in GateState
        BY <4>1 DEF TypeOK, GateState
      <4>3. gate' \in [Request -> GateState]
        BY <3>2, <4>2 DEF ReadRequests, TypeOK
      <4>. QED BY <3>2, <4>3 DEF ReadRequests, TypeOK
    <3>3. CASE ReadTokens(r)
      <4>1. [gate[r] EXCEPT !.step = "prioritize"] \in GateState
        BY DEF TypeOK, GateState
      <4>2. [gate[r] EXCEPT !.step = "prioritize", !.stale = FALSE,
                            !.remaining = RemainingSeconds(second)] \in GateState
        BY RemainingType DEF TypeOK, GateState
      <4>3. gate' \in [Request -> GateState]
        BY <3>3, <2>0, <4>1, <4>2 DEF ReadTokens, TypeOK
      <4>. QED BY <3>3, <4>3 DEF ReadTokens, TypeOK
    <3>4. CASE Prioritize(r)
      <4>1. [gate[r] EXCEPT !.step = "call", !.todo = Keys(r)] \in GateState
        BY KeysType DEF TypeOK, GateState
      <4>. QED BY <3>4, <2>0, <4>1 DEF Prioritize, TypeOK
    <3>5. ASSUME NEW k \in Key, IncreaseRpmTpmCounters(r, k) PROVE TypeOK'
      <4>1. gate' \in [Request -> GateState]
        BY <3>5, MovedType DEF IncreaseRpmTpmCounters, Counting, TypeOK
      <4>2. requests' \in [Key -> Counter] /\ tokens' \in [Key -> Counter]
        BY <3>5, CountersMoved DEF TypeOK
      <4>3. counted' \in [Key -> Nat] /\ late' \in SUBSET Key
        <5>1. CASE gate[r].stale
          BY <3>5, <5>1 DEF IncreaseRpmTpmCounters, TypeOK
        <5>2. CASE ~gate[r].stale
          <6>1. (IF counted[k] < MaxCounted THEN counted[k] + 1 ELSE counted[k]) \in Nat
            BY DEF TypeOK
          <6>. QED BY <3>5, <5>2, <6>1 DEF IncreaseRpmTpmCounters, TypeOK
        <5>. QED BY <5>1, <5>2
      <4>. QED BY <3>5, <4>1, <4>2, <4>3 DEF IncreaseRpmTpmCounters, TypeOK
    <3>6. ASSUME NEW k \in Key, IncreaseFails(r, k) PROVE TypeOK'
      <4>1. gate' \in [Request -> GateState]
        BY <3>6, MovedType DEF IncreaseFails, Counting, TypeOK
      <4>. QED BY <3>6, <4>1 DEF IncreaseFails, TypeOK
    <3>. QED BY <2>3, <3>1, <3>2, <3>3, <3>4, <3>5, <3>6 DEF RequestGate
  <2>4. ASSUME NEW r \in Request, Answer(r) PROVE TypeOK'
    <3>1. CASE ProviderEnds(r)
      <4>1. PICK keys \in {{}, Keys(r)} :
              gate' = [gate EXCEPT ![r] =
                Settled([gate[r] EXCEPT !.step = "respond", !.answer = keys])]
        BY <3>1 DEF ProviderEnds
      <4>2. keys \in SUBSET Key
        BY <4>1, KeysType DEF TypeOK
      <4>3. gate' \in [Request -> GateState]
        BY <4>1, <4>2, MovedType DEF TypeOK, Key
      <4>. QED BY <3>1, <4>3 DEF ProviderEnds, TypeOK
    <3>2. ASSUME NEW k \in Key, IncreaseTokenResponseUsage(r, k) PROVE TypeOK'
      <4>1. gate' \in [Request -> GateState]
        BY <3>2, MovedType DEF IncreaseTokenResponseUsage, TypeOK
      <4>2. setup.answers \subseteq Nat
        BY AnswersType DEF TypeOK
      <4>3. tokens' \in [Key -> Counter]
        <5>1. \A c \in setup.answers : IncrBy(tokens[k], c) \in Counter
          BY <4>2, CounterType DEF TypeOK
        <5>. QED BY <3>2, <5>1 DEF IncreaseTokenResponseUsage, TypeOK
      <4>. QED BY <3>2, <4>1, <4>3 DEF IncreaseTokenResponseUsage, TypeOK
    <3>. QED BY <2>4, <3>1, <3>2 DEF Answer
  <2>. QED BY <2>1, <2>2, <2>3, <2>4 DEF Next
<1>. QED BY <1>1, <1>2, PTL DEF Spec

-----------------------------------------------------------------------------
(* The overdraft of a limit on requests.                                   *)
(*                                                                         *)
(* What was counted and what has passed and is not counted yet together    *)
(* never exceed the limit by more than the other users of the counter: a   *)
(* request that passes has read a count below the limit, and from then on  *)
(* it only moves from one side of the sum to the other, or leaves it.      *)

\* The users of k whose reading of the requests fits and who have not counted yet.
Passed(k) ==
  {r \in Users(k) : \/ gate[r].step = "readTokens" /\ gate[r].fits
                    \/ gate[r].step = "prioritize"
                    \/ k \in gate[r].todo}

RequestsInFlight ==
  \A k \in Key, limit \in Nat :
    Users(k) # {} /\ RequestsLimited(k, limit) =>
      requests[k].n + Cardinality(Passed(k)) <= limit - 1 + Cardinality(Users(k))

\* A request moves the counters of its own capacities only.
Own(g, r) == g.todo \subseteq Keys(r) /\ g.answer \subseteq Keys(r)

OwnCounters == \A r \in Request : Own(gate[r], r)

\* Parts of the set of users are finite, and no larger than it.
LEMMA PartsOfUsers ==
  ASSUME NEW k, NEW S, S \subseteq Users(k)
  PROVE  /\ IsFiniteSet(S) /\ Cardinality(S) \in Nat
         /\ Cardinality(Users(k)) \in Nat /\ Cardinality(S) <= Cardinality(Users(k))
<1>1. IsFiniteSet(Users(k))
  BY FS_Subset, GateAssumption DEF Users
<1>. QED BY <1>1, FS_Subset, FS_CardinalityType

\* The configuration does not change.
LEMMA SetupKept ==
  ASSUME [Next]_vars
  PROVE  /\ setup' = setup
         /\ \A r : Keys(r)' = Keys(r) /\ Capacities(r)' = Capacities(r)
         /\ \A k : Users(k)' = Users(k)
         /\ \A k, limit : /\ RequestsLimited(k, limit)' <=> RequestsLimited(k, limit)
                          /\ TokensLimited(k, limit)' <=> TokensLimited(k, limit)
<1>1. setup' = setup
  BY DEF Next, vars, Tick, RequestGate, Arrive, ReadRequests, ReadTokens, Prioritize,
     IncreaseRpmTpmCounters, IncreaseFails, Answer, ProviderEnds, IncreaseTokenResponseUsage
<1>. QED BY <1>1 DEF Keys, Capacities, KeyOf, Users, RequestsLimited, TokensLimited,
              Decisive, First

\* A request never gets another's counters to do.
LEMMA OwnCountersStep ==
  ASSUME TypeOK, OwnCounters, [Next]_vars
  PROVE  OwnCounters'
<1>. SUFFICES ASSUME NEW q \in Request PROVE Own(gate'[q], q)
  BY SetupKept DEF OwnCounters, Own
<1>0. /\ gate \in [Request -> GateState] /\ gate[q] \in GateState
      /\ \A r \in Request : gate[r] \in GateState /\ Own(gate[r], r)
  BY DEF TypeOK, OwnCounters
<1>1. CASE UNCHANGED vars
  BY <1>0, <1>1 DEF vars
<1>2. CASE Tick
  BY <1>0, <1>2 DEF Tick, GateState, Own
<1>3. ASSUME NEW r \in Request, NEW to, gate' = [gate EXCEPT ![r] = to], Own(to, r)
      PROVE  Own(gate'[q], q)
  BY <1>0, <1>3
<1>4. \A r : Own(Idle, r)
  BY DEF Own, Idle
<1>5. ASSUME NEW r \in Request, NEW to, to.todo = gate[r].todo, to.answer = gate[r].answer
      PROVE  Own(to, r)
  BY <1>0, <1>5 DEF Own
<1>6. ASSUME NEW r \in Request, RequestGate(r) PROVE Own(gate'[q], q)
  <2>0. CASE Arrive(r)
    <3>1. Own([Idle EXCEPT !.step = "arrived", !.remaining = RemainingSeconds(second)], r)
      BY DEF Own, Idle
    <3>. QED BY <1>3, <2>0, <3>1 DEF Arrive
  <2>1. CASE ReadRequests(r)
    <3>. DEFINE to == [gate[r] EXCEPT !.step = "readTokens",
                                      !.fits = RequestsPass(r, requests[Decisive(r)].n)]
    <3>1. to.todo = gate[r].todo /\ to.answer = gate[r].answer
      BY <1>0 DEF GateState
    <3>2. gate' = [gate EXCEPT ![r] = to]
      BY <2>1 DEF ReadRequests
    <3>. HIDE DEF to
    <3>. QED BY <1>3, <1>5, <3>1, <3>2
  <2>2. CASE ReadTokens(r)
    <3>. DEFINE new == [gate[r] EXCEPT !.step = "prioritize", !.stale = FALSE,
                                       !.remaining = RemainingSeconds(second)]
                old == [gate[r] EXCEPT !.step = "prioritize"]
    <3>1. /\ new.todo = gate[r].todo /\ new.answer = gate[r].answer
          /\ old.todo = gate[r].todo /\ old.answer = gate[r].answer
      BY <1>0 DEF GateState
    <3>2. \/ gate' = [gate EXCEPT ![r] = Idle] \/ gate' = [gate EXCEPT ![r] = new]
          \/ gate' = [gate EXCEPT ![r] = old]
      BY <2>2 DEF ReadTokens
    <3>. HIDE DEF new, old
    <3>. QED BY <1>3, <1>4, <1>5, <3>1, <3>2
  <2>3. CASE Prioritize(r)
    <3>1. Own([gate[r] EXCEPT !.step = "call", !.todo = Keys(r)], r)
      BY <1>0 DEF Own, GateState
    <3>. QED BY <1>3, <1>4, <2>3, <3>1 DEF Prioritize
  <2>4. ASSUME NEW j \in Key, Counting(r, j) PROVE Own(gate'[q], q)
    <3>1. Own([gate[r] EXCEPT !.todo = gate[r].todo \ {j}], r)
      BY <1>0 DEF Own, GateState
    <3>2. gate' = [gate EXCEPT ![r] = CountedOff(gate[r], j)]
      BY <2>4 DEF Counting
    <3>3. Own(CountedOff(gate[r], j), r)
      BY <1>0, <1>4, <3>1, MovedFields
    <3>. QED BY <1>3, <3>2, <3>3
  <2>. QED BY <1>6, <2>0, <2>1, <2>2, <2>3, <2>4 DEF RequestGate, IncreaseRpmTpmCounters, IncreaseFails
<1>7. ASSUME NEW r \in Request, Answer(r) PROVE Own(gate'[q], q)
  <2>1. CASE ProviderEnds(r)
    <3>1. \A keys \in {{}, Keys(r)} :
            Own([gate[r] EXCEPT !.step = "respond", !.answer = keys], r)
      BY <1>0 DEF Own, GateState
    <3>. QED BY <1>3, <1>4, <2>1, <3>1, EndedFields
  <2>2. ASSUME NEW j \in Key, IncreaseTokenResponseUsage(r, j) PROVE Own(gate'[q], q)
    <3>1. Own([gate[r] EXCEPT !.answer = gate[r].answer \ {j}], r)
      BY <1>0 DEF Own, GateState
    <3>2. gate' = [gate EXCEPT ![r] = Answered(gate[r], j)]
      BY <2>2 DEF IncreaseTokenResponseUsage
    <3>3. Own(Answered(gate[r], j), r)
      BY <1>0, <1>4, <3>1, MovedFields
    <3>. QED BY <1>3, <3>2, <3>3
  <2>. QED BY <1>7, <2>1, <2>2 DEF Answer
<1>. QED BY <1>1, <1>2, <1>6, <1>7 DEF Next

\* A reading that passes is below every limit that holds for the counter.
LEMMA PassBelowLimit ==
  ASSUME TypeOK, NEW k \in Key, NEW limit \in Nat, RequestsLimited(k, limit),
         NEW r \in Users(k), RequestsPass(r, requests[Decisive(r)].n)
  PROVE  requests[k].n <= limit - 1
<1>1. Decisive(r) = k /\ requests[k].n \in Nat
  BY DEF RequestsLimited, TypeOK, Counter
<1>2. PICK i \in DOMAIN Capacities(r) : Capacities(r)[i].requests \in 1..limit
  BY DEF RequestsLimited
<1>3. requests[k].n > 0 => requests[k].n + 1 <= Capacities(r)[i].requests
  BY <1>1, <1>2 DEF RequestsPass
<1>. QED BY <1>1, <1>2, <1>3

\* No step lets a counter of requests and those on their way to it exceed the limit by
\* more than the users of the counter.
LEMMA RequestsStep ==
  ASSUME TypeOK, TypeOK', OwnCounters, RequestsInFlight, [Next]_vars,
         NEW k \in Key, NEW limit \in Nat, Users(k) # {}, RequestsLimited(k, limit)
  PROVE  requests'[k].n + Cardinality(Passed(k)') <= limit - 1 + Cardinality(Users(k))
<1>. DEFINE U == Cardinality(Users(k))
            P == Passed(k)
            Q == Passed(k)'
<1>0. /\ P \subseteq Users(k) /\ Q \subseteq Users(k)
      /\ requests[k].n + Cardinality(P) <= limit - 1 + U
      /\ U \in Nat /\ Cardinality(P) \in Nat /\ Cardinality(Q) \in Nat
      /\ requests[k].n \in Nat /\ requests'[k].n \in Nat
  <2>1. P \subseteq Users(k) /\ Q \subseteq Users(k)
    BY SetupKept DEF Passed
  <2>2. requests[k].n + Cardinality(P) <= limit - 1 + U
    BY DEF RequestsInFlight
  <2>. QED BY <2>1, <2>2, PartsOfUsers DEF TypeOK, Counter
\* Nobody passes, and the counter does not grow.
<1>1. ASSUME Q \subseteq P, requests'[k].n <= requests[k].n
      PROVE  requests'[k].n + Cardinality(Q) <= limit - 1 + U
  <2>1. Cardinality(Q) <= Cardinality(P)
    BY <1>0, <1>1, PartsOfUsers, FS_Subset
  <2>. QED BY <1>0, <1>1, <2>1
\* A request passes that has read what the counter is now.
<1>2. ASSUME requests'[k].n <= limit - 1
      PROVE  requests'[k].n + Cardinality(Q) <= limit - 1 + U
  <2>1. Cardinality(Q) <= U
    BY <1>0, PartsOfUsers
  <2>. QED BY <1>0, <1>2, <2>1
\* A request that passed is counted.
<1>3. ASSUME NEW r \in P, Q \subseteq P \ {r}, requests'[k].n <= requests[k].n + 1
      PROVE  requests'[k].n + Cardinality(Q) <= limit - 1 + U
  <2>1. IsFiniteSet(P)
    BY <1>0, PartsOfUsers
  <2>2. Cardinality(P \ {r}) = Cardinality(P) - 1 /\ IsFiniteSet(P \ {r})
    BY <1>3, <2>1, FS_RemoveElement
  <2>3. Cardinality(Q) <= Cardinality(P) - 1
    BY <1>3, <2>2, FS_Subset
  <2>. QED BY <1>0, <1>3, <2>3
<1>. HIDE DEF U, P, Q
<1>4. ASSUME UNCHANGED vars
      PROVE  requests'[k].n + Cardinality(Q) <= limit - 1 + U
  <2>1. Q = P /\ requests' = requests
    BY <1>4, SetupKept DEF vars, Passed, P, Q
  <2>. QED BY <1>0, <1>1, <2>1
<1>5. ASSUME Tick
      PROVE  requests'[k].n + Cardinality(Q) <= limit - 1 + U
  <2>1. Q \subseteq P
    BY <1>5, SetupKept DEF Tick, Passed, P, Q, TypeOK, GateState, Users
  <2>2. requests'[k].n <= requests[k].n
    BY <1>5, CounterType DEF Tick, TypeOK
  <2>. QED BY <1>1, <2>1, <2>2
<1>6. ASSUME NEW r \in Request, RequestGate(r)
      PROVE  requests'[k].n + Cardinality(Q) <= limit - 1 + U
  <2>0. gate \in [Request -> GateState] /\ Users(k) \subseteq Request /\ Users(k)' = Users(k)
    BY SetupKept DEF TypeOK, Users
  <2>1. CASE Arrive(r)
    <3>1. Q \subseteq P /\ requests' = requests
      BY <2>0, <2>1 DEF Arrive, Idle, Passed, P, Q, GateState
    <3>. QED BY <1>0, <1>1, <3>1
  <2>2. CASE ReadRequests(r)
    <3>1. requests' = requests
      BY <2>2 DEF ReadRequests
    <3>2. CASE r \in Users(k) /\ RequestsPass(r, requests[Decisive(r)].n)
      BY <1>2, <3>1, <3>2, PassBelowLimit
    <3>3. CASE ~(r \in Users(k) /\ RequestsPass(r, requests[Decisive(r)].n))
      <4>1. Q \subseteq P
        BY <2>0, <2>2, <3>3 DEF ReadRequests, Passed, P, Q, GateState
      <4>. QED BY <1>0, <1>1, <3>1, <4>1
    <3>. QED BY <3>2, <3>3
  <2>3. CASE ReadTokens(r)
    <3>1. Q \subseteq P /\ requests' = requests
      BY <2>0, <2>3 DEF ReadTokens, Idle, Passed, P, Q, GateState
    <3>. QED BY <1>0, <1>1, <3>1
  <2>4. CASE Prioritize(r)
    <3>1. Q \subseteq P /\ requests' = requests
      BY <2>0, <2>4 DEF Prioritize, Idle, Passed, P, Q, GateState
    <3>. QED BY <1>0, <1>1, <3>1
  <2>5. ASSUME NEW j \in Key, Counting(r, j)
        PROVE  Q \subseteq P /\ (j = k => r \in P /\ r \notin Q)
    <3>1. /\ gate' = [gate EXCEPT ![r] = CountedOff(gate[r], j)] /\ j \in gate[r].todo
          /\ gate[r].step \in {"call", "respond"} /\ gate[r] \in GateState
      BY <2>0, <2>5 DEF Counting
    <3>. DEFINE to == CountedOff(gate[r], j)
    <3>2. /\ to.step \in {"idle", "call", "respond"}
          /\ to.todo \subseteq gate[r].todo \ {j}
      <4>1. CASE to = Idle
        BY <4>1 DEF Idle
      <4>2. CASE to = [gate[r] EXCEPT !.todo = gate[r].todo \ {j}]
        BY <3>1, <4>2 DEF GateState
      <4>. QED BY <3>1, <4>1, <4>2, MovedFields
    <3>. HIDE DEF to
    <3>3. gate'[r] = to /\ \A q \in Request \ {r} : gate'[q] = gate[q]
      BY <2>0, <3>1 DEF to
    <3>4. Q \subseteq P
      BY <2>0, <3>1, <3>2, <3>3 DEF Passed, P, Q
    <3>5. ASSUME j = k PROVE r \in P /\ r \notin Q
      <4>1. r \in Users(k)
        BY <3>1, <3>5 DEF OwnCounters, Own, Users
      <4>. QED BY <2>0, <3>1, <3>2, <3>3, <3>5, <4>1 DEF Passed, P, Q
    <3>. QED BY <3>4, <3>5
  <2>6. ASSUME NEW j \in Key, IncreaseRpmTpmCounters(r, j)
        PROVE  requests'[k].n + Cardinality(Q) <= limit - 1 + U
    <3>1. Q \subseteq P /\ (j = k => r \in P /\ r \notin Q)
      BY <2>5, <2>6 DEF IncreaseRpmTpmCounters
    <3>2. CASE j = k
      <4>1. requests'[k].n <= requests[k].n + 1
        BY <2>6, <3>2, CountersMoved
      <4>. QED BY <1>3, <3>1, <3>2, <4>1
    <3>3. CASE j # k
      <4>1. requests'[k] = requests[k]
        BY <2>6, <3>3, CountersMoved
      <4>. QED BY <1>0, <1>1, <3>1, <4>1
    <3>. QED BY <3>2, <3>3
  <2>7. ASSUME NEW j \in Key, IncreaseFails(r, j)
        PROVE  requests'[k].n + Cardinality(Q) <= limit - 1 + U
    <3>1. Q \subseteq P /\ requests' = requests
      BY <2>5, <2>7 DEF IncreaseFails
    <3>. QED BY <1>0, <1>1, <3>1
  <2>. QED BY <1>6, <2>1, <2>2, <2>3, <2>4, <2>6, <2>7 DEF RequestGate
<1>7. ASSUME NEW r \in Request, Answer(r)
      PROVE  requests'[k].n + Cardinality(Q) <= limit - 1 + U
  <2>0. gate \in [Request -> GateState] /\ Users(k) \subseteq Request /\ Users(k)' = Users(k)
    BY SetupKept DEF TypeOK, Users
  <2>1. Q \subseteq P /\ requests' = requests
    <3>0. ASSUME NEW to, gate' = [gate EXCEPT ![r] = to],
                 to.step \in {"idle", "respond"}, to.todo \subseteq gate[r].todo
          PROVE  Q \subseteq P
      <4>1. gate'[r] = to /\ \A q \in Request \ {r} : gate'[q] = gate[q]
        BY <2>0, <3>0
      <4>. QED BY <2>0, <3>0, <4>1 DEF Passed, P, Q
    <3>00. gate[r] \in GateState /\ Idle.step = "idle" /\ Idle.todo = {}
      BY <2>0 DEF Idle
    <3>1. CASE ProviderEnds(r)
      <4>1. \A keys : LET to == [gate[r] EXCEPT !.step = "respond", !.answer = keys]
                      IN  to.step = "respond" /\ to.todo = gate[r].todo
        BY <3>00 DEF GateState
      <4>2. requests' = requests
        BY <3>1 DEF ProviderEnds
      <4>. QED BY <3>0, <3>00, <3>1, <4>1, <4>2, EndedFields
    <3>2. ASSUME NEW j \in Key, IncreaseTokenResponseUsage(r, j)
          PROVE  Q \subseteq P /\ requests' = requests
      <4>1. gate' = [gate EXCEPT ![r] = Answered(gate[r], j)] /\ gate[r].step = "respond"
        BY <3>2 DEF IncreaseTokenResponseUsage
      <4>2. LET to == [gate[r] EXCEPT !.answer = gate[r].answer \ {j}]
            IN  to.step = gate[r].step /\ to.todo = gate[r].todo
        BY <3>00 DEF GateState
      <4>3. /\ Answered(gate[r], j).step \in {"idle", "respond"}
            /\ Answered(gate[r], j).todo \subseteq gate[r].todo
        BY <3>00, <4>1, <4>2, MovedFields
      <4>4. requests' = requests
        BY <3>2 DEF IncreaseTokenResponseUsage
      <4>. QED BY <3>0, <4>1, <4>3, <4>4
    <3>. QED BY <1>7, <3>1, <3>2 DEF Answer
  <2>. QED BY <1>0, <1>1, <2>1
<1>. QED BY <1>4, <1>5, <1>6, <1>7 DEF Next, U, Q

\* However the requests overlap, and whatever expires, is counted late or not at all:
\* a limit on requests is never exceeded by more than the requests under way with the
\* one that reaches it.
THEOREM RequestsBounded == Spec => []RequestsOverdraft
<1>. DEFINE IInv == OwnCounters /\ RequestsInFlight
<1>1. Init => IInv
  <2>. SUFFICES ASSUME Init PROVE IInv
    OBVIOUS
  <2>1. OwnCounters
    BY DEF Init, Idle, OwnCounters, Own
  <2>2. ASSUME NEW k \in Key, NEW limit \in Nat, Users(k) # {}, RequestsLimited(k, limit)
        PROVE  requests[k].n + Cardinality(Passed(k)) <= limit - 1 + Cardinality(Users(k))
    <3>1. Passed(k) = {} /\ requests[k].n = 0
      BY DEF Init, Idle, Passed, Users, Absent
    <3>2. Cardinality(Passed(k)) = 0
      BY <3>1, FS_EmptySet
    <3>3. limit >= 1
      BY <2>2 DEF RequestsLimited
    <3>. QED BY <3>1, <3>2, <3>3, PartsOfUsers
  <2>. QED BY <2>1, <2>2 DEF RequestsInFlight
<1>2. TypeOK /\ TypeOK' /\ IInv /\ [Next]_vars => IInv'
  <2>. SUFFICES ASSUME TypeOK, TypeOK', IInv, [Next]_vars PROVE IInv'
    OBVIOUS
  <2>1. RequestsInFlight'
    BY RequestsStep, SetupKept DEF RequestsInFlight
  <2>. QED BY <2>1, OwnCountersStep
<1>3. TypeOK /\ IInv => RequestsOverdraft
  <2>. SUFFICES ASSUME TypeOK, RequestsInFlight,
                       NEW k \in Key, NEW q \in Users(k), NEW j \in DOMAIN Capacities(q),
                       RequestsLimited(k, Capacities(q)[j].requests)
                PROVE  requests[k].n <= Capacities(q)[j].requests - 1 + Cardinality(Users(k))
    BY DEF RequestsOverdraft
  <2>1. Capacities(q)[j].requests \in Nat
    BY KeysType DEF TypeOK, Users, Capacity
  <2>2. requests[k].n + Cardinality(Passed(k))
          <= Capacities(q)[j].requests - 1 + Cardinality(Users(k))
    BY <2>1 DEF RequestsInFlight
  <2>3. Cardinality(Passed(k)) \in Nat /\ requests[k].n \in Nat
        /\ Cardinality(Users(k)) \in Nat
    BY PartsOfUsers DEF Passed, TypeOK, Counter
  <2>. QED BY <2>1, <2>2, <2>3
<1>. QED BY <1>1, <1>2, <1>3, TypeCorrect, PTL DEF Spec

-----------------------------------------------------------------------------
(* The overdraft of a limit on tokens.                                     *)
(*                                                                         *)
(* The same sum, with what each request under way may still add: its       *)
(* estimate as long as it is not counted, and its answer as long as that   *)
(* is not added, whichever comes first.                                    *)

\* The reading of the tokens fits and the answer is not added to k yet.
Owes(g, k) ==
  g.step \in {"prioritize", "call"} \/ k \in g.answer

\* Nor is the estimate.
Counts(g, k) == g.step = "prioritize" \/ k \in g.todo

Owing(k) == {r \in Users(k) : Owes(gate[r], k)}

Uncounted(k) == {r \in Users(k) : Counts(gate[r], k)}

\* What they may add, where an answer costs no more than most.
Debt(k, most) == Cardinality(Owing(k)) * most + Cardinality(Uncounted(k)) * RequestTokens

\* The limit on the tokens of k holds, and an answer costs no more than most.
Ruled(k, limit, most) ==
  Users(k) # {} /\ TokensLimited(k, limit) /\ \A c \in setup.answers : c <= most

TokensInFlight ==
  \A k \in Key, limit \in Nat, most \in Nat :
    Ruled(k, limit, most) =>
      tokens[k].n + Debt(k, most)
        <= limit - RequestTokens + Cardinality(Users(k)) * (RequestTokens + most)

\* Products of natural numbers.
LEMMA Products ==
  ASSUME NEW x \in Nat, NEW y \in Nat, NEW c \in Nat, NEW d \in Nat
  PROVE  /\ x * c \in Nat
         /\ x <= y => x * c <= y * c
         /\ x > 0 => (x - 1) * c = x * c - c
         /\ x * (c + d) = x * c + x * d
<1>1. x * c \in Nat /\ y * c \in Nat /\ x * (c + d) = x * c + x * d
  OBVIOUS
<1>2. ASSUME x <= y PROVE x * c <= y * c
  <2>1. y - x \in Nat /\ (y - x) * c \in Nat /\ y * c = x * c + (y - x) * c
    BY <1>2
  <2>. QED BY <1>1, <2>1
<1>3. (x - 1) * c = x * c - c
  OBVIOUS
<1>. QED BY <1>1, <1>2, <1>3

\* A reading that passes leaves room for the estimate below every limit.
LEMMA TokensPassBelowLimit ==
  ASSUME TypeOK, NEW k \in Key, NEW limit \in Nat, TokensLimited(k, limit),
         NEW r \in Users(k), TokensPass(r, tokens[Decisive(r)].n)
  PROVE  tokens[k].n <= limit - RequestTokens
<1>1. Decisive(r) = k /\ tokens[k].n \in Nat /\ RequestTokens \in Nat
  BY GateAssumption DEF TokensLimited, TypeOK, Counter
<1>2. PICK i \in DOMAIN Capacities(r) : Capacities(r)[i].tokens \in 1..limit
  BY DEF TokensLimited
<1>3. tokens[k].n + RequestTokens <= Capacities(r)[i].tokens
  BY <1>1, <1>2 DEF TokensPass
<1>. QED BY <1>1, <1>2, <1>3

\* No step lets a counter of tokens and what is still to be added to it exceed the limit by
\* more than every user's estimate and answer.
LEMMA TokensStep ==
  ASSUME TypeOK, TypeOK', OwnCounters, TokensInFlight, [Next]_vars,
         NEW k \in Key, NEW limit \in Nat, NEW most \in Nat, Ruled(k, limit, most)
  PROVE  tokens'[k].n + Debt(k, most)'
           <= limit - RequestTokens + Cardinality(Users(k)) * (RequestTokens + most)
<1>. DEFINE U == Cardinality(Users(k))
            D == Owing(k)
            DD == Owing(k)'
            A == Uncounted(k)
            AA == Uncounted(k)'
            n == tokens[k].n
            nn == tokens'[k].n
            room == U * (RequestTokens + most)
            Goal == nn + (Cardinality(DD) * most + Cardinality(AA) * RequestTokens)
                      <= limit - RequestTokens + room
<1>0. /\ D \subseteq Users(k) /\ DD \subseteq Users(k) /\ A \subseteq Users(k) /\ AA \subseteq Users(k)
      /\ n + (Cardinality(D) * most + Cardinality(A) * RequestTokens)
           <= limit - RequestTokens + room
      /\ U \in Nat /\ n \in Nat /\ nn \in Nat /\ RequestTokens \in Nat /\ room \in Nat
      /\ room = U * RequestTokens + U * most
  <2>1. D \subseteq Users(k) /\ DD \subseteq Users(k) /\ A \subseteq Users(k) /\ AA \subseteq Users(k)
    BY SetupKept DEF Owing, Uncounted
  <2>2. n + (Cardinality(D) * most + Cardinality(A) * RequestTokens) <= limit - RequestTokens + room
    BY DEF TokensInFlight, Debt
  <2>3. U \in Nat /\ n \in Nat /\ nn \in Nat /\ RequestTokens \in Nat
    BY PartsOfUsers, GateAssumption DEF TypeOK, Counter
  <2>4. room \in Nat /\ room = U * RequestTokens + U * most
    BY <2>3, Products
  <2>. QED BY <2>1, <2>2, <2>3, <2>4
<1>00. /\ IsFiniteSet(D) /\ IsFiniteSet(A)
       /\ Cardinality(D) \in Nat /\ Cardinality(DD) \in Nat
       /\ Cardinality(A) \in Nat /\ Cardinality(AA) \in Nat
       /\ Cardinality(DD) <= U /\ Cardinality(AA) <= U
  BY <1>0, PartsOfUsers
<1>. SUFFICES Goal
  BY DEF Debt
<1>. HIDE DEF Goal
<1>. HIDE DEF U, D, DD, A, AA, n, nn, room
\* Nobody passes, and the counter does not grow.
<1>1. ASSUME DD \subseteq D, AA \subseteq A, nn <= n
      PROVE  Goal
  <2>1. Cardinality(DD) <= Cardinality(D) /\ Cardinality(AA) <= Cardinality(A)
    BY <1>00, <1>1, FS_Subset
  <2>2. /\ Cardinality(DD) * most <= Cardinality(D) * most
        /\ Cardinality(AA) * RequestTokens <= Cardinality(A) * RequestTokens
        /\ Cardinality(DD) * most \in Nat /\ Cardinality(D) * most \in Nat
        /\ Cardinality(AA) * RequestTokens \in Nat /\ Cardinality(A) * RequestTokens \in Nat
    BY <1>0, <1>00, <2>1, Products
  <2>. QED BY <1>0, <1>1, <2>2 DEF Goal
\* A request passes that has read what the counter is now.
<1>2. ASSUME nn <= limit - RequestTokens
      PROVE  Goal
  <2>1. /\ Cardinality(DD) * most <= U * most /\ Cardinality(AA) * RequestTokens <= U * RequestTokens
        /\ Cardinality(DD) * most \in Nat /\ U * most \in Nat
        /\ Cardinality(AA) * RequestTokens \in Nat /\ U * RequestTokens \in Nat
    BY <1>0, <1>00, Products
  <2>. QED BY <1>0, <1>2, <2>1 DEF Goal
\* A request that passed is counted.
<1>3. ASSUME NEW r \in A, AA \subseteq A \ {r}, DD \subseteq D, nn <= n + RequestTokens
      PROVE  Goal
  <2>1. Cardinality(A \ {r}) = Cardinality(A) - 1 /\ IsFiniteSet(A \ {r})
    BY <1>00, <1>3, FS_RemoveElement
  <2>2. /\ Cardinality(AA) <= Cardinality(A) - 1 /\ Cardinality(A) - 1 \in Nat
        /\ Cardinality(DD) <= Cardinality(D)
    BY <1>00, <1>3, <2>1, FS_Subset
  <2>3. /\ Cardinality(DD) * most <= Cardinality(D) * most
        /\ Cardinality(AA) * RequestTokens <= (Cardinality(A) - 1) * RequestTokens
        /\ (Cardinality(A) - 1) * RequestTokens = Cardinality(A) * RequestTokens - RequestTokens
        /\ Cardinality(DD) * most \in Nat /\ Cardinality(D) * most \in Nat
        /\ Cardinality(AA) * RequestTokens \in Nat /\ Cardinality(A) * RequestTokens \in Nat
    BY <1>0, <1>00, <2>2, Products
  <2>. QED BY <1>0, <1>3, <2>3 DEF Goal
\* A request that was counted is answered.
<1>4. ASSUME NEW r \in D, DD \subseteq D \ {r}, AA \subseteq A, nn <= n + most
      PROVE  Goal
  <2>1. Cardinality(D \ {r}) = Cardinality(D) - 1 /\ IsFiniteSet(D \ {r})
    BY <1>00, <1>4, FS_RemoveElement
  <2>2. /\ Cardinality(DD) <= Cardinality(D) - 1 /\ Cardinality(D) - 1 \in Nat
        /\ Cardinality(AA) <= Cardinality(A)
    BY <1>00, <1>4, <2>1, FS_Subset
  <2>3. /\ Cardinality(AA) * RequestTokens <= Cardinality(A) * RequestTokens
        /\ Cardinality(DD) * most <= (Cardinality(D) - 1) * most
        /\ (Cardinality(D) - 1) * most = Cardinality(D) * most - most
        /\ Cardinality(DD) * most \in Nat /\ Cardinality(D) * most \in Nat
        /\ Cardinality(AA) * RequestTokens \in Nat /\ Cardinality(A) * RequestTokens \in Nat
    BY <1>0, <1>00, <2>2, Products
  <2>. QED BY <1>0, <1>4, <2>3 DEF Goal
<1>5. (nn <= n \/ nn = n) /\ DD \subseteq D /\ AA \subseteq A => Goal
  BY <1>0, <1>1
<1>6. gate \in [Request -> GateState] /\ Users(k) \subseteq Request /\ Users(k)' = Users(k)
  BY SetupKept DEF TypeOK, Users
<1>7. ASSUME UNCHANGED vars PROVE Goal
  <2>1. DD = D /\ AA = A /\ nn = n
    BY <1>6, <1>7 DEF vars, Owing, Uncounted, D, DD, A, AA, n, nn
  <2>. QED BY <1>5, <2>1
<1>8. ASSUME Tick PROVE Goal
  <2>1. \A r \in Request : /\ gate'[r].step = gate[r].step /\ gate'[r].todo = gate[r].todo
                           /\ gate'[r].answer = gate[r].answer
    BY <1>6, <1>8 DEF Tick, GateState
  <2>2. DD \subseteq D /\ AA \subseteq A
    BY <1>6, <2>1 DEF Owing, Uncounted, Owes, Counts, D, DD, A, AA
  <2>3. nn <= n
    BY <1>8, CounterType DEF Tick, TypeOK, n, nn
  <2>. QED BY <1>5, <2>2, <2>3
\* One request moves; it enters neither set.
<1>9. ASSUME NEW r \in Request, NEW g, gate' = [gate EXCEPT ![r] = g],
             r \in Users(k) => /\ Owes(g, k) => Owes(gate[r], k)
                               /\ Counts(g, k) => Counts(gate[r], k)
      PROVE  DD \subseteq D /\ AA \subseteq A
  <2>1. \A q \in Request : gate'[q] = IF q = r THEN g ELSE gate[q]
    BY <1>6, <1>9
  <2>. QED BY <1>6, <1>9, <2>1 DEF Owing, Uncounted, D, DD, A, AA
<1>10. ASSUME NEW r \in Request PROVE gate[r] \in GateState
  BY <1>6
<1>11. ~Owes(Idle, k) /\ ~Counts(Idle, k)
  BY DEF Owes, Counts, Idle
<1>12. ASSUME NEW r \in Request, RequestGate(r) PROVE Goal
  <2>1. CASE Arrive(r)
    <3>1. PICK g : /\ g = [Idle EXCEPT !.step = "arrived", !.remaining = RemainingSeconds(second)]
                   /\ gate' = [gate EXCEPT ![r] = g] /\ nn = n
      BY <2>1 DEF Arrive, n, nn
    <3>2. ~Owes(g, k) /\ ~Counts(g, k)
      BY <3>1 DEF Owes, Counts, Idle
    <3>. QED BY <1>5, <1>9, <3>1, <3>2
  <2>2. CASE ReadRequests(r)
    <3>1. PICK g : /\ g = [gate[r] EXCEPT !.step = "readTokens",
                                          !.fits = RequestsPass(r, requests[Decisive(r)].n)]
                   /\ gate' = [gate EXCEPT ![r] = g] /\ nn = n
      BY <2>2 DEF ReadRequests, n, nn
    <3>2. /\ Owes(g, k) => Owes(gate[r], k)
          /\ Counts(g, k) => Counts(gate[r], k)
      BY <1>10, <3>1 DEF Owes, Counts, GateState
    <3>. QED BY <1>5, <1>9, <3>1, <3>2
  <2>3. CASE ReadTokens(r)
    <3>1. nn = n
      BY <2>3 DEF ReadTokens, n, nn
    <3>2. CASE r \in Users(k) /\ TokensPass(r, tokens[Decisive(r)].n)
      <4>1. n <= limit - RequestTokens
        BY <3>2, TokensPassBelowLimit DEF Ruled, n
      <4>. QED BY <1>2, <3>1, <4>1
    <3>3. CASE ~TokensPass(r, tokens[Decisive(r)].n)
      <4>1. gate' = [gate EXCEPT ![r] = Idle]
        BY <2>3, <3>3 DEF ReadTokens
      <4>. QED BY <1>5, <1>9, <1>11, <3>1, <4>1
    <3>4. CASE r \notin Users(k)
      <4>1. \E g : gate' = [gate EXCEPT ![r] = g]
        BY <2>3 DEF ReadTokens
      <4>. QED BY <1>5, <1>9, <3>1, <3>4, <4>1
    <3>. QED BY <3>2, <3>3, <3>4
  <2>4. CASE Prioritize(r)
    <3>1. PICK g : /\ g \in {Idle, [gate[r] EXCEPT !.step = "call", !.todo = Keys(r)]}
                   /\ gate' = [gate EXCEPT ![r] = g] /\ nn = n /\ gate[r].step = "prioritize"
      BY <2>4 DEF Prioritize, n, nn
    <3>2. Owes(gate[r], k) /\ Counts(gate[r], k)
      BY <3>1 DEF Owes, Counts
    <3>. QED BY <1>5, <1>9, <3>1, <3>2
  <2>5. ASSUME NEW j \in Key, Counting(r, j)
        PROVE  /\ DD \subseteq D /\ AA \subseteq A
               /\ j = k => r \in A /\ AA \subseteq A \ {r}
    <3>1. PICK g : /\ g = CountedOff(gate[r], j)
                   /\ gate' = [gate EXCEPT ![r] = g] /\ gate[r].step \in {"call", "respond"}
                   /\ j \in gate[r].todo
      BY <2>5 DEF Counting
    <3>2. g = Idle \/ (/\ g.step = gate[r].step /\ g.answer = gate[r].answer
                       /\ g.todo = gate[r].todo \ {j})
      <4>1. CASE g = [gate[r] EXCEPT !.todo = gate[r].todo \ {j}]
        BY <1>10, <4>1 DEF GateState
      <4>. QED BY <1>10, <3>1, <4>1, MovedFields
    <3>3. /\ Owes(g, k) => Owes(gate[r], k)
          /\ Counts(g, k) => Counts(gate[r], k)
          /\ j = k => Counts(gate[r], k) /\ ~Counts(g, k)
      BY <1>11, <3>1, <3>2 DEF Owes, Counts
    <3>4. DD \subseteq D /\ AA \subseteq A
      BY <1>9, <3>1, <3>3
    <3>5. ASSUME j = k PROVE r \in A /\ r \notin AA
      <4>1. r \in Users(k)
        BY <3>1, <3>5 DEF OwnCounters, Own, Users
      <4>2. gate'[r] = g
        BY <1>6, <3>1
      <4>. QED BY <3>3, <3>5, <4>1, <4>2 DEF Uncounted, A, AA
    <3>. QED BY <3>4, <3>5
  <2>6. ASSUME NEW j \in Key, IncreaseRpmTpmCounters(r, j) PROVE Goal
    <3>1. Counting(r, j)
      BY <2>6 DEF IncreaseRpmTpmCounters
    <3>2. CASE j = k
      <4>1. nn <= n + RequestTokens
        BY <2>6, <3>2, CountersMoved DEF n, nn
      <4>. QED BY <1>3, <2>5, <3>1, <3>2, <4>1
    <3>3. CASE j # k
      <4>1. nn = n
        BY <2>6, <3>3, CountersMoved DEF n, nn
      <4>. QED BY <1>5, <2>5, <3>1, <4>1
    <3>. QED BY <3>2, <3>3
  <2>7. ASSUME NEW j \in Key, IncreaseFails(r, j) PROVE Goal
    <3>1. Counting(r, j) /\ nn = n
      BY <2>7 DEF IncreaseFails, n, nn
    <3>. QED BY <1>5, <2>5, <3>1
  <2>. QED BY <1>12, <2>1, <2>2, <2>3, <2>4, <2>6, <2>7 DEF RequestGate
<1>13. ASSUME NEW r \in Request, Answer(r) PROVE Goal
  <2>1. CASE ProviderEnds(r)
    <3>1. nn = n /\ gate[r].step = "call"
      BY <2>1 DEF ProviderEnds, n, nn
    <3>2. Owes(gate[r], k)
      BY <3>1 DEF Owes
    <3>3. \A keys : Counts([gate[r] EXCEPT !.step = "respond", !.answer = keys], k)
                      => Counts(gate[r], k)
      BY <1>10 DEF Counts, GateState
    <3>. QED BY <1>5, <1>9, <1>11, <2>1, <3>1, <3>2, <3>3, EndedFields
  <2>2. ASSUME NEW j \in Key, IncreaseTokenResponseUsage(r, j) PROVE Goal
    <3>1. PICK g : /\ g = Answered(gate[r], j) /\ gate' = [gate EXCEPT ![r] = g]
                   /\ gate[r].step = "respond" /\ j \in gate[r].answer
      BY <2>2 DEF IncreaseTokenResponseUsage
    <3>2. g = Idle \/ (/\ g.step = "respond" /\ g.todo = gate[r].todo
                       /\ g.answer = gate[r].answer \ {j})
      <4>1. CASE g = [gate[r] EXCEPT !.answer = gate[r].answer \ {j}]
        BY <1>10, <3>1, <4>1 DEF GateState
      <4>. QED BY <1>10, <3>1, <4>1, MovedFields
    <3>3. /\ Owes(g, k) => Owes(gate[r], k) /\ j # k
          /\ Counts(g, k) => Counts(gate[r], k)
      BY <1>11, <3>1, <3>2 DEF Owes, Counts
    <3>4. DD \subseteq D /\ AA \subseteq A
      BY <1>9, <3>1, <3>3
    <3>5. PICK c \in setup.answers :
            tokens' = [tokens EXCEPT ![j] = IF c = 0 THEN tokens[j] ELSE IncrBy(tokens[j], c)]
      BY <2>2 DEF IncreaseTokenResponseUsage
    <3>6. c \in Nat /\ c <= most
      BY AnswersType DEF TypeOK, Ruled
    <3>7. CASE j = k
      <4>1. nn <= n + most
        <5>1. tokens[k] \in Counter /\ tokens'[k] = IF c = 0 THEN tokens[k] ELSE IncrBy(tokens[k], c)
          BY <3>5, <3>7 DEF TypeOK
        <5>2. IncrBy(tokens[k], c).n = tokens[k].n + c
          BY <3>6, <5>1, CounterType
        <5>. QED BY <1>0, <3>6, <5>1, <5>2 DEF n, nn
      <4>2. r \in D /\ r \notin DD
        <5>1. r \in Users(k)
          BY <3>1, <3>7 DEF OwnCounters, Own, Users
        <5>2. gate'[r] = g /\ Owes(gate[r], k)
          BY <1>6, <3>1, <3>7 DEF Owes
        <5>. QED BY <3>3, <3>7, <5>1, <5>2 DEF Owing, D, DD
      <4>. QED BY <1>4, <3>4, <4>1, <4>2
    <3>8. CASE j # k
      <4>1. nn = n
        BY <3>5, <3>8 DEF TypeOK, n, nn
      <4>. QED BY <1>5, <3>4, <4>1
    <3>. QED BY <3>7, <3>8
  <2>. QED BY <1>13, <2>1, <2>2 DEF Answer
<1>. QED BY <1>7, <1>8, <1>12, <1>13 DEF Next

\* However the requests overlap, and whatever expires, is counted late or not at all: a limit
\* on tokens is never exceeded by more than what the requests under way were estimated to cost
\* and what their answers cost.
THEOREM TokensBounded == Spec => []TokensOverdraft
<1>. DEFINE IInv == OwnCounters /\ TokensInFlight
<1>1. Init => IInv
  <2>. SUFFICES ASSUME Init PROVE IInv
    OBVIOUS
  <2>1. OwnCounters
    BY DEF Init, Idle, OwnCounters, Own
  <2>2. ASSUME NEW k \in Key, NEW limit \in Nat, NEW most \in Nat, Ruled(k, limit, most)
        PROVE  tokens[k].n + Debt(k, most)
                 <= limit - RequestTokens + Cardinality(Users(k)) * (RequestTokens + most)
    <3>1. Owing(k) = {} /\ Uncounted(k) = {} /\ tokens[k].n = 0
      BY DEF Init, Idle, Owing, Uncounted, Owes, Counts, Users, Absent
    <3>2. RequestTokens \in Nat /\ RequestTokens + most \in Nat
      BY GateAssumption
    <3>3. Debt(k, most) = 0
      BY <3>1, <3>2, FS_EmptySet DEF Debt
    <3>4. limit >= 0 /\ Cardinality(Users(k)) \in Nat /\ Cardinality(Users(k)) > 0
      BY <2>2, PartsOfUsers, FS_EmptySet DEF Ruled
    <3>5. 1 * (RequestTokens + most) <= Cardinality(Users(k)) * (RequestTokens + most)
      BY <3>2, <3>4, Products
    <3>6. Cardinality(Users(k)) * (RequestTokens + most) \in Nat
      BY <3>2, <3>4, Products
    <3>. QED BY <3>1, <3>2, <3>3, <3>4, <3>5, <3>6
  <2>. QED BY <2>1, <2>2 DEF TokensInFlight
<1>2. TypeOK /\ TypeOK' /\ IInv /\ [Next]_vars => IInv'
  <2>. SUFFICES ASSUME TypeOK, TypeOK', IInv, [Next]_vars PROVE IInv'
    OBVIOUS
  <2>1. ASSUME NEW k \in Key, NEW limit \in Nat, NEW most \in Nat, Ruled(k, limit, most)'
        PROVE  tokens'[k].n + Debt(k, most)'
                 <= limit - RequestTokens + Cardinality(Users(k)') * (RequestTokens + most)
    <3>1. Ruled(k, limit, most) /\ Users(k)' = Users(k)
      BY <2>1, SetupKept DEF Ruled
    <3>. QED BY <3>1, TokensStep
  <2>2. TokensInFlight'
    BY <2>1 DEF TokensInFlight
  <2>. QED BY <2>2, OwnCountersStep
<1>3. TypeOK /\ IInv => TokensOverdraft
  <2>. SUFFICES ASSUME TypeOK, TokensInFlight, NEW most \in setup.answers,
                       NEW k \in Key, NEW q \in Users(k), NEW j \in DOMAIN Capacities(q),
                       \A c \in setup.answers : c <= most,
                       TokensLimited(k, Capacities(q)[j].tokens)
                PROVE  tokens[k].n <= Capacities(q)[j].tokens - RequestTokens
                                        + Cardinality(Users(k)) * (RequestTokens + most)
    BY DEF TokensOverdraft
  <2>1. Capacities(q)[j].tokens \in Nat /\ most \in Nat /\ RequestTokens \in Nat
    BY KeysType, AnswersType, GateAssumption DEF TypeOK, Users, Capacity
  <2>2. tokens[k].n + Debt(k, most)
          <= Capacities(q)[j].tokens - RequestTokens
               + Cardinality(Users(k)) * (RequestTokens + most)
    BY <2>1 DEF TokensInFlight, Ruled
  <2>3. Debt(k, most) \in Nat /\ tokens[k].n \in Nat
    <3>1. Cardinality(Owing(k)) \in Nat /\ Cardinality(Uncounted(k)) \in Nat
      BY PartsOfUsers DEF Owing, Uncounted
    <3>2. Debt(k, most) \in Nat
      BY <2>1, <3>1, Products DEF Debt
    <3>. QED BY <3>2 DEF TypeOK, Counter
  <2>4. Cardinality(Users(k)) * (RequestTokens + most) \in Nat
    BY <2>1, PartsOfUsers, Products
  <2>. QED BY <2>1, <2>2, <2>3, <2>4
<1>. QED BY <1>1, <1>2, <1>3, TypeCorrect, PTL DEF Spec

-----------------------------------------------------------------------------
(* What is counted stays counted.                                          *)

LastSecond == IF setup.period = "minute" THEN Seconds - 1 ELSE Seconds - 2

\* The expiry a request of this period is going to set does not end before the last second.
Timely(g) ==
  g.step # "idle" =>
    IF setup.period = "lifetime" THEN g.remaining <= 0
    ELSE g.stale \/ g.remaining + second > LastSecond

\* The counter is there until the last second.
Outlasts(c) ==
  c.ttl = NoExpiry \/ (setup.period # "lifetime" /\ c.ttl + second >= LastSecond)

\* The counters of a lifetime never expire; those of another period have counted what was
\* counted in it, and outlast it, unless a request of an earlier one came in between.
Reliable(k) ==
  /\ setup.period = "lifetime" => requests[k].ttl = NoExpiry /\ tokens[k].ttl = NoExpiry
  /\ (setup.period = "lifetime" \/ second < LastSecond) /\ k \notin late /\ counted[k] > 0 =>
       /\ Outlasts(requests[k]) /\ counted[k] <= requests[k].n
       /\ Outlasts(tokens[k]) /\ counted[k] * RequestTokens <= tokens[k].n

AllTimely == \A r \in Request : Timely(gate[r])

AllReliable == \A k \in Key : Reliable(k)

\* What the types say, for the arithmetic.
LEMMA Numbers ==
  ASSUME TypeOK
  PROVE  /\ Seconds \in Nat /\ Seconds > 1 /\ second \in 0..(Seconds - 1)
         /\ RequestTokens \in Nat /\ MaxCounted \in Nat /\ LastSecond \in Nat
         /\ LastSecond < Seconds
         /\ \A r \in Request : gate[r] \in GateState /\ gate[r].remaining \in Int
         /\ \A k \in Key : /\ requests[k].n \in Nat /\ tokens[k].n \in Nat
                           /\ requests[k].ttl \in Int /\ tokens[k].ttl \in Int
                           /\ requests[k].ttl = NoExpiry \/ requests[k].ttl > 0
                           /\ tokens[k].ttl = NoExpiry \/ tokens[k].ttl > 0
                           /\ counted[k] \in Nat
<1>1. /\ Seconds \in Nat /\ Seconds > 1 /\ second \in 0..(Seconds - 1)
      /\ RequestTokens \in Nat /\ MaxCounted \in Nat
  BY GateAssumption DEF TypeOK
<1>2. LastSecond \in Nat /\ LastSecond < Seconds
  BY <1>1 DEF LastSecond
<1>3. \A r \in Request : gate[r] \in GateState /\ gate[r].remaining \in Int
  BY <1>1 DEF TypeOK, GateState
<1>4. \A c \in Counter : c.n \in Nat /\ c.ttl \in Int /\ (c.ttl = NoExpiry \/ c.ttl > 0)
  BY DEF Counter, NoExpiry
<1>5. \A k \in Key : requests[k] \in Counter /\ tokens[k] \in Counter /\ counted[k] \in Nat
  BY DEF TypeOK
<1>. QED BY <1>1, <1>2, <1>3, <1>4, <1>5

\* The clock within a period, and at its end.
LEMMA Clock ==
  ASSUME TypeOK, Tick
  PROVE  \/ second' = second + 1 /\ second + 1 < Seconds
         \/ second = Seconds - 1 /\ second' = 0
<1>1. Seconds \in Nat /\ Seconds > 1 /\ second \in 0..(Seconds - 1)
  BY Numbers
<1>2. second' = (second + 1) % Seconds
  BY DEF Tick
<1>3. CASE second = Seconds - 1
  <2>1. (second + 1) % Seconds = 0
    BY <1>1, <1>3
  <2>. QED BY <1>2, <1>3, <2>1
<1>4. CASE second < Seconds - 1
  <2>1. (second + 1) % Seconds = second + 1
    BY <1>1, <1>4
  <2>. QED BY <1>1, <1>2, <1>4, <2>1
<1>. QED BY <1>1, <1>3, <1>4

\* The expiry counts from the clock.
LEMMA RemainingTimely ==
  ASSUME TypeOK
  PROVE  IF setup.period = "lifetime" THEN RemainingSeconds(second) <= 0
         ELSE RemainingSeconds(second) + second > LastSecond
  BY Numbers DEF RemainingSeconds, LastSecond

\* A step of a request keeps its expiry timely.
LEMMA TimelyStep ==
  ASSUME TypeOK, AllTimely, NEW r \in Request, RequestGate(r) \/ Answer(r)
  PROVE  AllTimely'
<1>1. setup' = setup /\ second' = second /\ LastSecond' = LastSecond
  BY DEF RequestGate, Answer, Arrive, ReadRequests, ReadTokens, Prioritize,
     IncreaseRpmTpmCounters, IncreaseFails, ProviderEnds, IncreaseTokenResponseUsage, LastSecond
<1>2. \A g : Timely(g)' <=> Timely(g)
  BY <1>1 DEF Timely
<1>3. ASSUME NEW to, gate' = [gate EXCEPT ![r] = to], Timely(to) PROVE AllTimely'
  <2>1. \A q \in Request : Timely(gate'[q])
    BY <1>3 DEF AllTimely, TypeOK
  <2>. QED BY <1>2, <2>1 DEF AllTimely
<1>4. Timely(Idle)
  BY DEF Timely, Idle
<1>5. gate[r] \in GateState /\ Timely(gate[r])
  BY Numbers DEF AllTimely
<1>6. ASSUME NEW to, to.remaining = gate[r].remaining, to.stale = gate[r].stale,
             gate[r].step # "idle"
      PROVE  Timely(to)
  BY <1>5, <1>6 DEF Timely
<1>7. CASE Arrive(r)
  <2>. DEFINE to == [Idle EXCEPT !.step = "arrived", !.remaining = RemainingSeconds(second)]
  <2>1. to.remaining = RemainingSeconds(second)
    BY DEF Idle
  <2>2. gate' = [gate EXCEPT ![r] = to]
    BY <1>7 DEF Arrive
  <2>. HIDE DEF to
  <2>3. Timely(to)
    BY <2>1, RemainingTimely DEF Timely
  <2>. QED BY <1>3, <2>2, <2>3
<1>8. CASE ReadRequests(r)
  <2>. DEFINE to == [gate[r] EXCEPT !.step = "readTokens",
                                    !.fits = RequestsPass(r, requests[Decisive(r)].n)]
  <2>1. to.remaining = gate[r].remaining /\ to.stale = gate[r].stale
    BY <1>5 DEF GateState
  <2>2. gate' = [gate EXCEPT ![r] = to] /\ gate[r].step # "idle"
    BY <1>8 DEF ReadRequests
  <2>. HIDE DEF to
  <2>. QED BY <1>3, <1>6, <2>1, <2>2
<1>9. CASE ReadTokens(r)
  <2>. DEFINE new == [gate[r] EXCEPT !.step = "prioritize", !.stale = FALSE,
                                     !.remaining = RemainingSeconds(second)]
              old == [gate[r] EXCEPT !.step = "prioritize"]
  <2>1. /\ old.remaining = gate[r].remaining /\ old.stale = gate[r].stale
        /\ new.remaining = RemainingSeconds(second)
    BY <1>5 DEF GateState
  <2>2. /\ gate[r].step # "idle"
        /\ \/ gate' = [gate EXCEPT ![r] = Idle] \/ gate' = [gate EXCEPT ![r] = new]
           \/ gate' = [gate EXCEPT ![r] = old]
    BY <1>9 DEF ReadTokens
  <2>. HIDE DEF new, old
  <2>3. Timely(new)
    BY <2>1, RemainingTimely DEF Timely
  <2>4. Timely(old)
    BY <1>6, <2>1, <2>2
  <2>. QED BY <1>3, <1>4, <2>2, <2>3, <2>4
<1>10. CASE Prioritize(r) \/ ProviderEnds(r)
  <2>1. PICK keys :
          \/ gate' = [gate EXCEPT ![r] = Idle]
          \/ gate' = [gate EXCEPT ![r] = [gate[r] EXCEPT !.step = "call", !.todo = Keys(r)]]
          \/ gate' = [gate EXCEPT ![r] = [gate[r] EXCEPT !.step = "respond", !.answer = keys]]
    BY <1>10, EndedFields DEF Prioritize
  <2>. DEFINE call == [gate[r] EXCEPT !.step = "call", !.todo = Keys(r)]
              end == [gate[r] EXCEPT !.step = "respond", !.answer = keys]
  <2>2. /\ call.remaining = gate[r].remaining /\ call.stale = gate[r].stale
        /\ end.remaining = gate[r].remaining /\ end.stale = gate[r].stale
    BY <1>5 DEF GateState
  <2>3. gate[r].step # "idle"
    BY <1>10 DEF Prioritize, ProviderEnds
  <2>. HIDE DEF call, end
  <2>4. Timely(call) /\ Timely(end)
    BY <1>6, <2>2, <2>3
  <2>. QED BY <1>3, <1>4, <2>1, <2>4 DEF call, end
<1>11. ASSUME NEW k \in Key, Counting(r, k) PROVE AllTimely'
  <2>. DEFINE to == [gate[r] EXCEPT !.todo = gate[r].todo \ {k}]
  <2>1. to.remaining = gate[r].remaining /\ to.stale = gate[r].stale
    BY <1>5 DEF GateState
  <2>2. /\ gate[r].step # "idle"
        /\ gate' = [gate EXCEPT ![r] = Idle] \/ gate' = [gate EXCEPT ![r] = to]
    BY <1>5, <1>11, MovedFields DEF Counting
  <2>. HIDE DEF to
  <2>. QED BY <1>3, <1>4, <1>6, <2>1, <2>2
<1>12. ASSUME NEW k \in Key, IncreaseTokenResponseUsage(r, k) PROVE AllTimely'
  <2>. DEFINE to == [gate[r] EXCEPT !.answer = gate[r].answer \ {k}]
  <2>1. to.remaining = gate[r].remaining /\ to.stale = gate[r].stale
    BY <1>5 DEF GateState
  <2>2. /\ gate[r].step # "idle"
        /\ gate' = [gate EXCEPT ![r] = Idle] \/ gate' = [gate EXCEPT ![r] = to]
    BY <1>5, <1>12, MovedFields DEF IncreaseTokenResponseUsage
  <2>. HIDE DEF to
  <2>. QED BY <1>3, <1>4, <1>6, <2>1, <2>2
<1>. QED BY <1>7, <1>8, <1>9, <1>10, <1>11, <1>12
     DEF RequestGate, Answer, IncreaseRpmTpmCounters, IncreaseFails

\* The clock: what remains gets less as time passes, and a period that is over makes all
\* requests late.
LEMMA TimelyTick ==
  ASSUME TypeOK, AllTimely, Tick
  PROVE  AllTimely'
<1>. DEFINE over == second = Seconds - 1 /\ setup.period # "lifetime"
<1>1. setup' = setup /\ LastSecond' = LastSecond
  BY DEF Tick, LastSecond
<1>. SUFFICES ASSUME NEW r \in Request, gate'[r].step # "idle"
              PROVE  IF setup.period = "lifetime" THEN gate'[r].remaining <= 0
                     ELSE gate'[r].stale \/ gate'[r].remaining + second' > LastSecond
  BY <1>1 DEF AllTimely, Timely
<1>2. gate'[r] = IF over /\ gate[r].step # "idle" THEN [gate[r] EXCEPT !.stale = TRUE]
                 ELSE gate[r]
  BY DEF Tick
<1>3. /\ gate[r] \in GateState /\ gate[r].remaining \in Int /\ Timely(gate[r])
      /\ Seconds \in Nat /\ second \in 0..(Seconds - 1) /\ LastSecond \in Nat
  BY Numbers DEF AllTimely
<1>4. CASE over
  <2>1. gate[r].step # "idle"
    BY <1>2
  <2>2. gate'[r].stale
    BY <1>2, <1>3, <1>4, <2>1 DEF GateState
  <2>. QED BY <1>4, <2>2
<1>5. CASE ~over
  <2>1. gate'[r] = gate[r]
    BY <1>2, <1>5
  <2>2. setup.period # "lifetime" => second' = second + 1
    BY <1>3, <1>5, Clock
  <2>. QED BY <1>3, <2>1, <2>2 DEF Timely
<1>. QED BY <1>4, <1>5

\* What the transaction of a request makes of a counter, before the last second.
LEMMA CountedCounter ==
  ASSUME TypeOK, NEW r \in Request, Timely(gate[r]), gate[r].step # "idle",
         NEW c \in Counter, NEW i \in Nat, setup.period = "lifetime" => c.ttl = NoExpiry,
         NEW d, d = IF gate[r].remaining > 0 THEN Expire(IncrBy(c, i), gate[r].remaining - 1)
                    ELSE IncrBy(c, i)
  PROVE  /\ setup.period = "lifetime" => d.ttl = NoExpiry
         /\ (setup.period = "lifetime" \/ (~gate[r].stale /\ second < LastSecond)) =>
              d.n = c.n + i /\ Outlasts(d)
<1>1. /\ gate[r].remaining \in Int /\ Seconds \in Nat /\ second \in 0..(Seconds - 1)
      /\ LastSecond \in Nat
  BY Numbers
<1>. DEFINE e == IncrBy(c, i)
<1>2. e \in Counter /\ e.n = c.n + i /\ e.ttl = c.ttl
  BY CounterType DEF IncrBy, Counter
<1>3. d = IF gate[r].remaining > 0 THEN Expire(e, gate[r].remaining - 1) ELSE e
  OBVIOUS
<1>. HIDE DEF e
<1>4. CASE setup.period = "lifetime"
  <2>1. d = e
    BY <1>1, <1>3, <1>4 DEF Timely
  <2>. QED BY <1>2, <1>4, <2>1 DEF Outlasts
<1>5. CASE setup.period # "lifetime" /\ ~gate[r].stale /\ second < LastSecond
  <2>1. gate[r].remaining + second > LastSecond
    BY <1>5 DEF Timely
  <2>2. gate[r].remaining > 1
    BY <1>1, <1>5, <2>1
  <2>3. d = Expire(e, gate[r].remaining - 1) /\ gate[r].remaining - 1 # 0
    BY <1>1, <1>3, <2>2
  <2>4. d = [e EXCEPT !.ttl = gate[r].remaining - 1]
    BY <2>3 DEF Expire
  <2>5. d.n = e.n /\ d.ttl = gate[r].remaining - 1
    BY <1>2, <2>4 DEF Counter
  <2>. QED BY <1>1, <1>2, <1>5, <2>1, <2>5 DEF Outlasts
<1>. QED BY <1>4, <1>5

\* Counters that do not change, or lose nothing, stay reliable while the clock stands still.
LEMMA ReliableKept ==
  ASSUME TypeOK, NEW k \in Key, Reliable(k), UNCHANGED <<setup, second>>,
         k \notin late' => k \notin late,
         requests'[k].ttl = requests[k].ttl, tokens'[k].ttl = tokens[k].ttl,
         counted'[k] = counted[k],
         requests'[k].n \in Nat, requests'[k].n >= requests[k].n,
         tokens'[k].n \in Nat, tokens'[k].n >= tokens[k].n
  PROVE  Reliable(k)'
<1>1. LastSecond' = LastSecond
  BY DEF LastSecond
<1>2. /\ counted[k] \in Nat /\ RequestTokens \in Nat
      /\ requests[k].n \in Nat /\ tokens[k].n \in Nat
  BY Numbers
<1>3. counted[k] * RequestTokens \in Nat
  BY <1>2
<1>. DEFINE spent == counted[k] * RequestTokens
<1>. HIDE DEF spent
<1>4. spent <= tokens[k].n => spent <= tokens'[k].n
  BY <1>2, <1>3 DEF spent
<1>5. counted[k] <= requests[k].n => counted[k] <= requests'[k].n
  BY <1>2
<1>6. Outlasts(requests[k])' <=> Outlasts(requests[k])
  BY <1>1 DEF Outlasts
<1>7. Outlasts(tokens[k])' <=> Outlasts(tokens[k])
  BY <1>1 DEF Outlasts
<1>8. counted'[k] * RequestTokens = spent
  BY DEF spent
<1>. QED BY <1>1, <1>4, <1>5, <1>6, <1>7, <1>8 DEF Reliable, spent

\* A request is counted.
LEMMA CountReliable ==
  ASSUME TypeOK, AllTimely, AllReliable,
         NEW r \in Request, NEW k \in Key, IncreaseRpmTpmCounters(r, k)
  PROVE  AllReliable'
<1>. DEFINE left == gate[r].remaining
            c == IF left > 0 THEN Expire(IncrBy(requests[k], 1), left - 1)
                 ELSE IncrBy(requests[k], 1)
            t == IF left > 0 THEN Expire(IncrBy(tokens[k], RequestTokens), left - 1)
                 ELSE IncrBy(tokens[k], RequestTokens)
<1>1. /\ setup' = setup /\ second' = second /\ gate[r].step # "idle"
      /\ requests' = [requests EXCEPT ![k] = c] /\ tokens' = [tokens EXCEPT ![k] = t]
      /\ \/ /\ gate[r].stale /\ late' = late \cup {k} /\ counted' = counted
         \/ /\ ~gate[r].stale /\ late' = late
            /\ counted' = [counted EXCEPT ![k] = IF counted[k] < MaxCounted
                                                 THEN counted[k] + 1 ELSE counted[k]]
  BY DEF IncreaseRpmTpmCounters, Counting
<1>2. LastSecond' = LastSecond
  BY <1>1 DEF LastSecond
<1>3. /\ requests[k] \in Counter /\ tokens[k] \in Counter /\ RequestTokens \in Nat
      /\ counted[k] \in Nat /\ requests[k].n \in Nat /\ tokens[k].n \in Nat
      /\ Timely(gate[r]) /\ Reliable(k)
  BY Numbers DEF TypeOK, AllTimely, AllReliable
<1>4. setup.period = "lifetime" => requests[k].ttl = NoExpiry /\ tokens[k].ttl = NoExpiry
  BY <1>3 DEF Reliable
<1>5. /\ setup.period = "lifetime" => c.ttl = NoExpiry
      /\ (setup.period = "lifetime" \/ (~gate[r].stale /\ second < LastSecond)) =>
           c.n = requests[k].n + 1 /\ Outlasts(c)
  BY <1>1, <1>3, <1>4, CountedCounter
<1>6. /\ setup.period = "lifetime" => t.ttl = NoExpiry
      /\ (setup.period = "lifetime" \/ (~gate[r].stale /\ second < LastSecond)) =>
           t.n = tokens[k].n + RequestTokens /\ Outlasts(t)
  BY <1>1, <1>3, <1>4, CountedCounter
<1>. HIDE DEF c, t, left
<1>7. requests'[k] = c /\ tokens'[k] = t
  BY <1>1 DEF TypeOK
<1>8. Reliable(k)'
  <2>1. setup.period = "lifetime" => requests'[k].ttl = NoExpiry /\ tokens'[k].ttl = NoExpiry
    BY <1>5, <1>6, <1>7
  <2>2. ASSUME setup.period = "lifetime" \/ second < LastSecond, k \notin late', counted'[k] > 0
        PROVE  /\ Outlasts(c) /\ counted'[k] <= c.n
               /\ Outlasts(t) /\ counted'[k] * RequestTokens <= t.n
    <3>1. /\ ~gate[r].stale /\ k \notin late
          /\ counted'[k] = counted[k] + 1 \/ counted'[k] = counted[k]
      BY <1>1, <2>2 DEF TypeOK
    <3>2. /\ c.n = requests[k].n + 1 /\ Outlasts(c)
          /\ t.n = tokens[k].n + RequestTokens /\ Outlasts(t)
      BY <1>5, <1>6, <2>2, <3>1
    <3>3. counted[k] <= requests[k].n /\ counted[k] * RequestTokens <= tokens[k].n
      <4>1. CASE counted[k] > 0
        BY <1>3, <2>2, <3>1, <4>1 DEF Reliable
      <4>2. CASE counted[k] = 0
        BY <1>3, <4>2
      <4>. QED BY <1>3, <4>1, <4>2
    <3>4. (counted[k] + 1) * RequestTokens = counted[k] * RequestTokens + RequestTokens
      BY <1>3
    <3>5. counted[k] * RequestTokens \in Nat
      BY <1>3
    <3>6. counted'[k] <= c.n
      BY <1>3, <3>1, <3>2, <3>3
    <3>7. counted'[k] * RequestTokens <= t.n
      <4>. DEFINE spent == counted[k] * RequestTokens
      <4>1. counted'[k] * RequestTokens \in {spent, spent + RequestTokens}
        BY <3>1, <3>4
      <4>2. spent \in Nat /\ spent <= tokens[k].n
        BY <3>3, <3>5
      <4>. HIDE DEF spent
      <4>. QED BY <1>3, <3>2, <4>1, <4>2
    <3>. QED BY <3>2, <3>6, <3>7
  <2>3. /\ Outlasts(requests[k])' <=> Outlasts(c)
        /\ Outlasts(tokens[k])' <=> Outlasts(t)
    BY <1>1, <1>2, <1>7 DEF Outlasts
  <2>. QED BY <1>1, <1>2, <1>7, <2>1, <2>2, <2>3 DEF Reliable
<1>9. ASSUME NEW j \in Key, j # k PROVE Reliable(j)'
  <2>1. /\ requests'[j] = requests[j] /\ tokens'[j] = tokens[j] /\ counted'[j] = counted[j]
        /\ (j \notin late' => j \notin late) /\ Reliable(j)
    BY <1>1, <1>9 DEF TypeOK, AllReliable
  <2>2. /\ requests[j].n \in Nat /\ tokens[j].n \in Nat
    BY Numbers
  <2>3. requests'[j].n >= requests[j].n /\ tokens'[j].n >= tokens[j].n
    BY <2>1, <2>2
  <2>. QED BY <1>1, <2>1, <2>2, <2>3, ReliableKept
<1>. QED BY <1>8, <1>9 DEF AllReliable

\* An answer adds tokens, and nothing else happens to a counter without a request being
\* counted.
LEMMA OtherReliable ==
  ASSUME TypeOK, AllReliable, NEW r \in Request,
         Arrive(r) \/ ReadRequests(r) \/ ReadTokens(r) \/ Prioritize(r) \/ Answer(r)
         \/ \E k \in Key : IncreaseFails(r, k)
  PROVE  AllReliable'
<1>1. /\ UNCHANGED <<setup, second, requests, counted, late>>
      /\ \/ tokens' = tokens
         \/ \E k \in Key, c \in setup.answers : tokens' = [tokens EXCEPT ![k] = IncrBy(tokens[k], c)]
  BY DEF Answer, Arrive, ReadRequests, ReadTokens, Prioritize, IncreaseFails, ProviderEnds,
         IncreaseTokenResponseUsage, TypeOK
<1>2. SUFFICES ASSUME NEW j \in Key PROVE Reliable(j)'
  BY DEF AllReliable
<1>3. tokens'[j].ttl = tokens[j].ttl /\ tokens'[j].n \in Nat /\ tokens'[j].n >= tokens[j].n
  <2>1. tokens[j] \in Counter /\ tokens[j].n \in Nat
    BY Numbers DEF TypeOK
  <2>2. CASE tokens'[j] = tokens[j]
    BY <2>1, <2>2
  <2>3. CASE tokens'[j] # tokens[j]
    <3>1. PICK c \in setup.answers : tokens'[j] = IncrBy(tokens[j], c)
      BY <1>1, <2>3 DEF TypeOK
    <3>2. c \in Nat
      BY AnswersType DEF TypeOK
    <3>3. tokens'[j].n = tokens[j].n + c /\ tokens'[j].ttl = tokens[j].ttl
      BY <2>1, <3>1, <3>2 DEF IncrBy, Counter
    <3>. QED BY <2>1, <3>2, <3>3
  <2>. QED BY <2>2, <2>3
<1>4. requests[j].n \in Nat /\ Reliable(j)
  BY Numbers DEF AllReliable
<1>. QED BY <1>1, <1>3, <1>4, ReliableKept

\* The clock takes one second of every expiry, and the end of a period starts the counting
\* anew.
LEMMA TickReliable ==
  ASSUME TypeOK, AllReliable, Tick
  PROVE  AllReliable'
<1>1. /\ setup' = setup /\ LastSecond' = LastSecond
      /\ LastSecond \in Nat /\ LastSecond < Seconds /\ Seconds \in Nat
      /\ second \in 0..(Seconds - 1)
  BY Numbers DEF Tick, LastSecond
<1>. SUFFICES ASSUME NEW k \in Key PROVE Reliable(k)'
  BY DEF AllReliable
<1>2. /\ requests'[k] = Aged(requests[k]) /\ tokens'[k] = Aged(tokens[k])
      /\ requests[k] \in Counter /\ tokens[k] \in Counter /\ Reliable(k)
  BY DEF Tick, TypeOK, AllReliable
<1>3. \A c \in Counter : c.ttl = NoExpiry => Aged(c) = c
  BY DEF Aged, Counter, NoExpiry
<1>4. ASSUME NEW c \in Counter, setup.period # "lifetime", Outlasts(c),
             second' = second + 1, second + 1 < LastSecond
      PROVE  /\ Aged(c).n = c.n
             /\ Aged(c).ttl = NoExpiry \/ Aged(c).ttl + second' >= LastSecond
  <2>1. CASE c.ttl = NoExpiry
    BY <1>3, <2>1
  <2>2. CASE c.ttl # NoExpiry
    <3>1. c.ttl \in Nat /\ c.ttl + second >= LastSecond
      BY <1>4, <2>2 DEF Outlasts, Counter
    <3>2. c.ttl > 1
      BY <1>1, <1>4, <3>1
    <3>3. Aged(c) = [c EXCEPT !.ttl = c.ttl - 1]
      BY <3>1, <3>2 DEF Aged
    <3>4. Aged(c).n = c.n /\ Aged(c).ttl = c.ttl - 1
      BY <3>3 DEF Counter
    <3>5. c.ttl - 1 + second' >= LastSecond
      BY <1>1, <1>4, <3>1
    <3>. QED BY <3>4, <3>5
  <2>. QED BY <2>1, <2>2
<1>5. CASE setup.period = "lifetime"
  <2>1. requests'[k] = requests[k] /\ tokens'[k] = tokens[k]
    BY <1>2, <1>3, <1>5 DEF Reliable
  <2>2. counted' = counted /\ late' = late
    BY <1>5 DEF Tick
  <2>3. \A c : c.ttl = NoExpiry => Outlasts(c) /\ Outlasts(c)'
    BY DEF Outlasts
  <2>. QED BY <1>1, <1>2, <1>5, <2>1, <2>2, <2>3 DEF Reliable
<1>6. CASE setup.period # "lifetime" /\ second = Seconds - 1
  <2>1. counted'[k] = 0
    BY <1>6 DEF Tick
  <2>. QED BY <1>1, <1>6, <2>1 DEF Reliable
<1>7. CASE setup.period # "lifetime" /\ second # Seconds - 1
  <2>1. second' = second + 1 /\ counted' = counted /\ late' = late
    BY <1>1, <1>7, Clock DEF Tick
  <2>2. ASSUME second' < LastSecond, k \notin late, counted[k] > 0
        PROVE  /\ Outlasts(requests[k])' /\ counted[k] <= requests'[k].n
               /\ Outlasts(tokens[k])' /\ counted[k] * RequestTokens <= tokens'[k].n
    <3>1. second + 1 < LastSecond /\ second < LastSecond
      BY <1>1, <2>1, <2>2
    <3>2. /\ Outlasts(requests[k]) /\ counted[k] <= requests[k].n
          /\ Outlasts(tokens[k]) /\ counted[k] * RequestTokens <= tokens[k].n
      BY <1>2, <2>2, <3>1 DEF Reliable
    <3>3. /\ requests'[k].n = requests[k].n
          /\ requests'[k].ttl = NoExpiry \/ requests'[k].ttl + second' >= LastSecond
      BY <1>2, <1>4, <1>7, <2>1, <3>1, <3>2
    <3>4. /\ tokens'[k].n = tokens[k].n
          /\ tokens'[k].ttl = NoExpiry \/ tokens'[k].ttl + second' >= LastSecond
      BY <1>2, <1>4, <1>7, <2>1, <3>1, <3>2
    <3>5. Outlasts(requests[k])' /\ Outlasts(tokens[k])'
      BY <1>1, <1>7, <3>3, <3>4 DEF Outlasts
    <3>. QED BY <3>2, <3>3, <3>4, <3>5
  <2>. QED BY <1>1, <1>7, <2>1, <2>2 DEF Reliable
<1>. QED BY <1>5, <1>6, <1>7

\* What was counted in a period stays counted until its last second, for any length of the
\* period, any costs and any number of requests.
THEOREM CountedUntilPeriodEndsHolds == Spec => []CountedUntilPeriodEnds
<1>. DEFINE IInv == AllTimely /\ AllReliable
<1>1. Init => IInv
  BY DEF Init, Idle, Absent, AllTimely, AllReliable, Timely, Reliable
<1>2. TypeOK /\ IInv /\ [Next]_vars => IInv'
  <2>. SUFFICES ASSUME TypeOK, IInv, [Next]_vars PROVE IInv'
    OBVIOUS
  <2>1. CASE Tick
    BY <2>1, TimelyTick, TickReliable
  <2>2. ASSUME NEW r \in Request, RequestGate(r) \/ Answer(r) PROVE IInv'
    BY <2>2, TimelyStep, CountReliable, OtherReliable DEF RequestGate
  <2>3. CASE UNCHANGED vars
    BY <2>3 DEF vars, AllTimely, AllReliable, Timely, Reliable, Outlasts, LastSecond
  <2>. QED BY <2>1, <2>2, <2>3 DEF Next
<1>3. TypeOK /\ IInv => CountedUntilPeriodEnds
  <2>. SUFFICES ASSUME TypeOK, AllReliable, setup.period = "lifetime" \/ second < LastSecond,
                       NEW k \in Key \ late
                PROVE  counted[k] <= requests[k].n /\ counted[k] * RequestTokens <= tokens[k].n
    BY DEF CountedUntilPeriodEnds, LastSecond
  <2>1. /\ counted[k] \in Nat /\ RequestTokens \in Nat
        /\ requests[k].n \in Nat /\ tokens[k].n \in Nat
    BY Numbers
  <2>2. CASE counted[k] > 0
    BY <2>2 DEF AllReliable, Reliable
  <2>3. CASE counted[k] = 0
    BY <2>1, <2>3
  <2>. QED BY <2>1, <2>2, <2>3
<1>. QED BY <1>1, <1>2, <1>3, TypeCorrect, PTL DEF Spec
=============================================================================
