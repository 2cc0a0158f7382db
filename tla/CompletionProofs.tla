--------------------------- MODULE CompletionProofs ---------------------------
(***************************************************************************)
(* Proofs about Completion, for every set of requests and models, every    *)
(* chain of fallbacks and any number of failures.                          *)
(***************************************************************************)
EXTENDS Completion, FiniteSetTheorems, SequenceTheorems, TLAPS

-----------------------------------------------------------------------------
(* Type correctness.                                                       *)

\* An attempt under way has a chain, and its position is one of the chain.
Attempting(r) == request[r].step \in {"connect", "gate", "call", "stream", "charge", "discover"}

Placed ==
  \A r \in Request : Attempting(r) =>
    /\ request[r].chain \in {Chain(m) : m \in Model}
    /\ request[r].i \in 1..Len(request[r].chain)

TInv == TypeOK /\ Placed

\* A chain is a sequence of models, one longer than the fallbacks.
LEMMA ChainType ==
  ASSUME NEW m \in Model
  PROVE  Chain(m) \in Seq(Model) /\ Len(Chain(m)) = Len(Fallbacks) + 1
BY CompletionAssumption DEF Chain

\* Nothing is known and nothing was reported when an attempt starts or a request ends.
LEMMA AtType ==
  ASSUME NEW step \in {"done", "resolve", "route", "connect"}, NEW chain \in Chains,
         NEW i \in 0..(Len(Fallbacks) + 1)
  PROVE  At(step, chain, i) \in RequestState
BY DEF At, RequestState, Nothing, Discovered, Reported

\* An attempt serves a model of the resource.
LEMMA ServingType ==
  ASSUME TInv, NEW r \in Request, Attempting(r)
  PROVE  /\ Serving(r) \in Model
         /\ request[r].i \in 1..(Len(Fallbacks) + 1)
         /\ ~Last(r) => request[r].i + 1 \in 1..(Len(Fallbacks) + 1)
<1>1. PICK m \in Model : request[r].chain = Chain(m)
  BY DEF TInv, Placed
<1>2. request[r].i \in 1..Len(Chain(m))
  BY <1>1 DEF TInv, Placed
<1>. QED BY <1>1, <1>2, ChainType, CompletionAssumption, SMTT(30) DEF Serving, Last

\* What is pushed keeps the ledger a ledger.
LEMMA LedgerType ==
  ASSUME NEW l \in Ledger
  PROVE  /\ \A known \in BOOLEAN : PushRejection(l, known) \in Ledger
         /\ PushFallback(l) \in Ledger /\ PushSuccess(l) \in Ledger
         /\ \A o \in {"answered", "broken"} : [l EXCEPT !.outcome = o] \in Ledger
         /\ [l EXCEPT !.answers = @ + 1] \in Ledger
         /\ [l EXCEPT !.lost = @ + 1] \in Ledger
         /\ [l EXCEPT !.again = @ + 1] \in Ledger
<1>1. \A s \in Seq(Status), x \in Status : Append(s, x) \in Seq(Status)
  OBVIOUS
<1>2. "ok" \in Status /\ "error" \in Status
  BY DEF Status
<1>. DEFINE Outcome == {"none", "answered", "failed", "broken"}
<1>3. /\ l.usage \in Seq(Status) /\ l.audits \in Seq(Status) /\ l.metrics \in Seq(Status)
      /\ l.answers \in Nat /\ l.lost \in Nat /\ l.again \in Nat /\ l.outcome \in Outcome
  BY DEF Ledger
<1>4. /\ \A s \in Seq(Status) : [l EXCEPT !.usage = s] \in Ledger
      /\ \A s \in Seq(Status) : [l EXCEPT !.audits = s] \in Ledger
      /\ \A s \in Seq(Status) : [l EXCEPT !.metrics = s] \in Ledger
      /\ \A o \in Outcome : [l EXCEPT !.outcome = o] \in Ledger
  BY DEF Ledger
<1>5. ASSUME NEW known \in BOOLEAN PROVE PushRejection(l, known) \in Ledger
  <2>. DEFINE u == Append(l.usage, "error")
              m == IF known THEN Append(l.metrics, "error") ELSE l.metrics
              a == Append(l.audits, "error")
  <2>1. u \in Seq(Status) /\ m \in Seq(Status) /\ a \in Seq(Status)
    BY <1>1, <1>2, <1>3
  <2>2. PushRejection(l, known)
          = [l EXCEPT !.usage = u, !.metrics = m, !.audits = a, !.outcome = "failed"]
    BY DEF PushRejection
  <2>. HIDE DEF u, m, a
  <2>. QED BY <2>1, <2>2 DEF Ledger
<1>6. PushFallback(l) \in Ledger
  <2>. DEFINE u == Append(l.usage, "error")
              m == Append(l.metrics, "error")
  <2>1. u \in Seq(Status) /\ m \in Seq(Status)
    BY <1>1, <1>2, <1>3
  <2>2. PushFallback(l) = [l EXCEPT !.usage = u, !.metrics = m]
    BY DEF PushFallback
  <2>. HIDE DEF u, m
  <2>. QED BY <2>1, <2>2 DEF Ledger
<1>7. PushSuccess(l) \in Ledger
  <2>. DEFINE u == Append(l.usage, "ok")
              m == Append(l.metrics, "ok")
              a == Append(l.audits, "ok")
  <2>1. u \in Seq(Status) /\ m \in Seq(Status) /\ a \in Seq(Status)
    BY <1>1, <1>2, <1>3
  <2>2. PushSuccess(l) = [l EXCEPT !.usage = u, !.metrics = m, !.audits = a]
    BY DEF PushSuccess
  <2>. HIDE DEF u, m, a
  <2>. QED BY <2>1, <2>2 DEF Ledger
<1>8. /\ [l EXCEPT !.answers = @ + 1] \in Ledger
      /\ [l EXCEPT !.lost = @ + 1] \in Ledger
      /\ [l EXCEPT !.again = @ + 1] \in Ledger
  <2>1. /\ \A n \in Nat : [l EXCEPT !.answers = n] \in Ledger
        /\ \A n \in Nat : [l EXCEPT !.lost = n] \in Ledger
        /\ \A n \in Nat : [l EXCEPT !.again = n] \in Ledger
    BY DEF Ledger
  <2>2. l.answers + 1 \in Nat /\ l.lost + 1 \in Nat /\ l.again + 1 \in Nat
    BY <1>3
  <2>. QED BY <2>1, <2>2
<1>. QED BY <1>4, <1>5, <1>6, <1>7, <1>8

\* One request moves to a typed state with a typed ledger, the others stay.
LEMMA Moved ==
  ASSUME TInv, NEW r \in Request, NEW to \in RequestState, NEW l \in Ledger,
         request' = [request EXCEPT ![r] = to],
         ledger' = [ledger EXCEPT ![r] = l],
         to.step \in {"connect", "gate", "call", "stream", "charge", "discover"} =>
           /\ to.chain \in {Chain(m) : m \in Model}
           /\ to.i \in 1..Len(to.chain),
         discovered' \in [Connection -> Discovered],
         limit' \in [Model -> Limit], changes' \in 0..MaxChanges
  PROVE  TInv'
<1>1. TypeOK'
  BY DEF TInv, TypeOK
<1>2. ASSUME NEW q \in Request PROVE
        Attempting(q)' => /\ request'[q].chain \in {Chain(m) : m \in Model}
                          /\ request'[q].i \in 1..Len(request'[q].chain)
  <2>1. CASE q = r
    BY <2>1 DEF Attempting, TInv, TypeOK
  <2>2. CASE q # r
    <3>1. request'[q] = request[q]
      BY <2>2 DEF TInv, TypeOK
    <3>. QED BY <3>1 DEF Attempting, TInv, Placed
  <2>. QED BY <2>1, <2>2
<1>. QED BY <1>1, <1>2 DEF TInv, Placed

\* What a request stores for its connection is typed.
LEMMA WriteType ==
  ASSUME TInv, NEW r \in Request, Attempting(r), WriteDiscovered(r)
  PROVE  discovered' \in [Connection -> Discovered]
<1>1. Serving(r) \in Model
  BY ServingType
<1>2. request[r].known \in Discovered /\ request[r].headers \in Reported
  BY DEF TInv, TypeOK, RequestState
<1>3. UpdateDiscovered(request[r].known, Serving(r), request[r].headers) \in Discovered
  BY <1>1, <1>2 DEF UpdateDiscovered, Discovered
<1>. QED BY <1>3 DEF WriteDiscovered, TInv, TypeOK

\* What an attempt that goes on changes, and what the histories add.
LEMMA Going ==
  ASSUME TInv, NEW r \in Request
  PROVE  /\ request[r] \in RequestState /\ ledger[r] \in Ledger /\ Noted(r) \in Ledger
         /\ request = [request EXCEPT ![r] = request[r]]
         /\ ledger = [ledger EXCEPT ![r] = ledger[r]]
<1>1. request[r] \in RequestState /\ ledger[r] \in Ledger
  BY DEF TInv, TypeOK
<1>2. Noted(r) \in Ledger
  BY <1>1, LedgerType DEF Noted
<1>. QED BY <1>1, <1>2 DEF TInv, TypeOK

\* An attempt is always one of the chain of its request.
LEMMA TypesKept == Spec => []TInv
<1>1. Init => TInv
  <2>. SUFFICES ASSUME Init PROVE TInv
    OBVIOUS
  <2>. USE CompletionAssumption
  <2>1. At("done", <<>>, 0) \in RequestState
    <3>1. Len(Fallbacks) \in Nat
      OBVIOUS
    <3>2. <<>> \in Chains /\ 0 \in 0..(Len(Fallbacks) + 1)
      BY <3>1 DEF Chains
    <3>. QED BY <3>2, AtType
  <2>2. Blank \in Ledger /\ Nothing \in Discovered
    BY DEF Blank, Ledger, Nothing, Discovered, Reported
  <2>3. TypeOK
    BY <2>1, <2>2 DEF Init, TypeOK
  <2>4. Placed
    BY DEF Init, Placed, Attempting, At
  <2>. QED BY <2>3, <2>4 DEF TInv
<1>2. TInv /\ [Next]_vars => TInv'
  <2>. SUFFICES ASSUME TInv, [Next]_vars PROVE TInv'
    OBVIOUS
  <2>. USE CompletionAssumption
  <2>0. /\ discovered \in [Connection -> Discovered] /\ limit \in [Model -> Limit]
        /\ changes \in 0..MaxChanges
    BY DEF TInv, TypeOK
  <2>1. CASE UNCHANGED vars
    BY <2>1 DEF TInv, TypeOK, Placed, Attempting, vars
  <2>2. CASE LimitChanges
    <3>1. limit' \in [Model -> Limit] /\ changes' \in 0..MaxChanges
      BY <2>0, <2>2 DEF LimitChanges
    <3>. QED BY <2>2, <3>1 DEF LimitChanges, TInv, TypeOK, Placed, Attempting
  <2>3. ASSUME NEW r \in Request, Arrive(r) \/ Serve(r) PROVE TInv'
    <3>. DEFINE Rest == At("done", <<>>, 0)
    <3>0. /\ request[r] \in RequestState /\ ledger[r] \in Ledger /\ Noted(r) \in Ledger
          /\ request = [request EXCEPT ![r] = request[r]]
          /\ ledger = [ledger EXCEPT ![r] = ledger[r]]
      BY Going
    <3>1. Rest \in RequestState /\ Rest.step = "done"
      BY AtType DEF Chains, At
    <3>2. ASSUME NEW m \in Model
          PROVE  /\ At("connect", Chain(m), 1) \in RequestState
                 /\ At("connect", Chain(m), 1).step = "connect"
                 /\ At("connect", Chain(m), 1).chain = Chain(m)
                 /\ At("connect", Chain(m), 1).i \in 1..Len(Chain(m))
      <4>1. Len(Chain(m)) = Len(Fallbacks) + 1 /\ Len(Fallbacks) \in Nat
        BY ChainType
      <4>2. Chain(m) \in Chains /\ 1 \in 0..(Len(Fallbacks) + 1)
        BY <4>1 DEF Chains
      <4>3. At("connect", Chain(m), 1) \in RequestState
        BY <4>2, AtType
      <4>. QED BY <4>1, <4>3 DEF At
    <3>. HIDE DEF Rest
    <3>3. CASE Arrive(r)
      <4>1. At("resolve", <<>>, 0) \in RequestState /\ At("resolve", <<>>, 0).step = "resolve"
        BY AtType DEF Chains, At
      <4>2. Blank \in Ledger
        BY DEF Blank, Ledger
      <4>. QED BY <2>0, <3>3, <4>1, <4>2, Moved DEF Arrive, Step, SameLimits
    <3>4. CASE Resolve(r)
      <4>1. At("route", <<>>, 0) \in RequestState /\ At("route", <<>>, 0).step = "route"
        BY DEF Chains, At, RequestState, Nothing, Discovered, Reported
      <4>2. PICK to : /\ request' = [request EXCEPT ![r] = to]
                      /\ \/ to = At("route", <<>>, 0)
                         \/ \E m \in Model : to = At("connect", Chain(m), 1)
        BY <3>4 DEF Resolve, Step
      <4>3. /\ to \in RequestState
            /\ to.step \in {"connect", "gate", "call", "stream", "charge", "discover"} =>
                 to.chain \in {Chain(m) : m \in Model} /\ to.i \in 1..Len(to.chain)
        BY <3>2, <4>1, <4>2
      <4>. QED BY <2>0, <3>0, <3>4, <4>2, <4>3, Moved DEF Resolve, SameLimits
    <3>5. CASE ResolveFails(r)
      <4>1. PushRejection(ledger[r], FALSE) \in Ledger
        BY <3>0, LedgerType
      <4>. QED BY <2>0, <3>1, <3>5, <4>1, Moved DEF ResolveFails, Step, SameLimits, Rest
    <3>6. CASE Route(r)
      <4>1. PICK m \in Model : request' = [request EXCEPT ![r] = At("connect", Chain(m), 1)]
        BY <3>6 DEF Route, Step
      <4>. DEFINE to == At("connect", Chain(m), 1)
      <4>2. /\ to \in RequestState
            /\ to.chain \in {Chain(n) : n \in Model} /\ to.i \in 1..Len(to.chain)
        BY <3>2
      <4>3. request' = [request EXCEPT ![r] = to] /\ ledger' = ledger
        BY <3>6, <4>1 DEF Route
      <4>. HIDE DEF to
      <4>. QED BY <2>0, <3>0, <3>6, <4>2, <4>3, Moved DEF Route, SameLimits
    <3>7. CASE RouteFails(r)
      <4>1. PushRejection(ledger[r], TRUE) \in Ledger
        BY <3>0, LedgerType
      <4>. QED BY <2>0, <3>1, <3>7, <4>1, Moved DEF RouteFails, Step, SameLimits, Rest
    <3>8. CASE Attempting(r) /\ Attempt(r)
      <4>0. /\ Serving(r) \in Model
            /\ request[r].i \in 1..(Len(Fallbacks) + 1)
            /\ ~Last(r) => request[r].i + 1 \in 1..(Len(Fallbacks) + 1)
            /\ request[r].chain \in {Chain(m) : m \in Model}
            /\ request[r].i \in 1..Len(request[r].chain)
        BY <3>8, ServingType DEF TInv, Placed
      <4>1. CASE Connect(r)
        <5>. DEFINE to == [request[r] EXCEPT !.step = "gate",
                                             !.known = discovered[ConnectionOf[Serving(r)]]]
        <5>1. discovered[ConnectionOf[Serving(r)]] \in Discovered
          BY <2>0, <4>0
        <5>2. to \in RequestState /\ to.chain = request[r].chain /\ to.i = request[r].i
          BY <3>0, <5>1 DEF RequestState
        <5>3. request' = [request EXCEPT ![r] = to]
          BY <4>1 DEF Connect, Step
        <5>. HIDE DEF to
        <5>. QED BY <2>0, <3>0, <4>0, <4>1, <5>2, <5>3, Moved DEF Connect, SameLimits
      <4>2. CASE Admit(r) \/ StreamEnds(r)
        <5>1. PICK step \in {"call", "charge"} :
                request' = [request EXCEPT ![r] = [request[r] EXCEPT !.step = step]]
          BY <4>2 DEF Admit, StreamEnds, Step
        <5>. DEFINE to == [request[r] EXCEPT !.step = step]
        <5>2. to \in RequestState /\ to.chain = request[r].chain /\ to.i = request[r].i
          BY <3>0, <5>1 DEF RequestState
        <5>3. request' = [request EXCEPT ![r] = to]
          BY <5>1
        <5>. HIDE DEF to
        <5>. QED BY <2>0, <3>0, <4>0, <4>2, <5>2, <5>3, Moved DEF Admit, StreamEnds, SameLimits
      <4>3. CASE Answer(r)
        <5>1. PICK h \in Reported, step \in {"stream", "charge"} :
                request' = [request EXCEPT ![r] = [request[r] EXCEPT !.step = step,
                                                                     !.headers = h]]
          <6>1. PICK h \in {Unknown, limit[Serving(r)]} :
                  request' = [request EXCEPT ![r] =
                    [request[r] EXCEPT !.step = IF r \in Stream THEN "stream" ELSE "charge",
                                       !.headers = h]]
            BY <4>3 DEF Answer, Step
          <6>2. h \in Reported
            BY <2>0, <4>0 DEF Reported
          <6>. QED BY <6>1, <6>2
        <5>. DEFINE to == [request[r] EXCEPT !.step = step, !.headers = h]
        <5>2. to \in RequestState /\ to.chain = request[r].chain /\ to.i = request[r].i
          BY <3>0, <5>1 DEF RequestState
        <5>3. request' = [request EXCEPT ![r] = to]
          BY <5>1
        <5>4. [ledger[r] EXCEPT !.answers = @ + 1] \in Ledger
          BY <3>0, LedgerType
        <5>5. ledger' = [ledger EXCEPT ![r] = [ledger[r] EXCEPT !.answers = @ + 1]]
          BY <4>3 DEF Answer
        <5>. HIDE DEF to
        <5>. QED BY <2>0, <4>0, <4>3, <5>2, <5>3, <5>4, <5>5, Moved DEF Answer, SameLimits
      <4>4. CASE Charge(r)
        <5>1. /\ PushSuccess(ledger[r]) \in Ledger
              /\ [PushSuccess(ledger[r]) EXCEPT !.outcome = "answered"] \in Ledger
          BY <3>0, LedgerType
        <5>2. CASE Differs(r)
          <6>. DEFINE to == [request[r] EXCEPT !.step = "discover"]
          <6>1. to \in RequestState /\ to.chain = request[r].chain /\ to.i = request[r].i
            BY <3>0 DEF RequestState
          <6>2. request' = [request EXCEPT ![r] = to]
            BY <4>4, <5>2 DEF Charge, Step
          <6>. HIDE DEF to
          <6>. QED BY <2>0, <4>0, <4>4, <5>1, <5>2, <6>1, <6>2, Moved DEF Charge, SameLimits
        <5>3. CASE ~Differs(r)
          <6>1. request' = [request EXCEPT ![r] = Rest]
            BY <4>4, <5>3 DEF Charge, Step, AfterSuccess, Rest
          <6>. QED BY <2>0, <3>1, <4>4, <5>1, <5>3, <6>1, Moved DEF Charge, SameLimits
        <5>. QED BY <5>2, <5>3
      <4>5. CASE Discover(r)
        <5>1. [ledger[r] EXCEPT !.outcome = "answered"] \in Ledger
          BY <3>0, LedgerType
        <5>2. /\ request' = [request EXCEPT ![r] = Rest]
              /\ ledger' = [ledger EXCEPT ![r] = [ledger[r] EXCEPT !.outcome = "answered"]]
          BY <4>5 DEF Discover, Step, AfterSuccess, Rest
        <5>3. discovered' \in [Connection -> Discovered]
          BY <3>8, <4>5, WriteType DEF Discover
        <5>. QED BY <2>0, <3>1, <4>5, <5>1, <5>2, <5>3, Moved DEF Discover, SameLimits
      <4>6. CASE AttemptFails(r)
        <5>1. discovered' \in [Connection -> Discovered]
          BY <2>0, <3>8, <4>6, WriteType DEF AttemptFails
        <5>2. PushRejection(Noted(r), TRUE) \in Ledger /\ PushFallback(Noted(r)) \in Ledger
          BY <3>0, LedgerType
        <5>3. CASE Last(r)
          <6>1. request' = [request EXCEPT ![r] = Rest]
            BY <4>6, <5>3 DEF AttemptFails, Rest
          <6>. QED BY <2>0, <3>1, <4>6, <5>1, <5>2, <5>3, <6>1, Moved
                   DEF AttemptFails, SameLimits
        <5>4. CASE ~Last(r)
          <6>. DEFINE to == At("connect", request[r].chain, request[r].i + 1)
          <6>1. request[r].i + 1 \in 1..Len(request[r].chain)
            BY <4>0, <5>4, ChainType
          <6>2. to \in RequestState /\ to.chain = request[r].chain /\ to.i = request[r].i + 1
            <7>1. request[r].chain \in Chains /\ request[r].i + 1 \in 0..(Len(Fallbacks) + 1)
              BY <4>0, <5>4 DEF Chains
            <7>. QED BY <7>1, AtType DEF At
          <6>3. /\ request' = [request EXCEPT ![r] = to]
                /\ ledger' = [ledger EXCEPT ![r] = PushFallback(Noted(r))]
            BY <4>6, <5>4 DEF AttemptFails, NextModel
          <6>. HIDE DEF to
          <6>. QED BY <2>0, <4>0, <4>6, <5>1, <5>2, <6>1, <6>2, <6>3, Moved
                   DEF AttemptFails, SameLimits
        <5>. QED BY <5>3, <5>4
      <4>7. CASE StreamBreaks(r)
        <5>1. discovered' \in [Connection -> Discovered]
          BY <2>0, <3>8, <4>7, WriteType DEF StreamBreaks
        <5>2. [Noted(r) EXCEPT !.outcome = "broken"] \in Ledger
          BY <3>0, LedgerType
        <5>3. /\ request' = [request EXCEPT ![r] = Rest]
              /\ ledger' = [ledger EXCEPT ![r] = [Noted(r) EXCEPT !.outcome = "broken"]]
          BY <4>7 DEF StreamBreaks, Rest
        <5>4. limit' = limit /\ changes' = changes
          BY <4>7 DEF StreamBreaks, SameLimits
        <5>. QED BY <2>0, <3>1, <5>1, <5>2, <5>3, <5>4, Moved
      <4>. QED BY <3>8, <4>1, <4>2, <4>3, <4>4, <4>5, <4>6, <4>7 DEF Attempt
    <3>9. Attempt(r) => Attempting(r)
      BY DEF Attempt, Attempting, Connect, Admit, Answer, StreamEnds, Charge, Discover,
             AttemptFails, StreamBreaks, Step
    <3>. QED BY <2>3, <3>3, <3>4, <3>5, <3>6, <3>7, <3>8, <3>9 DEF Serve
  <2>. QED BY <2>1, <2>2, <2>3 DEF Next
<1>. QED BY <1>1, <1>2, PTL DEF Spec

\* Whatever a request does, every variable keeps its type.
THEOREM TypeCorrect == Spec => []TypeOK
<1>1. TInv => TypeOK
  BY DEF TInv
<1>. QED BY <1>1, TypesKept, PTL

-----------------------------------------------------------------------------
(* Answers.                                                                *)

\* An answer that has not been recorded yet is in the hands of its attempt.
Paying(r) == request[r].step \in {"stream", "charge", "discover"}

Paid(r) ==
  LET l == ledger[r]
  IN  /\ l.answers <= 1 + l.lost + l.again
      /\ request[r].step # "done" =>
           /\ l.outcome = "none"
           /\ l.answers = l.lost + l.again + (IF Paying(r) THEN 1 ELSE 0)
      /\ l.outcome = "failed" => l.answers = l.lost + l.again
      /\ l.outcome = "answered" => l.answers = l.lost + l.again + 1

AllPaid == \A r \in Request : Paid(r)

PInv == TInv /\ AllPaid

\* The counters a push leaves alone.
LEMMA Pushes ==
  ASSUME NEW l \in Ledger
  PROVE  /\ \A known \in BOOLEAN :
              /\ PushRejection(l, known).answers = l.answers
              /\ PushRejection(l, known).lost = l.lost
              /\ PushRejection(l, known).again = l.again
              /\ PushRejection(l, known).outcome = "failed"
         /\ /\ PushFallback(l).answers = l.answers
            /\ PushFallback(l).lost = l.lost
            /\ PushFallback(l).again = l.again
            /\ PushFallback(l).outcome = l.outcome
         /\ /\ PushSuccess(l).answers = l.answers
            /\ PushSuccess(l).lost = l.lost
            /\ PushSuccess(l).again = l.again
            /\ PushSuccess(l).outcome = l.outcome
BY DEF PushRejection, PushFallback, PushSuccess, Ledger

\* Only a failing postCompletion moves the histories.
LEMMA Notes ==
  ASSUME TInv, NEW r \in Request
  PROVE  /\ Noted(r).answers = ledger[r].answers /\ Noted(r).outcome = ledger[r].outcome
         /\ Noted(r).lost + Noted(r).again =
              ledger[r].lost + ledger[r].again
                + (IF request[r].step \in {"charge", "discover"} THEN 1 ELSE 0)
<1>1. /\ ledger[r] \in Ledger
      /\ ledger[r].lost \in Nat /\ ledger[r].again \in Nat /\ ledger[r].answers \in Nat
  BY DEF TInv, TypeOK, Ledger
<1>2. CASE request[r].step = "charge"
  <2>1. Noted(r) = [ledger[r] EXCEPT !.lost = @ + 1]
    BY <1>2 DEF Noted
  <2>2. /\ Noted(r).answers = ledger[r].answers /\ Noted(r).outcome = ledger[r].outcome
        /\ Noted(r).lost = ledger[r].lost + 1 /\ Noted(r).again = ledger[r].again
    BY <1>1, <2>1 DEF Ledger
  <2>. QED BY <1>1, <1>2, <2>2
<1>3. CASE request[r].step = "discover"
  <2>1. Noted(r) = [ledger[r] EXCEPT !.again = @ + 1]
    BY <1>3 DEF Noted
  <2>2. /\ Noted(r).answers = ledger[r].answers /\ Noted(r).outcome = ledger[r].outcome
        /\ Noted(r).lost = ledger[r].lost /\ Noted(r).again = ledger[r].again + 1
    BY <1>1, <2>1 DEF Ledger
  <2>. QED BY <1>1, <1>3, <2>2
<1>4. CASE request[r].step \notin {"charge", "discover"}
  BY <1>1, <1>4 DEF Noted
<1>. QED BY <1>2, <1>3, <1>4

\* A request that did not move is as paid as before.
LEMMA PaidFrame ==
  ASSUME PInv, NEW r \in Request, NEW to, NEW l,
         request' = [request EXCEPT ![r] = to], ledger' = [ledger EXCEPT ![r] = l],
         Paid(r)'
  PROVE  AllPaid'
<1>1. ASSUME NEW q \in Request, q # r PROVE Paid(q)'
  <2>1. request'[q] = request[q] /\ ledger'[q] = ledger[q]
    BY <1>1 DEF PInv, TInv, TypeOK
  <2>2. Paid(q)
    BY DEF PInv, AllPaid
  <2>. QED BY <2>1, <2>2 DEF Paid, Paying
<1>. QED BY <1>1 DEF AllPaid, Paid, Paying

\* It always holds.
LEMMA PaidKept == Spec => []PInv
<1>1. Init => AllPaid
  <2>. SUFFICES ASSUME Init, NEW r \in Request PROVE Paid(r)
    BY DEF AllPaid
  <2>1. /\ request[r].step = "done"
        /\ ledger[r].answers = 0 /\ ledger[r].lost = 0 /\ ledger[r].again = 0
        /\ ledger[r].outcome = "none"
    BY DEF Init, At, Blank
  <2>. QED BY <2>1 DEF Paid
<1>2. PInv /\ TInv' /\ [Next]_vars => AllPaid'
  <2>. SUFFICES ASSUME PInv, TInv', [Next]_vars PROVE AllPaid'
    OBVIOUS
  <2>1. CASE UNCHANGED vars
    BY <2>1 DEF PInv, AllPaid, Paid, Paying, vars
  <2>2. CASE LimitChanges
    BY <2>2 DEF PInv, AllPaid, Paid, Paying, LimitChanges
  <2>3. ASSUME NEW r \in Request, Arrive(r) \/ Serve(r) PROVE AllPaid'
    <3>1. /\ request[r] \in RequestState /\ ledger[r] \in Ledger
          /\ ledger[r].answers \in Nat /\ ledger[r].lost \in Nat /\ ledger[r].again \in Nat
          /\ request \in [Request -> RequestState] /\ ledger \in [Request -> Ledger]
      BY DEF PInv, TInv, TypeOK, Ledger
    <3>2. Paid(r) /\ TInv
      BY DEF PInv, AllPaid
    <3>3. /\ request = [request EXCEPT ![r] = request[r]]
          /\ ledger = [ledger EXCEPT ![r] = ledger[r]]
      BY <3>1
    <3>4. \E to, l : /\ request' = [request EXCEPT ![r] = to]
                     /\ ledger' = [ledger EXCEPT ![r] = l]
      BY <2>3, <3>3, ZenonT(60)
      DEF Arrive, Serve, Resolve, ResolveFails, Route, RouteFails, Attempt, Connect, Admit,
          Answer, StreamEnds, Charge, Discover, AttemptFails, NextModel, StreamBreaks, Step
    <3>5. Paid(r)'
      <4>1. CASE Arrive(r)
        BY <3>1, <4>1 DEF Arrive, Step, At, Blank, Paid, Paying
      <4>2. CASE Resolve(r)
        <5>1. /\ request'[r].step \in {"route", "connect"} /\ request[r].step = "resolve"
              /\ ledger'[r] = ledger[r]
          BY <3>1, <4>2 DEF Resolve, Step, At
        <5>. QED BY <3>1, <3>2, <5>1 DEF Paid, Paying
      <4>3. CASE ResolveFails(r) \/ RouteFails(r)
        <5>1. PICK known \in BOOLEAN : ledger'[r] = PushRejection(ledger[r], known)
          BY <3>1, <4>3 DEF ResolveFails, RouteFails
        <5>2. /\ request' = [request EXCEPT ![r] = At("done", <<>>, 0)]
              /\ request[r].step \in {"resolve", "route"}
          BY <4>3 DEF ResolveFails, RouteFails, Step
        <5>3. request'[r].step = "done"
          BY <3>1, <5>2 DEF At
        <5>. QED BY <3>1, <3>2, <5>1, <5>2, <5>3, Pushes DEF Paid, Paying
      <4>4. CASE Route(r)
        <5>1. /\ request'[r].step = "connect" /\ request[r].step = "route"
              /\ ledger'[r] = ledger[r]
          BY <3>1, <4>4 DEF Route, Step, At
        <5>. QED BY <3>1, <3>2, <5>1 DEF Paid, Paying
      <4>5. CASE Connect(r) \/ Admit(r) \/ StreamEnds(r)
        <5>1. /\ \/ request[r].step = "connect" /\ request'[r].step = "gate"
                 \/ request[r].step = "gate" /\ request'[r].step = "call"
                 \/ request[r].step = "stream" /\ request'[r].step = "charge"
              /\ ledger'[r] = ledger[r]
          BY <3>1, <4>5 DEF Connect, Admit, StreamEnds, Step, RequestState
        <5>. QED BY <3>1, <3>2, <5>1 DEF Paid, Paying
      <4>6. CASE Answer(r)
        <5>1. /\ request[r].step = "call" /\ request'[r].step \in {"stream", "charge"}
              /\ ledger'[r] = [ledger[r] EXCEPT !.answers = @ + 1]
          BY <3>1, <4>6 DEF Answer, Step, RequestState
        <5>2. /\ ledger'[r].answers = ledger[r].answers + 1
              /\ ledger'[r].lost = ledger[r].lost /\ ledger'[r].again = ledger[r].again
              /\ ledger'[r].outcome = ledger[r].outcome
          BY <3>1, <5>1 DEF Ledger
        <5>. QED BY <3>1, <3>2, <5>1, <5>2 DEF Paid, Paying
      <4>7. CASE Charge(r)
        <5>1. request[r].step = "charge"
          BY <4>7 DEF Charge
        <5>2. CASE Differs(r)
          <6>1. request'[r].step = "discover" /\ ledger'[r] = PushSuccess(ledger[r])
            BY <3>1, <4>7, <5>2 DEF Charge, Step, RequestState
          <6>. QED BY <3>1, <3>2, <5>1, <6>1, Pushes DEF Paid, Paying
        <5>3. CASE ~Differs(r)
          <6>1. /\ request'[r].step = "done"
                /\ ledger'[r] = [PushSuccess(ledger[r]) EXCEPT !.outcome = "answered"]
            BY <3>1, <4>7, <5>3 DEF Charge, Step, AfterSuccess, At
          <6>2. PushSuccess(ledger[r]) \in Ledger
            BY <3>1, LedgerType
          <6>3. /\ ledger'[r].answers = ledger[r].answers
                /\ ledger'[r].lost = ledger[r].lost /\ ledger'[r].again = ledger[r].again
                /\ ledger'[r].outcome = "answered"
            BY <3>1, <6>1, <6>2, Pushes DEF Ledger
          <6>. QED BY <3>1, <3>2, <5>1, <6>1, <6>3 DEF Paid, Paying
        <5>. QED BY <5>2, <5>3
      <4>8. CASE Discover(r)
        <5>1. /\ request[r].step = "discover" /\ request'[r].step = "done"
              /\ ledger'[r] = [ledger[r] EXCEPT !.outcome = "answered"]
          BY <3>1, <4>8 DEF Discover, Step, AfterSuccess, At
        <5>2. /\ ledger'[r].answers = ledger[r].answers
              /\ ledger'[r].lost = ledger[r].lost /\ ledger'[r].again = ledger[r].again
              /\ ledger'[r].outcome = "answered"
          BY <3>1, <5>1 DEF Ledger
        <5>. QED BY <3>1, <3>2, <5>1, <5>2 DEF Paid, Paying
      <4>9. CASE AttemptFails(r)
        <5>1. request[r].step \in {"connect", "gate", "call", "charge", "discover"}
          BY <4>9 DEF AttemptFails
        <5>2. /\ Noted(r) \in Ledger /\ Noted(r).answers \in Nat
              /\ Noted(r).lost \in Nat /\ Noted(r).again \in Nat
          BY <3>2, Going DEF Ledger
        <5>3. /\ \/ request'[r].step = "done" /\ ledger'[r] = PushRejection(Noted(r), TRUE)
                 \/ request'[r].step = "connect" /\ ledger'[r] = PushFallback(Noted(r))
          <6>1. CASE Last(r)
            <7>1. /\ request' = [request EXCEPT ![r] = At("done", <<>>, 0)]
                  /\ ledger' = [ledger EXCEPT ![r] = PushRejection(Noted(r), TRUE)]
              BY <4>9, <6>1 DEF AttemptFails
            <7>. QED BY <3>1, <7>1 DEF At
          <6>2. CASE ~Last(r)
            <7>1. /\ request' = [request EXCEPT ![r] =
                                   At("connect", request[r].chain, request[r].i + 1)]
                  /\ ledger' = [ledger EXCEPT ![r] = PushFallback(Noted(r))]
              BY <4>9, <6>2 DEF AttemptFails, NextModel
            <7>. QED BY <3>1, <7>1 DEF At
          <6>. QED BY <6>1, <6>2
        <5>4. Noted(r).answers = Noted(r).lost + Noted(r).again
          BY <3>1, <3>2, <5>1, <5>2, Notes DEF Paid, Paying
        <5>5. Noted(r).outcome = "none"
          BY <3>2, <5>1, Notes DEF Paid
        <5>6. CASE request'[r].step = "done" /\ ledger'[r] = PushRejection(Noted(r), TRUE)
          <6>1. /\ ledger'[r].answers = Noted(r).answers /\ ledger'[r].outcome = "failed"
                /\ ledger'[r].lost = Noted(r).lost /\ ledger'[r].again = Noted(r).again
            BY <5>2, <5>6, Pushes, ZenonT(60)
          <6>2. /\ ledger'[r].answers = ledger'[r].lost + ledger'[r].again
                /\ ledger'[r].lost \in Nat /\ ledger'[r].again \in Nat
            BY <5>2, <5>4, <6>1
          <6>3. request'[r].step = "done"
            BY <5>6
          <6>. QED BY <6>1, <6>2, <6>3 DEF Paid
        <5>7. CASE request'[r].step = "connect" /\ ledger'[r] = PushFallback(Noted(r))
          BY <5>2, <5>4, <5>5, <5>7, Pushes DEF Paid, Paying
        <5>. QED BY <5>3, <5>6, <5>7
      <4>10. CASE StreamBreaks(r)
        <5>1. request[r].step \in {"stream", "charge", "discover"}
          BY <4>10 DEF StreamBreaks
        <5>2. /\ Noted(r) \in Ledger /\ Noted(r).answers \in Nat
              /\ Noted(r).lost \in Nat /\ Noted(r).again \in Nat
          BY <3>2, Going DEF Ledger
        <5>3. /\ request'[r].step = "done"
              /\ ledger'[r] = [Noted(r) EXCEPT !.outcome = "broken"]
          BY <3>1, <4>10 DEF StreamBreaks, At
        <5>4. /\ ledger'[r].answers = Noted(r).answers
              /\ ledger'[r].lost = Noted(r).lost /\ ledger'[r].again = Noted(r).again
              /\ ledger'[r].outcome = "broken"
          BY <5>2, <5>3 DEF Ledger
        <5>5. Noted(r).answers <= 1 + Noted(r).lost + Noted(r).again
          BY <3>1, <3>2, <5>1, <5>2, Notes DEF Paid, Paying
        <5>. QED BY <5>2, <5>3, <5>4, <5>5 DEF Paid, Paying
      <4>. QED BY <2>3, <4>1, <4>2, <4>3, <4>4, <4>5, <4>6, <4>7, <4>8, <4>9, <4>10
               DEF Serve, Attempt
    <3>. QED BY <3>4, <3>5, PaidFrame
  <2>. QED BY <2>1, <2>2, <2>3 DEF Next
<1>3. Spec => []TInv
  BY TypesKept
<1>. QED BY <1>1, <1>2, <1>3, PTL DEF Spec, PInv

\* A second answer is paid for, or one is paid for in vain, only when postCompletion
\* failed behind an answer.
THEOREM AnswersBounded == Spec => []AnsweredOnce
<1>1. PInv => AnsweredOnce
  BY DEF PInv, AllPaid, Paid, AnsweredOnce
<1>. QED BY <1>1, PaidKept, PTL

-----------------------------------------------------------------------------
(* The audit.                                                              *)

Oks(n) == [k \in 1..n |-> "ok"]

\* Before a call ends its audit has an "ok" for every answer whose discovered capacity
\* could not be stored, and for the one whose capacity is being stored.
Audited(r) ==
  LET l == ledger[r]
  IN  /\ request[r].step # "done" =>
           l.audits = IF request[r].step = "discover" THEN Oks(l.again + 1) ELSE Oks(l.again)
      /\ request[r].step = "done" /\ l.outcome # "none" =>
           CASE l.outcome = "answered" -> l.audits = Oks(l.again + 1)
             [] l.outcome = "failed"   -> l.audits = Append(Oks(l.again), "error")
             [] l.outcome = "broken"   -> l.audits = Oks(l.again)

AllAudited == \A r \in Request : Audited(r)

\* How the list of successes grows.
LEMMA OksAppend ==
  ASSUME NEW n \in Nat
  PROVE  /\ Oks(n) \in Seq(Status)
         /\ Append(Oks(n), "ok") = Oks(n + 1)
         /\ \A x \in Status : Oks(n) \o <<x>> = Append(Oks(n), x)
<1>1. Oks(n) \in Seq(Status)
  BY DEF Oks, Status
<1>2. Len(Oks(n)) = n
  BY DEF Oks
<1>3. Append(Oks(n), "ok") = Oks(n + 1)
  BY <1>1, <1>2 DEF Oks
<1>4. ASSUME NEW x \in Status PROVE Oks(n) \o <<x>> = Append(Oks(n), x)
  BY <1>1, AppendIsConcat
<1>. QED BY <1>1, <1>3, <1>4

\* The three ways the audit of a request can be added to.
LEMMA AuditPushes ==
  ASSUME NEW l \in Ledger
  PROVE  /\ \A known \in BOOLEAN :
              PushRejection(l, known).audits = Append(l.audits, "error")
         /\ PushFallback(l).audits = l.audits
         /\ PushSuccess(l).audits = Append(l.audits, "ok")
BY DEF PushRejection, PushFallback, PushSuccess, Ledger

\* What a failing postCompletion notes leaves the audit as it is.
LEMMA AuditNotes ==
  ASSUME TInv, NEW r \in Request
  PROVE  /\ Noted(r).audits = ledger[r].audits
         /\ Noted(r).again = ledger[r].again + (IF request[r].step = "discover" THEN 1 ELSE 0)
<1>1. /\ ledger[r] \in Ledger /\ ledger[r].again \in Nat
  BY DEF TInv, TypeOK, Ledger
<1>2. CASE request[r].step = "charge"
  <2>1. Noted(r) = [ledger[r] EXCEPT !.lost = @ + 1]
    BY <1>2 DEF Noted
  <2>. QED BY <1>1, <1>2, <2>1 DEF Ledger
<1>3. CASE request[r].step = "discover"
  <2>1. Noted(r) = [ledger[r] EXCEPT !.again = @ + 1]
    BY <1>3 DEF Noted
  <2>. QED BY <1>1, <1>3, <2>1 DEF Ledger
<1>4. CASE request[r].step \notin {"charge", "discover"}
  BY <1>1, <1>4 DEF Noted
<1>. QED BY <1>2, <1>3, <1>4

\* A step of one request leaves what is audited of the others.
LEMMA AuditedFrame ==
  ASSUME TInv, AllAudited, NEW r \in Request, NEW to, NEW l,
         request' = [request EXCEPT ![r] = to], ledger' = [ledger EXCEPT ![r] = l],
         Audited(r)'
  PROVE  AllAudited'
<1>1. ASSUME NEW q \in Request, q # r PROVE Audited(q)'
  <2>1. request'[q] = request[q] /\ ledger'[q] = ledger[q]
    BY <1>1 DEF TInv, TypeOK
  <2>2. Audited(q)
    BY DEF AllAudited
  <2>. QED BY <2>1, <2>2 DEF Audited
<1>2. ASSUME NEW q \in Request PROVE Audited(q)'
  <2>1. CASE q = r
    BY <2>1
  <2>. QED BY <1>1, <2>1
<1>. QED BY <1>2 DEF AllAudited

\* The audit of a call that has ended tells what the client was told, once; the records
\* before it are those of answers whose discovered capacity could not be stored.
THEOREM AuditComplete == Spec => []AuditTellsOutcome
<1>1. Init => AllAudited
  <2>. SUFFICES ASSUME Init, NEW r \in Request PROVE Audited(r)
    BY DEF AllAudited
  <2>1. request[r].step = "done" /\ ledger[r].outcome = "none"
    BY DEF Init, At, Blank
  <2>. QED BY <2>1 DEF Audited
<1>2. TInv /\ TInv' /\ AllAudited /\ [Next]_vars => AllAudited'
  <2>. SUFFICES ASSUME TInv, TInv', AllAudited, [Next]_vars PROVE AllAudited'
    OBVIOUS
  <2>1. CASE UNCHANGED vars
    BY <2>1 DEF AllAudited, Audited, vars
  <2>2. CASE LimitChanges
    BY <2>2 DEF AllAudited, Audited, LimitChanges
  <2>3. ASSUME NEW r \in Request, Arrive(r) \/ Serve(r) PROVE AllAudited'
    <3>. DEFINE l == ledger[r]
                Rest == At("done", <<>>, 0)
    <3>1. /\ request[r] \in RequestState /\ l \in Ledger /\ l.again \in Nat
          /\ request \in [Request -> RequestState] /\ ledger \in [Request -> Ledger]
          /\ Rest.step = "done"
      BY DEF TInv, TypeOK, Ledger, At
    <3>2. Audited(r)
      BY DEF AllAudited
    <3>3. /\ request = [request EXCEPT ![r] = request[r]]
          /\ ledger = [ledger EXCEPT ![r] = ledger[r]]
      BY <3>1
    <3>4. \E to, m : /\ request' = [request EXCEPT ![r] = to]
                     /\ ledger' = [ledger EXCEPT ![r] = m]
      BY <2>3, <3>3, ZenonT(60)
      DEF Arrive, Serve, Resolve, ResolveFails, Route, RouteFails, Attempt, Connect, Admit,
          Answer, StreamEnds, Charge, Discover, AttemptFails, NextModel, StreamBreaks, Step
    <3>5. Audited(r)'
      <4>1. CASE Arrive(r)
        <5>1. request'[r].step = "resolve" /\ ledger'[r] = Blank
          BY <3>1, <4>1 DEF Arrive, Step, At
        <5>2. Blank.audits = <<>> /\ Blank.again = 0
          BY DEF Blank
        <5>3. Oks(0) = <<>>
          BY DEF Oks
        <5>. QED BY <5>1, <5>2, <5>3 DEF Audited
      <4>2. CASE Resolve(r) \/ Route(r)
        <5>1. /\ request[r].step \in {"resolve", "route"}
              /\ request'[r].step \in {"route", "connect"} /\ ledger'[r] = l
          BY <3>1, <4>2 DEF Resolve, Route, Step, At
        <5>. QED BY <3>1, <3>2, <5>1 DEF Audited
      <4>3. CASE ResolveFails(r) \/ RouteFails(r)
        <5>1. PICK known \in BOOLEAN : ledger'[r] = PushRejection(l, known)
          BY <3>1, <4>3 DEF ResolveFails, RouteFails
        <5>2. request' = [request EXCEPT ![r] = Rest] /\ request[r].step \in {"resolve", "route"}
          BY <4>3 DEF ResolveFails, RouteFails, Step
        <5>3. request'[r].step = "done"
          BY <3>1, <5>2
        <5>4. /\ ledger'[r].audits = Append(l.audits, "error") /\ ledger'[r].again = l.again
              /\ ledger'[r].outcome = "failed"
          BY <3>1, <5>1, Pushes, AuditPushes
        <5>. QED BY <3>1, <3>2, <5>2, <5>3, <5>4 DEF Audited
      <4>4. CASE Connect(r) \/ Admit(r) \/ StreamEnds(r)
        <5>1. /\ request[r].step \in {"connect", "gate", "stream"}
              /\ request'[r].step \in {"gate", "call", "charge"} /\ ledger'[r] = l
          BY <3>1, <4>4 DEF Connect, Admit, StreamEnds, Step, RequestState
        <5>. QED BY <3>1, <3>2, <5>1 DEF Audited
      <4>5. CASE Answer(r)
        <5>1. /\ request[r].step = "call" /\ request'[r].step \in {"stream", "charge"}
              /\ ledger'[r] = [l EXCEPT !.answers = @ + 1]
          BY <3>1, <4>5 DEF Answer, Step, RequestState
        <5>2. ledger'[r].audits = l.audits /\ ledger'[r].again = l.again
          BY <3>1, <5>1 DEF Ledger
        <5>. QED BY <3>1, <3>2, <5>1, <5>2 DEF Audited
      <4>6. CASE Charge(r)
        <5>1. request[r].step = "charge" /\ l.audits = Oks(l.again)
          BY <3>2, <4>6 DEF Charge, Audited
        <5>2. /\ PushSuccess(l) \in Ledger
              /\ PushSuccess(l).audits = Oks(l.again + 1) /\ PushSuccess(l).again = l.again
          <6>1. PushSuccess(l) \in Ledger /\ PushSuccess(l).again = l.again
            BY <3>1, LedgerType, Pushes
          <6>2. PushSuccess(l).audits = Append(Oks(l.again), "ok")
            BY <3>1, <5>1, AuditPushes
          <6>3. Append(Oks(l.again), "ok") = Oks(l.again + 1)
            BY <3>1, OksAppend
          <6>. QED BY <6>1, <6>2, <6>3
        <5>3. CASE Differs(r)
          <6>1. request'[r].step = "discover" /\ ledger'[r] = PushSuccess(l)
            BY <3>1, <4>6, <5>3 DEF Charge, Step, RequestState
          <6>. QED BY <5>2, <6>1 DEF Audited
        <5>4. CASE ~Differs(r)
          <6>1. /\ request'[r].step = "done"
                /\ ledger'[r] = [PushSuccess(l) EXCEPT !.outcome = "answered"]
            BY <3>1, <4>6, <5>4 DEF Charge, Step, AfterSuccess
          <6>2. /\ ledger'[r].audits = PushSuccess(l).audits
                /\ ledger'[r].again = PushSuccess(l).again /\ ledger'[r].outcome = "answered"
            BY <5>2, <6>1 DEF Ledger
          <6>. QED BY <5>2, <6>1, <6>2 DEF Audited
        <5>. QED BY <5>3, <5>4
      <4>7. CASE Discover(r)
        <5>1. /\ request[r].step = "discover" /\ request'[r].step = "done"
              /\ ledger'[r] = [l EXCEPT !.outcome = "answered"]
          BY <3>1, <4>7 DEF Discover, Step, AfterSuccess
        <5>2. /\ ledger'[r].audits = l.audits /\ ledger'[r].again = l.again
              /\ ledger'[r].outcome = "answered"
          BY <3>1, <5>1 DEF Ledger
        <5>. QED BY <3>2, <5>1, <5>2 DEF Audited
      <4>8. CASE AttemptFails(r)
        <5>1. request[r].step \in {"connect", "gate", "call", "charge", "discover"}
          BY <4>8 DEF AttemptFails
        <5>2. Noted(r) \in Ledger /\ Noted(r).again \in Nat
          BY Going DEF Ledger
        <5>3. Noted(r).audits = Oks(Noted(r).again)
          <6>1. l.audits = IF request[r].step = "discover" THEN Oks(l.again + 1) ELSE Oks(l.again)
            BY <3>2, <5>1 DEF Audited
          <6>2. CASE request[r].step = "discover"
            BY <3>1, <6>1, <6>2, AuditNotes
          <6>3. CASE request[r].step # "discover"
            <7>1. Noted(r).again = l.again
              BY <3>1, <6>3, AuditNotes
            <7>. QED BY <6>1, <6>3, <7>1, AuditNotes
          <6>. QED BY <6>2, <6>3
        <5>4. CASE Last(r)
          <6>1. /\ request' = [request EXCEPT ![r] = Rest]
                /\ ledger' = [ledger EXCEPT ![r] = PushRejection(Noted(r), TRUE)]
            BY <4>8, <5>4 DEF AttemptFails
          <6>2. request'[r].step = "done" /\ ledger'[r] = PushRejection(Noted(r), TRUE)
            BY <3>1, <6>1
          <6>3. /\ ledger'[r].audits = Append(Oks(Noted(r).again), "error")
                /\ ledger'[r].again = Noted(r).again /\ ledger'[r].outcome = "failed"
            BY <5>2, <5>3, <6>2, Pushes, AuditPushes, ZenonT(60)
          <6>. QED BY <6>2, <6>3 DEF Audited
        <5>5. CASE ~Last(r)
          <6>1. /\ request' = [request EXCEPT ![r] =
                                 At("connect", request[r].chain, request[r].i + 1)]
                /\ ledger' = [ledger EXCEPT ![r] = PushFallback(Noted(r))]
            BY <4>8, <5>5 DEF AttemptFails, NextModel
          <6>2. request'[r].step = "connect" /\ ledger'[r] = PushFallback(Noted(r))
            BY <3>1, <6>1 DEF At
          <6>3. ledger'[r].audits = Oks(Noted(r).again) /\ ledger'[r].again = Noted(r).again
            BY <5>2, <5>3, <6>2, Pushes, AuditPushes, ZenonT(60)
          <6>. QED BY <6>2, <6>3 DEF Audited
        <5>. QED BY <5>4, <5>5
      <4>9. CASE StreamBreaks(r)
        <5>1. request[r].step \in {"stream", "charge", "discover"}
          BY <4>9 DEF StreamBreaks
        <5>2. Noted(r) \in Ledger /\ Noted(r).audits = Oks(Noted(r).again)
          BY <3>1, <3>2, <5>1, AuditNotes, Going DEF Audited
        <5>3. /\ request' = [request EXCEPT ![r] = Rest]
              /\ ledger' = [ledger EXCEPT ![r] = [Noted(r) EXCEPT !.outcome = "broken"]]
          BY <4>9 DEF StreamBreaks
        <5>4. request'[r].step = "done" /\ ledger'[r] = [Noted(r) EXCEPT !.outcome = "broken"]
          BY <3>1, <5>3
        <5>5. /\ ledger'[r].audits = Noted(r).audits /\ ledger'[r].again = Noted(r).again
              /\ ledger'[r].outcome = "broken"
          BY <5>2, <5>4 DEF Ledger
        <5>. QED BY <5>2, <5>4, <5>5 DEF Audited
      <4>. QED BY <2>3, <4>1, <4>2, <4>3, <4>4, <4>5, <4>6, <4>7, <4>8, <4>9 DEF Serve, Attempt
    <3>. QED BY <3>4, <3>5, AuditedFrame
  <2>. QED BY <2>1, <2>2, <2>3 DEF Next
<1>3. TInv /\ AllAudited => AuditTellsOutcome
  <2>. SUFFICES ASSUME TInv, AllAudited, NEW r \in Request, Settled(r)
                PROVE  LET l == ledger[r]
                           end == IF l.outcome = "answered" THEN <<"ok">> ELSE <<"error">>
                       IN  l.audits = [k \in 1..l.again |-> "ok"] \o end
    BY DEF AuditTellsOutcome
  <2>. DEFINE l == ledger[r]
  <2>1. l.again \in Nat /\ l.outcome \in {"none", "answered", "failed", "broken"}
    BY DEF TInv, TypeOK, Ledger
  <2>2. /\ Audited(r) /\ request[r].step = "done"
        /\ l.outcome # "none" /\ l.outcome # "broken"
    BY DEF AllAudited, Settled, Finished
  <2>3. "ok" \in Status /\ "error" \in Status
    BY DEF Status
  <2>4. /\ Oks(l.again) \o <<"ok">> = Oks(l.again + 1)
        /\ Oks(l.again) \o <<"error">> = Append(Oks(l.again), "error")
    BY <2>1, <2>3, OksAppend
  <2>5. CASE l.outcome = "answered"
    BY <2>2, <2>4, <2>5 DEF Audited, Oks
  <2>6. CASE l.outcome = "failed"
    BY <2>2, <2>4, <2>6 DEF Audited, Oks
  <2>. QED BY <2>1, <2>2, <2>5, <2>6
<1>. QED BY <1>1, <1>2, <1>3, TypesKept, PTL DEF Spec

-----------------------------------------------------------------------------
(* The usage and the metrics.                                              *)

\* The successes in a list of records.
Successes(s) == Occurrences(s, "ok")

\* How their number grows.
LEMMA SuccessesAppend ==
  ASSUME NEW s \in Seq(Status), NEW x \in Status
  PROVE  /\ Successes(s) \in Nat
         /\ Successes(Append(s, x)) = Successes(s) + (IF x = "ok" THEN 1 ELSE 0)
<1>. DEFINE n == Len(s)
            K(z) == {k \in DOMAIN z : z[k] = "ok"}
            t == Append(s, x)
<1>1. n \in Nat /\ DOMAIN s = 1..n
  OBVIOUS
<1>2. /\ DOMAIN t = DOMAIN s \cup {n + 1} /\ n + 1 \notin DOMAIN s
      /\ t[n + 1] = x /\ \A k \in DOMAIN s : t[k] = s[k]
  BY <1>1
<1>3. IsFiniteSet(K(s)) /\ Cardinality(K(s)) \in Nat
  <2>1. IsFiniteSet(1..n)
    BY <1>1, FS_Interval
  <2>2. K(s) \in SUBSET (1..n)
    BY <1>1
  <2>3. IsFiniteSet(K(s))
    BY <2>1, <2>2, FS_Subset
  <2>. HIDE DEF K
  <2>. QED BY <2>3, FS_CardinalityType
<1>4. K(t) = IF x = "ok" THEN K(s) \cup {n + 1} ELSE K(s)
  BY <1>2
<1>5. n + 1 \notin K(s)
  BY <1>2
<1>. HIDE DEF K, t, n
<1>6. Cardinality(K(s) \cup {n + 1}) = Cardinality(K(s)) + 1
  BY <1>3, <1>5, FS_AddElement
<1>7. Successes(s) = Cardinality(K(s)) /\ Successes(t) = Cardinality(K(t))
  BY Zenon DEF Successes, Occurrences, K
<1>8. Successes(t) = Successes(s) + (IF x = "ok" THEN 1 ELSE 0)
  BY <1>3, <1>4, <1>6, <1>7
<1>. QED BY <1>3, <1>7, <1>8 DEF t

\* There are none at first.
LEMMA NoSuccess == Successes(<<>>) = 0
<1>1. {k \in DOMAIN <<>> : <<>>[k] = "ok"} = {}
  OBVIOUS
<1>. QED BY <1>1, FS_EmptySet DEF Successes, Occurrences

\* Nothing is recorded before there is a model.  From then on usage and metrics are the
\* same, with a success for every answer whose discovered capacity could not be stored, and
\* for the one that ended the call.
Recorded(r) ==
  LET l == ledger[r]
  IN  /\ request[r].step = "resolve" => l.usage = <<>>
      /\ request[r].step # "done" =>
           /\ l.metrics = l.usage
           /\ Successes(l.usage) = l.again + (IF request[r].step = "discover" THEN 1 ELSE 0)
      /\ request[r].step = "done" /\ l.outcome # "none" =>
           /\ l.metrics = l.usage \/ (l.metrics = <<>> /\ l.usage = <<"error">>)
           /\ Successes(l.usage) = l.again + (IF l.outcome = "answered" THEN 1 ELSE 0)

AllRecorded == \A r \in Request : Recorded(r)

\* What a rejection leaves: without a model it has no metrics.
LEMMA Rejections ==
  ASSUME NEW l \in Ledger
  PROVE  /\ PushRejection(l, TRUE).usage = Append(l.usage, "error")
         /\ PushRejection(l, TRUE).metrics = Append(l.metrics, "error")
         /\ PushRejection(l, TRUE).again = l.again /\ PushRejection(l, TRUE).outcome = "failed"
         /\ PushRejection(l, FALSE).usage = Append(l.usage, "error")
         /\ PushRejection(l, FALSE).metrics = l.metrics
         /\ PushRejection(l, FALSE).again = l.again /\ PushRejection(l, FALSE).outcome = "failed"
BY DEF PushRejection, Ledger

\* What the other pushes add to the usage and to the metrics.
LEMMA UsagePushes ==
  ASSUME NEW l \in Ledger
  PROVE  /\ PushFallback(l).usage = Append(l.usage, "error")
         /\ PushFallback(l).metrics = Append(l.metrics, "error")
         /\ PushSuccess(l).usage = Append(l.usage, "ok")
         /\ PushSuccess(l).metrics = Append(l.metrics, "ok")
BY DEF PushFallback, PushSuccess, Ledger

\* What each adds to the successes.
LEMMA UsageGrows ==
  ASSUME NEW l \in Ledger
  PROVE  /\ Successes(l.usage) \in Nat
         /\ Successes(Append(l.usage, "error")) = Successes(l.usage)
         /\ Successes(Append(l.usage, "ok")) = Successes(l.usage) + 1
<1>1. l.usage \in Seq(Status) /\ "ok" \in Status /\ "error" \in Status /\ "error" # "ok"
  BY DEF Ledger, Status
<1>2. Successes(l.usage) \in Nat
  BY <1>1, SuccessesAppend
<1>3. /\ Successes(Append(l.usage, "error")) = Successes(l.usage) + 0
      /\ Successes(Append(l.usage, "ok")) = Successes(l.usage) + 1
  BY <1>1, SuccessesAppend
<1>. QED BY <1>2, <1>3

\* What a failing postCompletion notes leaves usage and metrics as they are.
LEMMA UsageNotes ==
  ASSUME TInv, NEW r \in Request
  PROVE  Noted(r).usage = ledger[r].usage /\ Noted(r).metrics = ledger[r].metrics
<1>1. ledger[r] \in Ledger
  BY DEF TInv, TypeOK
<1>. QED BY <1>1 DEF Noted, Ledger

\* A step of one request leaves what is recorded of the others.
LEMMA RecordedFrame ==
  ASSUME TInv, AllRecorded, NEW r \in Request, NEW to, NEW l,
         request' = [request EXCEPT ![r] = to], ledger' = [ledger EXCEPT ![r] = l],
         Recorded(r)'
  PROVE  AllRecorded'
<1>1. ASSUME NEW q \in Request, q # r PROVE Recorded(q)'
  <2>1. request'[q] = request[q] /\ ledger'[q] = ledger[q]
    BY <1>1 DEF TInv, TypeOK
  <2>2. Recorded(q)
    BY DEF AllRecorded
  <2>. QED BY <2>1, <2>2 DEF Recorded
<1>2. ASSUME NEW q \in Request PROVE Recorded(q)'
  <2>1. CASE q = r
    BY <2>1
  <2>. QED BY <1>1, <2>1
<1>. QED BY <1>2 DEF AllRecorded

\* What is recorded stays right in every step of a request.
LEMMA RecordedStep ==
  ASSUME PInv, TInv', NEW r \in Request, Recorded(r), Arrive(r) \/ Serve(r)
  PROVE  Recorded(r)'
<1>. DEFINE l == ledger[r]
            Rest == At("done", <<>>, 0)
<1>1. /\ request[r] \in RequestState /\ l \in Ledger /\ l.again \in Nat
      /\ request \in [Request -> RequestState] /\ ledger \in [Request -> Ledger]
      /\ Rest.step = "done" /\ TInv /\ Paid(r)
  BY DEF PInv, AllPaid, TInv, TypeOK, Ledger, At
<1>2. CASE Arrive(r)
  <2>1. request'[r].step = "resolve" /\ ledger'[r] = Blank
    BY <1>1, <1>2 DEF Arrive, Step, At
  <2>2. Blank.usage = <<>> /\ Blank.metrics = <<>> /\ Blank.again = 0
    BY DEF Blank
  <2>. QED BY <2>1, <2>2, NoSuccess DEF Recorded
<1>3. CASE Resolve(r) \/ Route(r)
  <2>1. /\ request[r].step \in {"resolve", "route"}
        /\ request'[r].step \in {"route", "connect"} /\ ledger'[r] = l
    BY <1>1, <1>3 DEF Resolve, Route, Step, At
  <2>. QED BY <1>1, <2>1 DEF Recorded
<1>4. CASE ResolveFails(r)
  <2>1. /\ request[r].step = "resolve" /\ request'[r].step = "done"
        /\ ledger'[r] = PushRejection(l, FALSE)
    BY <1>1, <1>4 DEF ResolveFails, Step
  <2>2. l.metrics = l.usage /\ Successes(l.usage) = l.again /\ l.usage = <<>>
    BY <1>1, <2>1 DEF Recorded
  <2>3. /\ ledger'[r].usage = Append(l.usage, "error") /\ ledger'[r].metrics = l.metrics
        /\ ledger'[r].again = l.again /\ ledger'[r].outcome = "failed"
    BY <1>1, <2>1, Rejections
  <2>4. ledger'[r].metrics = <<>> /\ ledger'[r].usage = <<"error">>
    BY <2>2, <2>3
  <2>5. Successes(ledger'[r].usage) = ledger'[r].again
    BY <1>1, <2>2, <2>3, UsageGrows
  <2>6. \/ ledger'[r].metrics = ledger'[r].usage
        \/ ledger'[r].metrics = <<>> /\ ledger'[r].usage = <<"error">>
    BY <2>4
  <2>7. ledger'[r].again \in Nat /\ ledger'[r].outcome = "failed"
    BY <1>1, <2>3
  <2>8. Successes(ledger'[r].usage) =
          ledger'[r].again + (IF ledger'[r].outcome = "answered" THEN 1 ELSE 0)
    BY <2>5, <2>7
  <2>. QED BY <2>1, <2>6, <2>8, Zenon DEF Recorded
<1>12. CASE RouteFails(r)
  <2>1. /\ request[r].step = "route" /\ request'[r].step = "done"
        /\ ledger'[r] = PushRejection(l, TRUE)
    BY <1>1, <1>12 DEF RouteFails, Step
  <2>2. l.metrics = l.usage /\ Successes(l.usage) = l.again
    BY <1>1, <2>1 DEF Recorded
  <2>3. /\ ledger'[r].usage = Append(l.usage, "error")
        /\ ledger'[r].metrics = Append(l.metrics, "error")
        /\ ledger'[r].again = l.again /\ ledger'[r].outcome = "failed"
    BY <1>1, <2>1, Rejections
  <2>4. Successes(ledger'[r].usage) = ledger'[r].again
    BY <1>1, <2>2, <2>3, UsageGrows
  <2>. QED BY <1>1, <2>1, <2>2, <2>3, <2>4 DEF Recorded
<1>5. CASE Connect(r) \/ Admit(r) \/ StreamEnds(r)
  <2>1. /\ request[r].step \in {"connect", "gate", "stream"}
        /\ request'[r].step \in {"gate", "call", "charge"} /\ ledger'[r] = l
    BY <1>1, <1>5 DEF Connect, Admit, StreamEnds, Step, RequestState
  <2>. QED BY <1>1, <2>1 DEF Recorded
<1>6. CASE Answer(r)
  <2>1. /\ request[r].step = "call" /\ request'[r].step \in {"stream", "charge"}
        /\ ledger'[r] = [l EXCEPT !.answers = @ + 1]
    BY <1>1, <1>6 DEF Answer, Step, RequestState
  <2>2. /\ ledger'[r].usage = l.usage /\ ledger'[r].metrics = l.metrics
        /\ ledger'[r].again = l.again
    BY <1>1, <2>1 DEF Ledger
  <2>. QED BY <1>1, <2>1, <2>2 DEF Recorded
<1>7. CASE Charge(r)
  <2>1. request[r].step = "charge" /\ l.metrics = l.usage /\ Successes(l.usage) = l.again
    BY <1>1, <1>7 DEF Charge, Recorded
  <2>2. /\ PushSuccess(l) \in Ledger /\ PushSuccess(l).metrics = PushSuccess(l).usage
        /\ Successes(PushSuccess(l).usage) = l.again + 1 /\ PushSuccess(l).again = l.again
    <3>1. PushSuccess(l) \in Ledger /\ PushSuccess(l).again = l.again
      BY <1>1, LedgerType, Pushes
    <3>2. /\ PushSuccess(l).usage = Append(l.usage, "ok")
          /\ PushSuccess(l).metrics = Append(l.metrics, "ok")
      BY <1>1, UsagePushes
    <3>3. Successes(Append(l.usage, "ok")) = l.again + 1
      BY <1>1, <2>1, UsageGrows
    <3>. QED BY <2>1, <3>1, <3>2, <3>3
  <2>3. CASE Differs(r)
    <3>1. request'[r].step = "discover" /\ ledger'[r] = PushSuccess(l)
      BY <1>1, <1>7, <2>3 DEF Charge, Step, RequestState
    <3>. QED BY <2>2, <3>1 DEF Recorded
  <2>4. CASE ~Differs(r)
    <3>1. /\ request'[r].step = "done"
          /\ ledger'[r] = [PushSuccess(l) EXCEPT !.outcome = "answered"]
      BY <1>1, <1>7, <2>4 DEF Charge, Step, AfterSuccess
    <3>2. /\ ledger'[r].usage = PushSuccess(l).usage /\ ledger'[r].metrics = PushSuccess(l).metrics
          /\ ledger'[r].again = PushSuccess(l).again /\ ledger'[r].outcome = "answered"
      BY <2>2, <3>1 DEF Ledger
    <3>. QED BY <2>2, <3>1, <3>2 DEF Recorded
  <2>. QED BY <2>3, <2>4
<1>8. CASE Discover(r)
  <2>1. /\ request[r].step = "discover" /\ request'[r].step = "done"
        /\ ledger'[r] = [l EXCEPT !.outcome = "answered"]
    BY <1>1, <1>8 DEF Discover, Step, AfterSuccess
  <2>2. /\ ledger'[r].usage = l.usage /\ ledger'[r].metrics = l.metrics
        /\ ledger'[r].again = l.again /\ ledger'[r].outcome = "answered"
    BY <1>1, <2>1 DEF Ledger
  <2>. QED BY <1>1, <2>1, <2>2 DEF Recorded
<1>. DEFINE n == Noted(r)
<1>9. ASSUME request[r].step # "done"
      PROVE  /\ n \in Ledger /\ n.again \in Nat /\ n.metrics = n.usage
             /\ Successes(n.usage) = n.again
  <2>1. n \in Ledger /\ n.again \in Nat
    BY <1>1, Going DEF Ledger
  <2>2. /\ n.usage = l.usage /\ n.metrics = l.metrics
        /\ n.again = l.again + (IF request[r].step = "discover" THEN 1 ELSE 0)
    BY <1>1, UsageNotes, AuditNotes
  <2>. QED BY <1>9, <2>1, <2>2 DEF Recorded
<1>10. CASE AttemptFails(r)
  <2>1. request[r].step # "done"
    BY <1>10 DEF AttemptFails
  <2>2. n \in Ledger /\ n.again \in Nat /\ n.metrics = n.usage /\ Successes(n.usage) = n.again
    BY <1>9, <2>1
  <2>. HIDE DEF n
  <2>3. Successes(Append(n.usage, "error")) = n.again
    BY <2>2, UsageGrows
  <2>4. CASE Last(r)
    <3>1. /\ request' = [request EXCEPT ![r] = Rest]
          /\ ledger' = [ledger EXCEPT ![r] = PushRejection(n, TRUE)]
      BY <1>10, <2>4 DEF AttemptFails, n
    <3>2. request'[r].step = "done" /\ ledger'[r] = PushRejection(n, TRUE)
      BY <1>1, <3>1
    <3>3. /\ ledger'[r].usage = Append(n.usage, "error")
          /\ ledger'[r].metrics = Append(n.metrics, "error")
          /\ ledger'[r].again = n.again /\ ledger'[r].outcome = "failed"
      BY <2>2, <3>2, Rejections
    <3>4. /\ Successes(ledger'[r].usage) = ledger'[r].again /\ ledger'[r].again \in Nat
          /\ ledger'[r].metrics = ledger'[r].usage
      BY <2>2, <2>3, <3>3
    <3>5. request'[r].step = "done" /\ ledger'[r].outcome = "failed"
      BY <3>2, <3>3
    <3>. QED BY <3>4, <3>5 DEF Recorded
  <2>5. CASE ~Last(r)
    <3>1. /\ request' = [request EXCEPT ![r] = At("connect", request[r].chain, request[r].i + 1)]
          /\ ledger' = [ledger EXCEPT ![r] = PushFallback(n)]
      BY <1>10, <2>5 DEF AttemptFails, NextModel, n
    <3>2. request'[r].step = "connect" /\ ledger'[r] = PushFallback(n)
      BY <1>1, <3>1 DEF At
    <3>3. /\ ledger'[r].usage = Append(n.usage, "error")
          /\ ledger'[r].metrics = Append(n.metrics, "error") /\ ledger'[r].again = n.again
      BY <2>2, <3>2, Pushes, UsagePushes, ZenonT(60)
    <3>. QED BY <2>2, <2>3, <3>2, <3>3 DEF Recorded
  <2>. QED BY <2>4, <2>5
<1>11. CASE StreamBreaks(r)
  <2>1. request[r].step # "done"
    BY <1>11 DEF StreamBreaks
  <2>2. n \in Ledger /\ n.again \in Nat /\ n.metrics = n.usage /\ Successes(n.usage) = n.again
    BY <1>9, <2>1
  <2>. HIDE DEF n
  <2>3. /\ request' = [request EXCEPT ![r] = Rest]
        /\ ledger' = [ledger EXCEPT ![r] = [n EXCEPT !.outcome = "broken"]]
    BY <1>11 DEF StreamBreaks, n
  <2>4. request'[r].step = "done" /\ ledger'[r] = [n EXCEPT !.outcome = "broken"]
    BY <1>1, <2>3
  <2>5. /\ ledger'[r].usage = n.usage /\ ledger'[r].metrics = n.metrics
        /\ ledger'[r].again = n.again /\ ledger'[r].outcome = "broken"
    BY <2>2, <2>4 DEF Ledger
  <2>. QED BY <2>2, <2>4, <2>5 DEF Recorded
<1>. QED BY <1>2, <1>3, <1>4, <1>5, <1>6, <1>7, <1>8, <1>10, <1>11, <1>12
         DEF Serve, Attempt

\* Every answer the provider was paid for is in the usage as a success, except those whose
\* tokens could not be counted and streams that broke; and the metrics the routing reads are
\* of the same attempts as the usage, but for a request that never had a model.
THEOREM UsageComplete == Spec => []UsageCountsAnswers
<1>1. Init => AllRecorded
  <2>. SUFFICES ASSUME Init, NEW r \in Request PROVE Recorded(r)
    BY DEF AllRecorded
  <2>1. request[r].step = "done" /\ ledger[r].outcome = "none"
    BY DEF Init, At, Blank
  <2>. QED BY <2>1 DEF Recorded
<1>2. PInv /\ TInv' /\ AllRecorded /\ [Next]_vars => AllRecorded'
  <2>. SUFFICES ASSUME PInv, TInv', AllRecorded, [Next]_vars PROVE AllRecorded'
    OBVIOUS
  <2>1. CASE UNCHANGED vars
    BY <2>1 DEF AllRecorded, Recorded, vars
  <2>2. CASE LimitChanges
    BY <2>2 DEF AllRecorded, Recorded, LimitChanges
  <2>3. ASSUME NEW r \in Request, Arrive(r) \/ Serve(r) PROVE AllRecorded'
    <3>1. /\ request = [request EXCEPT ![r] = request[r]]
          /\ ledger = [ledger EXCEPT ![r] = ledger[r]] /\ TInv
      BY DEF PInv, TInv, TypeOK
    <3>2. \E to, l : /\ request' = [request EXCEPT ![r] = to]
                     /\ ledger' = [ledger EXCEPT ![r] = l]
      BY <2>3, <3>1, ZenonT(60)
      DEF Arrive, Serve, Resolve, ResolveFails, Route, RouteFails, Attempt, Connect, Admit,
          Answer, StreamEnds, Charge, Discover, AttemptFails, NextModel, StreamBreaks, Step
    <3>3. Recorded(r)
      BY DEF AllRecorded
    <3>4. Recorded(r)'
      BY <2>3, <3>3, RecordedStep
    <3>. QED BY <3>1, <3>2, <3>4, RecordedFrame
  <2>. QED BY <2>1, <2>2, <2>3 DEF Next
<1>3. PInv /\ AllRecorded => UsageCountsAnswers
  <2>. SUFFICES ASSUME PInv, AllRecorded, NEW r \in Request, Settled(r)
                PROVE  LET l == ledger[r]
                       IN  /\ Occurrences(l.usage, "ok") = l.answers - l.lost
                           /\ l.metrics = l.usage \/ (l.metrics = <<>> /\ l.usage = <<"error">>)
    BY DEF UsageCountsAnswers
  <2>. DEFINE l == ledger[r]
  <2>1. /\ l.outcome \in {"none", "answered", "failed", "broken"}
        /\ l.answers \in Nat /\ l.lost \in Nat /\ l.again \in Nat
    BY DEF PInv, TInv, TypeOK, Ledger
  <2>2. /\ l.metrics = l.usage \/ (l.metrics = <<>> /\ l.usage = <<"error">>)
        /\ Successes(l.usage) = l.again + (IF l.outcome = "answered" THEN 1 ELSE 0)
        /\ l.outcome # "none" /\ l.outcome # "broken"
    BY DEF AllRecorded, Recorded, Settled, Finished
  <2>3. /\ l.outcome = "failed" => l.answers = l.lost + l.again
        /\ l.outcome = "answered" => l.answers = l.lost + l.again + 1
    BY DEF PInv, AllPaid, Paid
  <2>. HIDE DEF l
  <2>4. Successes(l.usage) = l.answers - l.lost
    BY <2>1, <2>2, <2>3
  <2>. QED BY <2>2, <2>4 DEF Successes, l
<1>. QED BY <1>1, <1>2, <1>3, PaidKept, PTL DEF Spec, PInv
=============================================================================
