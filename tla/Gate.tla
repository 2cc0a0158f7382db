-------------------------------- MODULE Gate --------------------------------
(***************************************************************************)
(* The request gate: completion/gate.service.ts with the usage counters of *)
(* capacity/capacity.service.ts, for the requests of one resource through  *)
(* one connection and the capacities of one period.                        *)
(*                                                                         *)
(* A request reads the counters, waits for the prioritization, and counts  *)
(* itself later.  Nobody awaits that: the provider's call begins, and may  *)
(* end, with the transactions still under way.  The tokens of the answer   *)
(* are added behind the call.  The counters carry no number of their       *)
(* period: they start anew only because Redis lets them expire.            *)
(***************************************************************************)
EXTENDS Integers, FiniteSets, Sequences

CONSTANTS
  Request,           \* the requests that can be under way at once
  Address, Shared,   \* the clients' addresses; the key without an address
  AddressOf,         \* the client of each request
  Seconds,           \* the length of the period
  RequestTokens,     \* what a request is estimated to cost
  Setups,            \* what a behaviour may be about: the period, the enabled capacities
                     \* of each request, and what an answer may cost
  MaxCounted,        \* bound: how far the history counts
  MaxFailures        \* bound: how many transactions fail

Key == Address \cup {Shared}

Period == {"minute", "day", "month", "lifetime"}

\* 0 stands for a limit that is not set: `capacity.requests ?? 0`.
Capacity == [requests : Nat, tokens : Nat, perAddress : BOOLEAN]

ASSUME GateAssumption ==
  /\ IsFiniteSet(Request) /\ Shared \notin Address
  /\ AddressOf \in [Request -> Address]
  /\ Seconds \in Nat \ {0, 1} /\ RequestTokens \in Nat
  /\ MaxCounted \in Nat /\ MaxFailures \in Nat
  /\ Setups \subseteq [period : Period, capacities : [Request -> Seq(Capacity)],
                      answers : SUBSET Nat]

VARIABLES
  setup,     \* the configuration; it does not change
  second,    \* the second of the period the clock shows
  requests,  \* Redis: the key :requests of each prefix
  tokens,    \* Redis: the key :tokens of each prefix
  gate,      \* where each request is
  counted,   \* history: requests counted in the period they came in
  late,      \* history: keys counted in this period by a request of an earlier one
  failures   \* bound

vars == <<setup, second, requests, tokens, gate, counted, late, failures>>

-----------------------------------------------------------------------------
(* Redis counters: value and time to live. *)

NoExpiry == -1

Counter == [n : Nat, ttl : (Nat \ {0}) \cup {NoExpiry}]

Absent == [n |-> 0, ttl |-> NoExpiry]

\* INCRBY keeps the expiry the key has; a key it creates has none.
IncrBy(c, k) == [c EXCEPT !.n = @ + k]

\* EXPIRE with zero seconds deletes the key.
Expire(c, s) == IF s = 0 THEN Absent ELSE [c EXCEPT !.ttl = s]

\* A second passes.
Aged(c) ==
  CASE c.ttl = 1 -> Absent
    [] c.ttl > 1 -> [c EXCEPT !.ttl = @ - 1]
    [] OTHER     -> c

-----------------------------------------------------------------------------
Capacities(r) == setup.capacities[r]

KeyOf(r, cap) == IF cap.perAddress THEN AddressOf[r] ELSE Shared

\* The distinct keys of a request's capacities, in the order they first appear.
Keys(r) == {KeyOf(r, Capacities(r)[i]) : i \in DOMAIN Capacities(r)}

First(r, k) ==
  CHOOSE i \in DOMAIN Capacities(r) :
    /\ KeyOf(r, Capacities(r)[i]) = k
    /\ \A j \in DOMAIN Capacities(r) : KeyOf(r, Capacities(r)[j]) = k => i <= j

\* getUsage keys its result by the period alone, so every capacity is checked
\* against the counters that were put there last.
Decisive(r) == CHOOSE k \in Keys(r) : \A j \in Keys(r) : First(r, j) <= First(r, k)

\* Mutant: the minute, too, is rounded down.
RemainingSecondsRounded(s) == IF setup.period = "lifetime" THEN -1 ELSE Seconds - 1 - s

RemainingSeconds(s) ==
  CASE setup.period = "minute"   -> Seconds - s
    [] setup.period = "lifetime" -> -1
    [] OTHER                     -> Seconds - 1 - s

\* Mutant: the request does not count itself.
RequestsPassAtLimit(r, n) ==
  \A i \in DOMAIN Capacities(r) :
    LET limit == Capacities(r)[i].requests IN limit > 0 => n <= limit

\* totalRequests is 0 for an absent counter, and the count with this request else.
RequestsPass(r, n) ==
  \A i \in DOMAIN Capacities(r) :
    LET limit == Capacities(r)[i].requests IN limit > 0 /\ n > 0 => n + 1 <= limit

\* Mutant: the request's own tokens are not added.
TokensPassBefore(r, n) ==
  \A i \in DOMAIN Capacities(r) :
    LET limit == Capacities(r)[i].tokens IN limit > 0 => n <= limit

TokensPass(r, n) ==
  \A i \in DOMAIN Capacities(r) :
    LET limit == Capacities(r)[i].tokens IN limit > 0 => n + RequestTokens <= limit

GateState ==
  [step : {"idle", "arrived", "readTokens", "prioritize", "call", "respond"},
   remaining : -1..Seconds,   \* the remaining seconds its expiry is computed from
   fits : BOOLEAN,            \* the requests it read leave room for it
   todo : SUBSET Key,         \* the counters it is still to be counted in
   answer : SUBSET Key,       \* those its answer is still to be added to
   stale : BOOLEAN]           \* the period has changed since remaining was computed

Idle == [step |-> "idle", remaining |-> 0, fits |-> FALSE, todo |-> {}, answer |-> {},
         stale |-> FALSE]

Init ==
  /\ setup \in Setups
  /\ second = 0
  /\ requests = [k \in Key |-> Absent] /\ tokens = [k \in Key |-> Absent]
  /\ gate = [r \in Request |-> Idle]
  /\ counted = [k \in Key |-> 0] /\ late = {}
  /\ failures = 0

\* requestTime is taken once, before the routing and every attempt of the fallback.
Arrive(r) ==
  /\ gate[r].step = "idle"
  /\ Capacities(r) # <<>>
  /\ gate' = [gate EXCEPT ![r] =
       [Idle EXCEPT !.step = "arrived", !.remaining = RemainingSeconds(second)]]
  /\ UNCHANGED <<setup, second, requests, tokens, counted, late, failures>>

\* The first GET of getUsage.
ReadRequests(r) ==
  /\ gate[r].step = "arrived"
  /\ gate' = [gate EXCEPT ![r] =
       [@ EXCEPT !.step = "readTokens", !.fits = RequestsPass(r, requests[Decisive(r)].n)]]
  /\ UNCHANGED <<setup, second, requests, tokens, counted, late, failures>>

\* The second GET, and the checks.  getRemainingSecondsOfMonth looks at the clock
\* and not at the time of the request.
ReadTokens(r) ==
  /\ gate[r].step = "readTokens"
  /\ gate' = [gate EXCEPT ![r] =
       IF ~gate[r].fits \/ ~TokensPass(r, tokens[Decisive(r)].n) THEN Idle
       ELSE IF setup.period = "month"
       THEN [@ EXCEPT !.step = "prioritize", !.stale = FALSE,
                      !.remaining = RemainingSeconds(second)]
       ELSE [@ EXCEPT !.step = "prioritize"]]
  /\ UNCHANGED <<setup, second, requests, tokens, counted, late, failures>>

\* The prioritization lets it pass, to the provider and, behind its back, to the
\* counters; or it denies the request, or throws.
Prioritize(r) ==
  /\ gate[r].step = "prioritize"
  /\ \E to \in {Idle, [gate[r] EXCEPT !.step = "call", !.todo = Keys(r)]} :
       gate' = [gate EXCEPT ![r] = to]
  /\ UNCHANGED <<setup, second, requests, tokens, counted, late, failures>>

\* A request is over when its call is, and every counter it was to move.
Settled(g) == IF g.step = "respond" /\ g.todo = {} /\ g.answer = {} THEN Idle ELSE g

\* One counter less to be counted in.
CountedOff(g, k) == Settled([g EXCEPT !.todo = @ \ {k}])

\* The transactions are sent at once and awaited by nobody, and Redis executes those of
\* different keys in any order.
Counting(r, k) ==
  /\ gate[r].step \in {"call", "respond"} /\ k \in gate[r].todo
  /\ gate' = [gate EXCEPT ![r] = CountedOff(@, k)]

\* Mutant: only the tokens are given an expiry.
IncreaseWithoutExpiry(r, k) ==
  LET left == gate[r].remaining
      Kept(c) == IF left > 0 THEN Expire(c, left - 1) ELSE c
  IN  /\ Counting(r, k)
      /\ requests' = [requests EXCEPT ![k] = IncrBy(@, 1)]
      /\ tokens' = [tokens EXCEPT ![k] = Kept(IncrBy(@, RequestTokens))]
      /\ UNCHANGED <<setup, second, counted, late, failures>>

IncreaseRpmTpmCounters(r, k) ==
  LET left == gate[r].remaining
      Kept(c) == IF left > 0 THEN Expire(c, left - 1) ELSE c
  IN  /\ Counting(r, k)
      /\ requests' = [requests EXCEPT ![k] = Kept(IncrBy(@, 1))]
      /\ tokens' = [tokens EXCEPT ![k] = Kept(IncrBy(@, RequestTokens))]
      /\ IF gate[r].stale THEN late' = late \cup {k} /\ UNCHANGED counted
         ELSE /\ counted' = [counted EXCEPT ![k] = IF @ < MaxCounted THEN @ + 1 ELSE @]
              /\ UNCHANGED late
      /\ UNCHANGED <<setup, second, failures>>

\* An error of the transaction is logged, and the request is not counted.
IncreaseFails(r, k) ==
  /\ failures < MaxFailures
  /\ failures' = failures + 1
  /\ Counting(r, k)
  /\ UNCHANGED <<setup, second, requests, tokens, counted, late>>

\* The provider answers; or it fails, or the client leaves before the usage is known.
ProviderEnds(r) ==
  /\ gate[r].step = "call"
  /\ \E keys \in {{}, Keys(r)} :
       gate' = [gate EXCEPT ![r] = Settled([@ EXCEPT !.step = "respond", !.answer = keys])]
  /\ UNCHANGED <<setup, second, requests, tokens, counted, late, failures>>

Answered(g, k) == Settled([g EXCEPT !.answer = @ \ {k}])

\* Mutant: the estimate is taken back when the answer is counted.
CorrectTokenResponseUsage(r, k) ==
  /\ gate[r].step = "respond" /\ k \in gate[r].answer
  /\ \E c \in setup.answers : tokens' = [tokens EXCEPT ![k] = IncrBy(@, c - RequestTokens)]
  /\ gate' = [gate EXCEPT ![r] = Answered(@, k)]
  /\ UNCHANGED <<setup, second, requests, counted, late, failures>>

\* increaseTokenResponseUsage: an INCRBY, and no EXPIRE.
IncreaseTokenResponseUsage(r, k) ==
  /\ gate[r].step = "respond" /\ k \in gate[r].answer
  /\ \E c \in setup.answers :
       tokens' = [tokens EXCEPT ![k] = IF c = 0 THEN @ ELSE IncrBy(@, c)]
  /\ gate' = [gate EXCEPT ![r] = Answered(@, k)]
  /\ UNCHANGED <<setup, second, requests, counted, late, failures>>

\* The clock moves on, and the counters with it; a lifetime is never over.
Tick ==
  LET over == second = Seconds - 1 /\ setup.period # "lifetime"
  IN  /\ second' = (second + 1) % Seconds
      /\ requests' = [k \in Key |-> Aged(requests[k])]
      /\ tokens' = [k \in Key |-> Aged(tokens[k])]
      /\ counted' = IF over THEN [k \in Key |-> 0] ELSE counted
      /\ late' = IF over THEN {} ELSE late
      /\ gate' = [r \in Request |->
           IF over /\ gate[r].step # "idle" THEN [gate[r] EXCEPT !.stale = TRUE] ELSE gate[r]]
      /\ UNCHANGED <<setup, failures>>

RequestGate(r) ==
  \/ Arrive(r) \/ ReadRequests(r) \/ ReadTokens(r) \/ Prioritize(r)
  \/ \E k \in Key : IncreaseRpmTpmCounters(r, k) \/ IncreaseFails(r, k)

Answer(r) == ProviderEnds(r) \/ \E k \in Key : IncreaseTokenResponseUsage(r, k)

Next == Tick \/ \E r \in Request : RequestGate(r) \/ Answer(r)

Spec == Init /\ [][Next]_vars

\* Time passes, whatever the requests do.
FairSpec == Spec /\ WF_vars(Tick)

-----------------------------------------------------------------------------
TypeOK ==
  /\ setup \in Setups
  /\ second \in 0..(Seconds - 1)
  /\ requests \in [Key -> Counter] /\ tokens \in [Key -> Counter]
  /\ gate \in [Request -> GateState]
  /\ counted \in [Key -> Nat] /\ late \in SUBSET Key
  /\ failures \in Nat

Admissible(r) ==
  Keys(r) # {} => /\ RequestsPass(r, requests[Decisive(r)].n)
                  /\ TokensPass(r, tokens[Decisive(r)].n)

\* A counter that no request can pass has no expiry either.
LockedOut(r) ==
  Keys(r) # {} /\
  LET k == Decisive(r)
  IN  \/ tokens[k].ttl = NoExpiry /\ ~TokensPass(r, tokens[k].n)
      \/ /\ setup.period # "minute"
         /\ requests[k].ttl = NoExpiry /\ ~RequestsPass(r, requests[k].n)

Users(k) == {r \in Request : k \in Keys(r)}

\* All who move the counter of k are checked against it, for a limit this low.
RequestsLimited(k, limit) ==
  \A r \in Users(k) :
    Decisive(r) = k /\ \E i \in DOMAIN Capacities(r) : Capacities(r)[i].requests \in 1..limit

TokensLimited(k, limit) ==
  \A r \in Users(k) :
    Decisive(r) = k /\ \E i \in DOMAIN Capacities(r) : Capacities(r)[i].tokens \in 1..limit

\* A limit on requests is exceeded by what is under way at once and no more, where a
\* request whose call has ended is under way until it is counted: every one of them may
\* have passed on the last reading that fits, and none passes behind them, whatever
\* expires or is counted late meanwhile.
RequestsOverdraft ==
  \A k \in Key : \A q \in Users(k) : \A j \in DOMAIN Capacities(q) :
    LET limit == Capacities(q)[j].requests
    IN  RequestsLimited(k, limit) => requests[k].n <= limit - 1 + Cardinality(Users(k))

\* The same for tokens, where each of them may add its estimate and its answer on top.
TokensOverdraft ==
  \A most \in setup.answers, k \in Key :
    \A q \in Users(k) : \A j \in DOMAIN Capacities(q) :
      LET limit == Capacities(q)[j].tokens
      IN  (\A c \in setup.answers : c <= most) /\ TokensLimited(k, limit) =>
            tokens[k].n <= limit - RequestTokens
                             + Cardinality(Users(k)) * (RequestTokens + most)

\* What was counted in this period stays counted until its last second (its last two,
\* where the remaining seconds are rounded down): only a request of an earlier period
\* that is counted in this one makes the counters expire before.
CountedUntilPeriodEnds ==
  LET last == IF setup.period = "minute" THEN Seconds - 1 ELSE Seconds - 2
  IN  setup.period = "lifetime" \/ second < last =>
        \A k \in Key \ late :
          counted[k] <= requests[k].n /\ counted[k] * RequestTokens <= tokens[k].n

\* A client that is over its limit is admitted again in some later period, however
\* steady the traffic, or else a counter without an expiry is what keeps it out.
AdmittedAgain ==
  \A r \in Request :
    setup.period # "lifetime" => []<>Admissible(r) \/ <>[]LockedOut(r)

\* The page on capacity: "Requests exceeding resource capacity are rejected", up to
\* those that pass together.
AdmittedWithinLimit ==
  \A k \in Key : \A q \in Users(k) : \A j \in DOMAIN Capacities(q) :
    LET limit == Capacities(q)[j].requests
    IN  RequestsLimited(k, limit) => counted[k] <= limit - 1 + Cardinality(Users(k))
=============================================================================
