------------------------------ MODULE Completion ------------------------------
(***************************************************************************)
(* A completion: completion() and postCompletion() of                      *)
(* completion/completion.service.ts with updateDiscoveredCapacity of       *)
(* ai-connection/ai-connection.service.ts.                                 *)
(*                                                                         *)
(* A request resolves its resource, may be routed to another model, and    *)
(* tries the models of its chain one after the other until one answers.    *)
(* The records of an attempt (usage, metrics, audit) are pushed in the     *)
(* same try block that called the provider, so an error behind an answer   *)
(* is handled like an error of the provider.                               *)
(***************************************************************************)
EXTENDS Naturals, FiniteSets, Sequences

CONSTANTS
  Request,          \* the requests that can be under way at once
  Stream,           \* those of them that ask for a stream
  Model,            \* the models of the resource
  Primary,          \* its primary model
  Secondary,        \* the secondary models a request can select
  Routes,           \* the models its routing conditions lead to; none: routing is off
  Fallbacks,        \* its fallback models, in order
  Connection, ConnectionOf,  \* the connection of each model
  Limit,            \* rate limits a provider reports in its headers
  FirstLimit,       \* the ones each model starts with
  Unknown,          \* no rate limits
  MaxChanges        \* bound: how often a provider changes its limits

ASSUME CompletionAssumption ==
  /\ Stream \subseteq Request
  /\ Primary \in Model /\ Secondary \subseteq Model /\ Routes \subseteq Model
  /\ Fallbacks \in Seq(Model)
  /\ ConnectionOf \in [Model -> Connection]
  /\ FirstLimit \in [Model -> Limit] /\ Unknown \notin Limit
  /\ MaxChanges \in Nat

VARIABLES
  request,     \* where each request is
  ledger,      \* what its current call has pushed, and what it was answered
  discovered,  \* database: the discovered capacity of each connection, by model
  limit,       \* the limits each provider enforces and reports
  changes      \* bound

vars == <<request, ledger, discovered, limit, changes>>

-----------------------------------------------------------------------------
Reported == Limit \cup {Unknown}

Discovered == [Model -> Reported]

Nothing == [m \in Model |-> Unknown]

\* Every route goes over the chain [routed or selected model, ...fallbackModels].
Chain(m) == <<m>> \o Fallbacks

Chains == {<<>>} \cup {Chain(m) : m \in Model}

RequestState ==
  [step : {"done", "resolve", "route", "connect", "gate", "call", "stream", "charge",
           "discover"},
   chain : Chains,
   i : 0..(Len(Fallbacks) + 1),   \* the attempt: a position in the chain
   known : Discovered,            \* the connection's discovered capacity when it was read
   headers : Reported]            \* the limits in the headers of the answer

\* Resting holds no value of an earlier attempt.
At(step, chain, i) ==
  [step |-> step, chain |-> chain, i |-> i, known |-> Nothing, headers |-> Unknown]

Status == {"ok", "error"}

\* messages pushed, and two histories: the answers of providers, and how often
\* postCompletion failed before (lost) and behind (again) its pushes.
Ledger ==
  [usage : Seq(Status), audits : Seq(Status), metrics : Seq(Status),
   answers : Nat, lost : Nat, again : Nat,
   outcome : {"none", "answered", "failed", "broken"}]

Blank == [usage |-> <<>>, audits |-> <<>>, metrics |-> <<>>, answers |-> 0, lost |-> 0,
          again |-> 0, outcome |-> "none"]

Serving(r) == request[r].chain[request[r].i]

\* Mutant: the last model is the one behind the chain.
PastLast(r) == request[r].i > Len(request[r].chain)

Last(r) == request[r].i = Len(request[r].chain)

Init ==
  /\ request = [r \in Request |-> At("done", <<>>, 0)]
  /\ ledger = [r \in Request |-> Blank]
  /\ discovered = [c \in Connection |-> Nothing]
  /\ limit = FirstLimit
  /\ changes = 0

Step(r, from, to) == request[r].step = from /\ request' = [request EXCEPT ![r] = to]

SameLimits == UNCHANGED <<limit, changes>>

\* Mutant: the audit is pushed with the success records only.
PushRejectionUnaudited(l, known) ==
  [l EXCEPT !.usage = Append(@, "error"), !.outcome = "failed",
            !.metrics = IF known THEN Append(@, "error") ELSE @]

\* The outer catch: the metrics need a resource and a model.
PushRejection(l, known) ==
  [l EXCEPT !.usage = Append(@, "error"),
            !.metrics = IF known THEN Append(@, "error") ELSE @,
            !.audits = Append(@, "error"),
            !.outcome = "failed"]

\* Mutant: only the outer catch pushes metrics of an error.
PushFallbackUnmeasured(l) == [l EXCEPT !.usage = Append(@, "error")]

\* An attempt that is not the last one: FALLBACK event, usage and metrics.
PushFallback(l) ==
  [l EXCEPT !.usage = Append(@, "error"), !.metrics = Append(@, "error")]

PushSuccess(l) ==
  [l EXCEPT !.usage = Append(@, "ok"), !.metrics = Append(@, "ok"),
            !.audits = Append(@, "ok")]

-----------------------------------------------------------------------------
(* The request up to its first attempt. *)

Arrive(r) ==
  /\ Step(r, "done", At("resolve", <<>>, 0))
  /\ ledger' = [ledger EXCEPT ![r] = Blank]
  /\ SameLimits /\ UNCHANGED discovered

\* getAIResource, and the choice between the primary and a secondary model; only the
\* primary is routed.
Resolve(r) ==
  /\ \/ Step(r, "resolve", IF Routes # {} THEN At("route", <<>>, 0)
                                          ELSE At("connect", Chain(Primary), 1))
     \/ \E m \in Secondary : Step(r, "resolve", At("connect", Chain(m), 1))
  /\ SameLimits /\ UNCHANGED <<ledger, discovered>>

\* No such resource, or no such secondary model: there is no model to name.
ResolveFails(r) ==
  /\ Step(r, "resolve", At("done", <<>>, 0))
  /\ ledger' = [ledger EXCEPT ![r] = PushRejection(@, FALSE)]
  /\ SameLimits /\ UNCHANGED discovered

Route(r) ==
  /\ \E m \in Routes \cup {Primary} : Step(r, "route", At("connect", Chain(m), 1))
  /\ SameLimits /\ UNCHANGED <<ledger, discovered>>

\* A condition blocks the request, or its evaluation fails: no fallback.
RouteFails(r) ==
  /\ Step(r, "route", At("done", <<>>, 0))
  /\ ledger' = [ledger EXCEPT ![r] = PushRejection(@, TRUE)]
  /\ SameLimits /\ UNCHANGED discovered

-----------------------------------------------------------------------------
(* An attempt. *)

\* The connection is read from the database, with the capacity discovered so far.
Connect(r) ==
  /\ Step(r, "connect", [request[r] EXCEPT !.step = "gate",
                                           !.known = discovered[ConnectionOf[Serving(r)]]])
  /\ SameLimits /\ UNCHANGED <<ledger, discovered>>

Admit(r) ==
  /\ Step(r, "gate", [request[r] EXCEPT !.step = "call"])
  /\ SameLimits /\ UNCHANGED <<ledger, discovered>>

\* The provider answers; its headers may carry its limits.  For a stream the
\* generator goes to the client, and the loop is left.
Answer(r) ==
  /\ request[r].step = "call"
  /\ \E h \in {Unknown, limit[Serving(r)]} :
       Step(r, "call", [request[r] EXCEPT
                          !.step = IF r \in Stream THEN "stream" ELSE "charge",
                          !.headers = h])
  /\ ledger' = [ledger EXCEPT ![r].answers = @ + 1]
  /\ SameLimits /\ UNCHANGED discovered

\* The last chunk has been written.
StreamEnds(r) ==
  /\ Step(r, "stream", [request[r] EXCEPT !.step = "charge"])
  /\ SameLimits /\ UNCHANGED <<ledger, discovered>>

\* The headers differ from the capacity that came with the connection.
Differs(r) == request[r].headers \notin {Unknown, request[r].known[Serving(r)]}

\* Mutant: nothing returns the answer, and the loop goes on to the next model.
AfterSuccessGoesOn(r) ==
  IF Last(r) THEN At("done", <<>>, 0)
             ELSE At("connect", request[r].chain, request[r].i + 1)

AfterSuccess(r) == At("done", <<>>, 0)

\* postCompletion up to updateDiscoveredCapacity: the tokens of the answer are counted
\* (increaseTokenResponseUsage), then everything is pushed in one go.
Charge(r) ==
  /\ request[r].step = "charge"
  /\ IF Differs(r)
       THEN /\ Step(r, "charge", [request[r] EXCEPT !.step = "discover"])
            /\ ledger' = [ledger EXCEPT ![r] = PushSuccess(@)]
       ELSE /\ Step(r, "charge", AfterSuccess(r))
            /\ ledger' = [ledger EXCEPT ![r] = [PushSuccess(@) EXCEPT !.outcome = "answered"]]
  /\ SameLimits /\ UNCHANGED discovered

\* Mutant: the other models keep nothing.
UpdateDiscoveredAlone(known, m, h) == [Nothing EXCEPT ![m] = h]

\* The whole column is written, from the copy of the connection.
UpdateDiscovered(known, m, h) == [known EXCEPT ![m] = h]

WriteDiscovered(r) ==
  discovered' = [discovered EXCEPT ![ConnectionOf[Serving(r)]] =
                   UpdateDiscovered(request[r].known, Serving(r), request[r].headers)]

Discover(r) ==
  /\ Step(r, "discover", AfterSuccess(r))
  /\ WriteDiscovered(r)
  /\ ledger' = [ledger EXCEPT ![r].outcome = "answered"]
  /\ SameLimits

Noted(r) ==
  CASE request[r].step = "charge"   -> [ledger[r] EXCEPT !.lost = @ + 1]
    [] request[r].step = "discover" -> [ledger[r] EXCEPT !.again = @ + 1]
    [] OTHER                        -> ledger[r]

\* Mutant: the attempt is made again, as if it had not been made.
NextModelAgain(r, l) ==
  /\ request' = [request EXCEPT ![r] = At("connect", request[r].chain, request[r].i)]
  /\ UNCHANGED ledger

NextModel(r, l) ==
  /\ request' = [request EXCEPT ![r] = At("connect", request[r].chain, request[r].i + 1)]
  /\ ledger' = [ledger EXCEPT ![r] = PushFallback(l)]

\* Any error of an attempt: the connection, the gate's denial, the provider, or
\* postCompletion behind an answer.
AttemptFails(r) ==
  /\ request[r].step \in {"connect", "gate", "call"}
       \cup (IF r \in Stream THEN {} ELSE {"charge", "discover"})
  /\ IF Last(r)
       THEN /\ request' = [request EXCEPT ![r] = At("done", <<>>, 0)]
            /\ ledger' = [ledger EXCEPT ![r] = PushRejection(Noted(r), TRUE)]
       ELSE NextModel(r, Noted(r))
  /\ \/ UNCHANGED discovered
     \/ request[r].step = "discover" /\ WriteDiscovered(r)  \* only the cache entry failed
  /\ SameLimits

\* The generator of a stream throws into the controller, outside the loop and its catch.
StreamBreaks(r) ==
  /\ r \in Stream /\ request[r].step \in {"stream", "charge", "discover"}
  /\ request' = [request EXCEPT ![r] = At("done", <<>>, 0)]
  /\ ledger' = [ledger EXCEPT ![r] = [Noted(r) EXCEPT !.outcome = "broken"]]
  /\ \/ UNCHANGED discovered
     \/ request[r].step = "discover" /\ WriteDiscovered(r)
  /\ SameLimits

LimitChanges ==
  /\ changes < MaxChanges
  /\ \E m \in Model, l \in Limit : l # limit[m] /\ limit' = [limit EXCEPT ![m] = l]
  /\ changes' = changes + 1
  /\ UNCHANGED <<request, ledger, discovered>>

-----------------------------------------------------------------------------
Attempt(r) ==
  \/ Connect(r) \/ Admit(r) \/ Answer(r) \/ StreamEnds(r) \/ Charge(r) \/ Discover(r)
  \/ AttemptFails(r) \/ StreamBreaks(r)

Serve(r) ==
  \/ Resolve(r) \/ ResolveFails(r) \/ Route(r) \/ RouteFails(r) \/ Attempt(r)

Next == (\E r \in Request : Arrive(r) \/ Serve(r)) \/ LimitChanges

Spec == Init /\ [][Next]_vars

\* The event loop resumes every continuation, and a provider's client times out.
FairSpec == Spec /\ \A r \in Request : WF_vars(Serve(r))

-----------------------------------------------------------------------------
\* The types of the variables.
TypeOK ==
  /\ request \in [Request -> RequestState]
  /\ ledger \in [Request -> Ledger]
  /\ discovered \in [Connection -> Discovered]
  /\ limit \in [Model -> Limit]
  /\ changes \in 0..MaxChanges

Finished(r) == request[r].step = "done" /\ ledger[r].outcome # "none"

\* Answered to the end, or refused; not a stream that broke.
Settled(r) == Finished(r) /\ ledger[r].outcome # "broken"

Occurrences(s, status) == Cardinality({k \in DOMAIN s : s[k] = status})

\* The audit of a call that was answered or refused is one record that says what the
\* client was told, and before it one "ok" for every answer whose discovered capacity
\* could not be stored.  (Of a stream that breaks see EveryRequestLogged.)
AuditTellsOutcome ==
  \A r \in Request : Settled(r) =>
    LET l == ledger[r]
        end == IF l.outcome = "answered" THEN <<"ok">> ELSE <<"error">>
    IN  l.audits = [k \in 1..l.again |-> "ok"] \o end

\* The usage has one "ok" for every answer, except those whose tokens could not be
\* counted, whatever else fails; and the error rate the routing reads (the metrics) is
\* built from the same attempts as the usage, but for requests rejected before there
\* was a model.
UsageCountsAnswers ==
  \A r \in Request : Settled(r) =>
    LET l == ledger[r]
    IN  /\ Occurrences(l.usage, "ok") = l.answers - l.lost
        /\ l.metrics = l.usage \/ (l.metrics = <<>> /\ l.usage = <<"error">>)

\* "Complete Audit Trail: Every request is logged", also one whose stream breaks.
EveryRequestLogged == \A r \in Request : Finished(r) => ledger[r].audits # <<>>

\* A request pays for a second answer, or pays and gets an error, only because
\* postCompletion failed behind an answer.
AnsweredOnce ==
  \A r \in Request :
    LET l == ledger[r]
    IN  /\ l.answers <= 1 + l.lost + l.again
        /\ l.outcome = "failed" => l.answers = l.lost + l.again

\* Every request ends: the chain of models is finite and each attempt moves along it.
RequestsEnd == \A r \in Request : request[r].step # "done" ~> request[r].step = "done"

\* The model is answering with its limits in the headers.
Reporting(m) ==
  \E r \in Request : request[r].step = "charge" /\ Serving(r) = m /\ request[r].headers # Unknown

Succeeding == \A r \in Request : ~AttemptFails(r) /\ ~StreamBreaks(r)

\* Updates made from old copies of the connection overwrite each other, but not for
\* ever: once nothing fails, what is stored for a model that keeps answering is in
\* the end its limit.
DiscoverySettles ==
  \A m \in Model :
    []<>Reporting(m) /\ <>[][Succeeding]_vars
      => <>[](discovered[ConnectionOf[m]][m] = limit[m])
=============================================================================
