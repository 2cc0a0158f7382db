------------------------ MODULE AdaptiveTokenScaling ------------------------
(***************************************************************************)
(* The prioritization of the request gate: how the pools of an environment *)
(* share the minute's tokens of one connection                             *)
(* (prioritization/strategy/adaptive-token-scaling.ts and its Redis        *)
(* repositories).                                                          *)
(*                                                                         *)
(* Each request reads the stored allocation, scales it pool by pool in its *)
(* own memory and writes it back as a whole; nothing keeps two requests    *)
(* from doing so at once.  Tokens are measured as shares of the            *)
(* connection's tokens per minute, as the reservations are.                *)
(***************************************************************************)
EXTENDS Integers, FiniteSets, Sequences

CONSTANTS
  Request,          \* the requests that can be under way at once
  Pool,             \* the names of pools
  PoolOf,           \* the pool of the resource each request is for
  Definitions,      \* the pool definitions an operator may save, first rank first
  Whole,            \* the whole of the connection's tokens per minute (100 percent)
  MaxReservation,   \* bound: no reservation is larger
  Usage,            \* the shares of the whole the usage metrics may show
  Lifetime,         \* how long an allocation is kept behind its last write
  MaxRedefinitions  \* bound: how often the definition is saved anew

PoolEntry == [name : Pool, min : 0..MaxReservation, max : 0..MaxReservation]

Names(d) == {d[n].name : n \in DOMAIN d}

ASSUME ScalingAssumption ==
  /\ IsFiniteSet(Pool) /\ PoolOf \in [Request -> Pool]
  /\ Whole \in Nat /\ MaxReservation \in Nat /\ Usage \subseteq Nat
  /\ Lifetime \in Nat \ {0} /\ MaxRedefinitions \in Nat
  /\ Definitions \subseteq Seq(PoolEntry)
  /\ \A d \in Definitions : \A m, n \in DOMAIN d : d[m].name = d[n].name => m = n

VARIABLES
  definition,     \* the pool definition of the environment
  stored,         \* Redis: the allocation of the connection
  age,            \* Redis: how long ago it was written
  gate,           \* where each request is
  redefinitions   \* bound

vars == <<definition, stored, age, gate, redefinitions>>

-----------------------------------------------------------------------------
\* A pool's part in an allocation; the reservations are copies.
Share ==
  [min : 0..MaxReservation, max : 0..MaxReservation,
   current : Nat, action : {"none", "up", "down"}]

IsAllocation(a) == DOMAIN a \subseteq Pool /\ a \in [DOMAIN a -> Share]

NoAllocation == [p \in {} |-> 0]

Entry(d, p) == d[CHOOSE n \in DOMAIN d : d[n].name = p]

\* The allocation of a connection that has none: everybody has the minimum.
Minimal(d) ==
  [p \in Names(d) |-> [min |-> Entry(d, p).min, max |-> Entry(d, p).max,
                       current |-> Entry(d, p).min, action |-> "none"]]

\* What an allocation gives away, unit by unit; the sum of its current shares.
Given(a) == UNION {{p} \X (1..a[p].current) : p \in DOMAIN a}

Total(a) == Cardinality(Given(a))

Totals == 0..(MaxReservation * Cardinality(Pool))

\* The pools of lower priority than the one at rank n.
Lower(d, n) == {d[m].name : m \in {k \in DOMAIN d : k > n}}

\* Mutant: the maximum is forgotten.
WantedBeyondMaximum(share, w) == w

\* What a pool wants more, when its window shows w: up to as much as it used.
Wanted(share, w) ==
  IF w <= share.max - share.current THEN w ELSE share.max - share.current

WantsMore(share, w) == 2 * w > share.current /\ Wanted(share, w) > 0

Scaled(share, action, current) == [share EXCEPT !.action = action, !.current = current]

\* Mutant: the minimum is forgotten.
SqueezedBelowMinimum(share, missing) == Scaled(share, "down", share.current - missing)

\* Every pool of lower priority gives up what is missing, down to its minimum.
Squeezed(share, missing) ==
  IF share.current <= share.min THEN share
  ELSE Scaled(share, "down", IF share.current - missing >= share.min
                             THEN share.current - missing ELSE share.min)

MakeRoom(a, lower, missing) ==
  [q \in DOMAIN a |-> IF missing > 0 /\ q \in lower THEN Squeezed(a[q], missing) ELSE a[q]]

\* What can be added of the wanted share without exceeding the whole.
Room(a, wanted) == LET total == Total(a) IN {e \in 1..wanted : total + e <= Whole}

\* Mutant: what is free is not computed again behind the squeezing.
GrownByWanted(a, p, wanted) ==
  [a EXCEPT ![p] = Scaled(a[p], "up", a[p].current + wanted)]

Grown(a, p, wanted) ==
  IF Room(a, wanted) = {} THEN a
  ELSE LET most == CHOOSE e \in Room(a, wanted) : \A f \in Room(a, wanted) : f <= e
       IN  [a EXCEPT ![p] = Scaled(a[p], "up", a[p].current + most)]

\* The rank at which the scaling up of a pool is done; free was computed once, before
\* the first rank.
ScaledUp(a, d, n, w, free) ==
  LET p == d[n].name
      wanted == Wanted(a[p], w)
  IN  IF ~WantsMore(a[p], w) THEN a
      ELSE Grown(MakeRoom(a, Lower(d, n), wanted - free), p, wanted)

\* A pool that was scaled up and uses less than it has falls back to what it uses.
ScaledDown(share, w) ==
  LET use == IF w > share.max THEN 0 ELSE w
  IN  Scaled(share, "down", IF use >= share.min THEN use ELSE share.min)

-----------------------------------------------------------------------------
\* A request holds the definition it read, the allocation it scales, what was free when
\* it read that, and the rank it scales next.
At(step, d, a, free, rank) ==
  [step |-> step, definition |-> d, allocation |-> a, free |-> free, rank |-> rank]

IsGateState(g) ==
  /\ g = At(g.step, g.definition, g.allocation, g.free, g.rank)
  /\ g.step \in {"idle", "defined", "scaling", "write"}
  /\ g.definition \in Definitions \cup {<<>>} /\ IsAllocation(g.allocation)
  /\ g.free \in Int /\ g.rank \in Nat

Idle == At("idle", <<>>, NoAllocation, 0, 0)

Init ==
  /\ definition \in Definitions
  /\ stored = NoAllocation /\ age = 0
  /\ gate = [r \in Request |-> Idle]
  /\ redefinitions = 0

Done(r) == gate' = [gate EXCEPT ![r] = Idle]

\* requestGate has read the pool definition, and the resource is in one of its pools.
ReadDefinition(r) ==
  /\ gate[r].step = "idle" /\ PoolOf[r] \in Names(definition)
  /\ gate' = [gate EXCEPT ![r] = At("defined", definition, NoAllocation, 0, 0)]
  /\ UNCHANGED <<definition, stored, age, redefinitions>>

\* Mutant: reading renews the expiry.
ReadAllocationRenews(r) ==
  LET d == gate[r].definition
      a == IF stored = NoAllocation THEN Minimal(d) ELSE stored
  IN  /\ gate[r].step = "defined" /\ \A q \in Request : gate[q].step # "scaling"
      /\ IF Names(d) \subseteq DOMAIN a
           THEN gate' = [gate EXCEPT ![r] = At("scaling", d, a, Whole - Total(a), 1)]
           ELSE Done(r)
      /\ age' = 0
      /\ UNCHANGED <<definition, stored, redefinitions>>

\* The allocation is read, and scaled without an await: in its process nothing comes
\* between, and what other processes do meanwhile makes no difference to the loop, so
\* one request at a time is in it.  A pool the allocation does not have makes it
\* throw.
ReadAllocation(r) ==
  LET d == gate[r].definition
      a == IF stored = NoAllocation THEN Minimal(d) ELSE stored
  IN  /\ gate[r].step = "defined" /\ \A q \in Request : gate[q].step # "scaling"
      /\ IF Names(d) \subseteq DOMAIN a
           THEN \E total \in Totals :
                  /\ total = Total(a)
                  /\ gate' = [gate EXCEPT ![r] = At("scaling", d, a, Whole - total, 1)]
           ELSE Done(r)
      /\ UNCHANGED <<definition, stored, age, redefinitions>>

\* One turn of the loop over the ranks: the window of the pool shows w, and
\* cooled says whether its last scaling was long enough ago.
ScaleRank(r, w, cooled) ==
  LET g == gate[r]
      p == g.definition[g.rank].name
      up == ScaledUp(g.allocation, g.definition, g.rank, w, g.free)
      falls == /\ up[p] = g.allocation[p] /\ cooled   \* scaled up now: not cooled
               /\ up[p].current > w /\ up[p].current > up[p].min /\ up[p].action = "up"
      a == IF falls THEN [up EXCEPT ![p] = ScaledDown(@, w)] ELSE up
  IN  /\ g.step = "scaling" /\ g.rank \in DOMAIN g.definition
      /\ gate' = [gate EXCEPT ![r] = At("scaling", g.definition, a, g.free, g.rank + 1)]
      /\ UNCHANGED <<definition, stored, age, redefinitions>>

\* The loop is over; the pool's tokens of this minute decide.
Decide(r, minute) ==
  LET g == gate[r]
  IN  /\ g.step = "scaling" /\ g.rank > Len(g.definition)
      /\ IF minute > g.allocation[PoolOf[r]].current
           THEN Done(r)
           ELSE gate' = [gate EXCEPT ![r] =
                  At("write", g.definition, g.allocation, g.free, g.rank)]
      /\ UNCHANGED <<definition, stored, age, redefinitions>>

\* SET with EX: the whole allocation, and its expiry.
WriteAllocation(r) ==
  /\ gate[r].step = "write"
  /\ stored' = gate[r].allocation /\ age' = 0
  /\ Done(r)
  /\ UNCHANGED <<definition, redefinitions>>

\* Redis does not answer, or the process ends.
Fails(r) ==
  /\ gate[r].step # "idle"
  /\ Done(r)
  /\ UNCHANGED <<definition, stored, age, redefinitions>>

Scale(r) ==
  \/ ReadDefinition(r) \/ ReadAllocation(r)
  \/ \E w \in Usage : (\E cooled \in BOOLEAN : ScaleRank(r, w, cooled)) \/ Decide(r, w)
  \/ WriteAllocation(r) \/ Fails(r)

Redefine ==
  /\ redefinitions < MaxRedefinitions
  /\ redefinitions' = redefinitions + 1
  /\ definition' \in Definitions \ {definition}
  /\ UNCHANGED <<stored, age, gate>>

\* Mutant: SET without EX.
TickWithoutExpiry ==
  /\ stored # NoAllocation /\ age + 1 < Lifetime
  /\ age' = age + 1
  /\ UNCHANGED <<definition, stored, gate, redefinitions>>

\* Time passes; the allocation expires when it has not been written for its lifetime.
Tick ==
  /\ stored # NoAllocation
  /\ IF age + 1 = Lifetime THEN stored' = NoAllocation /\ age' = 0
                           ELSE age' = age + 1 /\ UNCHANGED stored
  /\ UNCHANGED <<definition, gate, redefinitions>>

Next == Redefine \/ Tick \/ \E r \in Request : Scale(r)

Spec == Init /\ [][Next]_vars

\* Time passes, whatever the requests do.
FairSpec == Spec /\ WF_vars(Tick)

-----------------------------------------------------------------------------
TypeOK ==
  /\ definition \in Definitions
  /\ IsAllocation(stored) /\ age \in 0..(Lifetime - 1)
  /\ DOMAIN gate = Request /\ \A r \in Request : IsGateState(gate[r])
  /\ redefinitions \in Nat

\* "Ensure allocations always stay within min/max reservations": of every allocation,
\* stored or being scaled, whatever the metrics show, whoever else writes meanwhile and
\* however often the pools are redefined.  A minimum above the maximum, which nothing
\* forbids, wins.
Within(a) ==
  \A p \in DOMAIN a :
    /\ a[p].min <= a[p].current
    /\ a[p].current <= a[p].max \/ a[p].current = a[p].min

WithinReservations == Within(stored) /\ \A r \in Request : Within(gate[r].allocation)

\* The sum of the minima.
Minima(a) == Cardinality(UNION {{p} \X (1..a[p].min) : p \in DOMAIN a})

\* "and total allocation never exceeds 100%", where the minima do not: of every allocation,
\* stored or being scaled.
TotalWithinHundred ==
  \A a \in {stored} \cup {gate[r].allocation : r \in Request} :
    Minima(a) <= Whole => Total(a) <= Whole

\* The stored reservations are those of the definition.
Follows ==
  stored # NoAllocation =>
    /\ DOMAIN stored = Names(definition)
    /\ \A p \in DOMAIN stored : /\ stored[p].min = Entry(definition, p).min
                                /\ stored[p].max = Entry(definition, p).max

\* New reservations take hold, unless requests keep the old ones alive for ever: every
\* request that is let through renews them.
RedefinitionTakesHold == <>[]Follows \/ []<>(~Follows /\ age = 0)

\* A pool that the stored allocation lacks makes every request fail, and because they
\* fail none of them renews it: it expires, however many requests keep coming.
Lacking == stored # NoAllocation /\ ~(Names(definition) \subseteq DOMAIN stored)

RecoversFromNewPool == Lacking ~> ~Lacking
=============================================================================
