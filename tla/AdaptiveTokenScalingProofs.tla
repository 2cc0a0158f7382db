--------------------- MODULE AdaptiveTokenScalingProofs ---------------------
(***************************************************************************)
(* Proofs about AdaptiveTokenScaling, for every number of requests and     *)
(* pools, every pool definition and whatever the usage metrics show.       *)
(***************************************************************************)
EXTENDS AdaptiveTokenScaling, FiniteSetTheorems, WellFoundedInduction, TLAPS

-----------------------------------------------------------------------------
(* What the operators keep of an allocation.                               *)

\* A bounded set of numbers that is not empty has a largest one: of the intervals above
\* its members one contains no other.
LEMMA Largest ==
  ASSUME NEW n \in Nat, NEW S, S \subseteq 1..n, S # {}
  PROVE  \E e \in S : \A f \in S : f <= e
<1>. DEFINE R == StrictSubsetOrdering(1..n)
            T == {(e + 1)..n : e \in S}
<1>1. IsWellFoundedOn(R, SUBSET (1..n))
  <2>1. IsFiniteSet(1..n)
    BY FS_Interval
  <2>2. FiniteSubsetsOf(1..n) = SUBSET (1..n)
    BY <2>1, FS_FiniteSubsetsOfFinite
  <2>3. IsWellFoundedOn(R, FiniteSubsetsOf(1..n))
    BY FS_StrictSubsetOrderingWellFounded, Zenon
  <2>. QED BY <2>2, <2>3
<1>2. T \subseteq SUBSET (1..n) /\ T # {}
  <2>1. ASSUME NEW e \in S PROVE (e + 1)..n \subseteq 1..n
    OBVIOUS
  <2>2. \E e \in S : TRUE
    OBVIOUS
  <2>. QED BY <2>1, <2>2, Zenon
<1>3. PICK x \in T : \A y \in T : ~(<<y, x>> \in R)
  <2>. HIDE DEF R, T
  <2>. QED BY <1>1, <1>2, WFMin
<1>4. PICK e \in S : x = (e + 1)..n
  OBVIOUS
<1>5. ASSUME NEW f \in S, f > e PROVE FALSE
  <2>1. (f + 1)..n \subseteq x /\ f \in x /\ f \notin (f + 1)..n
    BY <1>4, <1>5
  <2>2. <<(f + 1)..n, x>> \in R
    BY <2>1, <1>2, <1>4 DEF StrictSubsetOrdering
  <2>. QED BY <1>3, <2>2
<1>. QED BY <1>5

\* A share within its reservations.
ShareWithin(s) ==
  s.min <= s.current /\ (s.current <= s.max \/ s.current = s.min)

\* An allocation keeps to its reservations when each of its shares does.
LEMMA WithinShares ==
  ASSUME NEW a
  PROVE  Within(a) <=> \A p \in DOMAIN a : ShareWithin(a[p])
BY DEF Within, ShareWithin

\* What the assumptions say of the constants.
LEMMA ConstantsType ==
  /\ MaxReservation \in Nat /\ Whole \in Nat /\ Lifetime \in Nat /\ Lifetime > 0
  /\ Usage \subseteq Nat
  /\ \A d \in Definitions : d \in Seq(PoolEntry) /\ Names(d) \subseteq Pool
<1>1. ASSUME NEW d \in Definitions PROVE d \in Seq(PoolEntry) /\ Names(d) \subseteq Pool
  <2>1. d \in Seq(PoolEntry)
    BY ScalingAssumption
  <2>2. ASSUME NEW n \in DOMAIN d PROVE d[n].name \in Pool
    <3>1. d[n] \in PoolEntry
      BY <2>1
    <3>. QED BY <3>1 DEF PoolEntry
  <2>. QED BY <2>1, <2>2 DEF Names
<1>. QED BY <1>1, ScalingAssumption

\* The empty allocation is one.
LEMMA NoAllocationType == IsAllocation(NoAllocation) /\ Within(NoAllocation)
BY DEF NoAllocation, IsAllocation, Within

\* So is the one every pool begins with.
LEMMA MinimalType ==
  ASSUME NEW d \in Definitions
  PROVE  IsAllocation(Minimal(d)) /\ Within(Minimal(d))
<1>1. ASSUME NEW p \in Names(d) PROVE Entry(d, p) \in PoolEntry
  <2>1. \E n \in DOMAIN d : d[n].name = p
    BY DEF Names
  <2>. QED BY <2>1, ConstantsType DEF Entry
<1>2. DOMAIN Minimal(d) = Names(d)
  BY DEF Minimal
<1>3. ASSUME NEW p \in Names(d)
      PROVE  Minimal(d)[p] \in Share /\ ShareWithin(Minimal(d)[p])
  <2>1. Minimal(d)[p] = [min |-> Entry(d, p).min, max |-> Entry(d, p).max,
                         current |-> Entry(d, p).min, action |-> "none"]
    BY DEF Minimal
  <2>. QED BY <1>1, <2>1, ConstantsType DEF PoolEntry, Share, ShareWithin
<1>4. Minimal(d) \in [Names(d) -> Share]
  BY <1>2, <1>3 DEF Minimal
<1>. QED BY <1>2, <1>3, <1>4, ConstantsType, WithinShares DEF IsAllocation

\* What changes of a share when it is scaled: its size, never its reservation.
LEMMA ScaledType ==
  ASSUME NEW s \in Share, NEW action \in {"none", "up", "down"}, NEW current \in Nat
  PROVE  /\ Scaled(s, action, current) \in Share
         /\ Scaled(s, action, current).min = s.min
         /\ Scaled(s, action, current).max = s.max
         /\ Scaled(s, action, current).current = current
BY DEF Scaled, Share

\* The parts of a share are natural numbers.
LEMMA ShareType ==
  ASSUME NEW s \in Share
  PROVE  s.min \in Nat /\ s.max \in Nat /\ s.current \in Nat
BY ConstantsType DEF Share

\* A share that is squeezed keeps to its reservation.
LEMMA SqueezedType ==
  ASSUME NEW s \in Share, ShareWithin(s), NEW missing \in Int, missing > 0
  PROVE  Squeezed(s, missing) \in Share /\ ShareWithin(Squeezed(s, missing))
<1>. DEFINE c == IF s.current - missing >= s.min THEN s.current - missing ELSE s.min
<1>1. s.min \in Nat /\ s.max \in Nat /\ s.current \in Nat
  BY ShareType
<1>2. CASE s.current <= s.min
  BY <1>2 DEF Squeezed
<1>3. CASE s.current > s.min
  <2>1. c \in Nat /\ s.min <= c /\ c <= s.current
    BY <1>1, <1>3
  <2>2. Squeezed(s, missing) = Scaled(s, "down", c)
    BY <1>1, <1>3 DEF Squeezed
  <2>. HIDE DEF c
  <2>3. /\ Scaled(s, "down", c) \in Share /\ Scaled(s, "down", c).min = s.min
        /\ Scaled(s, "down", c).max = s.max /\ Scaled(s, "down", c).current = c
    BY <2>1, ScaledType
  <2>. QED BY <1>1, <1>3, <2>1, <2>2, <2>3 DEF ShareWithin
<1>. QED BY <1>1, <1>2, <1>3

\* Making room squeezes lower pools only.
LEMMA MakeRoomType ==
  ASSUME NEW a, IsAllocation(a), Within(a), NEW lower, NEW missing \in Int
  PROVE  LET b == MakeRoom(a, lower, missing)
         IN  /\ IsAllocation(b) /\ Within(b) /\ DOMAIN b = DOMAIN a
             /\ \A q \in DOMAIN a : q \notin lower => b[q] = a[q]
<1>. DEFINE b == MakeRoom(a, lower, missing)
<1>1. DOMAIN b = DOMAIN a /\ \A q \in DOMAIN a : q \notin lower => b[q] = a[q]
  BY DEF MakeRoom
<1>2. ASSUME NEW q \in DOMAIN a PROVE b[q] \in Share /\ ShareWithin(b[q])
  <2>1. a[q] \in Share /\ ShareWithin(a[q])
    BY WithinShares DEF IsAllocation
  <2>2. b[q] = IF missing > 0 /\ q \in lower THEN Squeezed(a[q], missing) ELSE a[q]
    BY DEF MakeRoom
  <2>. QED BY <2>1, <2>2, SqueezedType
<1>3. b \in [DOMAIN a -> Share]
  BY <1>1, <1>2 DEF MakeRoom
<1>. QED BY <1>1, <1>2, <1>3, WithinShares DEF IsAllocation

\* Growing keeps a share within its maximum, because no more than the wanted is added,
\* and the wanted is at most what is left up to the maximum.
LEMMA GrownType ==
  ASSUME NEW a, IsAllocation(a), Within(a), NEW p \in DOMAIN a, NEW wanted \in Nat,
         wanted <= a[p].max - a[p].current
  PROVE  LET b == Grown(a, p, wanted)
         IN  IsAllocation(b) /\ Within(b) /\ DOMAIN b = DOMAIN a
<1>. DEFINE room == Room(a, wanted)
            most == CHOOSE e \in room : \A f \in room : f <= e
            t == Scaled(a[p], "up", a[p].current + most)
<1>1. CASE room = {}
  BY <1>1 DEF Grown
<1>2. CASE room # {}
  <2>1. room \subseteq 1..wanted
    BY DEF Room
  <2>2. most \in 1..wanted
    <3>1. \E e \in room : \A f \in room : f <= e
      <4>. HIDE DEF room
      <4>. QED BY <1>2, <2>1, Largest
    <3>2. most \in room
      BY <3>1
    <3>. QED BY <2>1, <3>2
  <2>3. a[p] \in Share /\ ShareWithin(a[p])
    BY WithinShares DEF IsAllocation
  <2>4. t \in Share /\ ShareWithin(t)
    <3>. HIDE DEF most
    <3>1. a[p].min \in Nat /\ a[p].max \in Nat /\ a[p].current \in Nat
      BY <2>3, ShareType
    <3>2. a[p].current + most \in Nat
      BY <2>2, <3>1
    <3>3. t \in Share /\ t.min = a[p].min /\ t.max = a[p].max /\ t.current = a[p].current + most
      BY <2>3, <3>2, ScaledType
    <3>. HIDE DEF t
    <3>. QED BY <2>2, <2>3, <3>1, <3>3 DEF ShareWithin
  <2>5. Grown(a, p, wanted) = [a EXCEPT ![p] = t]
    BY <1>2 DEF Grown
  <2>6. DOMAIN Grown(a, p, wanted) = DOMAIN a
    BY <2>5
  <2>7. \A q \in DOMAIN a : Grown(a, p, wanted)[q] = IF q = p THEN t ELSE a[q]
    BY <2>5
  <2>. HIDE DEF t
  <2>8. Grown(a, p, wanted) \in [DOMAIN a -> Share]
    BY <2>4, <2>5 DEF IsAllocation
  <2>9. Within(Grown(a, p, wanted))
    BY <2>4, <2>6, <2>7, WithinShares
  <2>. QED BY <2>6, <2>8, <2>9 DEF IsAllocation
<1>. QED BY <1>1, <1>2

\* Scaling up, with or without making room, keeps every reservation.
LEMMA ScaledUpType ==
  ASSUME NEW a, IsAllocation(a), Within(a), NEW d, NEW n \in DOMAIN d,
         d[n].name \in DOMAIN a, d[n].name \notin Lower(d, n),
         NEW w \in Nat, NEW free \in Int
  PROVE  LET b == ScaledUp(a, d, n, w, free)
         IN  IsAllocation(b) /\ Within(b) /\ DOMAIN b = DOMAIN a
<1>. DEFINE p == d[n].name
            wanted == Wanted(a[p], w)
            b == MakeRoom(a, Lower(d, n), wanted - free)
<1>1. CASE ~WantsMore(a[p], w)
  BY <1>1 DEF ScaledUp
<1>2. CASE WantsMore(a[p], w)
  <2>1. a[p] \in Share
    BY DEF IsAllocation
  <2>2. wanted \in Nat /\ wanted <= a[p].max - a[p].current
    BY <1>2, <2>1, ConstantsType DEF WantsMore, Wanted, Share
  <2>. HIDE DEF wanted
  <2>3. /\ IsAllocation(b) /\ Within(b) /\ DOMAIN b = DOMAIN a
        /\ b[p] = a[p]
    BY <2>2, MakeRoomType
  <2>. HIDE DEF b
  <2>4. LET c == Grown(b, p, wanted) IN IsAllocation(c) /\ Within(c) /\ DOMAIN c = DOMAIN a
    BY <2>2, <2>3, GrownType
  <2>. QED BY <1>2, <2>4 DEF ScaledUp, wanted, b
<1>. QED BY <1>1, <1>2

\* A share that is scaled down keeps to its reservation.
LEMMA ScaledDownType ==
  ASSUME NEW s \in Share, NEW w \in Nat
  PROVE  ScaledDown(s, w) \in Share /\ ShareWithin(ScaledDown(s, w))
<1>. DEFINE use == IF w > s.max THEN 0 ELSE w
            c == IF use >= s.min THEN use ELSE s.min
<1>1. s.min \in Nat /\ s.max \in Nat /\ s.current \in Nat
  BY ShareType
<1>2. c \in Nat /\ s.min <= c /\ (c <= s.max \/ c = s.min)
  BY <1>1
<1>3. ScaledDown(s, w) = Scaled(s, "down", c)
  BY DEF ScaledDown
<1>. HIDE DEF c
<1>4. /\ Scaled(s, "down", c) \in Share /\ Scaled(s, "down", c).min = s.min
      /\ Scaled(s, "down", c).max = s.max /\ Scaled(s, "down", c).current = c
  BY <1>2, ScaledType
<1>. QED BY <1>2, <1>3, <1>4 DEF ShareWithin
\* A rank's own pool is not among those of lower priority: the names are distinct.
LEMMA OwnPool ==
  ASSUME NEW d \in Definitions, NEW n \in DOMAIN d
  PROVE  d[n].name \in Names(d) /\ d[n].name \notin Lower(d, n)
<1>1. DOMAIN d \subseteq Nat
  BY ConstantsType
<1>2. \A m \in DOMAIN d : d[m].name = d[n].name => m = n
  BY ScalingAssumption
<1>. QED BY <1>1, <1>2 DEF Names, Lower

-----------------------------------------------------------------------------
(* The inductive invariant.                                                *)

\* A request that has read a definition holds one of those that may be saved, and one
\* that scales has a share for each of its pools.
Holds(g) ==
  /\ g.step # "idle" => g.definition \in Definitions
  /\ g.step = "scaling" => Names(g.definition) \subseteq DOMAIN g.allocation

HeldAllocation == \A r \in Request : Holds(gate[r])

Inv == TypeOK /\ HeldAllocation /\ WithinReservations

\* What is said of one request.
GateOK(g) == IsGateState(g) /\ Holds(g) /\ Within(g.allocation)

\* The invariant, request by request.
LEMMA InvGates ==
  Inv <=> /\ definition \in Definitions
          /\ IsAllocation(stored) /\ age \in 0..(Lifetime - 1)
          /\ redefinitions \in Nat /\ Within(stored)
          /\ DOMAIN gate = Request /\ \A r \in Request : GateOK(gate[r])
BY DEF Inv, TypeOK, HeldAllocation, WithinReservations, GateOK

\* An idle request satisfies it.
LEMMA IdleOK == GateOK(Idle)
BY NoAllocationType DEF GateOK, IsGateState, Holds, Idle, At

\* A step that changes what one request holds, and nothing else.
LEMMA GateStep ==
  ASSUME Inv, NEW r \in Request, NEW g, GateOK(g), gate' = [gate EXCEPT ![r] = g],
         UNCHANGED <<definition, stored, age, redefinitions>>
  PROVE  Inv'
<1>1. DOMAIN gate' = Request /\ \A q \in Request : GateOK(gate'[q])
  BY InvGates
<1>. QED BY <1>1, InvGates DEF Inv, TypeOK, HeldAllocation, WithinReservations, GateOK

\* Reading the stored allocation.
LEMMA ReadAllocationStep ==
  ASSUME Inv, NEW r \in Request, ReadAllocation(r)
  PROVE  Inv'
<1>. DEFINE d == gate[r].definition
            a == IF stored = NoAllocation THEN Minimal(d) ELSE stored
<1>1. d \in Definitions
  BY InvGates DEF GateOK, Holds, ReadAllocation
<1>2. IsAllocation(a) /\ Within(a)
  BY <1>1, InvGates, MinimalType
<1>3. CASE Names(d) \subseteq DOMAIN a
  <2>1. PICK total \in Totals :
          gate' = [gate EXCEPT ![r] = At("scaling", d, a, Whole - total, 1)]
    BY <1>3 DEF ReadAllocation
  <2>. HIDE DEF a, d
  <2>2. Whole - total \in Int
    BY ConstantsType, ScalingAssumption, FS_CardinalityType DEF Totals
  <2>. DEFINE g == At("scaling", d, a, Whole - total, 1)
  <2>3. GateOK(g)
    BY <1>1, <1>2, <1>3, <2>2 DEF GateOK, IsGateState, Holds, At
  <2>. HIDE DEF g
  <2>4. gate' = [gate EXCEPT ![r] = g]
    BY <2>1 DEF g
  <2>5. UNCHANGED <<definition, stored, age, redefinitions>>
    BY DEF ReadAllocation
  <2>. QED BY <2>3, <2>4, <2>5, GateStep
<1>4. CASE ~(Names(d) \subseteq DOMAIN a)
  BY <1>4, IdleOK, GateStep DEF ReadAllocation, Done
<1>. QED BY <1>3, <1>4

\* Scaling one pool.
LEMMA ScaleRankStep ==
  ASSUME Inv, NEW r \in Request, NEW w \in Usage, NEW cooled \in BOOLEAN,
         ScaleRank(r, w, cooled)
  PROVE  Inv'
<1>. DEFINE g == gate[r]
            p == g.definition[g.rank].name
            up == ScaledUp(g.allocation, g.definition, g.rank, w, g.free)
            falls == /\ up[p] = g.allocation[p] /\ cooled
                     /\ up[p].current > w /\ up[p].current > up[p].min /\ up[p].action = "up"
            a == IF falls THEN [up EXCEPT ![p] = ScaledDown(@, w)] ELSE up
<1>1. /\ g.step = "scaling" /\ g.rank \in DOMAIN g.definition
      /\ gate' = [gate EXCEPT ![r] = At("scaling", g.definition, a, g.free, g.rank + 1)]
      /\ UNCHANGED <<definition, stored, age, redefinitions>>
  BY DEF ScaleRank
<1>2. GateOK(g)
  BY InvGates
<1>3. g.definition \in Definitions /\ Names(g.definition) \subseteq DOMAIN g.allocation
  BY <1>1, <1>2 DEF GateOK, Holds
<1>4. p \in DOMAIN g.allocation /\ p \notin Lower(g.definition, g.rank)
  BY <1>1, <1>3, OwnPool
<1>5. IsAllocation(up) /\ Within(up) /\ DOMAIN up = DOMAIN g.allocation
  <2>1. IsAllocation(g.allocation) /\ Within(g.allocation) /\ g.free \in Int /\ w \in Nat
    BY <1>2, ConstantsType DEF GateOK, IsGateState
  <2>. DEFINE d == g.definition
              n == g.rank
              b == g.allocation
              free == g.free
  <2>2. /\ IsAllocation(b) /\ Within(b) /\ free \in Int /\ w \in Nat /\ n \in DOMAIN d
        /\ d[n].name \in DOMAIN b /\ d[n].name \notin Lower(d, n)
        /\ up = ScaledUp(b, d, n, w, free)
    BY <1>1, <1>4, <2>1
  <2>. HIDE DEF g, p, up, d, n, b, free
  <2>3. IsAllocation(up) /\ Within(up) /\ DOMAIN up = DOMAIN b
    BY <2>2, ScaledUpType
  <2>. QED BY <2>3 DEF b
<1>6. IsAllocation(a) /\ Within(a) /\ DOMAIN a = DOMAIN g.allocation
  <2>. HIDE DEF up, p
  <2>1. CASE ~falls
    BY <1>5, <2>1
  <2>2. CASE falls
    <3>. DEFINE t == ScaledDown(up[p], w)
    <3>1. t \in Share /\ ShareWithin(t)
      BY <1>4, <1>5, ConstantsType, ScaledDownType DEF IsAllocation
    <3>2. a = [up EXCEPT ![p] = t]
      BY <2>2
    <3>. HIDE DEF t, a
    <3>3. DOMAIN a = DOMAIN up /\ \A q \in DOMAIN up : a[q] = IF q = p THEN t ELSE up[q]
      BY <3>2
    <3>4. a \in [DOMAIN up -> Share]
      BY <1>5, <3>1, <3>2 DEF IsAllocation
    <3>5. Within(a)
      BY <1>5, <3>1, <3>3, WithinShares
    <3>. QED BY <1>5, <3>3, <3>4, <3>5 DEF IsAllocation
  <2>. QED BY <2>1, <2>2
<1>. HIDE DEF a
<1>. DEFINE h == At("scaling", g.definition, a, g.free, g.rank + 1)
<1>7. GateOK(h)
  <2>1. g.free \in Int /\ g.rank + 1 \in Nat
    BY <1>2 DEF GateOK, IsGateState
  <2>. HIDE DEF g
  <2>. QED BY <1>3, <1>6, <2>1 DEF GateOK, IsGateState, Holds, At
<1>. HIDE DEF h
<1>8. gate' = [gate EXCEPT ![r] = h]
  BY <1>1 DEF h
<1>. QED BY <1>1, <1>7, <1>8, GateStep

\* Deciding whether the request may pass.
LEMMA DecideStep ==
  ASSUME Inv, NEW r \in Request, NEW minute \in Usage, Decide(r, minute)
  PROVE  Inv'
<1>. DEFINE g == gate[r]
            h == At("write", g.definition, g.allocation, g.free, g.rank)
<1>1. GateOK(g) /\ g.step = "scaling"
  BY InvGates DEF Decide
<1>2. GateOK(h)
  <2>. HIDE DEF g
  <2>. QED BY <1>1 DEF GateOK, IsGateState, Holds, At
<1>3. /\ gate' = [gate EXCEPT ![r] = Idle] \/ gate' = [gate EXCEPT ![r] = h]
      /\ UNCHANGED <<definition, stored, age, redefinitions>>
  BY DEF Decide, Done
<1>. HIDE DEF h
<1>. QED BY <1>2, <1>3, IdleOK, GateStep

\* Every step of a request.
LEMMA ScaleStep ==
  ASSUME Inv, NEW r \in Request, Scale(r)
  PROVE  Inv'
<1>1. CASE ReadDefinition(r)
  <2>. DEFINE g == At("defined", definition, NoAllocation, 0, 0)
  <2>1. GateOK(g)
    BY NoAllocationType, InvGates DEF GateOK, IsGateState, Holds, At
  <2>. HIDE DEF g
  <2>2. gate' = [gate EXCEPT ![r] = g] /\ UNCHANGED <<definition, stored, age, redefinitions>>
    BY <1>1 DEF ReadDefinition, g
  <2>. QED BY <2>1, <2>2, GateStep
<1>2. CASE ReadAllocation(r)
  BY <1>2, ReadAllocationStep
<1>3. CASE \E w \in Usage : \E cooled \in BOOLEAN : ScaleRank(r, w, cooled)
  BY <1>3, ScaleRankStep
<1>4. CASE \E w \in Usage : Decide(r, w)
  BY <1>4, DecideStep
<1>5. CASE WriteAllocation(r)
  <2>1. GateOK(gate[r]) /\ age' = 0 /\ stored' = gate[r].allocation
        /\ gate' = [gate EXCEPT ![r] = Idle] /\ UNCHANGED <<definition, redefinitions>>
    BY <1>5, InvGates DEF WriteAllocation, Done
  <2>2. IsAllocation(stored') /\ Within(stored') /\ age' \in 0..(Lifetime - 1)
    BY <2>1, ConstantsType DEF GateOK, IsGateState
  <2>3. DOMAIN gate' = Request /\ \A q \in Request : GateOK(gate'[q])
    BY <2>1, IdleOK, InvGates
  <2>. QED BY <2>1, <2>2, <2>3, InvGates
           DEF Inv, TypeOK, HeldAllocation, WithinReservations, GateOK
<1>6. CASE Fails(r)
  BY <1>6, IdleOK, GateStep DEF Fails, Done
<1>. QED BY <1>1, <1>2, <1>3, <1>4, <1>5, <1>6 DEF Scale

\* The invariant holds at first,
LEMMA InvInit == Init => Inv
<1>. SUFFICES ASSUME Init PROVE Inv
  OBVIOUS
<1>1. DOMAIN gate = Request /\ \A r \in Request : GateOK(gate[r])
  BY IdleOK DEF Init
<1>. QED BY <1>1, NoAllocationType, ConstantsType, InvGates DEF Init

\* every step keeps it,
LEMMA InvNext == Inv /\ [Next]_vars => Inv'
<1>. SUFFICES ASSUME Inv, [Next]_vars PROVE Inv'
  OBVIOUS
<1>1. CASE Redefine
  BY <1>1 DEF Redefine, Inv, TypeOK, HeldAllocation, WithinReservations
<1>2. CASE Tick
  <2>1. IsAllocation(stored') /\ Within(stored') /\ age' \in 0..(Lifetime - 1)
    BY <1>2, NoAllocationType, ConstantsType, InvGates DEF Tick
  <2>2. UNCHANGED <<definition, gate, redefinitions>>
    BY <1>2 DEF Tick
  <2>. QED BY <2>1, <2>2 DEF Inv, TypeOK, HeldAllocation, WithinReservations
<1>3. CASE \E r \in Request : Scale(r)
  BY <1>3, ScaleStep
<1>4. CASE UNCHANGED vars
  BY <1>4 DEF vars, Inv, TypeOK, HeldAllocation, WithinReservations
<1>. QED BY <1>1, <1>2, <1>3, <1>4 DEF Next

\* and it always holds.
LEMMA Invariance == Spec => []Inv
BY InvInit, InvNext, PTL DEF Spec

\* Every state is typed: no reservation or current share of any allocation is negative,
\* and the stored allocation and its age agree with the expiry.
THEOREM TypeCorrect == Spec => []TypeOK
<1>1. Inv => TypeOK
  BY DEF Inv
<1>. QED BY <1>1, Invariance, PTL

\* However many requests scale and write over each other, whatever the metrics show and
\* however often the pools are redefined, no share of an allocation leaves its own
\* reservation.
THEOREM ReservationsKept == Spec => []WithinReservations
<1>1. Inv => WithinReservations
  BY DEF Inv
<1>. QED BY <1>1, Invariance, PTL

-----------------------------------------------------------------------------
(* The total of an allocation.                                             *)

\* The units a pool has, one by one.
LEMMA GivenUnits ==
  ASSUME NEW a, NEW u
  PROVE  u \in Given(a) <=> \E p \in DOMAIN a : \E i \in 1..a[p].current : u = <<p, i>>
<1>1. u \in Given(a) <=> \E p \in DOMAIN a : u \in {p} \X (1..a[p].current)
  BY DEF Given
<1>2. \A p \in DOMAIN a :
        u \in {p} \X (1..a[p].current) <=> \E i \in 1..a[p].current : u = <<p, i>>
  OBVIOUS
<1>. QED BY <1>1, <1>2

\* They are finitely many.
LEMMA GivenFinite ==
  ASSUME NEW a, IsAllocation(a)
  PROVE  IsFiniteSet(Given(a)) /\ Total(a) \in Nat
<1>. DEFINE f == [p \in DOMAIN a |-> {p} \X (1..a[p].current)]
            T == {{p} \X (1..a[p].current) : p \in DOMAIN a}
<1>1. IsFiniteSet(DOMAIN a)
  BY ScalingAssumption, FS_Subset DEF IsAllocation
<1>2. f \in Surjection(DOMAIN a, T)
  BY DEF Surjection
<1>3. IsFiniteSet(T)
  BY <1>1, <1>2, FS_Surjection
<1>4. ASSUME NEW p \in DOMAIN a PROVE IsFiniteSet({p} \X (1..a[p].current))
  <2>1. a[p].current \in Int /\ 1 \in Int
    BY ShareType DEF IsAllocation
  <2>2. IsFiniteSet(1..a[p].current)
    BY <2>1, FS_Interval
  <2>3. IsFiniteSet({p})
    BY FS_Singleton
  <2>. QED BY <2>2, <2>3, FS_Product
<1>5. IsFiniteSet(UNION T)
  <2>1. \A S \in T : IsFiniteSet(S)
    BY <1>4
  <2>. HIDE DEF T
  <2>. QED BY <1>3, <2>1, FS_UNION
<1>6. IsFiniteSet(Given(a))
  BY <1>5 DEF Given
<1>. QED BY <1>6, FS_CardinalityType DEF Total

\* An allocation none of whose shares is larger has no larger total.
LEMMA GivesLess ==
  ASSUME NEW a, IsAllocation(a), NEW b, IsAllocation(b), DOMAIN b = DOMAIN a,
         \A p \in DOMAIN a : b[p].current <= a[p].current
  PROVE  Total(b) <= Total(a)
<1>1. Given(b) \in SUBSET Given(a)
  <2>. SUFFICES ASSUME NEW u \in Given(b) PROVE u \in Given(a)
    OBVIOUS
  <2>1. PICK p \in DOMAIN a : \E i \in 1..b[p].current : u = <<p, i>>
    BY GivenUnits
  <2>2. a[p].current \in Nat /\ b[p].current \in Nat /\ b[p].current <= a[p].current
    BY ShareType DEF IsAllocation
  <2>3. \E i \in 1..a[p].current : u = <<p, i>>
    BY <2>1, <2>2
  <2>. QED BY <2>3, GivenUnits
<1>2. IsFiniteSet(Given(a))
  BY GivenFinite
<1>. QED BY <1>1, <1>2, FS_Subset DEF Total

\* A share that is larger by e makes the total larger by e.
LEMMA GivesMore ==
  ASSUME NEW a, IsAllocation(a), NEW b, IsAllocation(b), DOMAIN b = DOMAIN a,
         NEW p \in DOMAIN a, NEW e \in Nat, b[p].current = a[p].current + e,
         \A q \in DOMAIN a : q # p => b[q].current = a[q].current
  PROVE  Total(b) = Total(a) + e
<1>. DEFINE c == a[p].current
            M == (c + 1)..(c + e)
            N == {p} \X M
<1>1. c \in Nat
  BY ShareType DEF IsAllocation
<1>2. IsFiniteSet(N) /\ Cardinality(N) = e
  <2>1. c + 1 \in Int /\ c + e \in Int
    BY <1>1
  <2>2. IsFiniteSet(M) /\ Cardinality(M) = IF c + 1 > c + e THEN 0 ELSE (c + e) - (c + 1) + 1
    BY <2>1, FS_Interval
  <2>3. Cardinality(M) = e
    BY <1>1, <2>2
  <2>4. IsFiniteSet({p}) /\ Cardinality({p}) = 1
    BY FS_Singleton
  <2>5. IsFiniteSet(N) /\ Cardinality(N) = 1 * Cardinality(M)
    BY <2>2, <2>4, FS_Product
  <2>. HIDE DEF N, M
  <2>. QED BY <2>3, <2>5
<1>3. \A u : u \in N <=> \E i \in M : u = <<p, i>>
  OBVIOUS
<1>4. \A i : i \in 1..(c + e) <=> i \in 1..c \/ i \in M
  BY <1>1
<1>5. \A i : ~(i \in 1..c /\ i \in M)
  BY <1>1
<1>. HIDE DEF N, M
<1>6. Given(b) = Given(a) \cup N
  <2>1. ASSUME NEW u, u \in Given(b) PROVE u \in Given(a) \/ u \in N
    <3>1. PICK q \in DOMAIN a : \E i \in 1..b[q].current : u = <<q, i>>
      BY <2>1, GivenUnits
    <3>2. CASE q = p
      BY <1>3, <1>4, <3>1, <3>2, GivenUnits
    <3>3. CASE q # p
      BY <3>1, <3>3, GivenUnits
    <3>. QED BY <3>2, <3>3
  <2>2. ASSUME NEW u, u \in Given(a) PROVE u \in Given(b)
    <3>1. PICK q \in DOMAIN a : \E i \in 1..a[q].current : u = <<q, i>>
      BY <2>2, GivenUnits
    <3>2. CASE q = p
      BY <1>4, <3>1, <3>2, GivenUnits
    <3>3. CASE q # p
      BY <3>1, <3>3, GivenUnits
    <3>. QED BY <3>2, <3>3
  <2>3. ASSUME NEW u, u \in N PROVE u \in Given(b)
    BY <1>3, <1>4, <2>3, GivenUnits
  <2>. QED BY <2>1, <2>2, <2>3
<1>7. Given(a) \cap N = {}
  <2>. SUFFICES ASSUME NEW u, u \in Given(a), u \in N PROVE FALSE
    OBVIOUS
  <2>1. PICK i \in M : u = <<p, i>>
    BY <1>3
  <2>2. PICK q \in DOMAIN a : \E j \in 1..a[q].current : u = <<q, j>>
    BY GivenUnits
  <2>3. PICK j \in 1..a[q].current : u = <<q, j>>
    BY <2>2
  <2>4. q = p /\ j = i
    BY <2>1, <2>3
  <2>. QED BY <1>5, <2>1, <2>3, <2>4
<1>8. IsFiniteSet(Given(a)) /\ Total(a) \in Nat
  BY GivenFinite
<1>9. Cardinality(Given(b)) = Cardinality(Given(a)) + Cardinality(N) - Cardinality(Given(a) \cap N)
  BY <1>2, <1>6, <1>8, FS_Union
<1>10. Cardinality(Given(a) \cap N) = 0
  BY <1>7, FS_EmptySet
<1>. QED BY <1>2, <1>8, <1>9, <1>10 DEF Total

\* The sum of the minima depends on them only.
LEMMA SameMinima ==
  ASSUME NEW a, NEW b, DOMAIN b = DOMAIN a, \A p \in DOMAIN a : b[p].min = a[p].min
  PROVE  Minima(b) = Minima(a)
<1>1. \A u : u \in UNION {{p} \X (1..b[p].min) : p \in DOMAIN b} <=>
             u \in UNION {{p} \X (1..a[p].min) : p \in DOMAIN a}
  OBVIOUS
<1>. QED BY <1>1 DEF Minima

\* The total keeps within the whole, when the minima do.
Fits(a) == Minima(a) <= Whole => Total(a) <= Whole

\* An allocation with the same minima and no larger share keeps within the whole.
LEMMA FitsLess ==
  ASSUME NEW a, IsAllocation(a), Fits(a), NEW b, IsAllocation(b), DOMAIN b = DOMAIN a,
         \A p \in DOMAIN a : b[p].min = a[p].min /\ b[p].current <= a[p].current
  PROVE  Fits(b)
<1>1. Minima(b) = Minima(a) /\ Total(b) <= Total(a)
  BY SameMinima, GivesLess
<1>2. Total(a) \in Nat /\ Total(b) \in Nat /\ Whole \in Nat
  BY GivenFinite, ConstantsType
<1>. QED BY <1>1, <1>2 DEF Fits

\* The minimal allocation has no more than its minima, and the empty one nothing.
LEMMA FitsAtFirst ==
  /\ Fits(NoAllocation)
  /\ \A d \in Definitions : Fits(Minimal(d))
<1>1. Fits(NoAllocation)
  <2>1. \A u : u \notin Given(NoAllocation)
    BY GivenUnits DEF NoAllocation
  <2>2. Given(NoAllocation) = {}
    BY <2>1
  <2>. QED BY <2>2, FS_EmptySet, ConstantsType DEF Fits, Total
<1>2. ASSUME NEW d \in Definitions PROVE Total(Minimal(d)) = Minima(Minimal(d))
  <2>1. \A p \in DOMAIN Minimal(d) : Minimal(d)[p].current = Minimal(d)[p].min
    BY DEF Minimal
  <2>2. \A u : u \in UNION {{p} \X (1..Minimal(d)[p].current) : p \in DOMAIN Minimal(d)} <=>
               u \in UNION {{p} \X (1..Minimal(d)[p].min) : p \in DOMAIN Minimal(d)}
    BY <2>1
  <2>. QED BY <2>2 DEF Total, Given, Minima
<1>. QED BY <1>1, <1>2 DEF Fits

\* Making room only takes.
LEMMA MakeRoomFits ==
  ASSUME NEW a, IsAllocation(a), Within(a), Fits(a), NEW lower, NEW missing \in Int
  PROVE  Fits(MakeRoom(a, lower, missing))
<1>. DEFINE b == MakeRoom(a, lower, missing)
<1>1. IsAllocation(b) /\ DOMAIN b = DOMAIN a
  BY MakeRoomType
<1>2. ASSUME NEW q \in DOMAIN a PROVE b[q].min = a[q].min /\ b[q].current <= a[q].current
  <2>. DEFINE s == a[q]
              c == IF s.current - missing >= s.min THEN s.current - missing ELSE s.min
  <2>1. s \in Share /\ s.min \in Nat /\ s.current \in Nat
    BY ShareType DEF IsAllocation
  <2>2. CASE b[q] = s
    BY <2>1, <2>2
  <2>3. CASE missing > 0 /\ b[q] = Squeezed(s, missing) /\ s.current > s.min
    <3>1. c \in Nat /\ c <= s.current
      BY <2>1, <2>3
    <3>2. b[q] = Scaled(s, "down", c)
      BY <2>1, <2>3 DEF Squeezed
    <3>. HIDE DEF c, b
    <3>3. Scaled(s, "down", c).min = s.min /\ Scaled(s, "down", c).current = c
      BY <2>1, <3>1, ScaledType
    <3>. QED BY <3>1, <3>2, <3>3
  <2>4. b[q] = IF missing > 0 /\ q \in lower THEN Squeezed(s, missing) ELSE s
    BY DEF MakeRoom
  <2>5. s.current <= s.min => Squeezed(s, missing) = s
    BY DEF Squeezed
  <2>6. s.current <= s.min \/ s.current > s.min
    BY <2>1
  <2>. HIDE DEF s, b
  <2>. QED BY <2>2, <2>3, <2>4, <2>5, <2>6
<1>. HIDE DEF b
<1>3. Fits(b)
  BY <1>1, <1>2, FitsLess
<1>. QED BY <1>3 DEF b

\* Growing takes what is left of the whole, at most.
LEMMA GrownFits ==
  ASSUME NEW a, IsAllocation(a), Within(a), Fits(a), NEW p \in DOMAIN a, NEW wanted \in Nat,
         wanted <= a[p].max - a[p].current
  PROVE  Fits(Grown(a, p, wanted))
<1>. DEFINE room == Room(a, wanted)
            most == CHOOSE e \in room : \A f \in room : f <= e
            b == Grown(a, p, wanted)
            t == Scaled(a[p], "up", a[p].current + most)
<1>1. CASE room = {}
  BY <1>1 DEF Grown
<1>2. CASE room # {}
  <2>1. room \subseteq 1..wanted /\ \A e \in room : Total(a) + e <= Whole
    BY DEF Room
  <2>2. \E e \in room : \A f \in room : f <= e
    <3>. HIDE DEF room
    <3>. QED BY <1>2, <2>1, Largest
  <2>3. most \in Nat /\ Total(a) + most <= Whole
    <3>1. most \in room
      BY <2>2
    <3>. HIDE DEF most, room
    <3>. QED BY <2>1, <3>1
  <2>4. b = [a EXCEPT ![p] = t]
    BY <1>2 DEF Grown
  <2>5. IsAllocation(b) /\ DOMAIN b = DOMAIN a
    BY GrownType
  <2>6. a[p] \in Share /\ a[p].current \in Nat
    BY ShareType DEF IsAllocation
  <2>7. t.min = a[p].min /\ t.current = a[p].current + most
    <3>. HIDE DEF most
    <3>1. a[p].current + most \in Nat
      BY <2>3, <2>6
    <3>. QED BY <2>6, <3>1, ScaledType
  <2>. HIDE DEF most, t, b
  <2>8. /\ b[p].current = a[p].current + most
        /\ \A q \in DOMAIN a : q # p => b[q].current = a[q].current
        /\ \A q \in DOMAIN a : b[q].min = a[q].min
    BY <2>4, <2>5, <2>7
  <2>9. Total(b) = Total(a) + most
    BY <2>3, <2>5, <2>8, GivesMore
  <2>10. Total(b) <= Whole
    BY <2>3, <2>9
  <2>. QED BY <2>10 DEF Fits, b
<1>. QED BY <1>1, <1>2

\* So does scaling up, which makes room first.
LEMMA ScaledUpFits ==
  ASSUME NEW a, IsAllocation(a), Within(a), Fits(a), NEW d, NEW n \in DOMAIN d,
         d[n].name \in DOMAIN a, d[n].name \notin Lower(d, n),
         NEW w \in Nat, NEW free \in Int
  PROVE  Fits(ScaledUp(a, d, n, w, free))
<1>. DEFINE p == d[n].name
            wanted == Wanted(a[p], w)
            b == MakeRoom(a, Lower(d, n), wanted - free)
<1>1. CASE ~WantsMore(a[p], w)
  BY <1>1 DEF ScaledUp
<1>2. CASE WantsMore(a[p], w)
  <2>1. a[p] \in Share
    BY DEF IsAllocation
  <2>2. wanted \in Nat /\ wanted <= a[p].max - a[p].current
    BY <1>2, <2>1, ConstantsType DEF WantsMore, Wanted, Share
  <2>. HIDE DEF wanted
  <2>3. wanted - free \in Int
    BY <2>2
  <2>4. IsAllocation(b) /\ Within(b) /\ DOMAIN b = DOMAIN a /\ b[p] = a[p] /\ Fits(b)
    BY <2>3, MakeRoomType, MakeRoomFits
  <2>. HIDE DEF b
  <2>5. Fits(Grown(b, p, wanted))
    BY <2>2, <2>4, GrownFits
  <2>. QED BY <1>2, <2>5 DEF ScaledUp, wanted, b
<1>. QED BY <1>1, <1>2

\* A share that falls back to what its pool uses does not become larger.
LEMMA ScaledDownLess ==
  ASSUME NEW s \in Share, NEW w \in Nat, s.current > w, s.current > s.min
  PROVE  ScaledDown(s, w).min = s.min /\ ScaledDown(s, w).current <= s.current
<1>. DEFINE use == IF w > s.max THEN 0 ELSE w
            c == IF use >= s.min THEN use ELSE s.min
<1>1. s.min \in Nat /\ s.max \in Nat /\ s.current \in Nat
  BY ShareType
<1>2. c \in Nat /\ c <= s.current
  BY <1>1
<1>3. ScaledDown(s, w) = Scaled(s, "down", c)
  BY DEF ScaledDown
<1>. HIDE DEF c
<1>4. Scaled(s, "down", c).min = s.min /\ Scaled(s, "down", c).current = c
  BY <1>2, ScaledType
<1>. QED BY <1>2, <1>3, <1>4

\* Every allocation keeps within the whole.
AllFit == Fits(stored) /\ \A r \in Request : Fits(gate[r].allocation)

\* A request that has scaled a rank holds an allocation that keeps within the whole.
LEMMA ScaleRankFits ==
  ASSUME Inv, AllFit, NEW r \in Request, NEW w \in Usage, NEW cooled \in BOOLEAN,
         ScaleRank(r, w, cooled)
  PROVE  \E g : gate' = [gate EXCEPT ![r] = g] /\ Fits(g.allocation)
<1>. DEFINE g == gate[r]
            d == g.definition
            n == g.rank
            b == g.allocation
            p == d[n].name
            up == ScaledUp(b, d, n, w, g.free)
            falls == /\ up[p] = b[p] /\ cooled
                     /\ up[p].current > w /\ up[p].current > up[p].min /\ up[p].action = "up"
            a == IF falls THEN [up EXCEPT ![p] = ScaledDown(@, w)] ELSE up
            h == At("scaling", d, a, g.free, n + 1)
<1>1. gate' = [gate EXCEPT ![r] = h] /\ g.step = "scaling" /\ n \in DOMAIN d
  BY DEF ScaleRank
<1>2. h.allocation = a
  BY DEF At
<1>3. /\ IsAllocation(b) /\ Within(b) /\ g.free \in Int /\ w \in Nat /\ Fits(b)
      /\ p \in DOMAIN b /\ p \notin Lower(d, n)
  <2>1. GateOK(g)
    BY InvGates
  <2>2. IsAllocation(b) /\ Within(b) /\ g.free \in Int /\ w \in Nat /\ Fits(b)
    BY <2>1, ConstantsType DEF GateOK, IsGateState, AllFit
  <2>3. d \in Definitions /\ Names(d) \subseteq DOMAIN b
    BY <1>1, <2>1 DEF GateOK, Holds
  <2>4. p \in Names(d) /\ p \notin Lower(d, n)
    BY <1>1, <2>3, OwnPool
  <2>. QED BY <2>2, <2>3, <2>4
<1>. DEFINE free == g.free
<1>4. IsAllocation(up) /\ DOMAIN up = DOMAIN b /\ Fits(up)
  <2>1. up = ScaledUp(b, d, n, w, free) /\ free \in Int /\ p = d[n].name
    BY <1>3
  <2>. HIDE DEF g, d, n, b, up, free, p
  <2>. QED BY <1>1, <1>3, <2>1, ScaledUpType, ScaledUpFits
<1>. HIDE DEF h, up, p, b, d, n, g
<1>5. Fits(a)
  <2>1. CASE ~falls
    BY <1>4, <2>1
  <2>2. CASE falls
    <3>. DEFINE t == ScaledDown(up[p], w)
    <3>1. up[p] \in Share /\ up[p].current > w /\ up[p].current > up[p].min
      BY <1>3, <1>4, <2>2 DEF IsAllocation
    <3>2. t \in Share /\ t.min = up[p].min /\ t.current <= up[p].current
      BY <1>3, <3>1, ScaledDownType, ScaledDownLess
    <3>3. a = [up EXCEPT ![p] = t]
      BY <2>2
    <3>. HIDE DEF t, a
    <3>4. DOMAIN a = DOMAIN up /\ \A q \in DOMAIN up : a[q] = IF q = p THEN t ELSE up[q]
      BY <3>3
    <3>5. IsAllocation(a)
      BY <1>4, <3>2, <3>3, <3>4 DEF IsAllocation
    <3>6. \A q \in DOMAIN up : up[q].current \in Nat
      BY <1>4, ShareType DEF IsAllocation
    <3>7. \A q \in DOMAIN up : a[q].min = up[q].min /\ a[q].current <= up[q].current
      BY <3>2, <3>4, <3>6
    <3>. QED BY <1>4, <3>4, <3>5, <3>7, FitsLess
  <2>. QED BY <2>1, <2>2
<1>. HIDE DEF a
<1>. QED BY <1>1, <1>2, <1>5

\* Every step keeps every allocation within the whole.
LEMMA NextFits ==
  ASSUME Inv, AllFit, [Next]_vars
  PROVE  AllFit'
<1>. DEFINE Moves(r) == \E g : gate' = [gate EXCEPT ![r] = g] /\ Fits(g.allocation)
<1>1. DOMAIN gate = Request
  BY DEF Inv, TypeOK
<1>2. ASSUME NEW r \in Request, Moves(r), UNCHANGED stored PROVE AllFit'
  <2>1. PICK g : gate' = [gate EXCEPT ![r] = g] /\ Fits(g.allocation)
    BY <1>2
  <2>2. \A q \in Request : gate'[q] = IF q = r THEN g ELSE gate[q]
    BY <1>1, <2>1
  <2>. QED BY <1>2, <2>1, <2>2 DEF AllFit, Fits
<1>3. Fits(Idle.allocation)
  BY FitsAtFirst DEF Idle, At
<1>4. ASSUME NEW r \in Request, Done(r) PROVE Moves(r)
  BY <1>3, <1>4 DEF Done
<1>5. ASSUME NEW r \in Request, Scale(r) PROVE AllFit'
  <2>1. CASE ReadDefinition(r)
    <3>. DEFINE g == At("defined", definition, NoAllocation, 0, 0)
    <3>1. Fits(g.allocation)
      BY FitsAtFirst DEF At
    <3>. HIDE DEF g
    <3>2. gate' = [gate EXCEPT ![r] = g] /\ UNCHANGED stored
      BY <2>1 DEF ReadDefinition, g
    <3>. QED BY <1>2, <3>1, <3>2
  <2>2. CASE ReadAllocation(r)
    <3>. DEFINE d == gate[r].definition
                a == IF stored = NoAllocation THEN Minimal(d) ELSE stored
    <3>1. d \in Definitions
      BY <2>2, InvGates DEF GateOK, Holds, ReadAllocation
    <3>2. Fits(a)
      BY <3>1, FitsAtFirst DEF AllFit
    <3>3. CASE Done(r)
      BY <1>2, <1>4, <2>2, <3>3 DEF ReadAllocation
    <3>4. CASE ~Done(r)
      <4>1. PICK total : gate' = [gate EXCEPT ![r] = At("scaling", d, a, Whole - total, 1)]
        BY <2>2, <3>4 DEF ReadAllocation
      <4>. DEFINE g == At("scaling", d, a, Whole - total, 1)
      <4>. HIDE DEF a
      <4>2. Fits(g.allocation)
        BY <3>2 DEF At
      <4>. HIDE DEF g
      <4>3. gate' = [gate EXCEPT ![r] = g] /\ UNCHANGED stored
        BY <2>2, <4>1 DEF ReadAllocation, g
      <4>. QED BY <1>2, <4>2, <4>3
    <3>. QED BY <3>3, <3>4
  <2>3. CASE \E w \in Usage : \E cooled \in BOOLEAN : ScaleRank(r, w, cooled)
    BY <1>2, <2>3, ScaleRankFits DEF ScaleRank
  <2>4. CASE \E minute \in Usage : Decide(r, minute)
    <3>1. CASE Done(r)
      BY <1>2, <1>4, <2>4, <3>1 DEF Decide
    <3>2. CASE ~Done(r)
      <4>. DEFINE g == At("write", gate[r].definition, gate[r].allocation,
                          gate[r].free, gate[r].rank)
      <4>1. Fits(g.allocation)
        BY DEF At, AllFit
      <4>2. gate' = [gate EXCEPT ![r] = g] /\ UNCHANGED stored
        BY <2>4, <3>2 DEF Decide
      <4>. HIDE DEF g
      <4>. QED BY <1>2, <4>1, <4>2
    <3>. QED BY <3>1, <3>2
  <2>5. CASE WriteAllocation(r)
    <3>1. stored' = gate[r].allocation /\ gate' = [gate EXCEPT ![r] = Idle]
      BY <2>5 DEF WriteAllocation, Done
    <3>2. \A q \in Request : gate'[q] = IF q = r THEN Idle ELSE gate[q]
      BY <1>1, <3>1
    <3>. QED BY <1>3, <3>1, <3>2 DEF AllFit, Fits
  <2>6. CASE Fails(r)
    BY <1>2, <1>4, <2>6 DEF Fails
  <2>. QED BY <1>5, <2>1, <2>2, <2>3, <2>4, <2>5, <2>6 DEF Scale
<1>6. CASE Redefine
  BY <1>6 DEF Redefine, AllFit, Fits
<1>7. CASE Tick
  <2>1. stored' = NoAllocation \/ stored' = stored
    BY <1>7 DEF Tick
  <2>2. gate' = gate
    BY <1>7 DEF Tick
  <2>. QED BY <2>1, <2>2, FitsAtFirst DEF AllFit, Fits
<1>8. CASE UNCHANGED vars
  BY <1>8 DEF vars, AllFit, Fits
<1>. QED BY <1>5, <1>6, <1>7, <1>8 DEF Next

\* What a request adds is free in the allocation it holds, however much other requests add to
\* theirs: since the allocation is written as a whole, no stored one, and none being scaled,
\* gives away more than the connection has, if its minima do not.
THEOREM TotalKept == Spec => []TotalWithinHundred
<1>1. Init => AllFit
  BY FitsAtFirst DEF Init, AllFit, Idle, At
<1>2. Inv /\ AllFit /\ [Next]_vars => AllFit'
  BY NextFits
<1>3. AllFit => TotalWithinHundred
  BY DEF AllFit, Fits, TotalWithinHundred
<1>. QED BY <1>1, <1>2, <1>3, Invariance, PTL DEF Spec
==============================================================================
