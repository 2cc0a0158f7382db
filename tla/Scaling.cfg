\* Two requests of two pools scale at once, and the pools are redefined under them.
CONSTANTS
  p1 = p1  p2 = p2  p3 = p3  r1 = r1  r2 = r2
  Request = {r1, r2}
  Pool = {p1, p2, p3}
  PoolOf <- Pools
  Definitions <- BothDefinitions
  Whole = 5
  MaxReservation = 5
  Usage = {0, 2, 5}
  Lifetime = 2
  MaxRedefinitions = 1
SPECIFICATION FairSpec
INVARIANTS
  TypeOK
  WithinReservations
  TotalWithinHundred
PROPERTIES
  RedefinitionTakesHold
  RecoversFromNewPool
