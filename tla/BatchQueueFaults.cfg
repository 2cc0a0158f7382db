\* One adverse event of any kind at any moment.
CONSTANTS
  Host = {h1, h2}
  Item = {1, 2}
  MaxRetries = 1
  Faults = {"crash", "redisError", "overrun", "dbError", "cancel"}
  MaxFaults = 1
SPECIFICATION Spec
SYMMETRY HostSymmetry
INVARIANTS
  TypeOK
  ExclusiveProcessing
  NoItemLost
  OneBatchEvent
  VerdictSound
  CountersAgree
PROPERTIES
  NoResurrection
  LostOnlyInTransit
CHECK_DEADLOCK FALSE
