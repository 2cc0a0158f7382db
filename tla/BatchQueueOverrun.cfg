CONSTANTS
  Host = {h1, h2}
  Item = {1, 2}
  MaxRetries = 1
  Faults = {"overrun"}
  MaxFaults = 1
SPECIFICATION Spec
INVARIANT CompletedMeansAllItems
CHECK_DEADLOCK FALSE
