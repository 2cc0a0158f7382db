CONSTANTS
  Host = {h1, h2}
  Item = {1, 2}
  MaxRetries = 1
  Faults = {"crash"}
  MaxFaults = 1
SPECIFICATION Spec
INVARIANT ExpiryCoversProcessing
CHECK_DEADLOCK FALSE
