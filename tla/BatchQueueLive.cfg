CONSTANTS
  Host = {h1, h2}
  Item = {1, 2}
  MaxRetries = 1
  Faults = {"cancel"}
  MaxFaults = 1
SPECIFICATION FairSpec
PROPERTIES
  EventuallyCompleted
  ImplementsContract
CHECK_DEADLOCK FALSE
