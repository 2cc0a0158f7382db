\* One batch on one resource; one adverse event of any kind at any moment.
CONSTANTS
  m1 = m1  r1 = r1  i1 = i1  i2 = i2
  Host = {h1, h2}
  Member = {m1}
  Resource = {r1}
  ResourceOf <- Alone
  Item = {i1, i2}
  MemberOf <- OneBatch
  ResourcesPerBatch = 1
  MaxTasks = 1
  Available = {1}
  MaxStandbys = 1
  MaxRequeues = 1
  Faults = {"crash", "throw", "lockExpired"}
  MaxFaults = 1
SPECIFICATION FairSpec
INVARIANTS
  TypeOK
  SomeoneAwake
  LockExclusive
PROPERTIES
  StrandedByRequeueOnly
  EventuallyRetrieved
CHECK_DEADLOCK FALSE
