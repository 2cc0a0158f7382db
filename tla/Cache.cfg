CONSTANTS
  r1 = r1  r2 = r2  k1 = k1  u1 = u1  u2 = u2  m1 = m1  m2 = m2  v1 = v1  v2 = v2  e1 = e1  j1 = j1
  Gone = Gone
  Resource = {r1, r2}
  ApiKey = {k1}
  User = {u1, u2}
  ResourceName = {m1, m2}
  UserName = {v1, v2}
  Alias = {e1}
  AliasOf <- MCAliasOf
  Joined = {j1}
  RowOf <- MCRowOf
  UserOf <- MCUserOf
  FirstName <- MCFirstName
  Populated <- MCPopulated
  Request = {q1}
  Operator = {o1, o2}
  MaxChanges = 2
SPECIFICATION Spec
INVARIANTS TypeOK StaleOnlyByKnownLeaks
CHECK_DEADLOCK FALSE
SYMMETRY MCSymmetry
