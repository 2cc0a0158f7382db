\* A minute's capacity of two requests, and one client that sends them one by one.
CONSTANTS
  a1 = a1  r1 = r1  r2 = r2
  Request = {r1}
  Address = {a1}
  Shared = Shared
  AddressOf <- OneAddress
  Seconds = 3
  RequestTokens = 0
  MaxCounted = 4
  MaxFailures = 0
  Setups <- MinuteOnly
SPECIFICATION Spec
INVARIANT AdmittedWithinLimit
