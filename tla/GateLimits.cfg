\* Every kind of period; two requests of one client, again and again.
CONSTANTS
  a1 = a1  r1 = r1  r2 = r2
  Request = {r1, r2}
  Address = {a1}
  Shared = Shared
  AddressOf <- OneAddress
  Seconds = 3
  RequestTokens = 1
  MaxCounted = 3
  MaxFailures = 1
  Setups <- AllSetups
SPECIFICATION FairSpec
INVARIANTS
  TypeOK
  RequestsOverdraft
  TokensOverdraft
  CountedUntilPeriodEnds
PROPERTY AdmittedAgain
