\* A plain request and a stream over two models.
CONSTANTS
  r1 = r1  r2 = r2
  Request = {r1, r2}
  Stream = {r2}
  c1 = c1  p = p  f = f
  Model = {p, f}
  Primary = p
  Secondary = {f}
  Routes = {f}
  Fallbacks <- OneFallback
  Connection = {c1}
  ConnectionOf <- OneConnection
  Limit = {10, 20}
  FirstLimit <- LowLimits
  Unknown = Unknown
  MaxChanges = 1
SPECIFICATION FairSpec
INVARIANTS
  TypeOK
  AuditTellsOutcome
  UsageCountsAnswers
  AnsweredOnce
PROPERTIES
  RequestsEnd
  DiscoverySettles
