SPECIFICATION FairSpec
CONSTANTS
  d = d
  a = a
  b = b
  c1 = c1
  c2 = c2
  p1 = p1
  p2 = p2
  Dashboards = {d}
  References = {a, b}
  PoolSize = 1
  RepositoryCount = 2
  PageSize = 1
  Pulls = {1, 2}
  FirstPulls = {1}
  FirstRun <- MCFirstRun
  MaxRuns = 2
  MaxJobs = 2
  FirstJobs = 1
  MaxChanges = 1
  Claims = {c1}
  RunClaims = {c1}
  Pdfs = {p1, p2}
  Size <- MCSize
  Limit = 1
  MaxReceipts = 2
INVARIANTS
  TypeOK
  DashboardIsTrue
  ReceiptsStand
PROPERTIES
  RequestsAnswered
