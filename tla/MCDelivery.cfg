CONSTANTS
  NoId = NoId
  NoControl = NoControl
  Pillars <- MCPillars
  Action <- MCAction
  MaxReports = 4
  ActionId = {a1}
  Null = Null
  MaxDay = 10
  Instance = {n1, n2}
  Server = {v1, v2, v3}
  MaxIssues = 3
  MaxFetches = 3
  None = None
SPECIFICATION MCSpec
\* The clock is bounded and a verified record is final.
CHECK_DEADLOCK FALSE
INVARIANTS
  StuckIsListed
  VerifiedInOrder
  EverythingOnceAtItsBest
  PackageIsTheBest
  BoardServes
