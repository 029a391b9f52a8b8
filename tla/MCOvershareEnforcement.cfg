CONSTANTS
  Docs = {d1}
  Chunks = {c1, c2}
  DocOf <- MCDocOf
  Acls = {open, deny}
  Denying = {deny}
  Labels = {l1, l2}
  Gone = Gone
  NotIndexed = NotIndexed
  Responses <- MCResponses
  Recurrences = {0, 1}
  Policy <- DefaultPolicy
  Solutions = {"m365-copilot"}
  Requests <- MCRequests
  Assessments <- MCAssessments
  Enforcements <- MCEnforcements
  Samples <- MCSamples
  Connectors <- MCConnectors
  Plans <- MCPlans
  Losable = {"region", "ticket"}
  LastInstant = 1
  MaxDecided = 2
  NotLive = NotLive
  Radii = {0, 4, 5, 149, 150, 200}
  Counts = {0, 1, 2, 3, 4, 5, 6}
  Fields = {"name", "email", "id"}
  Totals = {1, 3, 19999, 20000}
SPECIFICATION MCSpec
\* The triage ends with the gravest case of its kind.
CHECK_DEADLOCK FALSE
SYMMETRY Symmetry
INVARIANTS
  DenyLossReviewed
  NoGroundlessThrottle
  LiftedOnlyClean
  SurfacedIsReported
  DecisionsReachTheSoc
PROPERTIES
  SuspensionStands
  MoreRiskNeverMilder
