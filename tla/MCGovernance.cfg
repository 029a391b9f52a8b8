CONSTANTS
  MaxTime = 20
  Exception = {e1}
  NoRequest = NoRequest
  Expiries = {1, 3}
  Dates = {0, 1, 2, 3}
  Waiver = {w1, w2}
  Actor = {p1, p2}
  NoWaiver = NoWaiver
  MaxAppends = 3
  Item = {i1}
  Cadences = {0, 1, 9}
  NoCadence = NoCadence
  Upcoming = 7
  NoScore = NoScore
  Scores <- MCScores
  App = {a1}
  Onboardings <- MCOnboardings
  Executions <- MCExecutions
  Checklist <- MCChecklist
  Manifests <- MCManifests
  Assignments <- MCAssignments
  MaxExecutions = 5
  MaxAge = 31
  NoPlan = NoPlan
  NoSecret = NoSecret
  NotGiven = NotGiven
SPECIFICATION MCSpec
SYMMETRY Symmetry
\* A trail of MaxAppends events, and a closed exception at the end of the clock.
CHECK_DEADLOCK FALSE
INVARIANTS
  PortfolioAgrees
  ExpiryIsOrderFree
  TrailInOrder
  WarnedBeforeOverdue
  BoardMeetsMatrix
  LowerRiskAllowed
  OnlyApprovedRisk
  NoSurpriseExpiry
  ReadyIsEarned
