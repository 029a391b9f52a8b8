CONSTANTS
  NoId = NoId
  NoControl = NoControl
  Pillars <- MCPillars
  Action <- MCAction
  MaxReports = 4
SPECIFICATION CoachSpec
INVARIANT HighestOfItsControl
