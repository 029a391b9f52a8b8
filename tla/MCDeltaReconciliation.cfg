CONSTANTS
  Run = {r1, r2}
  PageSize = 1
  MaxChanges = 3
  MaxFailures = 2
SPECIFICATION Spec
INVARIANTS
  NoGap
PROPERTIES
  Advances
  EveryChangeDelivered
  ImplementsChangeFeed
