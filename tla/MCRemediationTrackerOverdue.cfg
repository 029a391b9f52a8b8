CONSTANTS
  ActionId = {a1}
  Null = Null
  MaxDay = 5
SPECIFICATION Spec
INVARIANT OverdueMeansStuck
