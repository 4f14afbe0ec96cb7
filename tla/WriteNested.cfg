CONSTANTS
  p1 = p1
  p2 = p2
  User = user
  Pass = {p1}
  Path <- Tree
  Targets <- NestedTargets
  Above <- TreeAbove
  TSDir = "gen"
  MaxEdits = 0
  Faults = FALSE
SPECIFICATION FairSpec
CHECK_DEADLOCK FALSE
INVARIANTS ConfigErrorWritesNothing
