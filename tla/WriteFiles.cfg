CONSTANTS
  p1 = p1
  p2 = p2
  User = user
  Pass = {p1, p2}
  Path <- Tree
  Targets <- BothTargets
  Above <- TreeAbove
  TSDir = "gen"
  MaxEdits = 1
  Faults = TRUE
SPECIFICATION FairSpec
CHECK_DEADLOCK FALSE
INVARIANTS StagedBeforePublished WholeFiles NoTempOutlivesReturn SuccessIsComplete
PROPERTIES ImplementsPublish EveryPassReturns
