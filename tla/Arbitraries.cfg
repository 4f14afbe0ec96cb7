CONSTANTS
  T1 = T1  T2 = T2  T3 = T3
  Types = {T1, T2, T3}
  None = None
  LowerCounts = FALSE
  MaxDepth = 2
  NoMethod = NoMethod  Unreadable = Unreadable
  Absent = Absent
  MaxInt32 = 4
  MaxSafe = 7
  Named <- NamedDef
  Methods <- MethodsDef
  Values <- ValuesDef
  Registries <- RegistriesDef
SPECIFICATION FairSpec
INVARIANTS DrawPassesChecks ChecksAreDeclared
PROPERTY DrawEnds
CHECK_DEADLOCK FALSE
