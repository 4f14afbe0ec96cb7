CONSTANTS
  T1 = T1  T2 = T2  T3 = T3
  Types = {T1, T2, T3}
  None = None
  LowerCounts = TRUE
  MaxDepth = 2
  NoMethod = NoMethod  Unreadable = Unreadable
  Absent = Absent
  MaxInt32 = 4
  MaxSafe = 7
  Named <- NamedDef
  Methods <- MethodsDef
  Values <- ValuesDef
  Registries <- RegistriesDef
SPECIFICATION Spec
INVARIANT DrawPassesChecks
CHECK_DEADLOCK FALSE
