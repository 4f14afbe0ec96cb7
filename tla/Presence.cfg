CONSTANTS
  MaxPtrs = 2
  MaxItems = 1
  MaxInt32 = 4
  MaxSafe = 7
  NoMethod = NoMethod
  Unreadable = Unreadable
  Methods <- MethodsDef
  Members <- MembersDef
SPECIFICATION Spec
INVARIANTS ResponseDecodes WireFitsSchemas RoundTripKeepsMeaning RequestUnmarshals DrawsDecode FieldIsWireForm
CHECK_DEADLOCK FALSE
