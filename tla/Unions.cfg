CONSTANTS
  Structs <- StructsDef
  Decls <- DeclsDef
  Values = {"a", "b", "odd", "number", "opaque"}
  NameParts = {"a", "b"}
SPECIFICATION Spec
INVARIANTS CaseValuesDecode DrawsDecode WireFitsOneCase NothingLost AdmittedDecodes DecodedIsTyped
CHECK_DEADLOCK FALSE
