CONSTANTS
  Struct <- StructDef
  Root = "T"
  Decls <- AllDecls
SPECIFICATION ResolveSpec
INVARIANTS NoDominantFieldLost ExactWithoutNestedTies ResultIsDominant
CHECK_DEADLOCK FALSE
