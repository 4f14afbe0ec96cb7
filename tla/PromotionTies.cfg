CONSTANTS
  Struct <- StructDef
  Root = "T"
  Decls <- AllDecls
SPECIFICATION ResolveSpec
INVARIANT FollowsPromotionRules
CHECK_DEADLOCK FALSE
