CONSTANTS
  Reserved <- ReservedDef
  Pascal <- PascalDef
  EnumList <- EnumListDef
  Helpers <- HelpersDef
  Families = "accepted"
  Registries <- RegistriesDef
SPECIFICATION Spec
INVARIANTS AcceptsExactlySound NamesMeanOneType OperationsKept CodeMeansOneThing BodiesAgree ArgumentsReachRequest OneMeaning
CHECK_DEADLOCK FALSE
