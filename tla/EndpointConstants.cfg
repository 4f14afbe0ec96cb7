CONSTANTS
  Reserved <- ReservedDef
  Pascal <- PascalDef
  EnumList <- EnumListDef
  Helpers <- HelpersDef
  Families = "constants"
  Registries <- RegistriesDef
SPECIFICATION Spec
INVARIANT GeneratedNamesDiffer
CHECK_DEADLOCK FALSE
