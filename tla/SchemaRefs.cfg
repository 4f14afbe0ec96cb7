CONSTANTS
  A = A
  B = B
  C = C
  Type <- TypeDef
  Name <- NameDef
  WithInput <- WithInputDef
  Registries <- RegistriesDef
  Extras <- ExtrasDef
  Given <- GivenDef
SPECIFICATION DocSpec
INVARIANTS RequestsDecodable DiffersIsExact RequestFormsAreRequested RefsResolve EveryRefNamesOne
PROPERTY AlwaysReturns
CHECK_DEADLOCK FALSE
