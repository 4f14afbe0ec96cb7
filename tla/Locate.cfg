CONSTANTS
  Id <- IdDef
  Base = 1
  Name <- NameDef
  Dots = ".."
  Fold <- FoldDef
  Worlds <- WorldsDef
SPECIFICATION Spec
INVARIANTS EachReadsItsOwn StaysAccepted RefusedIsOneFile
CHECK_DEADLOCK FALSE
