\* Two files, four pieces and two.
SPECIFICATION Spec
CONSTANTS
  Flags = {"-s", ""}
  Stems = {a}
  None = None
  Old = Old
  Before = {Old}
  MaxPieces <- TwoFiles
INVARIANTS
  TypeOK
  FilesApart
  StatusTruthful
  SuccessIsFresh
PROPERTIES
  Ends
