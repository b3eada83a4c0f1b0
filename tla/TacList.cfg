\* Three nodes that use each other's code, lists of shared cells.
SPECIFICATION Spec
CONSTANTS
  Cells = {c1, c2, c3, c4, c5, c6}
  Nodes = {n1, n2, n3}
  Widths = {ptr}
  Plain = int
  NULL = NULL
INVARIANTS
  TypeOK
  ListsStand
PROPERTIES
  ImplementsSequences
  EveryCallReturns
