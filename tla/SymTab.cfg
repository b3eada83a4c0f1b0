\* Four tables, so that a file can have a function after one whose function's
\* table is left; two names in one bucket.
SPECIFICATION Spec
CONSTANTS
  a = a
  b = b
  TableIds = {t1, t2, t3, t4}
  EntryIds = {e1, e2}
  Names = {a, b}
  Decls = {d1}
  Sigs = {s1}
  NBuckets = 2
  Hash <- MCHash
  MaxOffset = 24
  MaxErrors = 1
  MaxFiles = 2
  NULL = NULL
  Undefined = Undefined
  Uninit = Uninit
SYMMETRY HeapSymmetry
CHECK_DEADLOCK FALSE
INVARIANTS
  TypeOK
  ChainsExact
  UniqueNames
  SlotsDisjoint
  LookupFindsInnermost
PROPERTIES
  FirstDeclarationWins
  ImplementsScopeMap
