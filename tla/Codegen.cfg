CONSTANTS
    Kinds <- AllKinds
    MaxLen = 8
    NULL = NULL
SPECIFICATION Spec
INVARIANTS
    TypeOK
    LabelsUnique
    BranchesLand
    BranchesStayInside
    BreakGoesToInnermost
    FlowPreserved
