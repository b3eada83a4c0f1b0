CONSTANTS
    Kinds <- Most
    Arity <- Params
    Silent = {"echo"}
    ArgRegs = 2
    MaxLen = 6
SPECIFICATION Spec
INVARIANTS
    TypeOK
    EachRunsOnceInOrder
    OperandsArrive
    ArgumentsArriveIfUndisturbed
    ValuesStay
