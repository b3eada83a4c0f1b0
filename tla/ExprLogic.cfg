CONSTANTS
    Kinds = {"name", "not"}
    Arity <- Params
    Silent = {}
    ArgRegs = 6
    MaxLen = 3
SPECIFICATION Spec
INVARIANT ConditionsEvaluate
