CONSTANTS
    Scopes = {0, 1, 2, 3, 4}
    Package = 0
    Names = {a, b}
    Decls <- MCDecls
    Slots <- MCSlots
    None = None
    Kinds = {"var", "assign"}
    Arities = {0}
    MaxLen = 4
    LoopKinds = {}
    MaxLoopLen = 4
    MaxErrors = 1
    a = a
    b = b
SYMMETRY Interchangeable
SPECIFICATION Spec
INVARIANTS
    ValsKeepTheirValue
