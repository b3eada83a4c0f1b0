CONSTANTS
    Scopes = {0, 1, 2, 3, 4}
    Package = 0
    Names = {a, b, c}
    Decls <- MCDecls
    Slots <- MCSlots
    None = None
    Kinds = {"for", "call"}
    Arities = {0}
    MaxLen = 7
    LoopKinds = {}
    MaxLoopLen = 7
    MaxErrors = 2
    a = a
    b = b
    c = c
SYMMETRY Interchangeable
SPECIFICATION Spec
INVARIANTS
    LateNamesStand
