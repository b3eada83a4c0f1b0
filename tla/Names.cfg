CONSTANTS
    Scopes = {0, 1, 2, 3, 4}
    Package = 0
    Names = {a, b}
    Decls <- MCDecls
    Slots <- MCSlots
    None = None
    Kinds = {"var", "array", "arrayAssign", "assign", "use", "call", "elem", "for"}
    Arities = {0, 1}
    MaxLen = 5
    LoopKinds = {"var", "array", "elem", "for"}
    MaxLoopLen = 7
    MaxErrors = 1
    a = a
    b = b
SYMMETRY Interchangeable
SPECIFICATION Spec
INVARIANTS
    TypeOK
    AcceptsExactly
    GeneratorFindsAll
    SameVariable
    CapturesExplained
    ElementsMutable
    CrashesExplained
