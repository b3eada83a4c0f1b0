CONSTANTS
    Package <- MCPackage
    Offset <- MCOffset
    Parameters <- MCParameters
    Locals = 2
    Signature <- MCSignature
    Literals = {"Int", "Double", "String"}
    Operators = {"+", "%", "<"}
    Declared = {"Int", "Double", "String", "Array<Int>", "inferred"}
    Elements = {"Int", "Double"}
    MaxLen = 5
    MaxNodes = 2
SPECIFICATION Spec
INVARIANTS TypeOK ChecksExactly GeneratorAgrees VariablesStand OperandsArrive
