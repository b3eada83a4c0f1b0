CONSTANTS
    Kinds = {"do", "break", "while", "range"}
    MaxLen = 7
    NULL = NULL
SPECIFICATION Spec
INVARIANT BreaksLeaveTheirLoop
