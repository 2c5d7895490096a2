CONSTANTS
    Functions = {f1, f2}
    Bound = {f1, f2}
    IdLimit = 7
    ExactLimit = 3
    MaxCalls = 1
    MaxEmits = 2
    MaxCliTimeouts = 0
    MaxThrows = 0
    MaxSrvTimeouts = 0
SPECIFICATION Spec
SYMMETRY FunctionSymmetry
CHECK_DEADLOCK FALSE
INVARIANTS
    RightFunction
