CONSTANTS
    Functions = {f1, f2, g}
    Bound = {f1, f2}
    IdLimit = 7
    ExactLimit = 7
    MaxCalls = 3
    MaxEmits = 2
    MaxCliTimeouts = 1
    MaxThrows = 1
    MaxSrvTimeouts = 1
SPECIFICATION Spec
SYMMETRY FunctionSymmetry
CHECK_DEADLOCK FALSE
INVARIANTS
    EmissionNeverLost
    SrvOwnAnswer
    RegistrationsFitWaiters
    HandlersHaveCallers
PROPERTIES
    EmissionsKeepPromise
