CONSTANTS
    Functions = {f1, g}
    Bound = {f1}
    IdLimit = 5
    ExactLimit = 1
    MaxCalls = 3
    MaxEmits = 2
    MaxCliTimeouts = 1
    MaxThrows = 1
    MaxSrvTimeouts = 1
SPECIFICATION Spec
SYMMETRY FunctionSymmetry
CHECK_DEADLOCK FALSE
INVARIANTS
    TypeOK
    CallNeverLost
    CliOwnAnswer
    NoMisrouting
    NoStrandedRequest
    NoStrandedCallback
    InOrderOnce
PROPERTIES
    CallsKeepPromise
