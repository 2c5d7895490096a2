CONSTANTS
    Functions = {f1, g}
    Bound = {f1}
    IdLimit = 7
    ExactLimit = 3
    MaxCalls = 2
    MaxEmits = 2
    MaxCliTimeouts = 0
    MaxThrows = 1
    MaxSrvTimeouts = 2
SPECIFICATION FairSpec
CHECK_DEADLOCK FALSE
PROPERTIES
    CallsReturn
    EmissionsReturn
    EmissionsRun
