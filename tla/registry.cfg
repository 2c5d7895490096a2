CONSTANTS
    f1 = f1
    f2 = f2
    f3 = f3
    g1 = g1
    g2 = g2
    Callbacks = {f1, f2, f3, g1, g2}
    ClientOf <- FirstAndSecond
    IdRange = 2
    MaxInFlight = 2
    MaxRequests = 4
    MaxRestarts = 1
SPECIFICATION Spec
SYMMETRY FunctionSymmetry
CHECK_DEADLOCK FALSE
INVARIANTS
    TypeOK
    ListenersAsWanted
    OwnFunctionRuns
