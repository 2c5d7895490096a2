CONSTANTS
    Controllers = {c1, c2, c3}
    Sources = {s1, s2}
    Members = {"mount", "unmount", "webview", "src", "isConnected", "setAttribute", "getAttribute", "reload"}
    None = None
    Instances <- PageObjects
    Primitives = {}
    MaxId = 5
    MaxTimeouts = 1
    MaxRestarts = 1
SPECIFICATION Spec
SYMMETRY PageSymmetry
CHECK_DEADLOCK FALSE
INVARIANTS
    TypeOK
    OneShown
    ToldIsSo
PROPERTIES
    FailedChangedNothing
