CONSTANTS
    Instances = {e1, e2, c1, c2}
    Primitives = {}
    Controllers = {c1, c2}
    MaxId = 3
    MaxRestarts = 1
SPECIFICATION Spec
SYMMETRY ObjectSymmetry
CHECK_DEADLOCK FALSE
INVARIANTS
    TypeOK
    OneObjectPerId
    ReachesOwnObject
    OneController
    OneIdPerEmitted
