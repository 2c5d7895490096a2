CONSTANTS
    MaxRounds = 3
    MaxTimeouts = 2
    MaxGone = 2
SPECIFICATION FairSpec
CHECK_DEADLOCK FALSE
INVARIANTS
    TypeOK
PROPERTIES
    MessageLiftsBarrier
