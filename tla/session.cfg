CONSTANTS
    MaxAttempts = 2
    MaxConnections = 4
    MaxCalls = 3
    MaxRestarts = 1
SPECIFICATION LiveSpec
CHECK_DEADLOCK FALSE
INVARIANTS
    TypeOK
    HandshakeFirst
    AnswersOwnOrEarlier
    NoDeafReader
PROPERTIES
    ConnectEnds
