CONSTANTS
    MaxRounds = 1
    MaxTimeouts = 0
    MaxGone = 0
SPECIFICATION FairSpec
CHECK_DEADLOCK FALSE
PROPERTIES
    AppendStyleSheetsUnblocks
