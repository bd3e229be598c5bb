CONSTANTS
    Rows <- MCRows
    MaxTime = 2
    Limit = 1
    MaxWrites = 3
    MaxEvents = 2
SPECIFICATION FairChatSpec
INVARIANT ListCurrent
PROPERTY ListCatchesUp
