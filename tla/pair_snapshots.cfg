CONSTANTS
    NoCreds = NoCreds
    MaxLogins = 2
    MaxCalls = 1
SPECIFICATION FairSnapshotSpec
INVARIANTS
    SnapshotDue
PROPERTIES
    SnapshotCatchesUp
