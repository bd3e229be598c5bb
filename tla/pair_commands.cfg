CONSTANTS
    MaxCalls = 0
    MaxRows = 2
    MaxCommands = 1
SPECIFICATION FairCommandSpec
INVARIANTS
    CommandTypeOK
    StatusTrue
    PairedRowTrue
PROPERTIES
    DisconnectEnds
