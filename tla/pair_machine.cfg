CONSTANTS
    Sockets = {s1, s2, s3}
    NoSocket = NoSocket
    MaxQr = 1
SPECIFICATION FairSpec
INVARIANTS
    TypeOK
    MidPairTimed
    NoLeakedSocket
    PairedSocketAnnounced
    EndedFlowIsQuiet
PROPERTIES
    FlowImplemented
    PairFlowEnds
