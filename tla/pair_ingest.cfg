CONSTANTS
    Sockets = {s1, s2, s3}
    NoSocket = NoSocket
    MaxQr = 1
SPECIFICATION SpecAll
SYMMETRY SocketSymmetry
INVARIANTS
    OneFeed
    PairedIsIngested
