CONSTANTS
    Requests = {r1, r2, r3}
    MaxStreams = 2
    Ttl = 2
    MaxLeaked = 2
SPECIFICATION FairSpec
INVARIANTS
    CapHolds
    CountExact
PROPERTY IdleCountExpires
CHECK_DEADLOCK FALSE
