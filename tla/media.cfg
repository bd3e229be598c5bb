CONSTANTS
    u1 = u1
    u2 = u2
    u3 = u3
    Users <- MCUsers
    Jobs <- MCJobs
    Owner <- MCOwner
    PerUser = 1
    Global = 2
    QueueMax = 2
SPECIFICATION FairSpec
INVARIANTS
    WithinCaps
    WorkConserving
    QueueExact
    StopIsFinal
    RefMatchesStore
PROPERTIES
    StartsInOrder
    QueuedJobEnds
CHECK_DEADLOCK FALSE
