CONSTANTS
    Msgs <- MCMsgs
    Media <- MCMedia
    Bad <- MCBad
    Consumers = {c1, c2}
    NoConsumer = NoConsumer
    ReadCount = 2
    DlqMaxes = {1, 2}
    MaxEntries = 2
    Raws <- MCRaws
SPECIFICATION FairSpec
INVARIANTS
    TypeOK
    AckedIsSafe
    NotifiedOnce
    OneHolder
    PendingAccounted
    ContentArrives
    MediaAgrees
PROPERTY EntriesDelivered
