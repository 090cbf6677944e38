SPECIFICATION FairSpec
CONSTANTS
    Calls = {c1, c2}
    Sockets = {s1, s2}
    None = None
    QueueSize = 1
    UpdateCounts = {0,2}
CHECK_DEADLOCK FALSE
INVARIANTS
    StreamsTypeOK
    UpdatesInOrder
    FinalIsTrue
    ToldTheEnd
    EntryHasReader
PROPERTIES
    EveryStreamEnds
    StreamPromiseKept
