SPECIFICATION FairSpec
CONSTANTS
    Streams = {s1}
    LoopCalls = {c1}
    ThreadCalls = {t1}
    Capacity = 1
    Idle = idle
    MaxQueries = 3
    MaxTicks = 2
    MaxFaults = 1
INVARIANTS
    TypeOK
PROPERTIES
    AtMostOneLate
    FeedFollows
    EveryCallEnds
    LeaversGiveBack
CHECK_DEADLOCK FALSE
