CONSTANTS
    o1 = o1
    o2 = o2
    o3 = o3
    o4 = o4
    NoEntry = NoEntry
    Ops = {o1, o2, o3, o4}
    Depth = 2
    MayFail = TRUE
    MayThrow = TRUE
SPECIFICATION FairSpec
INVARIANTS
    TypeOK
    HandlersFollowPosts
    ContextsOutliveOperations
    NoMissedNotification
PROPERTIES
    OperationsComplete
\* After an exception nothing reads the completion queue any more.
CHECK_DEADLOCK FALSE
