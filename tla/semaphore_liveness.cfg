CONSTANTS
    io1 = io1
    io2 = io2
    main = main
    w1 = w1
    w2 = w2
    s1 = s1
    s2 = s2
    NoHandler = NoHandler
    NoThread = NoThread
    Threads = {io1, main}
    IoThreads = {io1}
    Sleepers = {main}
    WaitHandlers = {w1, w2}
    SignalHandlers = {s1}
    Handlers = {w1, w2, s1}
    Throwing = {s1}
    InitialCount = 0
    CountBound = 2
SPECIFICATION FairSpec
PROPERTIES
    SleeperIsServed
    DispatchedHandlerRuns
CHECK_DEADLOCK FALSE
