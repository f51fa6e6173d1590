CONSTANTS
    io1 = io1
    io2 = io2
    main = main
    w1 = w1
    w2 = w2
    s1 = s1
    s2 = s2
    NoHandler = NoHandler
    NoThread = NoThread
    Threads = {io1, io2, main}
    IoThreads = {io1, io2}
    Sleepers = {io2, main}
    WaitHandlers = {w1, w2}
    SignalHandlers = {s1, s2}
    Handlers = {w1, w2, s1, s2}
    Throwing = {w1, w2, s1, s2}
    InitialCount = 1
    CountBound = 2
SPECIFICATION Spec
SYMMETRY MCSymmetry
INVARIANTS
    TypeOK
    NoPermitBesideStoredWait
    NothingRunsUnderLock
    NoLostWakeUp
    OneShot
PROPERTIES
    OnlyThrowingWaitersDrop
    ImplementsCountingSemaphore
\* Every thread may be in wait() with no permit left.
CHECK_DEADLOCK FALSE
