CONSTANTS
    main = main
    w1 = w1
    w2 = w2
    w3 = w3
    s1 = s1
    s2 = s2
    NoHandler = NoHandler
    Caller = main
    Threads = {main}
    IoThreads = {main}
    WaitHandlers = {w1, w2, w3}
    SignalHandlers = {s1, s2}
    Handlers = {w1, w2, w3, s1, s2}
    Throwing = {w1, w2, w3, s1, s2}
    InitialCount = 1
    CountBound = 2
SPECIFICATION Spec
SYMMETRY MCSymmetry
INVARIANTS
    TypeOK
PROPERTIES
    ImplementsCountingSemaphore
