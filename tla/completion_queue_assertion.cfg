CONSTANTS
    o1 = o1
    o2 = o2
    o3 = o3
    o4 = o4
    NoEntry = NoEntry
    Ops = {o1, o2, o3}
    Depth = 2
    MayFail = FALSE
    MayThrow = FALSE
SPECIFICATION Spec
INVARIANTS
    FrontIsCompleted
CHECK_DEADLOCK FALSE
