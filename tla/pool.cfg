CONSTANTS
    t1 = t1
    t2 = t2
    b1 = b1
    b2 = b2
    large = large
    None = None
    Threads = {t1, t2}
    Blocks = {b1, b2, large}
    Large = {large}
    MaxCalls = 5
SPECIFICATION Spec
SYMMETRY MCSymmetry
INVARIANTS
    TypeOK
    BackedUnlessStale
    CountersAgree
\* The callers stop after MaxCalls allocations.
CHECK_DEADLOCK FALSE
