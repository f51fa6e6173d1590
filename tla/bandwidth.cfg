CONSTANTS
    Iterations = 3
    QueueSize = 2
SPECIFICATION FairSpec
INVARIANTS
    TypeOK
    QueueMatchesPermits
    PermitsConserved
    NestingBounded
    StopsWhenDone
    ClientIsServed
PROPERTIES
    Terminates
