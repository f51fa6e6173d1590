CONSTANTS
    c1 = c1
    c2 = c2
    Server = Server
    NoEvent = NoEvent
    Clients = {c1, c2}
    Dismissed = {c1, c2}
    MaxListens = 2
    MaxFailures = 2
SPECIFICATION Spec
SYMMETRY MCSymmetry
INVARIANTS
    TypeOK
    NoMissedEvent
    OnlyFailuresThrow
    EndpointsAgree
\* Every client may be done and the server not listen any more.
CHECK_DEADLOCK FALSE
