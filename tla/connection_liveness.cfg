CONSTANTS
    c1 = c1
    c2 = c2
    Server = Server
    NoEvent = NoEvent
    Clients = {c1, c2}
    Dismissed = {c1}
    MaxListens = 1
    MaxFailures = 0
SPECIFICATION FairSpec
PROPERTIES
    RequestReachesListener
    
\* Every client may be done and the server not listen any more.
CHECK_DEADLOCK FALSE
