CONSTANTS
    c1 = c1
    c2 = c2
    a1 = a1
    Iacs = {c1, c2}
    Askers = {}
    None = None
    Asked <- SomeRequests
    Leftovers <- SomeLeftovers
    ListenBacklog = 1
    SockBuf = 1
    DevBuf = 1
    MaxChunks = 1

SPECIFICATION FairSpec

PROPERTIES
    Served

CHECK_DEADLOCK FALSE
