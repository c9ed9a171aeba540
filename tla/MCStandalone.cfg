\* Two clients and a file of three frames each, one failing call.
SPECIFICATION FairSpec
CONSTANTS
    Clients = {c1, c2}
    None = None
    MaxChunks = 3
    SockBuf = 2
    ListenBacklog = 1
    FrmNum = 1
    MaxFaults = 1
INVARIANTS
    HeardInOrder
    FilePlayed
PROPERTIES
    NothingDiscarded
    BufferHeard
\* The programs may be over.
CHECK_DEADLOCK FALSE
