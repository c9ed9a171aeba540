\* Two connections, one failing call; for CaptureFlows, clients that read.
SPECIFICATION ReadingSpec
CONSTANTS
    Clients = {c1, c2}
    NoClient = NoClient
    MaxFrames = 2
    SockBuf = 1
    ListenBacklog = 0
    MaxFaults = 1
PROPERTIES
    CaptureFlows
    CaptureAsInDaemon
\* Every frame may be written.
CHECK_DEADLOCK FALSE
