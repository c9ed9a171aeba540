\* Bodies of one part, in or beyond the initial buffer; a one-write socket buffer.
SPECIFICATION FairSpec
CONSTANTS
    Browsers = {b1, b2}
    Posts = {p1, p2}
    Others = {o1}
    None = None
    MaxMessages = 1
    Lengths = {1, 2}
    InitialSize = 1
    SockBuf = 1
    ListenBacklog = 0
INVARIANTS
    TypeOK
    HeldForSomeone
    CrashOnlyOutOfMemory
PROPERTIES
    CutOffOnlyByPost
    OthersServed
\* The process may be over, and every source have come to its end.
CHECK_DEADLOCK FALSE
