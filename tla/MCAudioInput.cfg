\* Three connections, two frames, a one-frame socket buffer, one failing call.
SPECIFICATION Spec
CONSTANTS
    Clients = {c1, c2, c3}
    NoClient = NoClient
    MaxFrames = 2
    SockBuf = 1
    ListenBacklog = 0
    MaxFaults = 1
SYMMETRY ClientSymmetry
\* Once pthread_create has failed none of the properties promises anything; what
\* may happen then is in MCAudioInputLive.
CONSTRAINT Intact
INVARIANTS
    NoFrameTwice
    PassComplete
    RecorderSurvives
    FrameOrder
PROPERTIES
    FramesInRounds
\* The daemon may have stopped or crashed, every frame may be written.
CHECK_DEADLOCK FALSE
