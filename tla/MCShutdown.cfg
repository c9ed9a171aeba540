\* One signal, one connection of two writes, two failures of any call.
SPECIFICATION ShutdownSpec
CONSTANTS
    Clients = {c1}
    NoClient = NoClient
    MaxWrites = 2
    ListenBacklog = 1
    FrmNum = 1
    MaxFaults = 2
    Signals = {"SIGTERM"}
    Document = "loaded"
INVARIANTS
    IdleShutdownIsClean
PROPERTIES
    SignalEndsProcess
\* The process ends.
CHECK_DEADLOCK FALSE
