\* Two connections of up to two frames each, one of which waits, two failures of any calls.
SPECIFICATION Spec
CONSTANTS
    Clients = {c1, c2}
    NoClient = NoClient
    MaxWrites = 2
    ListenBacklog = 0
    FrmNum = 2
    MaxFaults = 2
SYMMETRY ClientSymmetry
INVARIANTS
    ServerNeverWaits
    NoLostWakeup
    NoOldAudio
    CrashOnlyWithoutBuffer
PROPERTIES
    OneSourceAtATime
    PlaybackAsInDaemon
    FillerOnlyInRaces
\* Clients come to an end and a process that exited takes no step.
CHECK_DEADLOCK FALSE
