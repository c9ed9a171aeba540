CONSTANTS
    NULL = NULL
    absent = absent
    empty = empty
    garbage = garbage
    NoDocument = {absent, empty, garbage}
    Documents <- ManyDocuments
    Content <- Trees
    Starts <- AllStarts
    Truncated <- TruncatedNames
    FreedMemory <- Freed
    StackSize = 130000
    MaxFaults = 1

SPECIFICATION Spec

INVARIANTS
    TypeOK
    AcceptedCrashesOnConnection
    SettingsInRange
    DisabledStaysOff
    

PROPERTIES
    VolumeKept

CHECK_DEADLOCK FALSE
