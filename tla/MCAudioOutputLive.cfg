\* Liveness: two connections under the fairness of FairSpec, no symmetry.
SPECIFICATION FairSpec
CONSTANTS
    Clients = {c1, c2}
    NoClient = NoClient
    MaxWrites = 1
    ListenBacklog = 1
    FrmNum = 1
    MaxFaults = 1
PROPERTIES
    SlotEmpties
    QueuedServed
CHECK_DEADLOCK FALSE
