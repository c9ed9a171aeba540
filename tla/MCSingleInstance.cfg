\* Three processes, in the foreground or as daemons.
SPECIFICATION FairSpec
CONSTANTS
    Procs = {p1, p2, p3}
    NoFile = NoFile
INVARIANTS
    TypeOK
    OneUntilRemoved
    OneInstancePerFile
PROPERTIES
    StartsAgain
\* Every process may be over.
CHECK_DEADLOCK FALSE
