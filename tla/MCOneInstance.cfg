\* What main says of is_already_running, in the foreground and daemonized.
SPECIFICATION Spec
CONSTANTS
    Procs = {p1, p2, p3}
    NoFile = NoFile
INVARIANTS
    OneInstance
CHECK_DEADLOCK FALSE
