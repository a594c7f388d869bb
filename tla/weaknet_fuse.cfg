SPECIFICATION Spec
CONSTANTS
    p1 = p1
    p2 = p2
    Procs = {p1, p2}
    Serve = serve
    NoOne = none
    Cmds = {"apply", "set", "status", "clear", "check"}
    Duration = 1
    MaxCrash = 2
INVARIANTS
    LockIsHolders
    OrphanHasCause
SYMMETRY ProcSymmetry
CHECK_DEADLOCK FALSE
