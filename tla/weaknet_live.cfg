SPECIFICATION FairSpec
CONSTANTS
    p1 = p1
    p2 = p2
    Procs = {p1, p2}
    Serve = serve
    NoOne = none
    Cmds = {"apply"}
    Duration = 1
    MaxCrash = 1
PROPERTY
    RecordExpires
CHECK_DEADLOCK FALSE
