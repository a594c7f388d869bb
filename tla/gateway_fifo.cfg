SPECIFICATION Spec
CONSTANTS
    Conns = {c1, c2}
    Kinds = {"produce", "data"}
    MaxReq = 2
    MaxSess = 2
    EvCap = 1
SYMMETRY ConnSymmetry
INVARIANTS
    PairedUntilShifted
    NoOrphanRequest
CHECK_DEADLOCK FALSE
