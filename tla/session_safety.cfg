SPECIFICATION Spec
CONSTANTS
    d1 = d1
    d2 = d2
    a1 = a1
    r1 = r1
    r2 = r2
    Legacy = Legacy
    None = None
    Conns = {k1, k2, k3}
    Devices = {d1}
    Accounts = {a1}
    Rooms = {r1}
    AudioRooms = {r1}
    Access <- Watching
    Controllers = {a1}
    Cap = 1
    Requests <- MixedRoom
INVARIANTS
    MemberAccounted
    RegistryAccounted
    SessionProducersAccounted
    NonceOneShot
    
SYMMETRY ConnSymmetry
CHECK_DEADLOCK FALSE
