SPECIFICATION FairSpec
CONSTANTS
    d1 = d1
    d2 = d2
    a1 = a1
    r1 = r1
    r2 = r2
    Legacy = Legacy
    None = None
    Conns = {k1, k2}
    Devices = {d1, d2}
    Accounts = {a1}
    Rooms = {r1, r2}
    AudioRooms = {}
    Access <- Watching
    Controllers = {}
    Cap = 1
    Requests <- VehiclesAndViewer
INVARIANT
    TicketsBounded
PROPERTY DeadMemberCleared
CHECK_DEADLOCK FALSE
