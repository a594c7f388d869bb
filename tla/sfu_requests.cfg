CONSTANTS
    t1 = t1
    t2 = t2
    t3 = t3
    Tasks = {t1, t2}
    Rooms = {r1}
    Peers = {p1}
    Owners = {dev, ses}
    Devices = {dev}
    Workers = 2
    MaxReq = 4
    Ops = {"caps", "send", "recv", "produce", "consume", "connect", "gone", "leave", "stats"}
    NoTask = NoTask
SPECIFICATION FairSpec
INVARIANTS
    NoDanglingStream
    LiveProducerOwned

    
CHECK_DEADLOCK FALSE
