SPECIFICATION FairSpec
CONSTANTS
    Slots = {s1}
    MaxGen = 3
    MaxFail = 1
INVARIANTS
    TicketPresentedOnce
    OnlyDeadLinksReplaced
    

    
CHECK_DEADLOCK FALSE
