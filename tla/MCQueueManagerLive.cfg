SPECIFICATION FairSpec
CONSTANTS
    t1 = t1
    t2 = t2
    p1 = p1
    p2 = p2
    d1 = d1
    d2 = d2
    Tickets <- TwoTickets
    Direct <- OneTicket
    Polls <- OnePoll
    Dispatches <- TwoDispatches
    MaxConcurrent = 1
    MaxDispatchAttempts = 2
    AutoStarted <- OneTicket
    Hangs <- NoTickets
    Requested <- Approve
    StoreFails = TRUE
    MoveBound = 0
    RestartBound = 0
PROPERTIES
    SlotsAreReleased
    RetriesEnd
