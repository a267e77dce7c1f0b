SPECIFICATION Spec
CONSTANTS
    t1 = t1
    t2 = t2
    p1 = p1
    p2 = p2
    d1 = d1
    d2 = d2
    Tickets <- OneTicket
    Direct <- NoTickets
    Polls <- TwoPolls
    Dispatches <- TwoDispatches
    MaxConcurrent = 1
    MaxDispatchAttempts = 2
    AutoStarted <- OneTicket
    Hangs <- OneTicket
    Requested <- Interrupt
    StoreFails = TRUE
    MoveBound = 2
    RestartBound = 0
SYMMETRY Symmetric
INVARIANTS
    TypeOK
    EverySlotHasADispatch
    EveryAbortFlagHasADispatch
