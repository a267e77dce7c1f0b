SPECIFICATION UndisturbedSpec
CONSTANTS
    t1 = t1
    t2 = t2
    p1 = p1
    p2 = p2
    d1 = d1
    d2 = d2
    Tickets <- TwoTickets
    Direct <- OneTicket
    Polls <- TwoPolls
    Dispatches <- TwoDispatches
    MaxConcurrent = 1
    MaxDispatchAttempts = 2
    AutoStarted <- OneTicket
    Hangs <- OneTicket
    Requested <- Interrupt
    StoreFails = TRUE
    MoveBound = 1
    RestartBound = 1
SYMMETRY Symmetric
INVARIANTS
    OneDispatchPerTicket
    AttemptsWithinBreaker
    SlotsWithinCapacity
