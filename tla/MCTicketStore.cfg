SPECIFICATION Spec
CONSTANTS
    t1 = t1
    c1 = c1
    c2 = c2
    Tickets <- MCTickets
    Callers <- MCCallers
    Requested <- MCRequested
    QmMaxAttempts = 2
    AttemptBound = 3
    Refusable <- MCTickets
SYMMETRY Symmetric
INVARIANTS
    TypeOK
    InFlightMovesAreInTable
PROPERTIES
    OnlyTableTransitions
    QuarantineIsAtomic
    ParkedEvidenceIsFrozen
    ImplementsBoard
