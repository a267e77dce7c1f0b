SPECIFICATION Spec
CONSTANTS
    Units = 2
    Plans = 1
    Stalls = TRUE
    ListingFails = TRUE
    Cancellable <- FirstChild
    FailureBound = 1
    RestartBound = 1
INVARIANTS
    TypeOK
    SiblingsRunOneAtATime
    ParentFinishesLast
PROPERTY ClosedOnDoneChildren
