SPECIFICATION FairSpec
CONSTANTS
    Units = 2
    Plans = 1
    Stalls = TRUE
    ListingFails = FALSE
    Cancellable <- Nobody
    FailureBound = 0
    RestartBound = 0
PROPERTIES
    PlannedRootsSettle
    WaitingChildrenAreParked
