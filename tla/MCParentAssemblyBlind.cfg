SPECIFICATION Spec
CONSTANTS
    Units = 1
    Plans = 2
    Stalls = FALSE
    ListingFails = TRUE
    Cancellable <- Nobody
    FailureBound = 0
    RestartBound = 0
PROPERTY NeverCompleteOverOpenChildren
