SPECIFICATION Spec
CONSTANTS
    i1 = i1
    None = None
    Items <- OneItem
    MaxRetries = 2
    Moves <- MCMoves
    MoveBound = 2
    FailureBound = 0
PROPERTY WatchdogReleasesNoDeadLetter
