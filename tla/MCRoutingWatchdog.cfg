SPECIFICATION FairSpec
CONSTANTS
    i1 = i1
    None = None
    Items <- OneItem
    MaxRetries = 1
    Moves <- MCMoves
    MoveBound = 2
    FailureBound = 1
INVARIANTS
    TypeOK
    ResetsWithinLimit
PROPERTIES
    SuppressionIsFinal
    RoutingEnds
