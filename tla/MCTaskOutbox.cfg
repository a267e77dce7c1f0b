SPECIFICATION FairSpec
CONSTANTS
    r1 = r1
    r2 = r2
    r3 = r3
    None = None
    Rows <- ThreeRows
    Metered <- OneRow
    ItemCount = 2
    ReplayLimit = 2
    FailureBound = 1
    RestartBound = 1
INVARIANTS
    TypeOK
    ChargedOnce
    ResultOnOneItem
    SubscriberFindsNothing
    DeliveredResultsAreLanded
PROPERTY NextSettlementCatchesUp
