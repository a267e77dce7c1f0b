SPECIFICATION FairSpec
CONSTANTS
    w1 = w1
    c1 = c1
    c2 = c2
    alice = alice
    nobody = nobody
    none = none
    Tasks <- ThreeTasks
    ChatTasks <- TwoTurns
    Owners <- AliceOrNobody
    Nobody = nobody
    None = none
    RestartBound = 1
INVARIANTS
    TypeOK
    OwnerFence
    OneClaim
    RunsAtMostOnce
PROPERTIES
    FirstResultStands
    ImplementsContract
    KnownClaimsAreFreed
