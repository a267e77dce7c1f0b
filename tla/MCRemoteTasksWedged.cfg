SPECIFICATION FairSpec
CONSTANTS
    w1 = w1
    c1 = c1
    c2 = c2
    alice = alice
    nobody = nobody
    none = none
    Tasks <- TwoTasks
    ChatTasks <- OneTurn
    Owners <- AliceOrNobody
    Nobody = nobody
    None = none
    RestartBound = 0
PROPERTY DaemonComesFree
