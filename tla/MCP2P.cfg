SPECIFICATION Spec
CONSTANTS
    p1 = p1
    p2 = p2
    s1 = s1
    Peers = {p1, p2}
    Sockets = {s1}
    Limits <- OneEachWay
    MaxPackets = 2
    MaxCloses = 1
    MaxOffers = 1
    MaxDrops = 1
    MaxLimits = 1
    MaxTrouble = 1
    AskOffline = TRUE
    InitiallyMet = TRUE
SYMMETRY Symmetry
INVARIANTS
    TypeOK
    
    QueueOnlyOpen
    InOrder
    MutualUndisturbed
PROPERTIES
    LimitRespected
CHECK_DEADLOCK FALSE
