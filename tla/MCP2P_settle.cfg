SPECIFICATION FairSpec
CONSTANTS
    p1 = p1
    p2 = p2
    s1 = s1
    Peers = {p1, p2}
    Sockets = {s1}
    Limits <- OneEachWay
    MaxPackets = 1
    MaxCloses = 0
    MaxOffers = 0
    MaxDrops = 1
    MaxLimits = 0
    MaxTrouble = 1
    AskOffline = FALSE
    InitiallyMet = FALSE
PROPERTIES
    RequestSettles
CHECK_DEADLOCK FALSE
