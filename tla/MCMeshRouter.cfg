SPECIFICATION FairSpec
CONSTANTS
    n1 = n1
    n2 = n2
    c1 = c1
    c2 = c2
    c3 = c3
    Nodes = {n1, n2}
    Ids = {1, 2, 3}
    Listeners = {1, 2}
    Slots = {c1, c2}
    None = None
    MaxStream = 1
    MaxFails = 1
    MaxRestarts = 1
INVARIANTS
    TypeOK
    PeersAuthentic
    NoneForgotten
    RostersFollowTable
PROPERTIES
    Converges
