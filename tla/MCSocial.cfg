SPECIFICATION Spec
CONSTANTS
    Peers = {p1, p2}
    Statuses = {0}
    Known = {0, 1}
    Online = 1
    Keys = {k1, k2}
    MaxKeys = 1
    None = None
    Bounds <- Few
INVARIANTS
    TypeOK
    PresenceCurrent
    
    GameCatchesUp
    IntroducedIsKnown
SYMMETRY Alike
CHECK_DEADLOCK FALSE
