SPECIFICATION Spec
CONSTANTS
    Peers = {p1, p2}
    Statuses = {0, 1}
    Known = {0, 1}
    Online = 1
    Keys = {k1, k2}
    MaxKeys = 1
    None = None
    Bounds <- Few
INVARIANTS
    MetIsKnown
CHECK_DEADLOCK FALSE
