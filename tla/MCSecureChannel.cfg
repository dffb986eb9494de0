SPECIFICATION SecureSpec
CONSTANTS
    Prologues = {p1, p2}
    Data = {d1, d2}
    MaxSessions = 2
    MaxFrames = 1
    MaxDamage = 1
SYMMETRY Alike
INVARIANTS
    Authentic
    NeverReused
CHECK_DEADLOCK FALSE
