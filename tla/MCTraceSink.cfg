SPECIFICATION TraceSpec
CONSTANTS
    Threads = {t1, t2}
    MaxBytes = 4
    Rotated = 2
    Level = 2
    Sizes = {1, 3}
    MetaSize = 2
    MaxSeq = 6
INVARIANTS
    DiskBounded
PROPERTIES
    ImplementsLog
    FailureToldOnce
CHECK_DEADLOCK FALSE
