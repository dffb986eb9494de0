SPECIFICATION FairSpec
CONSTANTS
    Owners = {1, 2}
    MaxResults = 3
    MaxNotes = 3
    MaxEvents = 1
INVARIANTS
    Accounted
    EveryoneTold
PROPERTIES
    RemovedStaySilent
    DoneIsDelivered
CHECK_DEADLOCK FALSE
