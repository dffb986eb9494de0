SPECIFICATION Spec
CONSTANTS
    Peers = {2, 3, 4}
    None = None
    Formed <- AllOrTwo
    Rooms = {2, 3}
    Migrations = {TRUE, FALSE}
    AllowJoinById = TRUE
    Bounds <- AnyThree
INVARIANTS
    TypeOK
    HostOwns
    JoiningIsPending
    OneHost
    
    LatestUpdateKept
CHECK_DEADLOCK FALSE
