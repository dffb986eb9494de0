SPECIFICATION Spec
CONSTANTS
    Peers = {2, 3, 4}
    None = None
    Formed <- TwoTogether
    Rooms = {2, 3}
    Migrations = {TRUE, FALSE}
    AllowJoinById = TRUE
    Bounds <- JoinAndCrash
INVARIANTS
    SameHeir
CHECK_DEADLOCK FALSE
