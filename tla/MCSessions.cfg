SPECIFICATION Spec
CONSTANTS
    Peers = {1, 2, 3}
    None = None
    Names = {1, 2}
    Settings <- AnySettings
    Formed <- TwoOfThree
    Bounds <- AnyThree
INVARIANTS
    TypeOK
    JoiningIsPending
    
    
    
CHECK_DEADLOCK FALSE
