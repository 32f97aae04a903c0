SPECIFICATION FairSpec
CONSTANTS
    Node = {1, 2}
    Window = 2
    MaxNum = 1
    MaxConns = 2
    Setups <- MutualOnly
PROPERTY GuardDrops
CHECK_DEADLOCK FALSE
