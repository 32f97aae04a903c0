SPECIFICATION FairSpec
CONSTANTS
    Node = {1, 2, 3}
    Window = 2
    MaxNum = 2
    MaxConns = 3
    Setups <- AllSetups
INVARIANTS TypeOK
PROPERTY ImplementsBroadcast FloodingEnds TreeReaches Relinks
CHECK_DEADLOCK FALSE
