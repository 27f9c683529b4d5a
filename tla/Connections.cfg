\* The system stops when all nodes have dialled.
SPECIFICATION FairSpec
CONSTANTS
    None = None
    Node = {1, 2, 3}
    Attempts = 6
    Slow <- SlowOne
    Fragile <- FragileOne
INVARIANT TypeOK
PROPERTIES ImplementsLinks DialsEnd CallersAreHeard PeersMeet
CHECK_DEADLOCK FALSE
