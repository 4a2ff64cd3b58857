SPECIFICATION Spec
CONSTANTS
    Node = {1, 2, 3, 4, 5, 6}
    Expiry = 4
    Interval = 2
    BackoffBase = 3
    BackoffMax = 6
    Timeouts <- MCTimeouts
    Handshake = 4
    Resends = 1
    Worlds <- MCWorlds
CHECK_DEADLOCK FALSE
INVARIANTS WaysBackAreKept NothingLoops
PROPERTIES SessionsBootstrap DiscoveryRests
