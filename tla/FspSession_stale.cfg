SPECIFICATION Spec
CONSTANTS
    BlockBits = 1
    RingBlocks = 2
    MaxCounter = 0
    Worlds <- StaleWorlds
PROPERTY KeysInUseAreKept
CHECK_DEADLOCK FALSE
