SPECIFICATION Spec
CONSTANTS
    BlockBits = 1
    RingBlocks = 2
    MaxCounter = 0
    Worlds <- SafetyWorlds
INVARIANTS BitsNameEpochs OwnerFollowsEntry EndsStayTogether
CHECK_DEADLOCK FALSE
