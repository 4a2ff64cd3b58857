SPECIFICATION Spec
CONSTANTS
    BlockBits = 1
    RingBlocks = 2
    MaxCounter = 2
    MaxSession = 3
    MaxSend = 2
    Worlds <- Owners
INVARIANTS DeliveredOnce KeysKeepTheirWork RetainedSessionsReadable SealedOnce
CHECK_DEADLOCK FALSE
