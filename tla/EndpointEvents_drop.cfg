SPECIFICATION PSpec
CONSTANTS
    Items = {a, b, c, d}
    Local = {a, b}
    BlockBits = 2
    RingBlocks = 3
    MaxCounter = 9
    Peers = {p1, p2}
    Self = me
    hold_down = 1
    flap_threshold = 2
    flap_window = 3
    flap_dampening = 4
    MaxTime = 5
    Targets = {a, b, c}
    Used = {a}
    Addresses = {1, 2}
    Ceiling = 2
    Burst = 2
    Ttl = 1
    Grace = 1
    Capacity = 1
    Stall = 1
    Readers = {r1, r2}
    Node = {1, 2, 3}
    Senders <- Clones
    Worlds <- EndpointWorlds
INVARIANT NoUnderflow
CHECK_DEADLOCK FALSE
