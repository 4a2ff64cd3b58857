SPECIFICATION Spec
CONSTANTS
    f1 = f1
    s1 = s1
    sh1 = sh1
    sh2 = sh2
    FmpOwners = {f1}
    FspOwners = {s1}
    Shards = {sh1, sh2}
    OwnerQuantum = 1
    JobPackets = 2
    MaxPackets = 3
    Worlds <- AllWorlds
INVARIANTS ReadyIsReached BacklogAccounted
PROPERTIES OrderKept EveryPacketFinishes
CHECK_DEADLOCK FALSE
