SPECIFICATION Spec
CONSTANTS
    Node = {1, 2, 3, 4}
    Worlds <- SafetyWorlds
INVARIANTS DeclarationsAreSound SilentNetworkRoutes ClientsAreNotTransit
CHECK_DEADLOCK FALSE
