SPECIFICATION Spec
CONSTANTS
    None = None
    Path = {"p", "q"}
    Worlds <- MCWorlds
INVARIANTS
    IndicesAccounted
PROPERTIES
    AnswersAreHeld
    MatchedLinkIsKept
    LinkHeals
CHECK_DEADLOCK FALSE
