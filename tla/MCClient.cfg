SPECIFICATION FairSpec
CONSTANTS
    Me = "white"
    Names = {"d4", "e4"}
    Earlier = {0, 8}
    PromotionAt = 8
    MaxPlies = 3
    MaxSockets = 2
    MaxClicks = 3
INVARIANTS
    TypeOK
    BoardFollows
PROPERTIES
    PendingResolves
CHECK_DEADLOCK FALSE
