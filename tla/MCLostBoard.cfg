SPECIFICATION Spec
CONSTANTS
    Me = "white"
    Names = {"d4", "e4"}
    Earlier = {0}
    PromotionAt = 8
    MaxPlies = 4
    MaxSockets = 1
    MaxClicks = 4
INVARIANT RealPosition
CHECK_DEADLOCK FALSE
