SPECIFICATION Spec
CONSTANTS
    Players = {"ann", "bob", "cat"}
    Unknown = {"ann"}
    Modes = {"blitz", "rapid"}
    Searches <- Crowd
    Cancels = {}
    By <- MCBy
    Mode <- MCMode
    MaxCrashes = 0
    MaxFaults = 0
INVARIANTS
    RoomIsYours
    SeatPerSearch
    ModeAgreed
