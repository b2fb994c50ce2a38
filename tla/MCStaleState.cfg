SPECIFICATION Spec
CONSTANTS
    Players = {"ann", "bob"}
    Unknown = {}
    Modes = {"blitz", "rapid"}
    Searches <- TwoTabs
    Cancels = {}
    By <- MCBy
    Mode <- MCMode
    MaxCrashes = 0
    MaxFaults = 0
INVARIANTS ExistingRoomReturned
