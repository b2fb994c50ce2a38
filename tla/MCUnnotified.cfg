SPECIFICATION Spec
CONSTANTS
    Players = {"ann", "bob"}
    Unknown = {}
    Modes = {"blitz", "rapid"}
    Searches <- Pair
    Cancels = {}
    By <- MCBy
    Mode <- MCMode
    MaxCrashes = 0
    MaxFaults = 0
INVARIANTS BothAreNotified
