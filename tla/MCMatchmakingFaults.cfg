SPECIFICATION FairSpec
CONSTANTS
    Players = {"ann", "bob"}
    Unknown = {"ann"}
    Modes = {"blitz", "rapid"}
    Searches <- Pair
    Cancels <- AnnCancels
    By <- MCBy
    Mode <- MCMode
    MaxCrashes = 1
    MaxFaults = 1
INVARIANTS
    TypeOK
    NoTraceLeft
PROPERTIES
    EveryRequestAnswered
