SPECIFICATION Spec
CONSTANTS
    TimeControl = 4
    FirstMoveWindow = 3
    MaxPlies = 9
    Horizon = 12
INVARIANTS
    TypeOK
    FlagMeansTimeout
    ResultFitsGame
    NoTimeInvented
PROPERTIES
    ResultIsFinal
    OnlyTurnIsCharged
    ClockPromise
