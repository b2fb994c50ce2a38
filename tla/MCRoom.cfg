SPECIFICATION Spec
CONSTANTS
    TimeControl = 1
    FirstMoveWindow = 2
    Horizon = 2
    MaxMessages = 1
    w1 = w1
    w2 = w2
    b1 = b1
    Nobody = Nobody
    Conns = {w1, w2, b1}
    Owner <- MCOwner
SYMMETRY Reloads
INVARIANTS
    TypeOK
    OneSocketPerSide
    ViewInSync
    DisconnectMeansGone
    OneStory
    FreedAfterClosing
PROPERTIES
    ClosedOnlyAfterNews
    LifePromise
