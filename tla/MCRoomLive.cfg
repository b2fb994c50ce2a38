SPECIFICATION FairSpec
CONSTANTS
    TimeControl = 1
    FirstMoveWindow = 1
    Horizon = 2
    MaxMessages = 1
    w1 = w1
    w2 = w2
    b1 = b1
    Nobody = Nobody
    Conns = {w1, b1}
    Owner <- MCOwner
PROPERTIES
    RoomEnds
    HandlersReturn
