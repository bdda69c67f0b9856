SPECIFICATION FairSpec
CONSTANTS
    Conn = {c1, c2}
    Board = {b1, b2}
    AllBoards = AllBoards
    maxSubscribers = 1
    BroadcastBuffer = 2
    EventBuffer = 1
    MaxEvents = 4
INVARIANTS TypeOK NoSendOnClosed InOrder
PROPERTY LoopGoesOn
