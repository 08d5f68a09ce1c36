SPECIFICATION FairSpec
CONSTANTS
    short = short
    long = long
    Msg <- MCMsg
    BodyLen <- MCBodyLen
    JunkLen <- MCJunkLen
    MaxConn = 2
    MaxFrame = 2
INVARIANTS WholeInOrder StatusIsSocket
PROPERTIES SessionOrder CloseNoticed ImplementsSession
CHECK_DEADLOCK FALSE
