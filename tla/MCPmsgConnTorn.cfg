SPECIFICATION Spec
CONSTANTS
    short = short
    long = long
    Msg <- MCMsg
    BodyLen <- MCBodyLen
    JunkLen <- MCJunkLen
    MaxConn = 2
    MaxFrame = 2
INVARIANT CompleteMessage
CHECK_DEADLOCK FALSE
