CONSTANTS
    NumNvr = 2
    NumWin = 2
    MaxCarriage = 2
    Trains <- MCTrains
SPECIFICATION Spec
INVARIANTS Inv WaitEnds NoStray NothingLost RightPicture Shown
CONSTRAINT InBound
CHECK_DEADLOCK FALSE
