SPECIFICATION Spec
CONSTANTS
    NvrNum = 2
    Socket = {1, 2}
    MaxConn = 2
    MaxExtra = 1
INVARIANTS
    StrayNeedsClose
    DroppedNeedsClose
    FramesWhole
    SessionAsked
PROPERTIES
    Served
CHECK_DEADLOCK FALSE
