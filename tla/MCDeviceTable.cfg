SPECIFICATION TableFairSpec
CONSTANTS
    NvrNum = 3
    IpcNum <- MCIpcNum
INVARIANTS
    ToldRight
PROPERTIES
    CleanReturns
