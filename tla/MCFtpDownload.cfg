SPECIFICATION FairSpec
CONSTANTS
    MaxFile = 3
    Cum <- MCCum
    Wrong = {1}
INVARIANTS
    Inv
    NoUseAfterFree
    SuccMeansWhole
PROPERTIES
    Ends
