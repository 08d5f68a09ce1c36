SPECIFICATION Spec
CONSTANTS
    MaxFile = 3
    Cum <- MCCum
    Wrong = {}
INVARIANTS
    HundredMeansAll
