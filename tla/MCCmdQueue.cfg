SPECIFICATION FairSpec
CONSTANTS
    ui = ui
    pmsg = pmsg
    Producers <- MCProducers
    NoOne = NoOne
    MaxNode = 4
INVARIANTS LossNeedsLastNode CountNeedsOverlap
PROPERTIES ImplementsLossy Drained
CHECK_DEADLOCK FALSE
