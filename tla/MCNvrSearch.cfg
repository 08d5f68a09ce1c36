CONSTANTS
    Nvr = {1, 2}
    SearchNvr = 1
    Cams <- MCCams
    Answers <- MCAnswers
    MaxOther = 1
    MaxQuery = 2
SPECIFICATION Spec
INVARIANTS Inv RightCamera Complete
PROPERTIES Ends
CHECK_DEADLOCK FALSE
