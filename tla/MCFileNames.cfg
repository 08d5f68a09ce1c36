CONSTANTS
    letter = letter
    mp4 = mp4
    zero = zero
    Letter = {letter}
    MP4 = mp4
    Zero = zero
    BufLen = 5
    Texts <- MCTexts
    MaxPackets = 4
SPECIFICATION NamesSpec
INVARIANTS AllNames Inside
PROPERTIES LoopsEnd
CHECK_DEADLOCK FALSE
