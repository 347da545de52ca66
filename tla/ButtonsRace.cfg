CONSTANTS
    Samples = 2
    LongPolls = 3
    PinTurns = 4
SPECIFICATION ButtonsSpec
INVARIANT NoPressIsLost
