SPECIFICATION FramingSpec
CONSTANTS
    Letters <- MCLetters
    Stream <- MCStream
    FrameSizes = {2, 4, 5, 11}
    Width = 9
INVARIANTS
    NothingLost
    InOrder
CHECK_DEADLOCK FALSE
