SPECIFICATION Spec
CONSTANTS
    Word = 16
    MaxQty = 4
INVARIANTS
    RestBounded
    NeverOvercounts
    HeardIsKnown
    NoMissedTrade
CHECK_DEADLOCK FALSE
