SPECIFICATION FairSpec
CONSTANTS
    Keys = {k1, k2}
    Unknown = unknown
    MaxChanges = 3
    MaxWire = 2
    MaxConnects = 3
INVARIANTS
    NothingElseLost
    PositionsFollow
PROPERTY
    CatchesUp
CHECK_DEADLOCK FALSE
