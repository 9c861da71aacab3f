SPECIFICATION LifeSpec
CONSTANTS
    Threads = {t1, t2}
    Network = network
INVARIANTS
    NobodySleepsOn
    OneAnswer
    NotDeletedInUse
PROPERTIES
    Returns
    DeletedAtLast
CHECK_DEADLOCK FALSE
