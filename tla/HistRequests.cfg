SPECIFICATION FairSpec
CONSTANTS
    Threads = {t1, t2}
    MaxRequests = 3
INVARIANTS
    InOnePlace
    NobodySleepsOn
PROPERTIES
    ReceivedReturns
CHECK_DEADLOCK FALSE
