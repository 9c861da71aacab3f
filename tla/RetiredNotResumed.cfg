\* Shows that RetiredNotResumed does not hold.
SPECIFICATION SessionSpec
CONSTANTS
    Word = 16
    Threads = {t1}
    Objects = {o1, o2}
    Ids = {i1}
    NoId = NoId
    None = None
    MaxRequests = 1
    Lot = 1
    Kinds = {"cancel"}
    Forms = {"demo"}
    SignMayFail = FALSE
    MaxConnects = 2
PROPERTIES
    RetiredNotResumed
CHECK_DEADLOCK FALSE
