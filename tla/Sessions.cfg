\* Two sessions and any number of restarts, with what the first session leaves
\* behind; liveness, so no symmetry.
SPECIFICATION FairSessionSpec
CONSTANTS
    Word = 16
    Threads = {t1, t2}
    Objects = {o1, o2}
    Ids = {i1}
    NoId = NoId
    None = None
    MaxRequests = 2
    Lot = 1
    Kinds = {"create", "cancel"}
    Forms = {"demo"}
    SignMayFail = TRUE
    MaxConnects = 2
INVARIANTS
    PendingIsOnActive
    OnePendingPerOrder
    OpenRowsAreActive
PROPERTIES
    CallersReturn
CHECK_DEADLOCK FALSE
