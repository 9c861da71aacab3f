\* Without changes: partial fills, failing signatures; liveness, so no symmetry.
SPECIFICATION FairSpec
CONSTANTS
    Word = 16
    Threads = {t1, t2}
    Objects = {o1, o2}
    Ids = {i1}
    NoId = NoId
    None = None
    MaxRequests = 2
    Lot = 2
    Kinds = {"create", "cancel"}
    Forms = {"demo"}
    SignMayFail = TRUE
INVARIANTS
    RemovalIsReal
    CancelledStaysClosed
PROPERTIES
    PromiseSpec
    DecidedResolves
CHECK_DEADLOCK FALSE
