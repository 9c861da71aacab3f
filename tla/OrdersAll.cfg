\* Everything at once: two threads, two ids, every kind of call.
SPECIFICATION Spec
CONSTANTS
    Word = 16
    Threads = {t1, t2}
    Objects = {o1, o2, o3}
    Ids = {i1, i2}
    NoId = NoId
    None = None
    MaxRequests = 2
    Lot = 1
    Kinds = {"create", "change", "cancel"}
    Forms = {"demo", "real"}
    SignMayFail = TRUE
SYMMETRY Symmetry
INVARIANTS
    PendingIffUnresolved
    OneKeyPerObject
    NoPhantomDeals
CHECK_DEADLOCK FALSE
