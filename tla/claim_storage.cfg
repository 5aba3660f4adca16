\* Two good tasks, no fault, and requests that name no storage_type.
SPECIFICATION Spec
CONSTANTS
    t1 = t1
    t2 = t2
    w1 = w1
    w2 = w2
    a1 = a1
    a2 = a2
    a3 = a3
    Tasks = {t1, t2}
    UnknownType = {}
    Unreadable = {}
    Watched = {t1}
    Workers = {w1}
    Attempts = {a1}
    NoTask = NoTask
    NoWorker = NoWorker
    MaxConcurrent = 1
    InboxBound = 1
    PoolSize = 2
    QueueBound = 0
    StorageTypes = {"local"}
    Fetched = {"preview", "output"}
    Faults = {}
SYMMETRY SlotSymmetry
INVARIANTS
    StoredLocally
CHECK_DEADLOCK FALSE
