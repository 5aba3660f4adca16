\* Two good tasks and no faults.
SPECIFICATION Spec
CONSTANTS
    t1 = t1
    t2 = t2
    w1 = w1
    w2 = w2
    a1 = a1
    a2 = a2
    a3 = a3
    Tasks = {t1, t2}
    UnknownType = {}
    Unreadable = {}
    Watched = {}
    Workers = {w1}
    Attempts = {a1, a2}
    NoTask = NoTask
    NoWorker = NoWorker
    MaxConcurrent = 2
    InboxBound = 1
    PoolSize = 2
    QueueBound = 0
    StorageTypes = {"local"}
    Fetched = {}
    Faults = {}
SYMMETRY SlotSymmetry
INVARIANTS
    OnlyFailuresFail
CHECK_DEADLOCK FALSE
