\* One good task, watched, and no faults.
SPECIFICATION FairSpec
CONSTANTS
    t1 = t1
    t2 = t2
    w1 = w1
    w2 = w2
    a1 = a1
    a2 = a2
    a3 = a3
    Tasks = {t1}
    UnknownType = {}
    Unreadable = {}
    Watched = {t1}
    Workers = {w1}
    Attempts = {a1}
    NoTask = NoTask
    NoWorker = NoWorker
    MaxConcurrent = 1
    InboxBound = 1
    PoolSize = 2
    QueueBound = 0
    StorageTypes = {"local"}
    Fetched = {}
    Faults = {}
PROPERTIES
    PageIsTold
CHECK_DEADLOCK FALSE
