\* A web server that is restarted at any time, loses answers and repeats
\* commands, a page that watches its task, and a task of an unknown type that is
\* retried for ever beside it.
SPECIFICATION Spec
CONSTANTS
    t1 = t1
    t2 = t2
    w1 = w1
    w2 = w2
    a1 = a1
    a2 = a2
    a3 = a3
    Tasks = {t1, t2}
    UnknownType = {t2}
    Unreadable = {}
    Watched = {t1}
    Workers = {w1}
    Attempts = {a1, a2}
    NoTask = NoTask
    NoWorker = NoWorker
    MaxConcurrent = 2
    InboxBound = 1
    PoolSize = 1
    QueueBound = 1
    StorageTypes = {"local"}
    Fetched = {"preview", "output"}
    Faults = {"resend", "restart", "db", "web"}
SYMMETRY SlotSymmetry
INVARIANTS
    NoMessageLost
    NeverAhead
    LinksWork
PROPERTIES
    ImplementsLedger
CHECK_DEADLOCK FALSE
