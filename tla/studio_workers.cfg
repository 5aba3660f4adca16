\* Two workers that crash and restart, a Redis, a table, a disk and a bucket that
\* fail, and a web server whose store is of either kind.
SPECIFICATION Spec
CONSTANTS
    t1 = t1
    t2 = t2
    w1 = w1
    w2 = w2
    a1 = a1
    a2 = a2
    a3 = a3
    Tasks = {t1, t2}
    UnknownType = {}
    Unreadable = {}
    Watched = {}
    Workers = {w1, w2}
    Attempts = {a1, a2}
    NoTask = NoTask
    NoWorker = NoWorker
    MaxConcurrent = 2
    InboxBound = 1
    PoolSize = 1
    QueueBound = 0
    StorageTypes = {"local", "s3"}
    Fetched = {}
    Faults = {"redis", "crash", "pop", "db", "s3", "disk"}
SYMMETRY SlotSymmetry
INVARIANTS
    TypeOK
    SingleMessage
    NeverAhead
    CompletionStamped
    PermitsBalanced
    ModelInUseOnce
    RenderedOnce
    WorkBounded
    SomebodyGoesOn
PROPERTIES
    ImplementsDelivery
    ImplementsUse
CHECK_DEADLOCK FALSE
