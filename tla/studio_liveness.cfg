\* The worker may be stopped, inference may raise, a task whose image no
\* transform takes is in the queue, and there is one permit.  No symmetry:
\* these are liveness properties.
SPECIFICATION FairSpec
CONSTANTS
    t1 = t1
    t2 = t2
    w1 = w1
    w2 = w2
    a1 = a1
    a2 = a2
    a3 = a3
    Tasks = {t1, t2}
    UnknownType = {}
    Unreadable = {t2}
    Watched = {}
    Workers = {w1}
    Attempts = {a1, a2}
    NoTask = NoTask
    NoWorker = NoWorker
    MaxConcurrent = 1
    InboxBound = 1
    PoolSize = 1
    QueueBound = 0
    StorageTypes = {"local"}
    Fetched = {"output"}
    Faults = {"stop", "inference"}
INVARIANTS
    SomebodyGoesOn
PROPERTIES
    ServedInTurn
    StopLosesOne
    KnownTaskServed
    AttemptsEnd
    DrainEnds
CHECK_DEADLOCK FALSE
