------------------------------ MODULE StudioTypes ------------------------------
(***************************************************************************)
(* The vocabulary of the Photo Studio server: the tasks that users submit, *)
(* the worker processes that serve them, the states a task is given in the *)
(* database and on the wire, and the faults a run lets happen.             *)
(***************************************************************************)
EXTENDS Naturals, FiniteSets, Sequences

CONSTANTS
    Tasks,          \* the tasks users may submit, one uploaded image each
    UnknownType,    \* those submitted with a task_type no worker registered
    Unreadable,     \* those whose image the transforms raise for (Inference)
    Watched,        \* those whose upload page opens the progress stream
    Workers,        \* the worker processes
    Attempts,       \* slots for the asyncio tasks that workers spawn (bound)
    NoTask,         \* Python's None where a task is expected
    NoWorker,       \* an attempt slot nobody uses
    MaxConcurrent,  \* permits of the semaphore in ModelOrchestrator.run
    InboxBound,     \* messages a stream's pub/sub inbox may hold (bound)
    PoolSize,       \* max_connections of the web server's Redis client
    QueueBound,     \* how long a repeated command may make the queue (bound)
    StorageTypes,   \* the storage_type that requests name or the server is set to
    Fetched,        \* the images that are asked for: "preview", "output"
    Faults          \* which of FaultKinds may happen

\* disk: an upload is not written      s3: a put or a head fails
\* db: an insert or an update fails    redis: a command fails
\* resend: the client library repeats  pop: a popped message is lost
\* inference: a model raises           crash: a worker process dies
\* stop: a worker is told to stop      restart: the web server dies and restarts
\* web: an answer of the web server is lost or a stream is cut
FaultKinds == {"disk", "s3", "db", "redis", "resend", "pop", "inference",
               "crash", "restart", "web", "stop"}

ASSUME StudioAssumption ==
    /\ UnknownType \subseteq Tasks
    /\ Unreadable \subseteq Tasks
    /\ Watched \subseteq Tasks
    /\ NoTask \notin Tasks
    /\ NoWorker \notin Workers
    /\ IsFiniteSet(Attempts)
    /\ MaxConcurrent \in Nat \ {0}
    /\ InboxBound \in Nat \ {0}
    /\ PoolSize \in Nat \ {0}
    /\ QueueBound \in Nat
    /\ StorageTypes \subseteq {"local", "s3"}
    /\ Fetched \subseteq {"preview", "output"}
    /\ Faults \subseteq FaultKinds

\* What _process_task_completion can find, and what a row can hold.
Verdicts == {"PROCESSING", "COMPLETED", "FAILED"}
Statuses == {"PENDING"} \union Verdicts
================================================================================
