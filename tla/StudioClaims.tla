------------------------------ MODULE StudioClaims -----------------------------
(***************************************************************************)
(* What comments and the README say of the service and the code does not   *)
(* do.  Each is refuted by a run of its own.                               *)
(***************************************************************************)
EXTENDS PhotoStudio

\* "Check if the task is successful" (_handle_task_completion): with no fault
\* at all, only a task no worker has a model for is listed as FAILED.
OnlyFailuresFail ==
    \A t \in Tasks : row[t] = "FAILED" => t \in UnknownType

\* "live task progress streaming" (README): a page whose stream stays open is
\* told how its task ended.
PageIsTold ==
    \A t \in Tasks : stream[t] = "open" ~> page[t].status \in Final

\* "validate file and store it locally" (create_task): unless the disk fails,
\* the image of an accepted task is where the workers look for it.
StoredLocally ==
    \A t \in Tasks : req[t] = "created" => t \in uploads

OpenStreams == {t \in Tasks : stream[t] = "open"}

\* "Close connection when task is completed or failed" (upload.html): as long
\* as nothing fails, a stream is refused only while streams that are still open
\* and other commands use the connections there are.
RefusedForCause ==
    [][\A t \in Tasks : stream[t] = "none" /\ stream'[t] = "cut" =>
          Cardinality(OpenStreams) + Cardinality(Pushing(t)) >= PoolSize]_vars
================================================================================
