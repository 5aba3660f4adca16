------------------------------- MODULE TaskLedger ------------------------------
(***************************************************************************)
(* What the service promises, without queue, workers or files: how much of *)
(* a task's image has been made, what the task list says of it and what    *)
(* the upload page shows.  Work never goes backwards, and neither the list *)
(* nor the page is ever ahead of the work.  They may lag behind it, and    *)
(* they may go back to an older truth: the code promises no more.          *)
(***************************************************************************)
CONSTANT Tasks

VARIABLES
    made,       \* "nothing", "preview" (on disk) or "output" (in S3)
    listed,     \* the status in the task list, "NONE" before the task exists
    shown       \* the status on the upload page, "NONE" before it is opened

vars == <<made, listed, shown>>

\* v may be said of t.
Honest(t, v) ==
    \/ v = "FAILED"
    \/ v = "PROCESSING" /\ made[t] # "nothing"
    \/ v = "COMPLETED" /\ made[t] = "output"

Init ==
    /\ made = [t \in Tasks |-> "nothing"]
    /\ listed = [t \in Tasks |-> "NONE"]
    /\ shown = [t \in Tasks |-> "NONE"]

Accept(t) ==
    /\ listed[t] = "NONE"
    /\ listed' = [listed EXCEPT ![t] = "PENDING"]
    /\ UNCHANGED <<made, shown>>

Render(t) ==
    /\ made[t] = "nothing"
    /\ made' = [made EXCEPT ![t] = "preview"]
    /\ UNCHANGED <<listed, shown>>

Store(t) ==
    /\ made[t] = "preview"
    /\ made' = [made EXCEPT ![t] = "output"]
    /\ UNCHANGED <<listed, shown>>

List(t, v) ==
    /\ listed[t] # "NONE"
    /\ Honest(t, v)
    /\ listed' = [listed EXCEPT ![t] = v]
    /\ UNCHANGED <<made, shown>>

Open(t) ==
    /\ listed[t] # "NONE"
    /\ shown[t] = "NONE"
    /\ shown' = [shown EXCEPT ![t] = "PENDING"]
    /\ UNCHANGED <<made, listed>>

\* A final status is the last thing a page is told.
Show(t, v) ==
    /\ shown[t] \in {"PENDING", "PROCESSING"}
    /\ Honest(t, v)
    /\ shown' = [shown EXCEPT ![t] = v]
    /\ UNCHANGED <<made, listed>>

Next ==
    \E t \in Tasks :
       \/ Accept(t) \/ Render(t) \/ Store(t) \/ Open(t)
       \/ \E v \in {"PROCESSING", "COMPLETED", "FAILED"} : List(t, v) \/ Show(t, v)

Spec == Init /\ [][Next]_vars
================================================================================
