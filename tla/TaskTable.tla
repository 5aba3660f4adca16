------------------------------- MODULE TaskTable -------------------------------
(***************************************************************************)
(* The table processing_tasks: for each task the status of its row and     *)
(* whether completed_at is set.                                            *)
(***************************************************************************)
EXTENDS StudioTypes

VARIABLES
    row,            \* status of the task's row, "NONE" while there is none
    completedAt     \* the row's completed_at is set

TableInit ==
    /\ row = [t \in Tasks |-> "NONE"]
    /\ completedAt = [t \in Tasks |-> FALSE]

CreateRow(t) ==
    /\ row' = [row EXCEPT ![t] = "PENDING"]
    /\ UNCHANGED completedAt

\* Mutant of UpdateRow: completed_at is set with PROCESSING already.
UpdateRowEarlyStamp(t, v) ==
    IF row[t] = "NONE"
    THEN UNCHANGED <<row, completedAt>>
    ELSE /\ row' = [row EXCEPT ![t] = v]
         /\ completedAt' = [completedAt EXCEPT ![t] = @ \/ v # "FAILED"]

\* DBClient.update_task_status through crud.update_task: a task that has no
\* row is not reported to anyone, the update just returns None.
UpdateRow(t, v) ==
    IF row[t] = "NONE"
    THEN UNCHANGED <<row, completedAt>>
    ELSE /\ row' = [row EXCEPT ![t] = v]
         /\ completedAt' = [completedAt EXCEPT ![t] = @ \/ v = "COMPLETED"]

TableType ==
    /\ row \in [Tasks -> Statuses \union {"NONE"}]
    /\ completedAt \in [Tasks -> BOOLEAN]

================================================================================
