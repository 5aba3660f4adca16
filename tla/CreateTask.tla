------------------------------- MODULE CreateTask ------------------------------
(***************************************************************************)
(* POST /tasks/create, one handler invocation per task: save the image,    *)
(* push the payload on the queue, and only then insert the row.  Each      *)
(* await is a point where workers move, and each step may raise, which the *)
(* handler answers with 500 whatever was already done.                     *)
(***************************************************************************)
EXTENDS TaskQueue, TaskTable, StorageProvider, RedisPool

VARIABLE req        \* where the request that creates the task has got to

tableVars  == <<row, completedAt>>
storeVars  == <<uploads, previews, outputs>>

\* "created" says that the row is there, not that the answer arrives.
ReqStates == {"idle", "saved", "queued", "created", "refused"}

ReqInit == req = [t \in Tasks |-> "idle"]

ReqStep(t, from, to) ==
    /\ req[t] = from
    /\ req' = [req EXCEPT ![t] = to]

\* A missing name, a forbidden extension, a file too large: nothing is saved,
\* but the handler's dependencies were made before it ran - unless one of them
\* raised, for want of a token or of a store of the kind the query names.
RejectUpload(t) ==
    /\ ReqStep(t, "idle", "refused")
    /\ AskAny \/ UNCHANGED provider
    /\ UNCHANGED <<queue, tableVars, storeVars>>

\* The image is saved; False from save() is not looked at.
AcceptUpload(t) ==
    /\ ReqStep(t, "idle", "saved")
    /\ StoreUpload(t)
    /\ UNCHANGED <<queue, tableVars>>

\* Parameters that are not JSON are refused after the image was saved.
RejectParameters(t) ==
    /\ ReqStep(t, "saved", "refused")
    /\ UNCHANGED <<queue, tableVars, storeVars, provider>>

\* Handlers of other requests that may be pushing at the same time.
Pushing(t) == {u \in Tasks \ {t} : req[u] \in {"saved", "queued"}}

\* The payload is queued, and the handler awaits the answer.
EnqueueTask(t) ==
    /\ ReqStep(t, "saved", "queued")
    /\ held < PoolSize
    /\ Enqueue(t)
    /\ UNCHANGED <<tableVars, storeVars, provider>>

\* Redis fails before it executed the push, or its client has no connection
\* left for it.
EnqueueFails(t) ==
    /\ ReqStep(t, "saved", "refused")
    /\ "redis" \in Faults \/ MayBeExhausted(Cardinality(Pushing(t)))
    /\ UNCHANGED <<queue, tableVars, storeVars, provider>>

\* The handler's push is executed once more.
RepeatPush(t) ==
    /\ req[t] = "queued"
    /\ EnqueueAgain(t)
    /\ UNCHANGED <<req, tableVars, storeVars, provider>>

\* The answer to the push is there, and the row is inserted without an await.
InsertRow(t) ==
    /\ ReqStep(t, "queued", "created")
    /\ CreateRow(t)
    /\ UNCHANGED <<queue, storeVars, provider>>

\* The insert raises, or the push did so after it was executed: the payload
\* stays in the queue without a row.
InsertFails(t) ==
    /\ {"db", "redis"} \intersect Faults # {}
    /\ ReqStep(t, "queued", "refused")
    /\ UNCHANGED <<queue, tableVars, storeVars, provider>>

\* The web process dies: the requests it was serving are abandoned.
AbandonRequests ==
    req' = [t \in Tasks |-> IF req[t] \in {"saved", "queued"}
                            THEN "refused" ELSE req[t]]

CreateStep(t) ==
    \/ RejectUpload(t) \/ AcceptUpload(t) \/ RejectParameters(t)
    \/ EnqueueTask(t) \/ EnqueueFails(t) \/ RepeatPush(t)
    \/ InsertRow(t) \/ InsertFails(t)

ReqType == req \in [Tasks -> ReqStates]

================================================================================
