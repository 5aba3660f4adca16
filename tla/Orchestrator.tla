------------------------------ MODULE Orchestrator -----------------------------
(***************************************************************************)
(* The workers.  Each is one asyncio event loop that runs                  *)
(* ModelOrchestrator.run: fetch a payload, spawn an asyncio task for it,   *)
(* fetch the next.  An attempt is one such asyncio task with everything it *)
(* leaves behind: process_with_semaphore, its done-callback, the completion*)
(* job the callback spawns and the two jobs that one spawns.  An action is *)
(* the code between two awaits.                                            *)
(***************************************************************************)
EXTENDS TaskQueue, TaskTable, ImageStore, TaskStream

VARIABLES
    mode,           \* "up", "draining" after a stop request, or "down"
    current,        \* the variable `task` of run(), which its lambdas share
    permits,        \* the counter of the semaphore
    locked,         \* the model's _model_lock is held
    job             \* the attempt in each slot

workerVars == <<mode, current, permits, locked>>

NoJob == [pc |-> "free", worker |-> NoWorker, task |-> NoTask,
          subject |-> NoTask, verdict |-> "NONE", todo |-> {}]

\* The attempt is process_with_semaphore until "finished", then the
\* completion job ("posted" by the callback, then "checking"), then the pair of
\* reports ("reporting").  Once it "pushed" its payload back, it awaits Redis'
\* answer and has no message any more: somebody else may.
Holding   == {"waiting", "ready", "uploading", "retrying"}
Coroutine == Holding \union {"pushed"}
Permitted == Coroutine \ {"waiting"}
JobStates == Coroutine \union {"free", "finished", "posted", "checking", "reporting"}

OrchestratorInit ==
    /\ mode = [w \in Workers |-> "up"]
    /\ current = [w \in Workers |-> NoTask]
    /\ permits = [w \in Workers |-> MaxConcurrent]
    /\ locked = [w \in Workers |-> FALSE]
    /\ job = [a \in Attempts |-> NoJob]

\* The attempt's message has left the queue and is in its hands.
Holds(a, t) == job[a].pc \in Holding /\ job[a].task = t

Goto(a, from, to) ==
    /\ job[a].pc = from
    /\ job' = [job EXCEPT ![a].pc = to]

\* Mutant of ReleasePermit: the permit is kept.
ReleasePermitNever(w) == UNCHANGED permits

\* Mutant of TakeLock: the model is used without its lock being free.
TakeLockUnchecked(w) == locked' = [locked EXCEPT ![w] = TRUE]

\* Mutant of ReleaseLock: the lock is kept.
ReleaseLockNever(w) == UNCHANGED locked

\* `async with semaphore` and `async with self._model_lock`, in and out.
TakePermit(w) == permits[w] > 0 /\ permits' = [permits EXCEPT ![w] = @ - 1]
ReleasePermit(w) == permits' = [permits EXCEPT ![w] = @ + 1]
TakeLock(w) == ~locked[w] /\ locked' = [locked EXCEPT ![w] = TRUE]
ReleaseLock(w) == locked' = [locked EXCEPT ![w] = FALSE]

----------------------------------------------------------------------------
\* run(): a payload arrives, becomes `task`, and an attempt is spawned.
Fetch(w) ==
    /\ mode[w] = "up"
    /\ \E t \in Tasks, a \in Attempts :
          /\ Dequeue(t)
          /\ job[a] = NoJob
          /\ job' = [job EXCEPT ![a] = [NoJob EXCEPT !.pc = "waiting",
                                                     !.worker = w, !.task = t]]
          /\ current' = [current EXCEPT ![w] = t]
    /\ UNCHANGED <<mode, permits, locked, row, completedAt,
                   uploads, previews, outputs, stream, inbox, page>>

\* run(): BRPOP times out and `task` becomes None.
FetchTimeout(w) ==
    /\ mode[w] = "up"
    /\ queue = <<>>
    /\ current[w] # NoTask
    /\ current' = [current EXCEPT ![w] = NoTask]
    /\ UNCHANGED <<mode, permits, locked, job, queue, row, completedAt,
                   uploads, previews, outputs, stream, inbox, page>>

\* Redis popped the message but get_task() raised before run() had it.
LosePopped(w) ==
    /\ "pop" \in Faults
    /\ mode[w] = "up"
    /\ \E t \in Tasks : Dequeue(t)
    /\ UNCHANGED <<workerVars, job, row, completedAt,
                   uploads, previews, outputs, stream, inbox, page>>

\* The attempt enters the semaphore.
AcquirePermit(a) ==
    LET w == job[a].worker
    IN  /\ Goto(a, "waiting", "ready")
        /\ TakePermit(w)
        /\ UNCHANGED <<mode, current, locked, queue, row, completedAt,
                       uploads, previews, outputs, stream, inbox, page>>

\* predict_async() up to the first await: take the model lock, load the
\* model, read the upload, infer, and save the preview.
RunInference(a) ==
    LET w == job[a].worker
        t == job[a].task
    IN  /\ Goto(a, "ready", "uploading")
        /\ t \notin UnknownType \union Unreadable
        /\ t \in uploads
        /\ TakeLock(w)
        /\ SavePreview(t)
        /\ UNCHANGED <<mode, current, permits, queue, row, completedAt,
                       stream, inbox, page>>

\* _process_task() raises: no such model, no such file, an image the transforms
\* do not take, or the model fails.
InferenceFails(a) ==
    LET w == job[a].worker
        t == job[a].task
    IN  /\ Goto(a, "ready", "retrying")
        /\ \/ t \in UnknownType
           \/ ~locked[w] /\ (t \in Unreadable \/ t \notin uploads \/ "inference" \in Faults)
        /\ UNCHANGED <<workerVars, queue, row, completedAt,
                       uploads, previews, outputs, stream, inbox, page>>

\* Mutant of UploadOutput: a put that failed raises, and the task is retried.
UploadOutputRaises(a) ==
    LET w == job[a].worker
    IN  /\ Goto(a, "uploading", "retrying")
        /\ ReleaseLock(w)
        /\ UNCHANGED <<mode, current, permits, queue, row, completedAt,
                       uploads, previews, outputs, stream, inbox, page>>

\* The rest of _inference(): put the output, leave the lock and the
\* semaphore.  A put that failed looks the same from here.
UploadOutput(a) ==
    LET w == job[a].worker
    IN  /\ Goto(a, "uploading", "finished")
        /\ PutOutput(job[a].task)
        /\ ReleaseLock(w)
        /\ ReleasePermit(w)
        /\ UNCHANGED <<mode, current, queue, row, completedAt,
                       stream, inbox, page>>

\* Mutant of EnqueueRetry: the failed task is dropped.
EnqueueRetryGivesUp(a) ==
    /\ Goto(a, "retrying", "finished")
    /\ ReleasePermit(job[a].worker)
    /\ UNCHANGED <<queue, mode, current, locked, row, completedAt,
                   uploads, previews, outputs, stream, inbox, page>>

\* `except Exception`: the payload is pushed again, whatever the error was and
\* however often it happened.  The coroutine awaits the answer.
EnqueueRetry(a) ==
    /\ Goto(a, "retrying", "pushed")
    /\ Enqueue(job[a].task)
    /\ UNCHANGED <<workerVars, row, completedAt,
                   uploads, previews, outputs, stream, inbox, page>>

\* The client library repeats the push.
RepeatRetry(a) ==
    /\ job[a].pc = "pushed"
    /\ EnqueueAgain(job[a].task)
    /\ UNCHANGED <<job, workerVars, row, completedAt,
                   uploads, previews, outputs, stream, inbox, page>>

\* The push is answered, or raises after it was executed: either way the
\* coroutine leaves the semaphore and ends.
EndRetry(a) ==
    /\ Goto(a, "pushed", "finished")
    /\ ReleasePermit(job[a].worker)
    /\ UNCHANGED <<mode, current, locked, queue, row, completedAt,
                   uploads, previews, outputs, stream, inbox, page>>

\* Mutant of EnqueueRetryFails: a push that raises keeps the permit.
EnqueueRetryFailsLeaking(a) ==
    /\ "redis" \in Faults
    /\ Goto(a, "retrying", "finished")
    /\ UNCHANGED <<workerVars, queue, row, completedAt,
                   uploads, previews, outputs, stream, inbox, page>>

\* The push raises before it was executed, which ends the coroutine as well.
EnqueueRetryFails(a) ==
    /\ "redis" \in Faults
    /\ Goto(a, "retrying", "finished")
    /\ ReleasePermit(job[a].worker)
    /\ UNCHANGED <<mode, current, locked, queue, row, completedAt,
                   uploads, previews, outputs, stream, inbox, page>>

----------------------------------------------------------------------------
\* The task the done-callback hands on: the lambda reads `task` when it is
\* called, and run() has gone round its loop since it was made.
CompletedTask(a) == current[job[a].worker]

\* Mutant of FirstVerdict: whatever was not found in S3 is in progress.
FirstVerdictHopeful(s) == "PROCESSING"

\* The verdict as long as S3 has not answered.
FirstVerdict(s) == IF s \in previews THEN "PROCESSING" ELSE "FAILED"

\* Mutant of HandleTaskCompletion: the task is not looked at here.
HandleTaskCompletionOfNone(a) ==
    /\ job[a].pc = "finished"
    /\ job' = [job EXCEPT ![a].pc = "posted", ![a].subject = CompletedTask(a)]
    /\ UNCHANGED <<workerVars, queue, row, completedAt,
                   uploads, previews, outputs, stream, inbox, page>>

\* The done-callback posts the completion job.  For None that job dies at once
\* of an AttributeError nobody retrieves.
HandleTaskCompletion(a) ==
    LET s == CompletedTask(a)
    IN  /\ job[a].pc = "finished"
        /\ job' = [job EXCEPT ![a] = IF s = NoTask THEN NoJob
                                     ELSE [job[a] EXCEPT !.pc = "posted",
                                                         !.subject = s]]
        /\ UNCHANGED <<workerVars, queue, row, completedAt,
                       uploads, previews, outputs, stream, inbox, page>>

\* The completion job looks at the local disk and asks S3.
CheckOutput(a) ==
    /\ job[a].pc = "posted"
    /\ job' = [job EXCEPT ![a] = [job[a] EXCEPT
                  !.pc = "checking", !.verdict = FirstVerdict(job[a].subject)]]
    /\ UNCHANGED <<workerVars, queue, row, completedAt,
                   uploads, previews, outputs, stream, inbox, page>>

\* The S3 answer arrives, the verdict is settled, and two jobs are spawned.
SettleVerdict(a) ==
    /\ job[a].pc = "checking"
    /\ \E seen \in HeadAnswers(job[a].subject) :
          job' = [job EXCEPT ![a].pc = "reporting",
                             ![a].todo = {"notify", "store"},
                             ![a].verdict = IF seen THEN "COMPLETED" ELSE @]
    /\ UNCHANGED <<workerVars, queue, row, completedAt,
                   uploads, previews, outputs, stream, inbox, page>>

\* One of the two jobs is over; the slot is free when both are.
Done(a, what) ==
    /\ job[a].pc = "reporting"
    /\ what \in job[a].todo
    /\ LET left == job[a].todo \ {what}
       IN  job' = [job EXCEPT ![a] = IF left = {} THEN NoJob
                                     ELSE [job[a] EXCEPT !.todo = left]]

NotifyTaskStatus(a) ==
    /\ Done(a, "notify")
    /\ \/ Publish(job[a].subject, job[a].verdict)
       \/ "redis" \in Faults /\ UNCHANGED <<stream, inbox, page>>
    /\ UNCHANGED <<workerVars, queue, row, completedAt,
                   uploads, previews, outputs>>

UpdateTaskStatus(a) ==
    /\ Done(a, "store")
    /\ \/ UpdateRow(job[a].subject, job[a].verdict)
       \/ "db" \in Faults /\ UNCHANGED <<row, completedAt>>
    /\ UNCHANGED <<workerVars, queue,
                   uploads, previews, outputs, stream, inbox, page>>

----------------------------------------------------------------------------
\* A stop request (SIGINT) cancels run() at its await, which is for BRPOP, and
\* starts shutdown().  What Redis popped for it before it is rid of that BRPOP,
\* which is the moment of this step, is lost.
Stop(w) ==
    /\ "stop" \in Faults
    /\ mode[w] = "up"
    /\ mode' = [mode EXCEPT ![w] = "draining"]
    /\ UNCHANGED queue \/ \E t \in Tasks : Dequeue(t)
    /\ UNCHANGED <<current, permits, locked, job, row, completedAt,
                   uploads, previews, outputs, stream, inbox, page>>

\* The process is gone, and with it everything its event loop was doing.
Leave(w) ==
    /\ mode' = [mode EXCEPT ![w] = "down"]
    /\ current' = [current EXCEPT ![w] = NoTask]
    /\ permits' = [permits EXCEPT ![w] = MaxConcurrent]
    /\ locked' = [locked EXCEPT ![w] = FALSE]
    /\ job' = [a \in Attempts |-> IF job[a].worker = w THEN NoJob ELSE job[a]]
    /\ UNCHANGED <<queue, row, completedAt,
                   uploads, previews, outputs, stream, inbox, page>>

\* Mutant of Exit: shutdown() does not wait for the attempts.
ExitAtOnce(w) == mode[w] = "draining" /\ Leave(w)

\* Mutant of Exit: the worker stays until the queue is empty.
ExitWhenQueueEmpty(w) ==
    /\ mode[w] = "draining"
    /\ queue = <<>>
    /\ \A a \in Attempts :
          job[a].worker = w => job[a].pc \notin Coroutine \union {"finished"}
    /\ Leave(w)

\* shutdown() gathered the coroutines, whose callbacks have run by then; it
\* knows nothing of the completion jobs and the reports, and asyncio.run
\* cancels those that are left.
Exit(w) ==
    /\ mode[w] = "draining"
    /\ \A a \in Attempts :
          job[a].worker = w => job[a].pc \notin Coroutine \union {"finished"}
    /\ Leave(w)

Crash(w) ==
    /\ "crash" \in Faults
    /\ mode[w] # "down"
    /\ Leave(w)

Start(w) ==
    /\ mode[w] = "down"
    /\ mode' = [mode EXCEPT ![w] = "up"]
    /\ UNCHANGED <<current, permits, locked, job, queue, row, completedAt,
                   uploads, previews, outputs, stream, inbox, page>>

AttemptStep(a) ==
    \/ AcquirePermit(a) \/ RunInference(a) \/ InferenceFails(a)
    \/ UploadOutput(a) \/ EnqueueRetry(a) \/ EndRetry(a) \/ EnqueueRetryFails(a)
    \/ HandleTaskCompletion(a) \/ CheckOutput(a) \/ SettleVerdict(a) \/ NotifyTaskStatus(a) \/ UpdateTaskStatus(a)

WorkerStep(w) ==
    \/ Fetch(w) \/ FetchTimeout(w) \/ LosePopped(w)
    \/ Stop(w) \/ Exit(w) \/ Crash(w) \/ Start(w)

WorkerType ==
    /\ mode \in [Workers -> {"up", "draining", "down"}]
    /\ current \in [Workers -> Tasks \union {NoTask}]
    /\ permits \in [Workers -> Nat]
    /\ locked \in [Workers -> BOOLEAN]

Jobs == [pc : JobStates, worker : Workers \union {NoWorker},
         task : Tasks \union {NoTask}, subject : Tasks \union {NoTask},
         verdict : Verdicts \union {"NONE"}, todo : SUBSET {"notify", "store"}]

\* An attempt in a slot has a worker and a task and, once it has a verdict, a
\* task that verdict is about.
Active ==
    {j \in Jobs :
        /\ j.pc # "free"
        /\ j.worker \in Workers
        /\ j.task \in Tasks
        /\ j.pc \in {"posted", "checking", "reporting"} => j.subject \in Tasks
        /\ j.pc \in {"checking", "reporting"} => j.verdict \in Verdicts}

JobsType == job \in [Attempts -> Active \union {NoJob}]

================================================================================
