----------------------------- MODULE DeliveryProofs ----------------------------
(***************************************************************************)
(* Where the message of a task is: for any tasks, workers and attempts,    *)
(* the queue and the attempts never have it twice, and lose it only when   *)
(* Redis or a process fails or, from the queue's head, with a stop         *)
(* request.  And semaphore and lock.                                       *)
(***************************************************************************)
EXTENDS StudioProofs

----------------------------------------------------------------------------
(***************************************************************************)
(* The queue.                                                              *)
(***************************************************************************)

\* A message that is pushed, if it arrives, is in the queue beside those that
\* were there, and once if it was not.
LEMMA Pushed ==
    ASSUME QueueType, NEW t \in Tasks, queue' = Append(queue, t)
    PROVE  /\ \A u \in Tasks : Queued(u)' <=> Queued(u) \/ u = t
           /\ QueuedOnce /\ ~Queued(t) => QueuedOnce'
  <1>1. /\ queue \in Seq(Tasks) /\ Len(queue) \in Nat
        /\ DOMAIN queue = 1 .. Len(queue)
        /\ DOMAIN queue' = 1 .. Len(queue) + 1
        /\ \A i \in 1 .. Len(queue) : queue'[i] = queue[i]
        /\ queue'[Len(queue) + 1] = t
    BY DEF QueueType
  <1>2. ASSUME NEW u \in Tasks PROVE Queued(u)' <=> Queued(u) \/ u = t
    BY <1>1 DEF Queued
  <1>3. ASSUME QueuedOnce, ~Queued(t) PROVE QueuedOnce'
    <2>1. SUFFICES ASSUME NEW i \in 1 .. Len(queue) + 1, NEW j \in 1 .. Len(queue) + 1,
                          queue'[i] = queue'[j]
                   PROVE  i = j
      BY <1>1 DEF QueuedOnce
    <2>2. \A k \in 1 .. Len(queue) : queue[k] # t
      BY <1>1, <1>3 DEF Queued
    <2> QED  BY <1>1, <1>3, <2>1, <2>2 DEF QueuedOnce
  <1> QED  BY <1>2, <1>3

\* The message that is popped was there; the others stay, and it does not if
\* it was there once.
LEMMA Popped ==
    ASSUME QueueType, NEW t \in Tasks, Dequeue(t)
    PROVE  /\ Queued(t)
           /\ \A u \in Tasks : Queued(u)' => Queued(u)
           /\ \A u \in Tasks : Queued(u) => Queued(u)' \/ u = t
           /\ QueuedOnce => QueuedOnce' /\ ~Queued(t)'
  <1>1. /\ queue \in Seq(Tasks) /\ Len(queue) \in Nat \ {0}
        /\ DOMAIN queue = 1 .. Len(queue)
        /\ DOMAIN queue' = 1 .. Len(queue) - 1
        /\ \A i \in 1 .. Len(queue) - 1 : queue'[i] = queue[i + 1]
        /\ queue[1] = t
    BY DEF QueueType, Dequeue
  <1>2. Queued(t)
    BY <1>1 DEF Queued
  <1>3. ASSUME NEW u \in Tasks, Queued(u)' PROVE Queued(u)
    <2>1. PICK i \in 1 .. Len(queue) - 1 : queue'[i] = u
      BY <1>1, <1>3 DEF Queued
    <2>2. i + 1 \in 1 .. Len(queue) /\ queue[i + 1] = u
      BY <1>1, <2>1
    <2> QED  BY <1>1, <2>2 DEF Queued
  <1>4. ASSUME NEW u \in Tasks, Queued(u), u # t PROVE Queued(u)'
    <2>1. PICK i \in 1 .. Len(queue) : queue[i] = u
      BY <1>1, <1>4 DEF Queued
    <2>2. i - 1 \in 1 .. Len(queue) - 1 /\ queue'[i - 1] = queue[(i - 1) + 1]
      BY <1>1, <1>4, <2>1
    <2>3. queue'[i - 1] = u
      BY <1>1, <2>1, <2>2
    <2> QED  BY <1>1, <2>2, <2>3 DEF Queued
  <1>5. ASSUME QueuedOnce PROVE QueuedOnce' /\ ~Queued(t)'
    <2>1. ASSUME NEW i \in 1 .. Len(queue) - 1, NEW j \in 1 .. Len(queue) - 1,
                 queue'[i] = queue'[j]
          PROVE  i = j
      <3>1. /\ i + 1 \in 1 .. Len(queue) /\ j + 1 \in 1 .. Len(queue)
            /\ queue[i + 1] = queue[j + 1]
        BY <1>1, <2>1
      <3>2. i + 1 = j + 1
        BY <1>1, <1>5, <3>1 DEF QueuedOnce
      <3> QED  BY <3>2
    <2>2. ASSUME NEW i \in 1 .. Len(queue) - 1 PROVE queue'[i] # t
      <3>1. i + 1 \in 1 .. Len(queue) /\ i + 1 # 1 /\ queue'[i] = queue[i + 1]
        BY <1>1
      <3> QED  BY <1>1, <1>5, <3>1 DEF QueuedOnce
    <2> QED  BY <1>1, <2>1, <2>2 DEF QueuedOnce, Queued
  <1> QED  BY <1>2, <1>3, <1>4, <1>5

\* Pushing never takes a message out.
LEMMA PushKeeps ==
    ASSUME QueueType, NEW t \in Tasks, Enqueue(t)
    PROVE  Queued(t)' /\ \A u \in Tasks : Queued(u) => Queued(u)'
  BY Pushed DEF Enqueue

----------------------------------------------------------------------------
(***************************************************************************)
(* Who holds a message.                                                    *)
(***************************************************************************)

\* Moving inside the coroutine changes where an attempt is, and nothing else.
LEMMA GotoFields ==
    ASSUME JobsType, NEW a \in Attempts, NEW from \in Coroutine, NEW to, Goto(a, from, to)
    PROVE  /\ job[a].pc = from /\ job'[a].pc = to
           /\ job'[a].task = job[a].task /\ job'[a].worker = job[a].worker
  <1>1. job[a] \in Jobs
    BY BusySlot DEF Goto, Coroutine, Holding, Active
  <1>2. job'[a] = [job[a] EXCEPT !.pc = to]
    BY DEF Goto, JobsType
  <1> QED  BY <1>1, <1>2 DEF Goto, Jobs

\* After its coroutine an attempt is not in one again.
LEMMA CoroutineOver ==
    ASSUME JobsType, NEW a \in Attempts,
           \/ HandleTaskCompletion(a) \/ CheckOutput(a) \/ SettleVerdict(a)
           \/ NotifyTaskStatus(a) \/ UpdateTaskStatus(a)
    PROVE  job[a].pc \notin Coroutine /\ job'[a].pc \notin Coroutine
  <1>1. CASE HandleTaskCompletion(a)
    BY <1>1, CompletionPosts DEF HandleTaskCompletion, Coroutine, Holding
  <1>2. CASE CheckOutput(a)
    BY <1>2, CheckReads DEF CheckOutput, Coroutine, Holding
  <1>3. CASE SettleVerdict(a)
    <2>1. job[a] \in Jobs /\ job[a].pc = "checking"
      BY <1>3, BusySlot DEF SettleVerdict, Active
    <2>2. PICK seen \in HeadAnswers(job[a].subject) :
            job'[a] = [job[a] EXCEPT !.pc = "reporting", !.todo = {"notify", "store"},
                                     !.verdict = IF seen THEN "COMPLETED" ELSE @]
      BY <1>3 DEF SettleVerdict, JobsType
    <2> QED  BY <2>1, <2>2 DEF Jobs, Coroutine, Holding
  <1>4. CASE NotifyTaskStatus(a) \/ UpdateTaskStatus(a)
    BY <1>4, DoneStays DEF NotifyTaskStatus, UpdateTaskStatus, Done, Coroutine, Holding
  <1> QED  BY <1>1, <1>2, <1>3, <1>4

\* No attempt gets hold of a message, and none that puts its output goes back
\* to what it did before.
HoldsKept ==
    \A a \in Attempts, t \in Tasks :
       Holds(a, t)' => /\ Holds(a, t)
                       /\ job[a].pc = "uploading" => job'[a].pc = "uploading"

\* But for run(), nobody gets hold of a message.
LEMMA AttemptHolds ==
    ASSUME JobsType, NEW a \in Attempts, AttemptStep(a)
    PROVE  HoldsKept
  <1> SUFFICES ASSUME NEW b \in Attempts, NEW t \in Tasks, Holds(b, t)'
               PROVE  /\ Holds(b, t)
                      /\ job[b].pc = "uploading" => job'[b].pc = "uploading"
    BY DEF HoldsKept
  <1>1. CASE b # a
    BY <1>1, OneAttempt DEF Holds
  <1>2. CASE b = a
    <2>1. job'[a].pc \in Holding
      BY <1>2 DEF Holds
    <2>2. CASE AcquirePermit(a)
      BY <1>2, <2>2, GotoFields DEF AcquirePermit, Coroutine, Holding, Holds
    <2>3. CASE RunInference(a)
      BY <1>2, <2>3, GotoFields DEF RunInference, Coroutine, Holding, Holds
    <2>4. CASE InferenceFails(a)
      BY <1>2, <2>4, GotoFields DEF InferenceFails, Coroutine, Holding, Holds
    <2>5. CASE UploadOutput(a)
      BY <2>1, <2>5, GotoFields DEF UploadOutput, Coroutine, Holding
    <2>6. CASE EnqueueRetry(a) \/ EndRetry(a) \/ EnqueueRetryFails(a)
      BY <2>1, <2>6, GotoFields
      DEF EnqueueRetry, EndRetry, EnqueueRetryFails, Coroutine, Holding
    <2>7. CASE \/ HandleTaskCompletion(a) \/ CheckOutput(a) \/ SettleVerdict(a)
               \/ NotifyTaskStatus(a) \/ UpdateTaskStatus(a)
      BY <2>1, <2>7, CoroutineOver DEF Coroutine
    <2> QED  BY <2>2, <2>3, <2>4, <2>5, <2>6, <2>7 DEF AttemptStep
  <1> QED  BY <1>1, <1>2

LEMMA LeaveHolds ==
    ASSUME JobsType, NEW w \in Workers, Leave(w)
    PROVE  HoldsKept
  BY DEF Leave, JobsType, NoJob, HoldsKept, Holds, Holding

----------------------------------------------------------------------------
(***************************************************************************)
(* The steps, as the messages see them.                                    *)
(***************************************************************************)

LEMMA MessageSteps ==
    ASSUME JobsType, [Next]_vars
    PROVE  \/ UNCHANGED <<queue, job, previews>>
           \/ \E t \in Tasks : /\ EnqueueTask(t) \/ EnqueueAgain(t)
                               /\ UNCHANGED <<job, previews>>
           \/ \E a \in Attempts : AttemptStep(a) /\ UNCHANGED queue
           \/ \E a \in Attempts : EnqueueRetry(a)
           \/ \E w \in Workers : \/ Fetch(w) \/ LosePopped(w) \/ Exit(w) \/ Crash(w)
                                 \/ Stop(w) /\ \E t \in Tasks : Dequeue(t)
  <1>1. ASSUME NEW t \in Tasks, Create(t)
        PROVE  \/ UNCHANGED <<queue, job, previews>>
               \/ /\ EnqueueTask(t) \/ EnqueueAgain(t)
                  /\ UNCHANGED <<job, previews>>
    BY <1>1 DEF Create, CreateStep, RejectUpload, AcceptUpload, StoreUpload, SaveUpload,
                RejectParameters, EnqueueTask, EnqueueFails, RepeatPush, InsertRow,
                InsertFails, storeVars, runVars
  <1>2. ASSUME \/ \E t \in Tasks : \/ Subscribe(t) \/ AnswerLost(t)
                                   \/ SubscribeFails(t) \/ Stream(t)
               \/ ViewImage \/ WebCrash
        PROVE  UNCHANGED <<queue, job, previews>>
    BY <1>2 DEF Subscribe, AnswerLost, SubscribeFails, Stream, ViewImage, WebCrash,
                storeVars, runVars
  <1>3. ASSUME NEW a \in Attempts, Attempt(a)
        PROVE  (AttemptStep(a) /\ UNCHANGED queue) \/ EnqueueRetry(a)
    BY <1>3 DEF Attempt, AttemptStep, AcquirePermit, RunInference, InferenceFails,
                UploadOutput, EndRetry, EnqueueRetryFails, HandleTaskCompletion,
                CheckOutput, SettleVerdict, NotifyTaskStatus, UpdateTaskStatus
  <1>4. ASSUME NEW w \in Workers, Worker(w)
        PROVE  \/ UNCHANGED <<queue, job, previews>>
               \/ Fetch(w) \/ LosePopped(w) \/ Exit(w) \/ Crash(w)
               \/ Stop(w) /\ \E t \in Tasks : Dequeue(t)
    BY <1>4 DEF Worker, WorkerStep, FetchTimeout, Stop, Start
  <1>5. ASSUME NEW a \in Attempts, Repeat(a)
        PROVE  \E t \in Tasks : EnqueueAgain(t) /\ UNCHANGED <<job, previews>>
    <2>1. job[a].task \in Tasks
      BY <1>5, BusySlot, ActiveFields DEF Repeat, RepeatRetry
    <2> QED  BY <1>5, <2>1 DEF Repeat, RepeatRetry
  <1>6. UNCHANGED vars => UNCHANGED <<queue, job, previews>>
    BY DEF vars
  <1> QED  BY <1>1, <1>2, <1>3, <1>4, <1>5, <1>6 DEF Next

\* Only attempts make previews, and only RunInference.
LEMMA PreviewSteps ==
    ASSUME [Next]_vars
    PROVE  UNCHANGED previews \/ \E a \in Attempts : RunInference(a)
  BY StoreSteps DEF storeVars, AcceptUpload, StoreUpload, SaveUpload, UploadOutput, PutOutput

\* A request that steps is at another place, and the others are where they were.
LEMMA ReqFields ==
    ASSUME ReqType, NEW u \in Tasks, NEW from, NEW to, ReqStep(u, from, to)
    PROVE  /\ req[u] = from /\ req'[u] = to
           /\ \A t \in Tasks : t # u => req'[t] = req[t]
  BY DEF ReqStep, ReqType

\* The places a request has been to.
Unqueued(t) == req[t] \in {"idle", "saved"}
Accepted(t) == req[t] \in {"queued", "created"}

\* EnqueueTask ends the time before the queue.
LEMMA EnqueueOnce ==
    ASSUME ReqType, NEW u \in Tasks, EnqueueTask(u)
    PROVE  Unqueued(u) /\ ~Unqueued(u)'
  BY ReqFields DEF EnqueueTask, Unqueued

\* A request does not go back; it gets past the queue by EnqueueTask only.
LEMMA RequestSteps ==
    ASSUME ReqType, [Next]_vars, NEW t \in Tasks
    PROVE  /\ Unqueued(t)' => Unqueued(t)
           /\ Accepted(t)' => Accepted(t) \/ EnqueueTask(t)
  <1> USE DEF Unqueued, Accepted
  <1>1. ASSUME NEW u \in Tasks, CreateStep(u)
        PROVE  /\ Unqueued(t)' => Unqueued(t)
               /\ Accepted(t)' => Accepted(t) \/ EnqueueTask(t)
    <2>1. CASE EnqueueTask(u)
      <3>1. ReqStep(u, "saved", "queued")
        BY <2>1 DEF EnqueueTask
      <3> QED  BY <2>1, <3>1, ReqFields
    <2>2. \/ \E to \in {"refused", "saved"} : ReqStep(u, "idle", to)
          \/ ReqStep(u, "saved", "refused")
          \/ \E to \in {"created", "refused"} : ReqStep(u, "queued", to)
          \/ EnqueueTask(u)
          \/ UNCHANGED req
      BY <1>1 DEF CreateStep, RejectUpload, AcceptUpload, RejectParameters,
                  EnqueueFails, RepeatPush, InsertRow, InsertFails
    <2>3. CASE \E to \in {"refused", "saved"} : ReqStep(u, "idle", to)
      BY <2>3, ReqFields
    <2>4. CASE ReqStep(u, "saved", "refused")
      BY <2>4, ReqFields
    <2>5. CASE \E to \in {"created", "refused"} : ReqStep(u, "queued", to)
      BY <2>5, ReqFields
    <2> QED  BY <2>1, <2>2, <2>3, <2>4, <2>5
  <1>2. CASE UNCHANGED req
    BY <1>2
  <1>3. CASE WebCrash
    <2>1. req'[t] = IF req[t] \in {"saved", "queued"} THEN "refused" ELSE req[t]
      BY <1>3 DEF WebCrash, AbandonRequests
    <2> QED  BY <2>1
  <1>4. \/ \E u \in Tasks : CreateStep(u)
        \/ UNCHANGED req
        \/ WebCrash
    BY DEF Next, Create, Subscribe, AnswerLost, SubscribeFails, Stream, ViewImage,
           Attempt, Repeat, Worker, webVars, vars
  <1> QED  BY <1>1, <1>2, <1>3, <1>4

----------------------------------------------------------------------------
(***************************************************************************)
(* One message.                                                            *)
(***************************************************************************)

\* What SingleMessage and RenderedOnce come to without repeated commands, and
\* that a task has no preview before it has a message.
OneMessage ==
    /\ QueuedOnce
    /\ QueuedOrHeld
    /\ HeldOnce
    /\ UnknownBeforeQueued
    /\ \A t \in Tasks : Unqueued(t) => t \notin previews
    /\ \A t \in previews : /\ ~Queued(t)
                           /\ \A a \in Attempts : Holds(a, t) => job[a].pc = "uploading"

DeliveryInv == TypeOK /\ ("resend" \notin Faults => OneMessage)

LEMMA DeliveryInit == Init => DeliveryInv
  <1> SUFFICES ASSUME Init PROVE DeliveryInv
    OBVIOUS
  <1>1. queue = <<>> /\ previews = {} /\ \A a \in Attempts : job[a].pc = "free"
    BY DEF Init, QueueInit, StoreInit, OrchestratorInit, NoJob
  <1>2. QueuedOnce /\ \A t : ~Queued(t)
    BY <1>1 DEF QueuedOnce, Queued
  <1>3. \A a \in Attempts, t \in Tasks : ~Holds(a, t)
    BY <1>1 DEF Holds, Holding
  <1>4. OneMessage
    BY <1>1, <1>2, <1>3 DEF OneMessage, QueuedOrHeld, HeldOnce, UnknownBeforeQueued
  <1> QED  BY <1>4, TypeInit DEF DeliveryInv

\* No message is pushed or popped, and nobody gets hold of one.
LEMMA QuietStep ==
    ASSUME TypeOK, OneMessage, [Next]_vars, HoldsKept, UNCHANGED <<queue, previews>>
    PROVE  OneMessage'
  <1>1. \A t \in Tasks : Unqueued(t)' => Unqueued(t)
    BY RequestSteps DEF TypeOK
  <1>2. \A t \in Tasks : Queued(t)' <=> Queued(t)
    BY DEF Queued
  <1>3. QueuedOnce'
    BY DEF OneMessage, QueuedOnce
  <1>4. previews \subseteq Tasks
    BY DEF TypeOK, StoreType
  <1>5. QueuedOrHeld' /\ HeldOnce'
    BY <1>2 DEF OneMessage, QueuedOrHeld, HeldOnce, HoldsKept
  <1>6. UnknownBeforeQueued'
    BY <1>1, <1>2 DEF OneMessage, UnknownBeforeQueued, Unqueued, HoldsKept
  <1>7. ASSUME NEW t \in previews'
        PROVE  ~Queued(t)' /\ \A a \in Attempts : Holds(a, t)' => job'[a].pc = "uploading"
    BY <1>2, <1>4, <1>7 DEF OneMessage, HoldsKept
  <1> QED  BY <1>1, <1>3, <1>5, <1>6, <1>7 DEF OneMessage

\* A message that is nowhere, of a task without a preview, is pushed.
LEMMA PushStep ==
    ASSUME TypeOK, OneMessage, [Next]_vars, HoldsKept, UNCHANGED previews,
           NEW u \in Tasks, queue' = Append(queue, u), ~Queued(u), u \notin previews,
           ~Unqueued(u)', \A a \in Attempts : ~Holds(a, u)'
    PROVE  OneMessage'
  <1>1. \A t \in Tasks : Unqueued(t)' => Unqueued(t)
    BY RequestSteps DEF TypeOK
  <1>2. QueuedOnce' /\ \A t \in Tasks : Queued(t)' <=> Queued(t) \/ t = u
    BY Pushed DEF TypeOK, OneMessage
  <1>4. previews \subseteq Tasks
    BY DEF TypeOK, StoreType
  <1>5. QueuedOrHeld' /\ HeldOnce'
    BY <1>2 DEF OneMessage, QueuedOrHeld, HeldOnce, HoldsKept
  <1>6. UnknownBeforeQueued'
    BY <1>1, <1>2 DEF OneMessage, UnknownBeforeQueued, Unqueued, HoldsKept
  <1>7. ASSUME NEW t \in previews'
        PROVE  ~Queued(t)' /\ \A a \in Attempts : Holds(a, t)' => job'[a].pc = "uploading"
    BY <1>2, <1>4, <1>7 DEF OneMessage, HoldsKept
  <1> QED  BY <1>1, <1>2, <1>5, <1>6, <1>7 DEF OneMessage

\* A request, or an attempt that failed, pushes its message.
LEMMA EnqueueStep ==
    ASSUME TypeOK, OneMessage, [Next]_vars, NEW u \in Tasks, EnqueueTask(u),
           UNCHANGED <<job, previews>>
    PROVE  OneMessage'
  <1>1. Unqueued(u) /\ ~Unqueued(u)'
    BY EnqueueOnce DEF TypeOK
  <1>2. /\ ~Queued(u) /\ u \notin previews
        /\ \A a \in Attempts : ~Holds(a, u)
    BY <1>1 DEF OneMessage, UnknownBeforeQueued, Unqueued
  <1>3. HoldsKept /\ \A a \in Attempts : Holds(a, u)' <=> Holds(a, u)
    BY DEF HoldsKept, Holds
  <1>4. queue' = Append(queue, u)
    BY DEF EnqueueTask, Enqueue
  <1> QED  BY <1>1, <1>2, <1>3, <1>4, PushStep

LEMMA RetryStep ==
    ASSUME TypeOK, OneMessage, [Next]_vars, NEW a \in Attempts, EnqueueRetry(a)
    PROVE  OneMessage'
  <1>0. JobsType
    BY DEF TypeOK
  <1>1. job[a].pc = "retrying" /\ job'[a].pc = "pushed"
    BY <1>0, GotoFields DEF EnqueueRetry, Coroutine, Holding
  <1>2. PICK u \in Tasks : u = job[a].task
    BY <1>0, <1>1, BusySlot, ActiveFields
  <1>3. HoldsKept /\ UNCHANGED previews
    BY <1>0, AttemptHolds DEF AttemptStep, EnqueueRetry
  <1>4. Holds(a, u) /\ ~Holds(a, u)'
    BY <1>1, <1>2 DEF Holds, Holding
  <1>5. \A b \in Attempts : ~Holds(b, u)'
    BY <1>2, <1>3, <1>4 DEF HoldsKept, OneMessage, HeldOnce
  <1>6. ~Queued(u) /\ u \notin previews /\ ~Unqueued(u)
    BY <1>1, <1>2, <1>4 DEF OneMessage, QueuedOrHeld, UnknownBeforeQueued, Unqueued
  <1>7. ~Unqueued(u)'
    BY <1>2, <1>6, RequestSteps DEF TypeOK
  <1>8. queue' = Append(queue, u)
    BY <1>2 DEF EnqueueRetry, Enqueue
  <1> QED  BY <1>2, <1>3, <1>5, <1>6, <1>7, <1>8, PushStep

\* A worker takes a message, or drops it.
LEMMA PopStep ==
    ASSUME TypeOK, OneMessage, [Next]_vars, NEW w \in Workers,
           \/ Fetch(w) \/ LosePopped(w)
           \/ Stop(w) /\ \E t \in Tasks : Dequeue(t)
    PROVE  OneMessage'
  <1>0. PICK u \in Tasks :
           /\ Dequeue(u)
           /\ \/ UNCHANGED job
              \/ \E a \in Attempts :
                    job' = [job EXCEPT ![a] = [NoJob EXCEPT !.pc = "waiting",
                                                  !.worker = w, !.task = u]]
    BY DEF Fetch, LosePopped, Stop
  <1>1. \A t \in Tasks : Unqueued(t)' => Unqueued(t)
    BY RequestSteps DEF TypeOK
  <1>2. /\ Queued(u) /\ ~Queued(u)' /\ QueuedOnce'
        /\ \A t \in Tasks : Queued(t)' => Queued(t)
    <2>1. QueueType /\ QueuedOnce
      BY DEF TypeOK, OneMessage
    <2> QED  BY <1>0, <2>1, Popped
  <1>3. UNCHANGED previews /\ previews \subseteq Tasks
    BY DEF Fetch, LosePopped, Stop, TypeOK, StoreType
  <1>4. PICK c :
           \A b \in Attempts, t \in Tasks :
              Holds(b, t)' => \/ Holds(b, t) /\ job'[b] = job[b]
                              \/ b = c /\ t = u
    <2>1. CASE UNCHANGED job
      BY <2>1 DEF Holds
    <2>2. CASE \E a \in Attempts :
                  job' = [job EXCEPT ![a] = [NoJob EXCEPT !.pc = "waiting",
                                                !.worker = w, !.task = u]]
      <3>1. PICK a \in Attempts :
                  job' = [job EXCEPT ![a] = [NoJob EXCEPT !.pc = "waiting",
                                                !.worker = w, !.task = u]]
        BY <2>2
      <3>2. \A b \in Attempts, t \in Tasks :
              Holds(b, t)' => \/ Holds(b, t) /\ job'[b] = job[b]
                              \/ b = a /\ t = u
        BY <3>1 DEF TypeOK, JobsType, NoJob, Holds
      <3> QED  BY <3>2
    <2> QED  BY <1>0, <2>1, <2>2
  <1>5. \A b \in Attempts : ~Holds(b, u)
    BY <1>2 DEF OneMessage, QueuedOrHeld
  <1>6. QueuedOrHeld' /\ HeldOnce'
    BY <1>2, <1>4, <1>5 DEF OneMessage, QueuedOrHeld, HeldOnce
  <1>7. ~Unqueued(u) /\ u \notin previews
    BY <1>2 DEF OneMessage, UnknownBeforeQueued, Unqueued
  <1>8. UnknownBeforeQueued'
    BY <1>1, <1>2, <1>4, <1>7 DEF OneMessage, UnknownBeforeQueued, Unqueued
  <1>9. ASSUME NEW t \in previews'
        PROVE  ~Queued(t)' /\ \A b \in Attempts : Holds(b, t)' => job'[b].pc = "uploading"
    BY <1>2, <1>3, <1>4, <1>7, <1>9 DEF OneMessage
  <1> QED  BY <1>1, <1>2, <1>3, <1>6, <1>8, <1>9 DEF OneMessage

\* An attempt that makes a preview holds the one message of its task.
LEMMA RenderStep ==
    ASSUME TypeOK, OneMessage, [Next]_vars, NEW a \in Attempts, RunInference(a)
    PROVE  OneMessage'
  <1> DEFINE u == job[a].task
  <1>0. JobsType
    BY DEF TypeOK
  <1>1. job[a].pc = "ready" /\ job'[a].pc = "uploading"
    BY <1>0, GotoFields DEF RunInference, Coroutine, Holding
  <1>2. u \in Tasks /\ Holds(a, u)
    BY <1>0, <1>1, BusySlot, ActiveFields DEF Holds, Coroutine, Holding
  <1>3. HoldsKept
    BY <1>0, AttemptHolds DEF AttemptStep
  <1>4. previews' = previews \union {u} /\ UNCHANGED queue /\ previews \subseteq Tasks
    BY DEF RunInference, SavePreview, TypeOK, StoreType
  <1>5. \A t \in Tasks : Unqueued(t)' => Unqueued(t)
    BY RequestSteps DEF TypeOK
  <1>6. \A t \in Tasks : Queued(t)' <=> Queued(t)
    BY <1>4 DEF Queued
  <1>7. QueuedOnce' /\ QueuedOrHeld' /\ HeldOnce'
    BY <1>3, <1>4, <1>6 DEF OneMessage, QueuedOnce, QueuedOrHeld, HeldOnce, HoldsKept
  <1>8. UnknownBeforeQueued'
    BY <1>3, <1>5, <1>6 DEF OneMessage, UnknownBeforeQueued, Unqueued, HoldsKept
  <1>9. ~Queued(u) /\ ~Unqueued(u) /\ \A b \in Attempts : Holds(b, u) => b = a
    BY <1>2 DEF OneMessage, QueuedOrHeld, HeldOnce, UnknownBeforeQueued, Unqueued
  <1>10. ASSUME NEW t \in previews'
         PROVE  ~Queued(t)' /\ \A b \in Attempts : Holds(b, t)' => job'[b].pc = "uploading"
    <2>1. CASE t = u
      BY <1>1, <1>2, <1>3, <1>6, <1>9, <2>1 DEF HoldsKept
    <2>2. CASE t \in previews
      BY <1>3, <1>4, <1>6, <2>2 DEF OneMessage, HoldsKept
    <2> QED  BY <1>4, <1>10, <2>1, <2>2
  <1> QED  BY <1>4, <1>5, <1>7, <1>8, <1>9, <1>10 DEF OneMessage

LEMMA DeliveryStep == DeliveryInv /\ [Next]_vars => DeliveryInv'
  <1> SUFFICES ASSUME DeliveryInv, [Next]_vars, "resend" \notin Faults
               PROVE  OneMessage'
    BY TypeStep DEF DeliveryInv
  <1>0. TypeOK /\ JobsType /\ OneMessage
    BY DEF DeliveryInv, TypeOK
  <1>1. CASE UNCHANGED <<queue, job, previews>>
    BY <1>0, <1>1, QuietStep DEF HoldsKept, Holds
  <1>2. ASSUME NEW t \in Tasks,
               (EnqueueTask(t) \/ EnqueueAgain(t)) /\ UNCHANGED <<job, previews>>
        PROVE  OneMessage'
    BY <1>0, <1>2, EnqueueStep DEF EnqueueAgain
  <1>3. ASSUME NEW a \in Attempts, AttemptStep(a), UNCHANGED queue
        PROVE  OneMessage'
    <2>1. HoldsKept
      BY <1>0, <1>3, AttemptHolds
    <2> QED  BY <1>0, <1>3, <2>1, QuietStep, RenderStep, PreviewSteps
  <1>4. ASSUME NEW a \in Attempts, EnqueueRetry(a) PROVE OneMessage'
    BY <1>0, <1>4, RetryStep
  <1>5. ASSUME NEW w \in Workers,
               \/ Fetch(w) \/ LosePopped(w)
               \/ Stop(w) /\ \E t \in Tasks : Dequeue(t)
        PROVE  OneMessage'
    BY <1>0, <1>5, PopStep
  <1>6. ASSUME NEW w \in Workers, Exit(w) \/ Crash(w) PROVE OneMessage'
    <2>1. Leave(w) /\ UNCHANGED <<queue, previews>>
      BY <1>6 DEF Exit, Crash, Leave
    <2> QED  BY <1>0, <2>1, LeaveHolds, QuietStep
  <1> QED  BY <1>0, <1>1, <1>2, <1>3, <1>4, <1>5, <1>6, MessageSteps

LEMMA DeliveryAlways == Spec => []DeliveryInv
  <1> QED  BY DeliveryInit, DeliveryStep, PTL DEF Spec

\* A task has one message, in the queue or in one attempt's hands, whatever
\* fails, as long as no client library repeats a command.
THEOREM MessageSingle == Spec => []SingleMessage
  <1>1. DeliveryInv => SingleMessage
    BY DEF DeliveryInv, OneMessage, SingleMessage
  <1> QED  BY <1>1, DeliveryAlways, PTL

\* A task that has its preview is not inferred again.
THEOREM InferredOnce == Spec => []RenderedOnce
  <1>1. DeliveryInv => RenderedOnce
    BY DEF DeliveryInv, OneMessage, RenderedOnce
  <1> QED  BY <1>1, DeliveryAlways, PTL

----------------------------------------------------------------------------
(***************************************************************************)
(* No message is lost.                                                     *)
(***************************************************************************)

\* An attempt gives a message up to the queue, or for its preview.
LEMMA AttemptKeeps ==
    ASSUME HonestInv, [Next]_vars, "redis" \notin Faults, NEW a \in Attempts,
           AttemptStep(a), EnqueueRetry(a) \/ UNCHANGED queue, NEW t \in Tasks, Kept(t)
    PROVE  Kept(t)'
  <1>0. JobsType /\ QueueType /\ UploadsRendered /\ previews \subseteq previews'
    BY StoresGrow DEF HonestInv, TypeOK
  <1>1. CASE t \in previews
    BY <1>0, <1>1 DEF Kept
  <1>2. CASE Queued(t)
    <2>1. CASE UNCHANGED queue
      BY <1>2, <2>1 DEF Kept, Queued
    <2>2. CASE EnqueueRetry(a)
      <3>1. PICK u \in Tasks : u = job[a].task
        BY <1>0, <2>2, BusySlot, ActiveFields DEF EnqueueRetry, Goto
      <3>2. Queued(t)'
        BY <1>0, <1>2, <2>2, <3>1, PushKeeps DEF EnqueueRetry
      <3> QED  BY <3>2 DEF Kept
    <2> QED  BY <2>1, <2>2
  <1>3. ASSUME NEW b \in Attempts, Holds(b, t), b # a PROVE Kept(t)'
    BY <1>0, <1>3, OneAttempt DEF Kept, Holds
  <1>4. CASE Holds(a, t)
    <2>1. job[a].pc \in Holding /\ job[a].task = t
      BY <1>4 DEF Holds
    <2>2. CASE AcquirePermit(a) \/ RunInference(a) \/ InferenceFails(a)
      <3>1. job'[a].pc \in Holding /\ job'[a].task = t
        BY <1>0, <2>1, <2>2, GotoFields
        DEF AcquirePermit, RunInference, InferenceFails, Coroutine, Holding
      <3> QED  BY <3>1 DEF Kept, Holds
    <2>3. CASE UploadOutput(a)
      BY <1>0, <2>1, <2>3 DEF UploadOutput, Goto, UploadsRendered, Kept
    <2>4. CASE EnqueueRetry(a)
      <3>1. Enqueue(t)
        BY <2>1, <2>4 DEF EnqueueRetry
      <3> QED  BY <1>0, <3>1, PushKeeps DEF Kept
    <2>5. ~EndRetry(a) /\ ~EnqueueRetryFails(a)
      BY <2>1 DEF EndRetry, EnqueueRetryFails, Goto, Holding
    <2>6. job[a].pc \in Coroutine
      BY <2>1 DEF Coroutine
    <2> QED  BY <1>0, <2>2, <2>3, <2>4, <2>5, <2>6, CoroutineOver DEF AttemptStep
  <1> QED  BY <1>1, <1>2, <1>3, <1>4 DEF Kept

\* What a worker takes off the queue is in an attempt's hands.
LEMMA FetchKeeps ==
    ASSUME TypeOK, NEW w \in Workers, Fetch(w), NEW t \in Tasks, Kept(t)
    PROVE  Kept(t)'
  <1>1. PICK u \in Tasks, a \in Attempts :
           /\ Dequeue(u)
           /\ job[a] = NoJob
           /\ job' = [job EXCEPT ![a] = [NoJob EXCEPT !.pc = "waiting",
                                            !.worker = w, !.task = u]]
    BY DEF Fetch
  <1>2. Holds(a, u)'
    BY <1>1 DEF TypeOK, JobsType, NoJob, Holds, Holding
  <1>3. ASSUME NEW b \in Attempts, Holds(b, t) PROVE Holds(b, t)'
    BY <1>1, <1>3 DEF TypeOK, JobsType, NoJob, Holds, Holding
  <1>4. Queued(t) => Queued(t)' \/ t = u
    BY <1>1, Popped DEF TypeOK
  <1>5. UNCHANGED previews
    BY DEF Fetch
  <1> QED  BY <1>2, <1>3, <1>4, <1>5 DEF Kept

\* The one way out: a stop request comes when BRPOP has popped it.
LEMMA KeptStep ==
    ASSUME HonestInv, [Next]_vars, {"redis", "crash", "pop"} \intersect Faults = {},
           NEW t \in Tasks, Kept(t)
    PROVE  Kept(t)' \/ \E w \in Workers : Stop(w) /\ Dequeue(t)
  <1>0. QueueType /\ JobsType /\ TypeOK
    BY DEF HonestInv, TypeOK
  <1>1. CASE UNCHANGED <<queue, job, previews>>
    BY <1>1 DEF Kept, Queued, Holds
  <1>2. ASSUME NEW u \in Tasks,
               (EnqueueTask(u) \/ EnqueueAgain(u)) /\ UNCHANGED <<job, previews>>
        PROVE  Kept(t)'
    <2>1. Queued(t) => Queued(t)'
      BY <1>0, <1>2, PushKeeps DEF EnqueueTask, EnqueueAgain
    <2> QED  BY <1>2, <2>1 DEF Kept, Holds
  <1>3. ASSUME NEW a \in Attempts, AttemptStep(a), EnqueueRetry(a) \/ UNCHANGED queue
        PROVE  Kept(t)'
    BY <1>3, AttemptKeeps
  <1>4. ASSUME NEW w \in Workers, Fetch(w) PROVE Kept(t)'
    BY <1>0, <1>4, FetchKeeps
  <1>5. ASSUME NEW w \in Workers, Exit(w) PROVE Kept(t)'
    <2>1. \A b \in Attempts : Holds(b, t) => Holds(b, t)'
      BY <1>0, <1>5 DEF Exit, Leave, JobsType, Holds, Coroutine
    <2>2. UNCHANGED <<queue, previews>>
      BY <1>5 DEF Exit, Leave
    <2> QED  BY <2>1, <2>2 DEF Kept, Queued
  <1>6. ASSUME NEW w \in Workers, Stop(w), NEW u \in Tasks, Dequeue(u)
        PROVE  Kept(t)' \/ (Stop(w) /\ Dequeue(t))
    <2>1. UNCHANGED <<job, previews>>
      BY <1>6 DEF Stop
    <2>2. Queued(t) => Queued(t)' \/ t = u
      BY <1>0, <1>6, Popped
    <2> QED  BY <1>6, <2>1, <2>2 DEF Kept, Holds
  <1>7. \A w \in Workers : ~LosePopped(w) /\ ~Crash(w)
    BY DEF LosePopped, Crash
  <1>8. \A a \in Attempts : EnqueueRetry(a) => AttemptStep(a)
    BY DEF AttemptStep
  <1> QED  BY <1>0, <1>1, <1>2, <1>3, <1>4, <1>5, <1>6, <1>7, <1>8, MessageSteps

LossInv == HonestInv /\ NoMessageLost

LEMMA LossInit == Init => LossInv
  BY HonestInit DEF LossInv, NoMessageLost, Init, ReqInit

LEMMA LossStep == LossInv /\ [Next]_vars => LossInv'
  <1> SUFFICES ASSUME LossInv, [Next]_vars,
                      {"redis", "crash", "pop", "stop"} \intersect Faults = {},
                      NEW t \in Tasks, Accepted(t)'
               PROVE  Kept(t)'
    BY HonestStep DEF LossInv, NoMessageLost, Accepted
  <1>1. Accepted(t) \/ EnqueueTask(t)
    BY RequestSteps DEF LossInv, HonestInv, TypeOK
  <1>2. CASE Accepted(t)
    <2>1. Kept(t)
      BY <1>2 DEF LossInv, NoMessageLost, Accepted
    <2>2. \A w \in Workers : ~Stop(w)
      BY DEF Stop
    <2> QED  BY <2>1, <2>2, KeptStep DEF LossInv
  <1>3. CASE EnqueueTask(t)
    BY <1>3, PushKeeps DEF EnqueueTask, LossInv, HonestInv, TypeOK, Kept
  <1> QED  BY <1>1, <1>2, <1>3

\* Unless Redis or a process fails or a worker is stopped, a payload that was
\* pushed is queued or held until its preview is made, however many workers
\* fail and retry it.
THEOREM MessageKept == Spec => []NoMessageLost
  <1>1. LossInv => NoMessageLost
    BY DEF LossInv
  <1> QED  BY <1>1, LossInit, LossStep, PTL DEF Spec

\* Unless Redis or a process fails, a payload is lost only together with a stop
\* request, and is then the one that was at the head of the queue: what
\* the attempts of a stopped worker hold is not lost, for any number of stops.
THEOREM StopLoss == Spec => StopLosesOne
  <1>1. ASSUME HonestInv, [Next]_vars
        PROVE  [Faults \intersect {"redis", "crash", "pop"} = {} =>
                  \A t \in Tasks : Kept(t) /\ ~Kept(t)' =>
                     /\ queue # <<>> /\ t = Head(queue)
                     /\ \E w \in Workers : mode[w] = "up" /\ mode'[w] = "draining"]_vars
    <2> SUFFICES ASSUME Faults \intersect {"redis", "crash", "pop"} = {},
                        NEW t \in Tasks, Kept(t), ~Kept(t)'
                 PROVE  /\ queue # <<>> /\ t = Head(queue)
                        /\ \E w \in Workers : mode[w] = "up" /\ mode'[w] = "draining"
      OBVIOUS
    <2>1. PICK w \in Workers : Stop(w) /\ Dequeue(t)
      BY <1>1, KeptStep
    <2>2. mode[w] = "up" /\ mode' = [mode EXCEPT ![w] = "draining"]
      BY <2>1 DEF Stop
    <2>3. mode'[w] = "draining"
      BY <1>1, <2>2 DEF HonestInv, TypeOK, WorkerType
    <2> QED  BY <2>1, <2>2, <2>3 DEF Dequeue
  <1> QED  BY <1>1, HonestAlways, PTL DEF Spec, StopLosesOne

----------------------------------------------------------------------------
(***************************************************************************)
(* Semaphore and lock.                                                     *)
(***************************************************************************)

\* Nobody enters or leaves semaphore or lock.
SameHolders ==
    /\ UNCHANGED <<permits, locked>>
    /\ \A w \in Workers : /\ PermitHolders(w)' = PermitHolders(w)
                          /\ \A a \in Attempts : Uploading(a, w)' <=> Uploading(a, w)

\* Who enters and leaves, and how.
LEMMA HolderSteps ==
    ASSUME JobsType, [Next]_vars
    PROVE  \/ SameHolders
           \/ \E a \in Attempts : \/ AcquirePermit(a) \/ RunInference(a) \/ InferenceFails(a)
                                  \/ UploadOutput(a) \/ EnqueueRetry(a) \/ EndRetry(a)
                                  \/ EnqueueRetryFails(a)
           \/ \E w \in Workers : Leave(w)
  <1>1. CASE UNCHANGED <<permits, locked, job>>
    BY <1>1 DEF SameHolders, PermitHolders, Uploading
  <1>2. ASSUME NEW a \in Attempts,
               \/ HandleTaskCompletion(a) \/ CheckOutput(a) \/ SettleVerdict(a)
               \/ NotifyTaskStatus(a) \/ UpdateTaskStatus(a)
        PROVE  SameHolders
    <2>1. UNCHANGED <<permits, locked>>
      BY <1>2 DEF HandleTaskCompletion, CheckOutput, SettleVerdict, NotifyTaskStatus,
                  UpdateTaskStatus, workerVars
    <2>2. \A b \in Attempts : \/ job'[b] = job[b]
                              \/ job[b].pc \notin Coroutine /\ job'[b].pc \notin Coroutine
      BY <1>2, OneAttempt, CoroutineOver DEF AttemptStep
    <2> QED  BY <2>1, <2>2 DEF SameHolders, PermitHolders, Uploading, Permitted, Coroutine, Holding
  <1>3. ASSUME NEW w \in Workers, Fetch(w) PROVE SameHolders
    <2>1. UNCHANGED <<permits, locked>>
      BY <1>3 DEF Fetch
    <2>2. \A b \in Attempts : \/ job'[b] = job[b]
                              \/ job[b].pc = "free" /\ job'[b].pc = "waiting"
      BY <1>3 DEF Fetch, JobsType, NoJob
    <2> QED  BY <2>1, <2>2 DEF SameHolders, PermitHolders, Uploading, Permitted, Coroutine, Holding
  <1>4. \/ UNCHANGED <<permits, locked, job>>
        \/ \E a \in Attempts : AttemptStep(a)
        \/ \E w \in Workers : Fetch(w) \/ Leave(w)
    BY DEF Next, vars, runVars, Create, Subscribe, AnswerLost, SubscribeFails, Stream,
           ViewImage, WebCrash, Attempt, Repeat, RepeatRetry, Worker, WorkerStep,
           FetchTimeout, LosePopped, Stop, Exit, Crash, Start, workerVars
  <1> QED  BY <1>1, <1>2, <1>3, <1>4 DEF AttemptStep

\* What an attempt that moves in its coroutine does to both.
LEMMA AttemptHolders ==
    ASSUME JobsType, NEW a \in Attempts, NEW from \in Coroutine, NEW to, Goto(a, from, to),
           AttemptStep(a), NEW w \in Workers, NEW b \in Attempts
    PROVE  /\ Uploading(b, w) <=>
                 IF b = a THEN job[a].worker = w /\ from = "uploading" ELSE Uploading(b, w)'
           /\ Uploading(b, w)' <=>
                 IF b = a THEN job[a].worker = w /\ to = "uploading" ELSE Uploading(b, w)
           /\ b \in PermitHolders(w) <=>
                 IF b = a THEN job[a].worker = w /\ from \in Permitted ELSE b \in PermitHolders(w)'
           /\ b \in PermitHolders(w)' <=>
                 IF b = a THEN job[a].worker = w /\ to \in Permitted ELSE b \in PermitHolders(w)
  BY GotoFields, OneAttempt DEF Uploading, PermitHolders

LockInv == TypeOK /\ ModelInUseOnce

LEMMA LockStep == LockInv /\ [Next]_vars => LockInv'
  <1> SUFFICES ASSUME LockInv, [Next]_vars, NEW w \in Workers
               PROVE  /\ locked'[w] <=> \E a \in Attempts : Uploading(a, w)'
                      /\ \A a, b \in Attempts : Uploading(a, w)' /\ Uploading(b, w)' => a = b
    BY TypeStep DEF LockInv, ModelInUseOnce
  <1>0. /\ JobsType /\ WorkerType
        /\ locked[w] <=> \E a \in Attempts : Uploading(a, w)
        /\ \A a, b \in Attempts : Uploading(a, w) /\ Uploading(b, w) => a = b
    BY DEF LockInv, TypeOK, ModelInUseOnce
  <1>1. CASE SameHolders
    BY <1>0, <1>1 DEF SameHolders
  <1>2. ASSUME NEW a \in Attempts,
               \/ AcquirePermit(a) \/ InferenceFails(a)
               \/ EnqueueRetry(a) \/ EndRetry(a) \/ EnqueueRetryFails(a)
        PROVE  UNCHANGED locked /\ \A b \in Attempts : Uploading(b, w)' <=> Uploading(b, w)
    <2>1. UNCHANGED locked
      BY <1>2 DEF AcquirePermit, InferenceFails, EnqueueRetry, EndRetry,
                  EnqueueRetryFails, workerVars
    <2>2. PICK from \in Coroutine \ {"uploading"},
               to \in {"ready", "retrying", "pushed", "finished"} : Goto(a, from, to)
      BY <1>2 DEF AcquirePermit, InferenceFails, EnqueueRetry, EndRetry,
                  EnqueueRetryFails, Coroutine, Holding
    <2> QED  BY <1>0, <1>2, <2>1, <2>2, AttemptHolders DEF AttemptStep
  <1>3. ASSUME NEW a \in Attempts, RunInference(a)
        PROVE  /\ locked'[w] <=> \E b \in Attempts : Uploading(b, w)'
               /\ \A b, c \in Attempts : Uploading(b, w)' /\ Uploading(c, w)' => b = c
    <2> DEFINE v == job[a].worker
    <2>1. Goto(a, "ready", "uploading") /\ ~locked[v] /\ locked' = [locked EXCEPT ![v] = TRUE]
      BY <1>3 DEF RunInference, TakeLock
    <2>2. \A b \in Attempts : Uploading(b, w)' <=> IF b = a THEN v = w ELSE Uploading(b, w)
      BY <1>0, <1>3, <2>1, AttemptHolders DEF AttemptStep, Coroutine, Holding
    <2>3. locked'[w] = IF v = w THEN TRUE ELSE locked[w]
      BY <1>0, <2>1 DEF WorkerType
    <2>4. ~Uploading(a, w)
      BY <2>1 DEF Uploading, Goto
    <2> QED  BY <1>0, <2>1, <2>2, <2>3, <2>4
  <1>4. ASSUME NEW a \in Attempts, UploadOutput(a)
        PROVE  /\ locked'[w] <=> \E b \in Attempts : Uploading(b, w)'
               /\ \A b, c \in Attempts : Uploading(b, w)' /\ Uploading(c, w)' => b = c
    <2> DEFINE v == job[a].worker
    <2>1. Goto(a, "uploading", "finished") /\ locked' = [locked EXCEPT ![v] = FALSE]
      BY <1>4 DEF UploadOutput, ReleaseLock
    <2>2. \A b \in Attempts : Uploading(b, w)' <=> b # a /\ Uploading(b, w)
      BY <1>0, <1>4, <2>1, AttemptHolders DEF AttemptStep, Coroutine, Holding
    <2>3. locked'[w] = IF v = w THEN FALSE ELSE locked[w]
      BY <1>0, <2>1 DEF WorkerType
    <2>4. Uploading(a, w) <=> v = w
      BY <2>1 DEF Uploading, Goto
    <2> QED  BY <1>0, <2>1, <2>2, <2>3, <2>4
  <1>5. ASSUME NEW v \in Workers, Leave(v)
        PROVE  /\ locked'[w] <=> \E b \in Attempts : Uploading(b, w)'
               /\ \A b, c \in Attempts : Uploading(b, w)' /\ Uploading(c, w)' => b = c
    <2>1. locked'[w] = IF v = w THEN FALSE ELSE locked[w]
      BY <1>0, <1>5 DEF Leave, WorkerType
    <2>2. \A b \in Attempts : Uploading(b, w)' <=> v # w /\ Uploading(b, w)
      BY <1>0, <1>5 DEF Leave, JobsType, NoJob, Uploading
    <2> QED  BY <1>0, <2>1, <2>2
  <1> QED  BY <1>0, <1>1, <1>2, <1>3, <1>4, <1>5, HolderSteps

\* One attempt of a worker is inside the model, exactly while its lock is held.
THEOREM ModelExclusive == Spec => []ModelInUseOnce
  <1>1. Init => LockInv
    BY TypeInit DEF LockInv, ModelInUseOnce, Init, OrchestratorInit, NoJob, Uploading
  <1>2. LockInv => ModelInUseOnce
    BY DEF LockInv
  <1> QED  BY <1>1, <1>2, LockStep, PTL DEF Spec

PermitInv == TypeOK /\ PermitsBalanced

\* Counting one more, or one less, of the attempts.
LEMMA CountHolders ==
    ASSUME NEW S \in SUBSET Attempts, NEW a \in Attempts
    PROVE  /\ IsFiniteSet(S) /\ Cardinality(S) \in Nat
           /\ a \notin S => Cardinality(S \union {a}) = Cardinality(S) + 1
           /\ a \in S => Cardinality(S \ {a}) = Cardinality(S) - 1
  <1>1. IsFiniteSet(S)
    BY StudioAssumption, FS_Subset
  <1> QED  BY <1>1, FS_CardinalityType, FS_AddElement, FS_RemoveElement

LEMMA PermitStep == PermitInv /\ [Next]_vars => PermitInv'
  <1> SUFFICES ASSUME PermitInv, [Next]_vars, NEW w \in Workers
               PROVE  permits'[w] + Cardinality(PermitHolders(w)') = MaxConcurrent
    BY TypeStep DEF PermitInv, PermitsBalanced
  <1> DEFINE H == PermitHolders(w)
  <1>0. /\ JobsType /\ WorkerType /\ permits[w] \in Nat /\ MaxConcurrent \in Nat
        /\ permits[w] + Cardinality(H) = MaxConcurrent
        /\ H \in SUBSET Attempts /\ H' \in SUBSET Attempts
    BY StudioAssumption DEF PermitInv, TypeOK, WorkerType, PermitsBalanced, PermitHolders
  <1>1. CASE SameHolders
    BY <1>0, <1>1 DEF SameHolders
  <1>2. ASSUME NEW a \in Attempts, RunInference(a) \/ InferenceFails(a) \/ EnqueueRetry(a)
        PROVE  UNCHANGED permits /\ H' = H
    <2>1. UNCHANGED permits
      BY <1>2 DEF RunInference, InferenceFails, EnqueueRetry, workerVars
    <2>2. PICK from \in {"ready", "retrying"}, to \in {"uploading", "retrying", "pushed"} :
             Goto(a, from, to)
      BY <1>2 DEF RunInference, InferenceFails, EnqueueRetry
    <2>3. \A b \in Attempts : b \in H' <=> b \in H
      BY <1>0, <1>2, <2>2, AttemptHolders DEF AttemptStep, Permitted, Coroutine, Holding
    <2> QED  BY <1>0, <2>1, <2>3
  <1>3. ASSUME NEW a \in Attempts, AcquirePermit(a)
        PROVE  permits'[w] + Cardinality(H') = MaxConcurrent
    <2> DEFINE v == job[a].worker
    <2>1. /\ Goto(a, "waiting", "ready") /\ permits[v] > 0
          /\ permits' = [permits EXCEPT ![v] = permits[v] - 1]
      BY <1>3 DEF AcquirePermit, TakePermit
    <2>2. \A b \in Attempts : b \in H' <=> IF b = a THEN v = w ELSE b \in H
      BY <1>0, <1>3, <2>1, AttemptHolders DEF AttemptStep, Permitted, Coroutine, Holding
    <2>3. a \notin H
      BY <2>1 DEF PermitHolders, Goto, Permitted, Coroutine, Holding
    <2>4. CASE v = w
      <3>1. H' = H \union {a}
        BY <1>0, <2>2, <2>4
      <3>2. permits'[w] = permits[w] - 1
        BY <1>0, <2>1, <2>4 DEF WorkerType
      <3> HIDE DEF H
      <3> QED  BY <1>0, <2>3, <3>1, <3>2, CountHolders
    <2>5. CASE v # w
      <3>1. H' = H
        BY <1>0, <2>2, <2>3, <2>5
      <3>2. permits'[w] = permits[w]
        BY <1>0, <2>1, <2>5 DEF WorkerType
      <3> QED  BY <1>0, <3>1, <3>2
    <2> QED  BY <2>4, <2>5
  <1>4. ASSUME NEW a \in Attempts, UploadOutput(a) \/ EndRetry(a) \/ EnqueueRetryFails(a)
        PROVE  permits'[w] + Cardinality(H') = MaxConcurrent
    <2> DEFINE v == job[a].worker
    <2>1. permits' = [permits EXCEPT ![v] = permits[v] + 1]
      BY <1>4 DEF UploadOutput, EndRetry, EnqueueRetryFails, ReleasePermit
    <2>2. PICK from \in {"uploading", "retrying", "pushed"} : Goto(a, from, "finished")
      BY <1>4 DEF UploadOutput, EndRetry, EnqueueRetryFails
    <2>3. \A b \in Attempts : b \in H' <=> b # a /\ b \in H
      BY <1>0, <1>4, <2>2, AttemptHolders DEF AttemptStep, Permitted, Coroutine, Holding
    <2>4. a \in H <=> v = w
      BY <2>2 DEF PermitHolders, Goto, Permitted, Coroutine, Holding
    <2>5. H' = H \ {a}
      BY <1>0, <2>3
    <2>6. permits'[w] = IF v = w THEN permits[w] + 1 ELSE permits[w]
      BY <1>0, <2>1 DEF WorkerType
    <2>7. CASE v = w
      <3>1. Cardinality(H \ {a}) = Cardinality(H) - 1 /\ Cardinality(H) \in Nat
        <4> HIDE DEF H
        <4> QED  BY <1>0, <2>4, <2>7, CountHolders
      <3> QED  BY <1>0, <2>5, <2>6, <2>7, <3>1
    <2>8. CASE v # w
      <3>1. H' = H
        BY <1>0, <2>4, <2>5, <2>8
      <3> QED  BY <1>0, <2>6, <2>8, <3>1
    <2> QED  BY <2>7, <2>8
  <1>5. ASSUME NEW v \in Workers, Leave(v)
        PROVE  permits'[w] + Cardinality(H') = MaxConcurrent
    <2>1. permits'[w] = IF v = w THEN MaxConcurrent ELSE permits[w]
      BY <1>0, <1>5 DEF Leave, WorkerType
    <2>2. \A b \in Attempts : b \in H' <=> v # w /\ b \in H
      BY <1>0, <1>5 DEF Leave, JobsType, NoJob, PermitHolders, Permitted, Coroutine, Holding
    <2>3. CASE v = w
      <3>1. H' = {}
        BY <1>0, <2>2, <2>3
      <3> QED  BY <1>0, <2>1, <2>3, <3>1, FS_EmptySet
    <2>4. CASE v # w
      <3>1. H' = H
        BY <1>0, <2>2, <2>4
      <3> QED  BY <1>0, <2>1, <2>4, <3>1
    <2> QED  BY <2>3, <2>4
  <1> QED  BY <1>0, <1>1, <1>2, <1>3, <1>4, <1>5, HolderSteps

\* The semaphore of each worker neither leaks a permit nor gains one, for any
\* number of them and on every path out of `async with`.
THEOREM PermitsKept == Spec => []PermitsBalanced
  <1>1. Init => PermitInv
    <2> SUFFICES ASSUME Init, NEW w \in Workers
                 PROVE  permits[w] + Cardinality(PermitHolders(w)) = MaxConcurrent
      BY TypeInit DEF PermitInv, PermitsBalanced
    <2>1. permits[w] = MaxConcurrent /\ PermitHolders(w) = {}
      BY DEF Init, OrchestratorInit, NoJob, PermitHolders, Permitted, Coroutine, Holding
    <2> QED  BY <2>1, FS_EmptySet, StudioAssumption
  <1>2. PermitInv => PermitsBalanced
    BY DEF PermitInv
  <1> QED  BY <1>1, <1>2, PermitStep, PTL DEF Spec

================================================================================
