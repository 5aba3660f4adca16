------------------------------ MODULE StudioProofs -----------------------------
(***************************************************************************)
(* PhotoStudio for any tasks, workers, attempts, permits and faults.       *)
(***************************************************************************)
EXTENDS PhotoStudio, FiniteSetTheorems, TLAPS

----------------------------------------------------------------------------
(***************************************************************************)
(* Attempts as records.                                                    *)
(***************************************************************************)

\* A slot that is not free holds an attempt.
LEMMA BusySlot ==
    ASSUME JobsType, NEW a \in Attempts, job[a].pc # "free"
    PROVE  job[a] \in Active
  BY DEF JobsType, NoJob

\* The fields of an attempt.
LEMMA ActiveFields ==
    ASSUME NEW j \in Active
    PROVE  /\ j.pc \in JobStates \ {"free"}
           /\ j.worker \in Workers
           /\ j.task \in Tasks
           /\ j.todo \subseteq {"notify", "store"}
           /\ j.pc \in {"posted", "checking", "reporting"} => j.subject \in Tasks
           /\ j.pc \in {"checking", "reporting"} => j.verdict \in Verdicts
  BY DEF Active, Jobs

\* Moving inside the coroutine, or to its end, keeps an attempt one.
LEMMA ActiveGoto ==
    ASSUME NEW j \in Active, NEW to \in Coroutine \union {"finished"}
    PROVE  [j EXCEPT !.pc = to] \in Active
  BY DEF Active, Jobs, JobStates, Coroutine, Holding

\* A slot is given another attempt, or freed.
LEMMA SetJob ==
    ASSUME JobsType, NEW a \in Attempts, NEW j \in Active \union {NoJob},
           job' = [job EXCEPT ![a] = j]
    PROVE  JobsType'
  BY DEF JobsType

LEMMA GotoType ==
    ASSUME JobsType, NEW a \in Attempts, NEW from \in Coroutine,
           NEW to \in Coroutine \union {"finished"}, Goto(a, from, to)
    PROVE  JobsType'
  <1>1. job[a] \in Active
    BY BusySlot DEF Goto, Coroutine, Holding
  <1>2. [job[a] EXCEPT !.pc = to] \in Active
    BY <1>1, ActiveGoto
  <1> QED  BY <1>2, SetJob DEF Goto

LEMMA DoneType ==
    ASSUME JobsType, NEW a \in Attempts, NEW what, Done(a, what)
    PROVE  JobsType'
  <1>1. job[a] \in Active
    BY BusySlot DEF Done
  <1>2. [job[a] EXCEPT !.todo = job[a].todo \ {what}] \in Active
    BY <1>1 DEF Active, Jobs
  <1> QED  BY <1>2, SetJob DEF Done

----------------------------------------------------------------------------
(***************************************************************************)
(* Types.                                                                  *)
(***************************************************************************)

LEMMA EnqueueType ==
    ASSUME QueueType, NEW t \in Tasks, Enqueue(t)
    PROVE  QueueType'
  <1>1. Append(queue, t) \in Seq(Tasks)
    BY DEF QueueType
  <1> QED  BY <1>1 DEF QueueType, Enqueue

LEMMA DequeueType ==
    ASSUME QueueType, NEW t, Dequeue(t)
    PROVE  t \in Tasks /\ QueueType'
  BY DEF QueueType, Dequeue

LEMMA UpdateRowType ==
    ASSUME TableType, NEW t \in Tasks, NEW v \in Verdicts, UpdateRow(t, v)
    PROVE  TableType'
  <1>1. CASE row[t] = "NONE"
    BY <1>1 DEF TableType, UpdateRow
  <1>2. CASE row[t] # "NONE"
    BY <1>2 DEF TableType, UpdateRow, Statuses
  <1> QED  BY <1>1, <1>2

LEMMA PublishType ==
    ASSUME StreamType, NEW t \in Tasks, NEW v \in Verdicts, Publish(t, v)
    PROVE  StreamType'
  <1>1. Append(inbox[t], v) \in Seq(Verdicts)
    BY DEF StreamType
  <1> QED  BY <1>1 DEF StreamType, Publish

LEMMA RelayType ==
    ASSUME StreamType, NEW t \in Tasks, Relay(t)
    PROVE  StreamType'
  <1> DEFINE v == Head(inbox[t])
  <1>1. /\ inbox[t] \in Seq(Verdicts)
        /\ inbox[t] # <<>>
        /\ page[t] \in [status : Statuses \union {"NONE"}, links : SUBSET Links]
    BY DEF StreamType, Relay
  <1>2. v \in Verdicts /\ Tail(inbox[t]) \in Seq(Verdicts)
    BY <1>1
  <1>3. LinksOf(v) \subseteq Links
    BY <1>2 DEF LinksOf, Links, Verdicts
  <1>4. [status |-> v, links |-> page[t].links \union LinksOf(v)]
           \in [status : Statuses \union {"NONE"}, links : SUBSET Links]
    BY <1>1, <1>2, <1>3 DEF Statuses
  <1>5. page' = [page EXCEPT ![t] =
                    [status |-> v, links |-> page[t].links \union LinksOf(v)]]
    BY DEF Relay
  <1>6. page' \in [Tasks -> [status : Statuses \union {"NONE"}, links : SUBSET Links]]
    BY <1>4, <1>5 DEF StreamType
  <1>7. inbox' \in [Tasks -> Seq(Verdicts)]
    BY <1>2 DEF StreamType, Relay
  <1>8. stream' \in [Tasks -> {"none", "open", "ended", "cut"}]
    BY DEF StreamType, Relay
  <1> QED  BY <1>6, <1>7, <1>8 DEF StreamType

LEMMA TypeInit == Init => TypeOK
  <1> SUFFICES ASSUME Init PROVE TypeOK
    OBVIOUS
  <1>1. QueueType
    BY DEF Init, QueueInit, QueueType
  <1>2. TableType
    BY DEF Init, TableInit, TableType
  <1>3. StoreType
    BY DEF Init, StoreInit, StoreType
  <1>4. StreamType
    BY DEF Init, StreamInit, StreamType
  <1>5. ReqType /\ ProviderType /\ PoolType
    BY DEF Init, ReqInit, ReqType, ReqStates, ProviderInit, ProviderType,
           PoolInit, PoolType
  <1>6. WorkerType
    BY StudioAssumption DEF Init, OrchestratorInit, WorkerType
  <1>7. JobsType
    BY DEF Init, OrchestratorInit, JobsType
  <1> QED  BY <1>1, <1>2, <1>3, <1>4, <1>5, <1>6, <1>7 DEF TypeOK

\* Each action keeps the types; what it leaves alone keeps its own.
LEMMA TypeStep == TypeOK /\ [Next]_vars => TypeOK'
  <1> SUFFICES ASSUME TypeOK, [Next]_vars PROVE TypeOK'
    OBVIOUS
  <1> USE DEF TypeOK, tableVars, storeVars, pageVars, runVars, webVars, workerVars
  <1>1. ASSUME NEW t \in Tasks, CreateStep(t), UNCHANGED <<held, pageVars, runVars>>
        PROVE  TypeOK'
    <2>1. StreamType' /\ WorkerType' /\ JobsType' /\ PoolType'
      BY <1>1 DEF StreamType, WorkerType, JobsType, PoolType
    <2>2. ReqType'
      BY <1>1 DEF CreateStep, RejectUpload, AcceptUpload, RejectParameters,
                  EnqueueTask, EnqueueFails, RepeatPush, InsertRow, InsertFails,
                  ReqStep, ReqType, ReqStates
    <2>3. QueueType'
      BY <1>1, EnqueueType
      DEF EnqueueAgain, CreateStep, RejectUpload, AcceptUpload, RejectParameters,
          EnqueueTask, EnqueueFails, RepeatPush, InsertRow, InsertFails, QueueType
    <2>4. TableType'
      BY <1>1 DEF CreateStep, RejectUpload, AcceptUpload, RejectParameters,
                  EnqueueTask, EnqueueFails, RepeatPush, InsertRow, InsertFails,
                  CreateRow, TableType, Statuses
    <2>5. StoreType'
      BY <1>1 DEF CreateStep, RejectUpload, AcceptUpload, RejectParameters,
                  EnqueueTask, EnqueueFails, RepeatPush, InsertRow, InsertFails,
                  StoreUpload, SaveUpload, StoreType
    <2>6. ProviderType'
      BY <1>1, StudioAssumption DEF CreateStep, RejectUpload, AcceptUpload, RejectParameters,
                  EnqueueTask, EnqueueFails, RepeatPush, InsertRow, InsertFails,
                  StoreUpload, AskAny, Ask, Provided, ProviderType
    <2> QED  BY <2>1, <2>2, <2>3, <2>4, <2>5, <2>6
  <1>2. ASSUME NEW t \in Tasks,
               Subscribe(t) \/ AnswerLost(t) \/ SubscribeFails(t) \/ Stream(t)
        PROVE  TypeOK'
    <2>1. QueueType' /\ TableType' /\ StoreType' /\ WorkerType' /\ JobsType'
      BY <1>2 DEF Subscribe, AnswerLost, SubscribeFails, Stream,
                  QueueType, TableType, StoreType, WorkerType, JobsType
    <2>2. ReqType' /\ ProviderType' /\ PoolType'
      BY <1>2 DEF Subscribe, AnswerLost, SubscribeFails, Stream, TakeConnection,
                  ReqType, ProviderType, PoolType
    <2>3. CASE Subscribe(t)
      <3>1. [status |-> "PENDING", links |-> {}]
               \in [status : Statuses \union {"NONE"}, links : SUBSET Links]
        BY DEF Statuses
      <3>2. page' \in [Tasks -> [status : Statuses \union {"NONE"}, links : SUBSET Links]]
        BY <2>3, <3>1 DEF Subscribe, OpenStream, StreamType
      <3>3. stream' \in [Tasks -> {"none", "open", "ended", "cut"}]
        BY <2>3 DEF Subscribe, OpenStream, StreamType
      <3>4. inbox' = inbox
        BY <2>3 DEF Subscribe, OpenStream
      <3> QED  BY <2>1, <2>2, <3>2, <3>3, <3>4 DEF StreamType
    <2>4. CASE Stream(t)
      <3>1. CASE Relay(t)
        BY <2>1, <2>2, <3>1, RelayType
      <3>2. CASE CutStream(t)
        <4>1. StreamType'
          BY <3>2 DEF CutStream, StreamType
        <4> QED  BY <2>1, <2>2, <4>1
      <3> QED  BY <2>4, <3>1, <3>2 DEF Stream
    <2>5. CASE AnswerLost(t) \/ SubscribeFails(t)
      <3>1. StreamType'
        BY <2>5 DEF AnswerLost, SubscribeFails, OpenStreamFails, StreamType
      <3> QED  BY <2>1, <2>2, <3>1
    <2> QED  BY <1>2, <2>3, <2>4, <2>5
  <1>3. ASSUME NEW a \in Attempts, AttemptStep(a), UNCHANGED webVars
        PROVE  TypeOK'
    <2>0. ReqType' /\ ProviderType' /\ PoolType'
      BY <1>3 DEF ReqType, ProviderType, PoolType
    <2>1. CASE AcquirePermit(a)
      <3>1. JobsType'
        BY <2>1, GotoType DEF AcquirePermit, Coroutine, Holding
      <3>2. job[a].worker \in Workers
        BY <2>1, BusySlot, ActiveFields DEF AcquirePermit, Goto
      <3>3. WorkerType'
        BY <2>1, <3>2 DEF AcquirePermit, TakePermit, WorkerType
      <3>4. QueueType' /\ TableType' /\ StoreType' /\ StreamType'
        BY <2>1 DEF AcquirePermit, QueueType, TableType, StoreType, StreamType
      <3> QED  BY <2>0, <3>1, <3>3, <3>4
    <2>2. CASE RunInference(a)
      <3>1. JobsType'
        BY <2>2, GotoType DEF RunInference, Coroutine, Holding
      <3>2. job[a].task \in Tasks
        BY <2>2, BusySlot, ActiveFields DEF RunInference, Goto
      <3>3. WorkerType' /\ StoreType'
        BY <2>2, <3>2
        DEF RunInference, TakeLock, SavePreview, WorkerType, StoreType
      <3>4. QueueType' /\ TableType' /\ StreamType'
        BY <2>2 DEF RunInference, QueueType, TableType, StreamType
      <3> QED  BY <2>0, <3>1, <3>3, <3>4
    <2>3. CASE InferenceFails(a)
      <3>1. JobsType'
        BY <2>3, GotoType DEF InferenceFails, Coroutine, Holding
      <3>2. QueueType' /\ TableType' /\ StoreType' /\ StreamType' /\ WorkerType'
        BY <2>3 DEF InferenceFails, QueueType, TableType, StoreType, StreamType,
                    WorkerType
      <3> QED  BY <2>0, <3>1, <3>2
    <2>4. CASE UploadOutput(a)
      <3>1. JobsType'
        BY <2>4, GotoType DEF UploadOutput, Coroutine, Holding
      <3>2. job[a].worker \in Workers /\ job[a].task \in Tasks
        BY <2>4, BusySlot, ActiveFields DEF UploadOutput, Goto
      <3>3. WorkerType'
        BY <2>4, <3>2 DEF UploadOutput, ReleaseLock, ReleasePermit, WorkerType
      <3>4. StoreType'
        BY <2>4, <3>2 DEF UploadOutput, PutOutput, StoreType
      <3>5. QueueType' /\ TableType' /\ StreamType'
        BY <2>4 DEF UploadOutput, QueueType, TableType, StreamType
      <3> QED  BY <2>0, <3>1, <3>3, <3>4, <3>5
    <2>5. CASE EnqueueRetry(a)
      <3>1. JobsType'
        BY <2>5, GotoType DEF EnqueueRetry, Coroutine, Holding
      <3>2. job[a].task \in Tasks
        BY <2>5, BusySlot, ActiveFields DEF EnqueueRetry, Goto
      <3>3. WorkerType'
        BY <2>5 DEF EnqueueRetry, WorkerType
      <3>4. QueueType'
        BY <2>5, <3>2, EnqueueType DEF EnqueueRetry
      <3>5. TableType' /\ StoreType' /\ StreamType'
        BY <2>5 DEF EnqueueRetry, TableType, StoreType, StreamType
      <3> QED  BY <2>0, <3>1, <3>3, <3>4, <3>5
    <2>6. CASE HandleTaskCompletion(a)
      <3>1. job[a] \in Active
        BY <2>6, BusySlot DEF HandleTaskCompletion
      <3>2. CompletedTask(a) \in Tasks \union {NoTask}
        BY <3>1, ActiveFields DEF CompletedTask, WorkerType
      <3>3. JobsType'
        <4>1. CASE CompletedTask(a) = NoTask
          BY <2>6, <4>1, SetJob DEF HandleTaskCompletion
        <4>2. CASE CompletedTask(a) # NoTask
          <5> DEFINE j == [job[a] EXCEPT !.pc = "posted",
                                         !.subject = CompletedTask(a)]
          <5>1. j \in Active
            BY <3>1, <3>2, <4>2 DEF Active, Jobs, JobStates
          <5>2. job' = [job EXCEPT ![a] = j]
            BY <2>6, <4>2 DEF HandleTaskCompletion
          <5> QED  BY <5>1, <5>2, SetJob
        <4> QED  BY <4>1, <4>2
      <3>4. QueueType' /\ TableType' /\ StoreType' /\ StreamType' /\ WorkerType'
        BY <2>6 DEF HandleTaskCompletion, QueueType, TableType, StoreType,
                    StreamType, WorkerType
      <3> QED  BY <2>0, <3>3, <3>4
    <2>7. CASE SettleVerdict(a)
      <3>1. job[a] \in Active
        BY <2>7, BusySlot DEF SettleVerdict
      <3>2. JobsType'
        <4>1. PICK seen \in HeadAnswers(job[a].subject) :
                job' = [job EXCEPT ![a].pc = "reporting",
                                   ![a].todo = {"notify", "store"},
                                   ![a].verdict = IF seen THEN "COMPLETED" ELSE @]
          BY <2>7 DEF SettleVerdict
        <4> DEFINE v == IF seen THEN "COMPLETED" ELSE job[a].verdict
                   j == [job[a] EXCEPT !.pc = "reporting",
                            !.todo = {"notify", "store"}, !.verdict = v]
        <4>2. v \in Verdicts /\ job[a].subject \in Tasks
          BY <2>7, <3>1, ActiveFields DEF SettleVerdict, Verdicts
        <4>3. j \in Active
          BY <3>1, <4>2 DEF Active, Jobs, JobStates
        <4>4. job' = [job EXCEPT ![a] = j]
          BY <4>1
        <4> QED  BY <4>3, <4>4, SetJob
      <3>3. QueueType' /\ TableType' /\ StoreType' /\ StreamType' /\ WorkerType'
        BY <2>7 DEF SettleVerdict, QueueType, TableType, StoreType,
                    StreamType, WorkerType
      <3> QED  BY <2>0, <3>2, <3>3
    <2>8. CASE NotifyTaskStatus(a) \/ UpdateTaskStatus(a)
      <3>1. JobsType'
        BY <2>8, DoneType DEF NotifyTaskStatus, UpdateTaskStatus
      <3>2. job[a].subject \in Tasks /\ job[a].verdict \in Verdicts
        BY <2>8, BusySlot, ActiveFields
        DEF NotifyTaskStatus, UpdateTaskStatus, Done
      <3>3. StreamType'
        BY <2>8, <3>2, PublishType
        DEF NotifyTaskStatus, UpdateTaskStatus, StreamType
      <3>4. TableType'
        BY <2>8, <3>2, UpdateRowType
        DEF NotifyTaskStatus, UpdateTaskStatus, TableType
      <3>5. QueueType' /\ StoreType' /\ WorkerType'
        BY <2>8 DEF NotifyTaskStatus, UpdateTaskStatus,
                    QueueType, StoreType, WorkerType
      <3> QED  BY <2>0, <3>1, <3>3, <3>4, <3>5
    <2>9. CASE CheckOutput(a)
      <3>1. job[a] \in Active /\ job[a].subject \in Tasks
        BY <2>9, BusySlot, ActiveFields DEF CheckOutput
      <3>2. FirstVerdict(job[a].subject) \in Verdicts
        BY DEF FirstVerdict, Verdicts
      <3>3. [job[a] EXCEPT !.pc = "checking",
                           !.verdict = FirstVerdict(job[a].subject)] \in Active
        BY <3>1, <3>2 DEF Active, Jobs, JobStates
      <3>4. JobsType'
        BY <2>9, <3>3, SetJob DEF CheckOutput
      <3>5. QueueType' /\ TableType' /\ StoreType' /\ StreamType' /\ WorkerType'
        BY <2>9 DEF CheckOutput, QueueType, TableType, StoreType,
                    StreamType, WorkerType
      <3> QED  BY <2>0, <3>4, <3>5
    <2>10. CASE EndRetry(a) \/ EnqueueRetryFails(a)
      <3>1. JobsType'
        BY <2>10, GotoType DEF EndRetry, EnqueueRetryFails, Coroutine, Holding
      <3>2. job[a].worker \in Workers
        BY <2>10, BusySlot, ActiveFields DEF EndRetry, EnqueueRetryFails, Goto
      <3>3. WorkerType'
        BY <2>10, <3>2 DEF EndRetry, EnqueueRetryFails, ReleasePermit, WorkerType
      <3>4. QueueType' /\ TableType' /\ StoreType' /\ StreamType'
        BY <2>10 DEF EndRetry, EnqueueRetryFails, QueueType, TableType, StoreType, StreamType
      <3> QED  BY <2>0, <3>1, <3>3, <3>4
    <2> QED
      BY <1>3, <2>1, <2>2, <2>3, <2>4, <2>5, <2>6, <2>7, <2>8, <2>9, <2>10
      DEF AttemptStep
  <1>4. ASSUME NEW w \in Workers, WorkerStep(w), UNCHANGED webVars
        PROVE  TypeOK'
    <2>0. ReqType' /\ ProviderType' /\ PoolType'
      BY <1>4 DEF ReqType, ProviderType, PoolType
    <2>1. TableType' /\ StoreType' /\ StreamType'
      BY <1>4 DEF WorkerStep, Fetch, FetchTimeout, LosePopped, Stop, Exit, Crash,
                  Start, Leave, TableType, StoreType, StreamType
    <2>2. CASE Fetch(w)
      <3>1. PICK t \in Tasks, a \in Attempts :
              /\ Dequeue(t)
              /\ job' = [job EXCEPT ![a] = [NoJob EXCEPT !.pc = "waiting",
                                                !.worker = w, !.task = t]]
              /\ current' = [current EXCEPT ![w] = t]
        BY <2>2 DEF Fetch
      <3>2. [NoJob EXCEPT !.pc = "waiting", !.worker = w, !.task = t] \in Active
        BY DEF NoJob, Active, Jobs, JobStates, Coroutine, Holding
      <3>3. JobsType'
        BY <3>1, <3>2, SetJob
      <3>4. QueueType'
        BY <3>1, DequeueType
      <3>5. WorkerType'
        BY <2>2, <3>1 DEF Fetch, WorkerType
      <3> QED  BY <2>0, <2>1, <3>3, <3>4, <3>5
    <2>3. CASE FetchTimeout(w) \/ LosePopped(w) \/ Stop(w) \/ Start(w)
      <3>1. JobsType'
        BY <2>3 DEF FetchTimeout, LosePopped, Stop, Start, JobsType
      <3>2. QueueType'
        BY <2>3, DequeueType DEF FetchTimeout, LosePopped, Stop, Start, QueueType
      <3>3. WorkerType'
        BY <2>3 DEF FetchTimeout, LosePopped, Stop, Start, WorkerType
      <3> QED  BY <2>0, <2>1, <3>1, <3>2, <3>3
    <2>4. CASE Exit(w) \/ Crash(w)
      <3>1. Leave(w)
        BY <2>4 DEF Exit, Crash
      <3>2. JobsType' /\ QueueType'
        BY <3>1 DEF Leave, JobsType, QueueType
      <3>3. WorkerType'
        BY <3>1, StudioAssumption DEF Leave, WorkerType
      <3> QED  BY <2>0, <2>1, <3>2, <3>3
    <2> QED  BY <1>4, <2>2, <2>3, <2>4 DEF WorkerStep
  <1>5. CASE UNCHANGED vars
    BY <1>5 DEF vars, QueueType, TableType, StoreType, StreamType, ReqType,
                ProviderType, PoolType, WorkerType, JobsType
  <1>6. ASSUME WebCrash PROVE TypeOK'
    <2>1. QueueType' /\ TableType' /\ StoreType' /\ WorkerType' /\ JobsType'
      BY <1>6 DEF WebCrash, QueueType, TableType, StoreType, WorkerType, JobsType
    <2>2. ReqType' /\ StreamType' /\ ProviderType' /\ PoolType'
      BY <1>6 DEF WebCrash, AbandonRequests, ForgetProvider, NewPool, ReqType,
                  ReqStates, StreamType, ProviderType, PoolType
    <2> QED  BY <2>1, <2>2
  <1>7. ASSUME ViewImage PROVE TypeOK'
    <2>1. ProviderType'
      BY <1>7, StudioAssumption
      DEF ViewImage, ViewPreview, ViewOutput, AskAny, Ask, Provided, ProviderType
    <2> QED
      BY <1>7, <2>1 DEF ViewImage, QueueType, TableType, StoreType, StreamType,
                        ReqType, PoolType, WorkerType, JobsType
  <1>8. ASSUME NEW a \in Attempts, RepeatRetry(a), UNCHANGED webVars
        PROVE  TypeOK'
    <2>1. job[a].task \in Tasks
      BY <1>8, BusySlot, ActiveFields DEF RepeatRetry
    <2>2. QueueType'
      BY <1>8, <2>1, EnqueueType DEF RepeatRetry, EnqueueAgain
    <2> QED
      BY <1>8, <2>2 DEF RepeatRetry, TableType, StoreType, StreamType, ReqType,
                        ProviderType, PoolType, WorkerType, JobsType
  <1> QED
    BY <1>1, <1>2, <1>3, <1>4, <1>5, <1>6, <1>7, <1>8
    DEF Next, Create, Attempt, Repeat, Worker

\* Every variable keeps its type, whatever fails: in particular no permit
\* count goes below zero and no attempt is ever half filled in.
THEOREM Typed == Spec => []TypeOK
  <1> QED  BY TypeInit, TypeStep, PTL DEF Spec

----------------------------------------------------------------------------
(***************************************************************************)
(* Who changes what.                                                       *)
(***************************************************************************)

LEMMA QueueSteps ==
    [Next]_vars =>
       \/ UNCHANGED queue
       \/ \E t \in Tasks : EnqueueTask(t) \/ RepeatPush(t)
       \/ \E a \in Attempts : EnqueueRetry(a) \/ RepeatRetry(a)
       \/ \E w \in Workers : Fetch(w) \/ LosePopped(w) \/ Stop(w)
  BY DEF Next, vars, Create, CreateStep, RejectUpload, AcceptUpload, RejectParameters,
         EnqueueFails, InsertRow, InsertFails, Subscribe, AnswerLost, SubscribeFails,
         Stream, ViewImage, WebCrash, Attempt, Repeat, AttemptStep, AcquirePermit,
         RunInference, InferenceFails, UploadOutput, EndRetry, EnqueueRetryFails,
         HandleTaskCompletion, CheckOutput, SettleVerdict, NotifyTaskStatus,
         UpdateTaskStatus, Worker, WorkerStep, FetchTimeout, Exit, Crash, Leave, Start

LEMMA TableSteps ==
    [Next]_vars =>
       \/ UNCHANGED tableVars
       \/ \E t \in Tasks : InsertRow(t)
       \/ \E a \in Attempts : UpdateTaskStatus(a)
  BY DEF Next, vars, tableVars, Create, CreateStep, RejectUpload, AcceptUpload,
         RejectParameters, EnqueueTask, EnqueueFails, RepeatPush, InsertFails, Subscribe,
         AnswerLost, SubscribeFails, Stream, ViewImage, WebCrash, Attempt, Repeat,
         RepeatRetry, AttemptStep, AcquirePermit, RunInference, InferenceFails,
         UploadOutput, EnqueueRetry, EndRetry, EnqueueRetryFails, HandleTaskCompletion,
         CheckOutput, SettleVerdict, NotifyTaskStatus, Worker, WorkerStep, Fetch,
         FetchTimeout, LosePopped, Stop, Exit, Crash, Leave, Start

LEMMA StoreSteps ==
    [Next]_vars =>
       \/ UNCHANGED storeVars
       \/ \E t \in Tasks : AcceptUpload(t)
       \/ \E a \in Attempts : RunInference(a) \/ UploadOutput(a)
  BY DEF Next, vars, storeVars, Create, CreateStep, RejectUpload, RejectParameters,
         EnqueueTask, EnqueueFails, RepeatPush, InsertRow, InsertFails, Subscribe,
         AnswerLost, SubscribeFails, Stream, ViewImage, WebCrash, Attempt, Repeat,
         RepeatRetry, AttemptStep, AcquirePermit, InferenceFails, EnqueueRetry, EndRetry,
         EnqueueRetryFails, HandleTaskCompletion, CheckOutput, SettleVerdict,
         NotifyTaskStatus, UpdateTaskStatus, Worker, WorkerStep, Fetch, FetchTimeout,
         LosePopped, Stop, Exit, Crash, Leave, Start

LEMMA PageSteps ==
    [Next]_vars =>
       \/ UNCHANGED pageVars
       \/ \E t \in Tasks : Subscribe(t) \/ AnswerLost(t) \/ SubscribeFails(t) \/ Stream(t)
       \/ \E a \in Attempts : NotifyTaskStatus(a)
       \/ WebCrash
  BY DEF Next, vars, pageVars, Create, ViewImage, Attempt, Repeat, RepeatRetry,
         AttemptStep, AcquirePermit, RunInference, InferenceFails, UploadOutput,
         EnqueueRetry, EndRetry, EnqueueRetryFails, HandleTaskCompletion, CheckOutput,
         SettleVerdict, UpdateTaskStatus, Worker, WorkerStep, Fetch, FetchTimeout,
         LosePopped, Stop, Exit, Crash, Leave, Start

LEMMA JobSteps ==
    [Next]_vars =>
       \/ UNCHANGED job
       \/ \E a \in Attempts : AttemptStep(a)
       \/ \E w \in Workers : Fetch(w) \/ Leave(w)
  BY DEF Next, vars, runVars, Create, Subscribe, AnswerLost, SubscribeFails, Stream,
         ViewImage, WebCrash, Attempt, Repeat, RepeatRetry, Worker, WorkerStep,
         FetchTimeout, LosePopped, Stop, Exit, Crash, Start

----------------------------------------------------------------------------
(***************************************************************************)
(* Honesty: nothing that is said of a task is ahead of what was made.      *)
(***************************************************************************)

\* Stores only grow, so what could be said once can be said for ever.
LEMMA StoresGrow ==
    [Next]_vars => /\ uploads \subseteq uploads'
                   /\ previews \subseteq previews'
                   /\ outputs \subseteq outputs'
  <1> SUFFICES ASSUME [Next]_vars
               PROVE  /\ uploads \subseteq uploads'
                      /\ previews \subseteq previews'
                      /\ outputs \subseteq outputs'
    OBVIOUS
  <1>1. CASE UNCHANGED storeVars
    BY <1>1 DEF storeVars
  <1>2. ASSUME NEW t \in Tasks, AcceptUpload(t)
        PROVE  uploads \subseteq uploads' /\ UNCHANGED <<previews, outputs>>
    BY <1>2 DEF AcceptUpload, StoreUpload, SaveUpload
  <1>3. ASSUME NEW a \in Attempts, RunInference(a)
        PROVE  previews \subseteq previews' /\ UNCHANGED <<uploads, outputs>>
    BY <1>3 DEF RunInference, SavePreview
  <1>4. ASSUME NEW a \in Attempts, UploadOutput(a)
        PROVE  outputs \subseteq outputs' /\ UNCHANGED <<uploads, previews>>
    BY <1>4 DEF UploadOutput, PutOutput
  <1> QED  BY <1>1, <1>2, <1>3, <1>4, StoreSteps

\* An attempt that puts the output has made the preview it puts.
UploadsRendered ==
    \A a \in Attempts : job[a].pc = "uploading" => job[a].task \in previews

\* What an attempt is about to report is true of the task it reports on.
VerdictsHonest ==
    \A a \in Attempts :
       job[a].pc \in {"checking", "reporting"} => Honest(job[a].subject, job[a].verdict)

\* What the table and the pages say is true; so is what is on its way there.
RowsHonest  == \A t \in Tasks : Honest(t, row[t])
PagesHonest ==
    \A t \in Tasks :
       /\ Honest(t, page[t].status)
       /\ \A i \in DOMAIN inbox[t] : Honest(t, inbox[t][i])

\* A link is backed by the object it was made for.
LinksBacked ==
    \A t \in Tasks :
       /\ "preview" \in page[t].links => t \in previews
       /\ "output" \in page[t].links => t \in outputs

HonestInv ==
    /\ TypeOK
    /\ MadeInOrder
    /\ UploadsRendered
    /\ VerdictsHonest
    /\ RowsHonest
    /\ PagesHonest
    /\ LinksBacked
    /\ CompletionStamped

LEMMA HonestInit == Init => HonestInv
  <1> SUFFICES ASSUME Init PROVE HonestInv
    OBVIOUS
  <1>1. TypeOK
    BY TypeInit
  <1>2. MadeInOrder
    BY DEF Init, StoreInit, MadeInOrder
  <1>3. UploadsRendered /\ VerdictsHonest
    BY DEF Init, OrchestratorInit, NoJob, UploadsRendered, VerdictsHonest
  <1>4. RowsHonest /\ CompletionStamped
    BY DEF Init, TableInit, RowsHonest, Honest, CompletionStamped
  <1>5. PagesHonest /\ LinksBacked
    BY DEF Init, StreamInit, PagesHonest, Honest, LinksBacked
  <1> QED  BY <1>1, <1>2, <1>3, <1>4, <1>5 DEF HonestInv

\* What is on disk and in S3 stays in order: an attempt infers an upload it
\* found, and puts the preview it made.
LEMMA StoresStep ==
    ASSUME MadeInOrder, UploadsRendered, [Next]_vars
    PROVE  MadeInOrder'
  <1> USE DEF MadeInOrder
  <1>1. CASE UNCHANGED storeVars
    BY <1>1 DEF storeVars
  <1>2. ASSUME NEW t \in Tasks, AcceptUpload(t) PROVE MadeInOrder'
    BY <1>2 DEF AcceptUpload, StoreUpload, SaveUpload
  <1>3. ASSUME NEW a \in Attempts, RunInference(a) PROVE MadeInOrder'
    BY <1>3 DEF RunInference, SavePreview
  <1>4. ASSUME NEW a \in Attempts, UploadOutput(a) PROVE MadeInOrder'
    <2>1. job[a].task \in previews
      BY <1>4 DEF UploadOutput, Goto, UploadsRendered
    <2> QED  BY <1>4, <2>1 DEF UploadOutput, PutOutput
  <1> QED  BY <1>1, <1>2, <1>3, <1>4, StoreSteps

\* A step of one attempt leaves the other slots alone.
LEMMA OneAttempt ==
    ASSUME JobsType, NEW a \in Attempts, AttemptStep(a),
           NEW b \in Attempts, b # a
    PROVE  job'[b] = job[b]
  BY DEF JobsType, AttemptStep, AcquirePermit, RunInference, InferenceFails,
         UploadOutput, EnqueueRetry, EndRetry, EnqueueRetryFails, HandleTaskCompletion,
         CheckOutput, SettleVerdict, NotifyTaskStatus, UpdateTaskStatus, Goto, Done

\* A worker that fetches fills a free slot; one that leaves empties its own.
LEMMA WorkerSlots ==
    ASSUME JobsType, NEW w \in Workers, Fetch(w) \/ Leave(w),
           NEW a \in Attempts
    PROVE  job'[a] = job[a] \/ job'[a].pc \in {"waiting", "free"}
  <1>1. CASE Fetch(w)
    BY <1>1 DEF Fetch, JobsType, NoJob
  <1>2. CASE Leave(w)
    BY <1>2 DEF Leave, JobsType, NoJob
  <1> QED  BY <1>1, <1>2

\* A report that is over frees the slot or leaves the other report to do.
LEMMA DoneStays ==
    ASSUME JobsType, NEW a \in Attempts, NEW what, Done(a, what)
    PROVE  \/ job'[a].pc = "free"
           \/ /\ job'[a].pc = "reporting"
              /\ job'[a].subject = job[a].subject
              /\ job'[a].verdict = job[a].verdict
  <1> DEFINE left == job[a].todo \ {what}
  <1>1. job[a] \in Jobs /\ job[a].pc = "reporting"
    BY BusySlot DEF Done, Active
  <1>2. CASE left = {}
    BY <1>2 DEF Done, JobsType, NoJob
  <1>3. CASE left # {}
    <2>1. job'[a] = [job[a] EXCEPT !.todo = left]
      BY <1>3 DEF Done, JobsType
    <2> QED  BY <1>1, <2>1 DEF Jobs
  <1> QED  BY <1>2, <1>3

\* The callback posts a job, or frees the slot; no verdict is taken yet.
LEMMA CompletionPosts ==
    ASSUME JobsType, NEW a \in Attempts, HandleTaskCompletion(a)
    PROVE  job'[a].pc \in {"free", "posted"}
  <1>1. job[a] \in Jobs
    BY BusySlot DEF HandleTaskCompletion, Active
  <1>2. CASE CompletedTask(a) = NoTask
    BY <1>2 DEF HandleTaskCompletion, JobsType, NoJob
  <1>3. CASE CompletedTask(a) # NoTask
    <2>1. job'[a] = [job[a] EXCEPT !.pc = "posted", !.subject = CompletedTask(a)]
      BY <1>3 DEF HandleTaskCompletion, JobsType
    <2> QED  BY <1>1, <2>1 DEF Jobs
  <1> QED  BY <1>2, <1>3

\* The verdict the job starts with is read off the local disk.
LEMMA CheckReads ==
    ASSUME JobsType, NEW a \in Attempts, CheckOutput(a)
    PROVE  /\ job'[a].pc = "checking"
           /\ job'[a].subject = job[a].subject
           /\ job'[a].verdict = FirstVerdict(job[a].subject)
  <1>1. job[a] \in Jobs
    BY BusySlot DEF CheckOutput, Active
  <1>2. job'[a] = [job[a] EXCEPT !.pc = "checking",
                                 !.verdict = FirstVerdict(job[a].subject)]
    BY DEF CheckOutput, JobsType
  <1> QED  BY <1>1, <1>2 DEF Jobs

\* Only RunInference gets an attempt to the upload, and it saves the preview.
LEMMA UploadsStep ==
    ASSUME TypeOK, UploadsRendered, [Next]_vars
    PROVE  UploadsRendered'
  <1> SUFFICES ASSUME NEW a \in Attempts, job'[a].pc = "uploading"
               PROVE  job'[a].task \in previews'
    BY DEF UploadsRendered
  <1>0. JobsType /\ previews \subseteq previews'
    BY StoresGrow DEF TypeOK
  <1>1. CASE job'[a] = job[a]
    BY <1>0, <1>1 DEF UploadsRendered
  <1>2. CASE job'[a] # job[a]
    <2>1. AttemptStep(a)
      BY <1>0, <1>2, JobSteps, OneAttempt, WorkerSlots
    <2>2. CASE \E from, to \in (Coroutine \union {"finished"}) \ {"uploading"} :
                  Goto(a, from, to)
      BY <1>0, <2>2 DEF Goto, JobsType
    <2>3. CASE \E what : Done(a, what)
      BY <1>0, <2>3, DoneStays
    <2>4. CASE HandleTaskCompletion(a)
      BY <1>0, <2>4, CompletionPosts
    <2>5. CASE SettleVerdict(a)
      BY <1>0, <2>5 DEF SettleVerdict, JobsType
    <2>6. CASE UploadOutput(a)
      BY <1>0, <2>6 DEF UploadOutput, Goto, JobsType
    <2>7. CASE RunInference(a)
      BY <1>0, <2>7 DEF RunInference, Goto, SavePreview, JobsType
    <2>8. CASE CheckOutput(a)
      BY <1>0, <2>8, CheckReads
    <2> QED
      BY <2>1, <2>2, <2>3, <2>4, <2>5, <2>6, <2>7, <2>8
      DEF AttemptStep, AcquirePermit, InferenceFails, EnqueueRetry, EndRetry,
          EnqueueRetryFails, NotifyTaskStatus, UpdateTaskStatus, Coroutine, Holding
  <1> QED  BY <1>1, <1>2

\* The verdict is read off the stores it speaks of: COMPLETED after S3 said
\* so, PROCESSING after the preview was found, about whichever task it is.
LEMMA VerdictsStep ==
    ASSUME TypeOK, MadeInOrder, VerdictsHonest, [Next]_vars
    PROVE  VerdictsHonest'
  <1> SUFFICES ASSUME NEW a \in Attempts, job'[a].pc \in {"checking", "reporting"}
               PROVE  Honest(job[a].subject, job[a].verdict)'
    BY DEF VerdictsHonest
  <1>0. JobsType /\ previews \subseteq previews' /\ outputs \subseteq outputs'
    BY StoresGrow DEF TypeOK
  <1>1. CASE job'[a] = job[a]
    BY <1>0, <1>1 DEF VerdictsHonest, Honest
  <1>2. CASE job'[a] # job[a]
    <2>1. AttemptStep(a)
      BY <1>0, <1>2, JobSteps, OneAttempt, WorkerSlots
    <2>2. CASE CheckOutput(a)
      BY <1>0, <2>2, CheckReads DEF FirstVerdict, Honest
    <2>3. CASE SettleVerdict(a)
      <3>1. PICK seen \in HeadAnswers(job[a].subject) :
              job' = [job EXCEPT ![a].pc = "reporting",
                                 ![a].todo = {"notify", "store"},
                                 ![a].verdict = IF seen THEN "COMPLETED" ELSE @]
        BY <2>3 DEF SettleVerdict
      <3>2. /\ job'[a].subject = job[a].subject
            /\ job'[a].verdict = IF seen THEN "COMPLETED" ELSE job[a].verdict
        BY <1>0, <3>1 DEF JobsType
      <3>3. Honest(job[a].subject, job[a].verdict)
        BY <2>3 DEF SettleVerdict, VerdictsHonest
      <3>4. seen => job[a].subject \in outputs
        BY DEF HeadAnswers
      <3> QED  BY <1>0, <3>2, <3>3, <3>4 DEF Honest
    <2>4. CASE \E what : Done(a, what)
      <3>1. /\ job'[a].subject = job[a].subject
            /\ job'[a].verdict = job[a].verdict
            /\ job[a].pc = "reporting"
        BY <1>0, <2>4, DoneStays DEF Done
      <3> QED  BY <1>0, <3>1 DEF VerdictsHonest, Honest
    <2>5. CASE \E from, to \in Coroutine \union {"finished"} : Goto(a, from, to)
      BY <1>0, <2>5 DEF Goto, JobsType, Coroutine, Holding
    <2>6. CASE HandleTaskCompletion(a)
      BY <1>0, <2>6, CompletionPosts
    <2> QED
      BY <2>1, <2>2, <2>3, <2>4, <2>5, <2>6
      DEF AttemptStep, AcquirePermit, RunInference, InferenceFails,
          UploadOutput, EnqueueRetry, EndRetry, EnqueueRetryFails, NotifyTaskStatus,
          UpdateTaskStatus, Coroutine, Holding
  <1> QED  BY <1>1, <1>2

\* The table gets verdicts that are true, whatever order they arrive in, and
\* a stamp only together with a true COMPLETED.
LEMMA RowsStep ==
    ASSUME TypeOK, MadeInOrder, VerdictsHonest, RowsHonest, CompletionStamped,
           [Next]_vars
    PROVE  RowsHonest' /\ CompletionStamped'
  <1>0. JobsType /\ TableType /\ previews \subseteq previews' /\ outputs \subseteq outputs'
    BY StoresGrow DEF TypeOK
  <1>1. CASE UNCHANGED tableVars
    BY <1>0, <1>1 DEF tableVars, RowsHonest, CompletionStamped, Honest
  <1>2. ASSUME NEW t \in Tasks, InsertRow(t)
        PROVE  RowsHonest' /\ CompletionStamped'
    BY <1>0, <1>2
    DEF InsertRow, CreateRow, TableType, RowsHonest, CompletionStamped, Honest
  <1>3. ASSUME NEW a \in Attempts, UpdateTaskStatus(a)
        PROVE  RowsHonest' /\ CompletionStamped'
    <2> DEFINE t == job[a].subject
               v == job[a].verdict
    <2>1. t \in Tasks /\ v \in Verdicts
      BY <1>0, <1>3, BusySlot, ActiveFields DEF UpdateTaskStatus, Done
    <2>2. (v = "COMPLETED" => t \in outputs) /\ (v = "PROCESSING" => t \in previews)
      BY <1>3 DEF UpdateTaskStatus, Done, VerdictsHonest, Honest
    <2>3. CASE UNCHANGED tableVars
      BY <1>0, <2>3 DEF tableVars, RowsHonest, CompletionStamped, Honest
    <2>4. CASE ~UNCHANGED tableVars
      <3>1. /\ row' = [row EXCEPT ![t] = v]
            /\ completedAt' = [completedAt EXCEPT ![t] = completedAt[t] \/ v = "COMPLETED"]
        BY <1>3, <2>4 DEF UpdateTaskStatus, UpdateRow, tableVars
      <3>2. RowsHonest'
        BY <1>0, <2>1, <2>2, <3>1 DEF TableType, RowsHonest, Honest
      <3>3. ASSUME NEW u \in Tasks
            PROVE  /\ row'[u] = "COMPLETED" => completedAt'[u]
                   /\ completedAt'[u] => u \in outputs'
        <4>1. CASE u = t
          <5>1. row'[u] = v /\ completedAt'[u] = (completedAt[t] \/ v = "COMPLETED")
            BY <1>0, <2>1, <3>1, <4>1 DEF TableType
          <5>2. completedAt[t] => t \in outputs
            BY <2>1 DEF CompletionStamped
          <5> QED  BY <1>0, <2>2, <4>1, <5>1, <5>2
        <4>2. CASE u # t
          <5>1. row'[u] = row[u] /\ completedAt'[u] = completedAt[u]
            BY <1>0, <3>1, <4>2 DEF TableType
          <5> QED  BY <1>0, <5>1 DEF CompletionStamped
        <4> QED  BY <4>1, <4>2
      <3> QED  BY <3>2, <3>3 DEF CompletionStamped
    <2> QED  BY <2>3, <2>4
  <1> QED  BY <1>1, <1>2, <1>3, TableSteps

\* A stream passes verdicts on in order; a page adds the links of what it is
\* told to those it has.
LEMMA PagesStep ==
    ASSUME TypeOK, MadeInOrder, VerdictsHonest, PagesHonest, LinksBacked,
           [Next]_vars
    PROVE  PagesHonest' /\ LinksBacked'
  <1>0. /\ JobsType /\ StreamType
        /\ previews \subseteq previews' /\ outputs \subseteq outputs'
    BY StoresGrow DEF TypeOK
  <1>1. CASE UNCHANGED pageVars
    BY <1>0, <1>1 DEF pageVars, PagesHonest, LinksBacked, Honest
  <1>2. ASSUME NEW t \in Tasks, Subscribe(t) \/ AnswerLost(t) \/ SubscribeFails(t)
        PROVE  PagesHonest' /\ LinksBacked'
    <2>1. CASE Subscribe(t)
      BY <1>0, <2>1
      DEF Subscribe, OpenStream, StreamType, PagesHonest, LinksBacked, Honest
    <2>2. CASE AnswerLost(t) \/ SubscribeFails(t)
      BY <1>0, <2>2
      DEF AnswerLost, SubscribeFails, OpenStreamFails, PagesHonest, LinksBacked, Honest
    <2> QED  BY <1>2, <2>1, <2>2
  <1>3. ASSUME NEW t \in Tasks, Stream(t)
        PROVE  PagesHonest' /\ LinksBacked'
    <2>1. CASE Relay(t)
      <3> DEFINE v == Head(inbox[t])
      <3>1. inbox[t] \in Seq(Verdicts) /\ inbox[t] # <<>>
        BY <1>0, <2>1 DEF Relay, StreamType
      <3>2. v \in Verdicts /\ v = inbox[t][1] /\ 1 \in DOMAIN inbox[t]
        BY <3>1
      <3>3. (v = "COMPLETED" => t \in outputs) /\ (v = "PROCESSING" => t \in previews)
        BY <3>2 DEF PagesHonest, Honest
      <3>4. /\ "output" \in LinksOf(v) => t \in outputs
            /\ "preview" \in LinksOf(v) => t \in previews
        BY <3>2, <3>3 DEF LinksOf, Verdicts, MadeInOrder
      <3>5. page' = [page EXCEPT ![t] =
                        [status |-> v, links |-> page[t].links \union LinksOf(v)]]
        BY <2>1 DEF Relay
      <3>6. \A u \in Tasks :
               /\ inbox'[u] \in Seq(Verdicts)
               /\ \A i \in DOMAIN inbox'[u] : \E k \in DOMAIN inbox[u] : inbox'[u][i] = inbox[u][k]
        <4> SUFFICES ASSUME NEW u \in Tasks
                     PROVE  /\ inbox'[u] \in Seq(Verdicts)
                            /\ \A i \in DOMAIN inbox'[u] :
                                  \E k \in DOMAIN inbox[u] : inbox'[u][i] = inbox[u][k]
          OBVIOUS
        <4>1. CASE u # t \/ inbox'[t] = inbox[t]
          BY <1>0, <2>1, <4>1 DEF Relay, StreamType
        <4>2. CASE u = t /\ inbox'[t] = <<>>
          BY <4>2
        <4>3. CASE u = t /\ inbox'[t] = Tail(inbox[t])
          <5>1. \A i \in DOMAIN Tail(inbox[t]) :
                   i + 1 \in DOMAIN inbox[t] /\ Tail(inbox[t])[i] = inbox[t][i + 1]
            BY <3>1
          <5>2. Tail(inbox[t]) \in Seq(Verdicts)
            BY <3>1
          <5> QED  BY <4>3, <5>1, <5>2
        <4>4. inbox'[t] \in {<<>>, Tail(inbox[t])}
          BY <1>0, <2>1 DEF Relay, StreamType
        <4> QED  BY <4>1, <4>2, <4>3, <4>4
      <3>7. PagesHonest'
        BY <1>0, <3>3, <3>5, <3>6 DEF PagesHonest, Honest, StreamType
      <3>8. LinksBacked'
        BY <1>0, <3>4, <3>5 DEF LinksBacked, StreamType
      <3> QED  BY <3>7, <3>8
    <2>2. CASE CutStream(t)
      BY <1>0, <2>2 DEF CutStream, StreamType, PagesHonest, LinksBacked, Honest
    <2> QED  BY <1>3, <2>1, <2>2 DEF Stream
  <1>4. ASSUME NEW a \in Attempts, NotifyTaskStatus(a)
        PROVE  PagesHonest' /\ LinksBacked'
    <2> DEFINE t == job[a].subject
               v == job[a].verdict
    <2>1. t \in Tasks /\ v \in Verdicts
      BY <1>0, <1>4, BusySlot, ActiveFields DEF NotifyTaskStatus, Done
    <2>2. (v = "COMPLETED" => t \in outputs) /\ (v = "PROCESSING" => t \in previews)
      BY <1>4 DEF NotifyTaskStatus, Done, VerdictsHonest, Honest
    <2>3. UNCHANGED page
      BY <1>4 DEF NotifyTaskStatus, Publish
    <2>4. CASE UNCHANGED inbox
      BY <1>0, <2>3, <2>4 DEF PagesHonest, LinksBacked, Honest
    <2>5. CASE inbox' = [inbox EXCEPT ![t] = Append(inbox[t], v)]
      <3>1. \A u \in Tasks : u # t => inbox'[u] = inbox[u]
        BY <1>0, <2>5 DEF StreamType
      <3>2. inbox'[t] = Append(inbox[t], v) /\ inbox[t] \in Seq(Verdicts)
        BY <1>0, <2>1, <2>5 DEF StreamType
      <3>3. \A i \in DOMAIN inbox'[t] :
               inbox'[t][i] = v \/ (i \in DOMAIN inbox[t] /\ inbox'[t][i] = inbox[t][i])
        BY <2>1, <3>2
      <3>4. ASSUME NEW u \in Tasks, NEW i \in DOMAIN inbox'[u]
            PROVE  Honest(u, inbox[u][i])'
        <4>1. CASE u # t
          BY <1>0, <3>1, <4>1 DEF PagesHonest, Honest
        <4>2. CASE u = t
          BY <1>0, <2>2, <3>3, <4>2 DEF PagesHonest, Honest
        <4> QED  BY <4>1, <4>2
      <3> QED  BY <1>0, <2>3, <3>4 DEF PagesHonest, LinksBacked, Honest
    <2> QED  BY <1>4, <2>4, <2>5 DEF NotifyTaskStatus, Publish
  <1>5. ASSUME WebCrash PROVE PagesHonest' /\ LinksBacked'
    BY <1>0, <1>5 DEF WebCrash, PagesHonest, LinksBacked, Honest
  <1> QED  BY <1>1, <1>2, <1>3, <1>4, <1>5, PageSteps

LEMMA HonestStep == HonestInv /\ [Next]_vars => HonestInv'
  <1> SUFFICES ASSUME HonestInv, [Next]_vars PROVE HonestInv'
    OBVIOUS
  <1>1. TypeOK'
    BY TypeStep DEF HonestInv
  <1>2. MadeInOrder'
    BY StoresStep DEF HonestInv
  <1>3. UploadsRendered' /\ VerdictsHonest'
    BY UploadsStep, VerdictsStep DEF HonestInv
  <1>4. RowsHonest' /\ CompletionStamped'
    BY RowsStep DEF HonestInv
  <1>5. PagesHonest' /\ LinksBacked'
    BY PagesStep DEF HonestInv
  <1> QED  BY <1>1, <1>2, <1>3, <1>4, <1>5 DEF HonestInv

LEMMA HonestAlways == Spec => []HonestInv
  <1> QED  BY HonestInit, HonestStep, PTL DEF Spec

\* COMPLETED is nowhere ahead of the S3 object and PROCESSING nowhere ahead of
\* the local one, however the writers of rows and messages interleave and
\* whatever fails.
THEOREM ServiceHonest == Spec => []NeverAhead
  <1>1. HonestInv => NeverAhead
    BY DEF HonestInv, NeverAhead, VerdictsHonest, RowsHonest, PagesHonest
  <1> QED  BY <1>1, HonestAlways, PTL

\* An output link leads to an image whatever store the web server has, and a
\* preview link does unless that store is S3, which has outputs only.
THEOREM LinksServed == Spec => []LinksWork
  <1>1. HonestInv => LinksWork
    <2>1. ASSUME HonestInv PROVE LinksWork
      <3>1. ProviderType /\ MadeInOrder /\ LinksBacked
        BY <2>1 DEF HonestInv, TypeOK
      <3> QED
        BY <3>1 DEF ProviderType, MadeInOrder, LinksBacked, LinksWork,
                    Results, LocalResults, S3Results, Provided
    <2> QED  BY <2>1
  <1> QED  BY <1>1, HonestAlways, PTL

\* completed_at stays a trace of an output that can be downloaded, whatever
\* later updates make of the status.
THEOREM StampedRight == Spec => []CompletionStamped
  <1>1. HonestInv => CompletionStamped
    BY DEF HonestInv
  <1> QED  BY <1>1, HonestAlways, PTL

================================================================================
