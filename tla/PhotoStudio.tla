------------------------------ MODULE PhotoStudio ------------------------------
(***************************************************************************)
(* The whole service: the web server that creates tasks and streams their  *)
(* progress, the workers that serve them, and the queue, the table and the *)
(* image stores between them.                                              *)
(***************************************************************************)
EXTENDS CreateTask, Orchestrator

webVars  == <<req, provider, held>>
pageVars == <<stream, inbox, page>>
runVars  == <<mode, current, permits, locked, job>>
vars == <<queue, row, completedAt, uploads, previews, outputs,
          stream, inbox, page, req, provider, held, mode, current, permits, locked, job>>

Init ==
    /\ QueueInit
    /\ TableInit
    /\ StoreInit
    /\ StreamInit
    /\ ReqInit
    /\ ProviderInit
    /\ PoolInit
    /\ OrchestratorInit

Create(t) == CreateStep(t) /\ UNCHANGED <<held, pageVars, runVars>>

\* The page received 201 with the task's id and opens its stream.
Subscribe(t) ==
    /\ t \in Watched
    /\ req[t] = "created"
    /\ OpenStream(t)
    /\ TakeConnection
    /\ UNCHANGED <<queue, tableVars, storeVars, req, provider, runVars>>

\* The answer that tells the page its task's id, or the one that brings the
\* stream, does not arrive: MetricsMiddleware raises while the push gateway is
\* down, whatever the handler did.  The page then has no stream, and opens none.
AnswerLost(t) ==
    /\ "web" \in Faults
    /\ t \in Watched
    /\ req[t] = "created"
    /\ OpenStreamFails(t)
    /\ UNCHANGED <<queue, tableVars, storeVars, webVars, runVars>>

\* The stream cannot subscribe: the pool is exhausted, or Redis fails, before
\* or after it has a connection.
SubscribeFails(t) ==
    /\ t \in Watched
    /\ req[t] = "created"
    /\ OpenStreamFails(t)
    /\ \/ MayBeExhausted(Cardinality(Pushing(t))) /\ UNCHANGED held
       \/ "redis" \in Faults /\ (TakeConnection \/ UNCHANGED held)
    /\ UNCHANGED <<queue, tableVars, storeVars, req, provider, runVars>>

Stream(t) ==
    /\ Relay(t) \/ CutStream(t)
    /\ UNCHANGED <<queue, tableVars, storeVars, webVars, runVars>>

Attempt(a) == AttemptStep(a) /\ UNCHANGED webVars
Repeat(a)  == RepeatRetry(a) /\ UNCHANGED webVars

Worker(w) == WorkerStep(w) /\ UNCHANGED webVars

\* GET /images/preview and GET /images/output, whatever they name: the store is
\* made before anything is asked about the task.  All they may change is which
\* store the web server has.
ViewPreview == "preview" \in Fetched /\ AskAny
ViewOutput  == "output" \in Fetched /\ Ask("s3")

ViewImage ==
    /\ ViewPreview \/ ViewOutput
    /\ UNCHANGED <<queue, tableVars, storeVars, req, held, pageVars, runVars>>

\* The web process dies with its requests and its streams, and is restarted.
WebCrash ==
    /\ "restart" \in Faults
    /\ AbandonRequests
    /\ ForgetProvider
    /\ NewPool
    /\ stream' = [t \in Tasks |-> IF stream[t] = "open" THEN "cut" ELSE stream[t]]
    /\ inbox' = [t \in Tasks |-> <<>>]
    /\ UNCHANGED <<queue, tableVars, storeVars, page, runVars>>

Next ==
    \/ \E t \in Tasks : Create(t) \/ Subscribe(t) \/ AnswerLost(t) \/ SubscribeFails(t) \/ Stream(t)
    \/ ViewImage
    \/ \E a \in Attempts : Attempt(a) \/ Repeat(a)
    \/ \E w \in Workers : Worker(w)
    \/ WebCrash

Spec == Init /\ [][Next]_vars

\* Event loops run what is ready.  Semaphore, lock and the list of blocked
\* BRPOPs are FIFO, so nobody waits for ever while others pass: strong
\* fairness.  (A Fetch is only ever disabled by the bound on attempts.)
Fairness ==
    /\ \A t \in Tasks : WF_vars(InsertRow(t) /\ UNCHANGED <<held, pageVars, runVars>>)
    /\ \A t \in Watched : WF_vars(Subscribe(t)) /\ WF_vars(Stream(t))
    /\ \A a \in Attempts : /\ WF_vars(Attempt(a))
                           /\ SF_vars(AcquirePermit(a) /\ UNCHANGED webVars)
                           /\ SF_vars(RunInference(a) /\ UNCHANGED webVars)
    /\ \A w \in Workers : /\ SF_vars(Fetch(w) /\ UNCHANGED webVars)
                          /\ WF_vars(FetchTimeout(w) /\ UNCHANGED webVars)
                          /\ WF_vars(Exit(w) /\ UNCHANGED webVars)

FairSpec == Spec /\ Fairness

----------------------------------------------------------------------------
\* Every variable has its type; in particular no attempt is half filled in.
TypeOK ==
    QueueType /\ TableType /\ StoreType /\ StreamType /\ ReqType
       /\ ProviderType /\ PoolType /\ WorkerType /\ JobsType

----------------------------------------------------------------------------
(***************************************************************************)
(* Who has a task.                                                         *)
(***************************************************************************)

QueuedOnce ==
    \A i, j \in DOMAIN queue : queue[i] = queue[j] => i = j

QueuedOrHeld ==
    \A a \in Attempts, t \in Tasks : Holds(a, t) => ~Queued(t)

HeldOnce ==
    \A a, b \in Attempts, t \in Tasks : Holds(a, t) /\ Holds(b, t) => a = b

UnknownBeforeQueued ==
    \A t \in Tasks : req[t] \in {"idle", "saved"} =>
       /\ ~Queued(t)
       /\ \A a \in Attempts : ~Holds(a, t)

\* Unless a client library repeats commands, a task has one message: it is in
\* the queue once or in the hands of one attempt of one worker, never both,
\* through any number of retries, crashes and restarts (BRPOP against
\* enqueue_retry).
SingleMessage ==
    "resend" \notin Faults =>
       QueuedOnce /\ QueuedOrHeld /\ HeldOnce /\ UnknownBeforeQueued

\* Nobody has to ask for t again.
Kept(t) == Queued(t) \/ t \in previews \/ \E a \in Attempts : Holds(a, t)

\* Unless Redis or a process fails or a worker is stopped, a payload that was
\* pushed is not lost: it is queued or held until its preview has been made,
\* across retries, repeated pushes, failed writes and lost answers
\* (process_with_semaphore).
NoMessageLost ==
    Faults \intersect {"redis", "crash", "pop", "stop"} = {} =>
       \A t \in Tasks : req[t] \in {"queued", "created"} => Kept(t)

\* A stop request can take one payload with it, the one BRPOP had just popped
\* for it.  Whatever the attempts of the worker held, and what they pushed back
\* while shutdown() waited for them, is kept; so unless Redis or a process
\* fails a payload is lost only together with a stop, and only from
\* the head of the queue (run, shutdown).
StopLosesOne ==
    [][Faults \intersect {"redis", "crash", "pop"} = {} =>
          \A t \in Tasks : Kept(t) /\ ~Kept(t)' =>
             /\ queue # <<>> /\ t = Head(queue)
             /\ \E w \in Workers : mode[w] = "up" /\ mode'[w] = "draining"]_vars

\* What Delivery promises of each message.  A message is served once nobody has
\* anything more to infer for it, and not if it comes back after that.
Place ==
    [t \in Tasks |-> IF Queued(t) THEN "queued"
                     ELSE IF \E a \in Attempts : Holds(a, t) /\ job[a].pc # "uploading" THEN "held"
                     ELSE IF t \in previews THEN "served"
                     ELSE IF req[t] \in {"idle", "saved"} THEN "new"
                     ELSE "gone"]
Messages == INSTANCE Delivery WITH
               place <- Place,
               MayLose <- Faults \intersect {"redis", "crash", "pop", "stop"} # {}

\* Unless a client library repeats commands, the service implements Delivery:
\* at no time can a message that was served, or lost in a crash, come back, be
\* pushed a second time or be given back by who does not hold it.
ImplementsDelivery == Messages!Spec

Begun    == {t \in Tasks : req[t] # "idle"}
UnderWay == {a \in Attempts : job[a].pc \in Coroutine}
Carrying == {a \in Attempts : job[a].pc \in Holding}
Awaiting(w) == {a \in Attempts : job[a].pc = "pushed" /\ job[a].worker = w}

\* Retries make no work.  The payloads in the queue and the coroutines that have
\* one, which run() spawns without a limit and which all stay in memory, are
\* together never more than the requests that were made.  Beside them are the
\* coroutines that await the answer to a push, whose payload is queued or served
\* elsewhere by now, and of those a worker has no more than permits (run,
\* enqueue_retry).
WorkBounded ==
    "resend" \notin Faults =>
       /\ Len(queue) + Cardinality(Carrying) <= Cardinality(Begun)
       /\ \A w \in Workers : Cardinality(Awaiting(w)) <= MaxConcurrent

\* The messages before t's.
AheadOf(t) ==
    {u \in Tasks : \E i, j \in DOMAIN queue : i < j /\ queue[i] = u /\ queue[j] = t}

\* Nothing gets ahead of a message that waits, least of all the retries of a
\* task that can never succeed.  So a message waits for fewer others than
\* WorkBounded counts, each once (enqueue against BRPOP).
ServedInTurn ==
    [][\A t \in Tasks :
          "resend" \notin Faults /\ Queued(t) /\ Queued(t)' =>
             AheadOf(t)' \subseteq AheadOf(t)]_vars

----------------------------------------------------------------------------
(***************************************************************************)
(* Semaphore and lock.                                                     *)
(***************************************************************************)

PermitHolders(w) == {a \in Attempts : job[a].worker = w /\ job[a].pc \in Permitted}

\* The semaphore of run() neither leaks nor grows: what is not free is held,
\* by at most MaxConcurrent attempts, on every path out of `async with`.
PermitsBalanced ==
    \A w \in Workers : permits[w] + Cardinality(PermitHolders(w)) = MaxConcurrent

Uploading(a, w) == job[a].worker = w /\ job[a].pc = "uploading"

\* One attempt of a worker is inside its model, and exactly while the lock is
\* held (predict_async holds _model_lock across the upload).
ModelInUseOnce ==
    \A w \in Workers :
       /\ locked[w] <=> \E a \in Attempts : Uploading(a, w)
       /\ \A a, b \in Attempts : Uploading(a, w) /\ Uploading(b, w) => a = b

\* An attempt nothing keeps from its next step.
CanGoOn(a) ==
    LET w == job[a].worker
    IN  \/ job[a].pc = "waiting" /\ permits[w] > 0
        \/ job[a].pc = "ready" /\ ~locked[w]
        \/ job[a].pc \in {"uploading", "retrying", "pushed"}

\* Never does everyone wait for everyone: of the coroutines of a worker, one can
\* go on, also when shutdown() gathers them and run() is gone.
SomebodyGoesOn ==
    \A a \in UnderWay : \E b \in UnderWay : job[b].worker = job[a].worker /\ CanGoOn(b)

\* The calls a worker's model gets.  A task of an unknown type never asks.
Asking(w) ==
    {a \in Attempts : /\ job[a].worker = w /\ job[a].pc = "ready"
                      /\ job[a].task \notin UnknownType}
Using(w) == {a \in Attempts : Uploading(a, w)}
Use(w) == INSTANCE ModelUse WITH
             Users <- Attempts, asking <- Asking(w), using <- Using(w)

\* The attempts of each worker use its model as ModelHost lets its callers:
\* for every worker the service implements ModelUse (predict_async under
\* _model_lock).
ImplementsUse ==
    /\ \A w \in Workers : Use(w)!Init
    /\ [][\A w \in Workers : Use(w)!Next \/ UNCHANGED Use(w)!vars]_vars

----------------------------------------------------------------------------
(***************************************************************************)
(* What is said of a task, and what is true of it.                         *)
(***************************************************************************)

\* v may be said of t.
Honest(t, v) ==
    /\ v = "COMPLETED" => t \in outputs
    /\ v = "PROCESSING" => t \in previews

\* Nothing that is made is made from nothing.
MadeInOrder == outputs \subseteq previews /\ previews \subseteq uploads

\* COMPLETED is nowhere ahead of the S3 object and PROCESSING nowhere ahead of
\* the local one: not in a verdict under way, in a row, in a message waiting
\* in a stream, nor on a page - although verdicts are about whichever task
\* run() fetched last, are written in any order, and are retried.
NeverAhead ==
    /\ MadeInOrder
    /\ \A a \in Attempts :
          job[a].pc \in {"checking", "reporting"} => Honest(job[a].subject, job[a].verdict)
    /\ \A t \in Tasks :
          /\ Honest(t, row[t])
          /\ Honest(t, page[t].status)
          /\ \A i \in DOMAIN inbox[t] : Honest(t, inbox[t][i])

\* An output link leads to an image whichever store the web server made its
\* own (get_storage_service), and so does a preview link beside it; a preview
\* link alone does as long as that store is not S3.  All this also when a later
\* message took the status back, and after the web server was restarted.
LinksWork ==
    \A t \in Tasks :
       /\ "output" \in page[t].links =>
             t \in Results(Provided("s3")) /\ t \in Results(Provided("local"))
       /\ "preview" \in page[t].links /\ provider # "s3" =>
             t \in Results(Provided("local"))

\* completed_at is the one trace an overwritten COMPLETED leaves: a row that
\* says COMPLETED has it, and a task that has it can be downloaded even when
\* its row went back to PROCESSING or FAILED.
CompletionStamped ==
    \A t \in Tasks :
       /\ row[t] = "COMPLETED" => completedAt[t]
       /\ completedAt[t] => t \in outputs

\* A task whose preview exists is not inferred again: its message is neither
\* queued nor held by an attempt that has yet to infer (UploadOutput cannot
\* raise, so nothing after the preview leads to enqueue_retry).
RenderedOnce ==
    "resend" \notin Faults =>
       \A t \in previews :
          /\ ~Queued(t)
          /\ \A a \in Attempts : Holds(a, t) => job[a].pc = "uploading"

\* The service implements what TaskLedger promises.
Made == [t \in Tasks |-> IF t \in outputs THEN "output"
                         ELSE IF t \in previews THEN "preview" ELSE "nothing"]
Shown == [t \in Tasks |-> page[t].status]
Ledger == INSTANCE TaskLedger WITH made <- Made, listed <- row, shown <- Shown
ImplementsLedger == Ledger!Spec

----------------------------------------------------------------------------
(***************************************************************************)
(* What must eventually happen, under Fairness.                            *)
(***************************************************************************)

\* A task that can be inferred, and whose image went to the disk, is rendered and
\* stored once it is queued, even while a task of an unknown type, or with an
\* image that cannot be taken or went elsewhere, is retried for ever in the same
\* queue, semaphore and model - unless its only worker is stopped.
KnownTaskServed ==
    \A t \in Tasks \ (UnknownType \union Unreadable) :
       Queued(t) /\ t \in uploads ~> (t \in outputs \/ \A w \in Workers : mode[w] # "up")

\* Every attempt comes to its end and leaves nothing behind, through
\* semaphore, lock, retry and reports: no await waits for ever, and so every
\* slot is free time and again.
AttemptsEnd ==
    \A a \in Attempts : []<>(job[a] = NoJob)

\* A worker that is told to stop does stop, and is not draining for ever
\* (shutdown() gathers attempts, and none of those waits for something only the
\* stopped run() would do).
DrainEnds ==
    \A w \in Workers : []<>(mode[w] # "draining")
================================================================================
