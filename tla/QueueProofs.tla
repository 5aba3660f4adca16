------------------------------- MODULE QueueProofs -----------------------------
(***************************************************************************)
(* What becomes of the messages, for any tasks, workers and attempts: they *)
(* never outgrow the requests, they are served in turn, and each goes the  *)
(* way Delivery allows.                                                    *)
(***************************************************************************)
EXTENDS DeliveryProofs

----------------------------------------------------------------------------
(***************************************************************************)
(* The queue, step by step.                                                *)
(***************************************************************************)

\* Unless commands are repeated, a step pops the oldest message, or pushes one
\* that is nowhere, of a task that is not rendered, or leaves the queue alone.
LEMMA QueueMoves ==
    ASSUME DeliveryInv, [Next]_vars, "resend" \notin Faults
    PROVE  \/ UNCHANGED queue
           \/ \E u \in Tasks : ~Queued(u) /\ queue' = Append(queue, u)
           \/ \E u \in Tasks : Dequeue(u)
  <1>0. JobsType /\ ReqType /\ OneMessage
    BY DEF DeliveryInv, TypeOK
  <1>1. ASSUME NEW u \in Tasks, EnqueueTask(u)
        PROVE  ~Queued(u) /\ queue' = Append(queue, u)
    <2>1. ~Queued(u)
      BY <1>0, <1>1, EnqueueOnce DEF OneMessage, UnknownBeforeQueued, Unqueued
    <2> QED  BY <1>1, <2>1 DEF EnqueueTask, Enqueue
  <1>2. ASSUME NEW a \in Attempts, EnqueueRetry(a)
        PROVE  \E u \in Tasks : ~Queued(u) /\ queue' = Append(queue, u)
    <2>1. PICK u \in Tasks : u = job[a].task
      BY <1>0, <1>2, BusySlot, ActiveFields DEF EnqueueRetry, Goto
    <2>2. Holds(a, u)
      BY <1>2, <2>1 DEF EnqueueRetry, Goto, Holds, Holding
    <2>3. ~Queued(u)
      BY <1>0, <2>2 DEF OneMessage, QueuedOrHeld
    <2> QED  BY <1>2, <2>1, <2>3 DEF EnqueueRetry, Enqueue
  <1>3. ASSUME NEW w \in Workers, Fetch(w) \/ LosePopped(w) \/ Stop(w)
        PROVE  UNCHANGED queue \/ \E u \in Tasks : Dequeue(u)
    BY <1>3 DEF Fetch, LosePopped, Stop
  <1>4. /\ \A u \in Tasks : ~RepeatPush(u)
        /\ \A a \in Attempts : ~RepeatRetry(a)
    BY DEF RepeatPush, RepeatRetry, EnqueueAgain
  <1> QED  BY <1>1, <1>2, <1>3, <1>4, QueueSteps

----------------------------------------------------------------------------
(***************************************************************************)
(* Order.                                                                  *)
(***************************************************************************)

\* A message that was not there is pushed behind those that were.
LEMMA PushBehind ==
    ASSUME QueueType, NEW u \in Tasks, ~Queued(u), queue' = Append(queue, u),
           NEW t \in Tasks, Queued(t)
    PROVE  AheadOf(t)' \subseteq AheadOf(t)
  <1>1. /\ queue \in Seq(Tasks) /\ Len(queue) \in Nat
        /\ DOMAIN queue = 1 .. Len(queue)
        /\ DOMAIN queue' = 1 .. Len(queue) + 1
        /\ \A i \in 1 .. Len(queue) : queue'[i] = queue[i]
        /\ queue'[Len(queue) + 1] = u
    BY DEF QueueType
  <1>2. t # u
    OBVIOUS
  <1>3. ASSUME NEW v \in Tasks, NEW i \in DOMAIN queue', NEW j \in DOMAIN queue',
               i < j, queue'[i] = v, queue'[j] = t
        PROVE  v \in AheadOf(t)
    <2>1. i \in DOMAIN queue /\ j \in DOMAIN queue
      BY <1>1, <1>2, <1>3
    <2>2. queue[i] = v /\ queue[j] = t
      BY <1>1, <1>3, <2>1
    <2> QED  BY <1>3, <2>1, <2>2 DEF AheadOf
  <1> QED  BY <1>3 DEF AheadOf

\* Whatever is popped, those that stay keep their order.
LEMMA PopInFront ==
    ASSUME QueueType, NEW u, Dequeue(u), NEW t \in Tasks
    PROVE  AheadOf(t)' \subseteq AheadOf(t)
  <1>1. /\ queue \in Seq(Tasks) /\ Len(queue) \in Nat \ {0}
        /\ DOMAIN queue = 1 .. Len(queue)
        /\ DOMAIN queue' = 1 .. Len(queue) - 1
        /\ \A i \in 1 .. Len(queue) - 1 : queue'[i] = queue[i + 1]
    BY DEF QueueType, Dequeue
  <1>2. ASSUME NEW v \in Tasks, NEW i \in DOMAIN queue', NEW j \in DOMAIN queue',
               i < j, queue'[i] = v, queue'[j] = t
        PROVE  v \in AheadOf(t)
    <2>1. i + 1 \in DOMAIN queue /\ j + 1 \in DOMAIN queue /\ i + 1 < j + 1
      BY <1>1, <1>2
    <2>2. queue[i + 1] = v /\ queue[j + 1] = t
      BY <1>1, <1>2
    <2> QED  BY <2>1, <2>2 DEF AheadOf
  <1> QED  BY <1>2 DEF AheadOf

LEMMA TurnStep ==
    ASSUME DeliveryInv, [Next]_vars, "resend" \notin Faults, NEW t \in Tasks, Queued(t)
    PROVE  AheadOf(t)' \subseteq AheadOf(t)
  <1>0. QueueType
    BY DEF DeliveryInv, TypeOK
  <1>1. CASE UNCHANGED queue
    BY <1>1 DEF AheadOf
  <1> QED  BY <1>0, <1>1, QueueMoves, PushBehind, PopInFront

\* No message that waits is overtaken, however many tasks are retried: what is
\* pushed was nowhere, so it comes behind.
THEOREM TurnsKept == Spec => ServedInTurn
  <1>1. ASSUME DeliveryInv, [Next]_vars
        PROVE  \A t \in Tasks : "resend" \notin Faults /\ Queued(t) /\ Queued(t)' =>
                                AheadOf(t)' \subseteq AheadOf(t)
    BY <1>1, TurnStep
  <1> QED  BY <1>1, DeliveryAlways, PTL DEF Spec, ServedInTurn

----------------------------------------------------------------------------
(***************************************************************************)
(* Number.                                                                 *)
(***************************************************************************)

Waiting == {t \in Tasks : Queued(t)}
InHand  == {t \in Tasks : \E a \in Attempts : Holds(a, t)}

\* One request at a time is begun.
LEMMA BegunSteps ==
    ASSUME ReqType, [Next]_vars
    PROVE  \E u : Begun' \subseteq Begun \union {u}
  <1>1. ASSUME NEW u \in Tasks, CreateStep(u) PROVE Begun' \subseteq Begun \union {u}
    BY <1>1 DEF CreateStep, RejectUpload, AcceptUpload, RejectParameters, EnqueueTask,
                EnqueueFails, RepeatPush, InsertRow, InsertFails, ReqStep, ReqType, Begun
  <1>2. CASE UNCHANGED req
    BY <1>2 DEF Begun
  <1>3. CASE WebCrash
    BY <1>3 DEF WebCrash, AbandonRequests, Begun
  <1>4. \/ \E u \in Tasks : CreateStep(u)
        \/ UNCHANGED req
        \/ WebCrash
    BY DEF Next, Create, Subscribe, AnswerLost, SubscribeFails, Stream, ViewImage,
           Attempt, Repeat, Worker, webVars, vars
  <1> QED  BY <1>1, <1>2, <1>3, <1>4

\* Finitely many requests were begun, also of infinitely many tasks.
CountInv == DeliveryInv /\ IsFiniteSet(Begun)

LEMMA CountInit == Init => CountInv
  <1>1. Init => Begun = {}
    BY DEF Init, ReqInit, Begun
  <1> QED  BY <1>1, DeliveryInit, FS_EmptySet DEF CountInv

LEMMA CountStep == CountInv /\ [Next]_vars => CountInv'
  <1> SUFFICES ASSUME CountInv, [Next]_vars PROVE IsFiniteSet(Begun')
    BY DeliveryStep DEF CountInv
  <1>1. PICK u : Begun' \in SUBSET (Begun \union {u})
    BY BegunSteps DEF CountInv, DeliveryInv, TypeOK
  <1>2. IsFiniteSet(Begun \union {u})
    BY FS_AddElement DEF CountInv
  <1> QED  BY <1>1, <1>2, FS_Subset

\* The queue is as long as the set of the tasks in it, at most.
LEMMA QueueCounted ==
    ASSUME QueueType, QueuedOnce, IsFiniteSet(Waiting)
    PROVE  Len(queue) <= Cardinality(Waiting)
  <1>1. /\ queue \in [1 .. Len(queue) -> Tasks] /\ Len(queue) \in Nat
        /\ DOMAIN queue = 1 .. Len(queue)
    BY DEF QueueType
  <1>2. \A i \in 1 .. Len(queue) : queue[i] \in Waiting
    BY <1>1 DEF Waiting, Queued
  <1>3. queue \in [1 .. Len(queue) -> Waiting]
    BY <1>1, <1>2
  <1>4. queue \in Injection(1 .. Len(queue), Waiting)
    BY <1>3 DEF QueuedOnce, Injection, IsInjective
  <1>5. Cardinality(1 .. Len(queue)) <= Cardinality(Waiting)
    BY <1>4, FS_Injection
  <1>6. Cardinality(1 .. Len(queue)) = IF 1 > Len(queue) THEN 0 ELSE Len(queue) - 1 + 1
    BY <1>1, FS_Interval
  <1> QED  BY <1>1, <1>5, <1>6

\* There are as many coroutines that have a payload as payloads, at most.
LEMMA CarryingCounted ==
    ASSUME JobsType, HeldOnce, IsFiniteSet(InHand)
    PROVE  IsFiniteSet(Carrying) /\ Cardinality(Carrying) <= Cardinality(InHand)
  <1> DEFINE f == [a \in Carrying |-> job[a].task]
  <1>1. \A a \in Carrying : a \in Attempts /\ job[a].task \in Tasks /\ Holds(a, job[a].task)
    BY BusySlot, ActiveFields DEF Carrying, Holds, Holding
  <1>2. f \in [Carrying -> InHand]
    BY <1>1 DEF InHand
  <1>3. \A a, b \in Carrying : f[a] = f[b] => a = b
    BY <1>1 DEF HeldOnce
  <1>4. f \in Injection(Carrying, InHand)
    BY <1>2, <1>3 DEF Injection, IsInjective
  <1> QED  BY <1>4, FS_Injection

\* Who awaits the answer to a push has a permit.
LEMMA AwaitingCounted ==
    ASSUME WorkerType, PermitsBalanced, NEW w \in Workers
    PROVE  Cardinality(Awaiting(w)) <= MaxConcurrent
  <1>1. Awaiting(w) \in SUBSET PermitHolders(w) /\ PermitHolders(w) \in SUBSET Attempts
    BY DEF Awaiting, PermitHolders, Permitted, Coroutine, Holding
  <1>2. IsFiniteSet(PermitHolders(w))
    BY <1>1, StudioAssumption, FS_Subset
  <1>3. /\ IsFiniteSet(Awaiting(w))
        /\ Cardinality(Awaiting(w)) <= Cardinality(PermitHolders(w))
    BY <1>1, <1>2, FS_Subset
  <1>4. Cardinality(Awaiting(w)) \in Nat /\ Cardinality(PermitHolders(w)) \in Nat
    BY <1>2, <1>3, FS_CardinalityType
  <1>5. permits[w] \in Nat /\ permits[w] + Cardinality(PermitHolders(w)) = MaxConcurrent
    BY DEF WorkerType, PermitsBalanced
  <1> QED  BY <1>3, <1>4, <1>5

LEMMA Bounded ==
    ASSUME CountInv, PermitsBalanced
    PROVE  WorkBounded
  <1> SUFFICES ASSUME "resend" \notin Faults
               PROVE  Len(queue) + Cardinality(Carrying) <= Cardinality(Begun)
    BY AwaitingCounted DEF WorkBounded, CountInv, DeliveryInv, TypeOK
  <1>0. QueueType /\ JobsType /\ OneMessage /\ IsFiniteSet(Begun)
    BY DEF CountInv, DeliveryInv, TypeOK
  <1>1. Waiting \in SUBSET Begun /\ InHand \in SUBSET Begun /\ Waiting \intersect InHand = {}
    BY <1>0 DEF Waiting, InHand, Begun, OneMessage, UnknownBeforeQueued, QueuedOrHeld
  <1>2. IsFiniteSet(Waiting) /\ IsFiniteSet(InHand)
    BY <1>0, <1>1, FS_Subset
  <1>3. Len(queue) <= Cardinality(Waiting)
    BY <1>0, <1>2, QueueCounted DEF OneMessage
  <1>4. Cardinality(Carrying) <= Cardinality(InHand) /\ IsFiniteSet(Carrying)
    BY <1>0, <1>2, CarryingCounted DEF OneMessage
  <1>5. Cardinality(Waiting \union InHand) = Cardinality(Waiting) + Cardinality(InHand)
    <2>1. Cardinality(Waiting \intersect InHand) = 0
      BY <1>1, FS_EmptySet
    <2>2. Cardinality(Waiting) \in Nat /\ Cardinality(InHand) \in Nat
      BY <1>2, FS_CardinalityType
    <2>3. Cardinality(Waiting \union InHand)
             = Cardinality(Waiting) + Cardinality(InHand) - Cardinality(Waiting \intersect InHand)
      BY <1>2, FS_Union
    <2> QED  BY <2>1, <2>2, <2>3
  <1>6. Cardinality(Waiting \union InHand) <= Cardinality(Begun)
    BY <1>0, <1>1, FS_Subset
  <1>7. /\ Len(queue) \in Nat /\ Cardinality(Carrying) \in Nat
        /\ Cardinality(Waiting) \in Nat /\ Cardinality(InHand) \in Nat
        /\ Cardinality(Begun) \in Nat
    BY <1>0, <1>2, <1>4, FS_CardinalityType DEF QueueType
  <1> QED  BY <1>3, <1>4, <1>5, <1>6, <1>7

\* Payloads in the queue and coroutines that have one are together never more
\* than the requests that were made, and a worker has no more coroutines that
\* await the answer to a push than permits: for any number of tasks, slots,
\* permits and retries.
THEOREM WorkCounted == Spec => []WorkBounded
  <1> QED  BY CountInit, CountStep, Bounded, PermitsKept, PTL DEF Spec

----------------------------------------------------------------------------
(***************************************************************************)
(* Places.                                                                 *)
(***************************************************************************)

HeldBy(t) == \E a \in Attempts : Holds(a, t)

\* What holds as long as no command is repeated.
PlaceInv == HonestInv /\ OneMessage

\* Place, read off the state: who still holds the message of a task that has its
\* preview is only putting it.
LEMMA PlaceOf ==
    ASSUME PlaceInv, NEW t \in Tasks
    PROVE  Place[t] = IF t \in previews THEN "served"
                      ELSE IF Queued(t) THEN "queued"
                      ELSE IF HeldBy(t) THEN "held"
                      ELSE IF Unqueued(t) THEN "new"
                      ELSE "gone"
  <1>1. t \in previews => /\ ~Queued(t)
                          /\ \A a \in Attempts : Holds(a, t) => job[a].pc = "uploading"
    BY DEF PlaceInv, OneMessage
  <1>2. t \notin previews => \A a \in Attempts : Holds(a, t) => job[a].pc # "uploading"
    BY DEF PlaceInv, HonestInv, UploadsRendered, Holds
  <1> QED  BY <1>1, <1>2 DEF Place, HeldBy, Unqueued

\* Place, read off the state after the step.
LEMMA PlaceThen ==
    ASSUME PlaceInv', NEW t \in Tasks
    PROVE  Place'[t] = IF t \in previews' THEN "served"
                       ELSE IF Queued(t)' THEN "queued"
                       ELSE IF HeldBy(t)' THEN "held"
                       ELSE IF Unqueued(t)' THEN "new"
                       ELSE "gone"
  <1>1. t \in previews' => /\ ~Queued(t)'
                           /\ \A a \in Attempts : Holds(a, t)' => job'[a].pc = "uploading"
    BY DEF PlaceInv, OneMessage
  <1>2. t \notin previews' => \A a \in Attempts : Holds(a, t)' => job'[a].pc # "uploading"
    BY DEF PlaceInv, HonestInv, UploadsRendered, Holds
  <1> QED  BY <1>1, <1>2 DEF Place, HeldBy, Unqueued

\* One message moves and the others stay where they are.
LEMMA OneMoves ==
    ASSUME NEW u \in Tasks, NEW to, Place'[u] = to,
           \A t \in Tasks : t # u => Place'[t] = Place[t]
    PROVE  Messages!Move(u, Place[u], to)
  <1>1. Place = [t \in Tasks |-> Place[t]]
    BY DEF Place
  <1>2. Place' = [t \in Tasks |-> Place'[t]]
    BY DEF Place
  <1>3. Place' = [Place EXCEPT ![u] = to]
    BY <1>1, <1>2
  <1> QED  BY <1>3 DEF Messages!Move

\* Messages that were not sent may be given up, and those that were if a fault
\* explains it.
MayLose == Faults \intersect {"redis", "crash", "pop", "stop"} # {}

GivenUp(t) ==
    /\ Place'[t] = "gone"
    /\ Place[t] = "new" \/ (MayLose /\ Place[t] \in {"queued", "held"})

LEMMA SomeGivenUp ==
    ASSUME \A t \in Tasks : Place'[t] = Place[t] \/ GivenUp(t)
    PROVE  Messages!Lose
  <1>1. Place' \in [Tasks -> Messages!Places]
    BY DEF Place, Messages!Places
  <1> QED  BY <1>1 DEF Messages!Lose, GivenUp, MayLose

\* A message that is where it was, of a task that is rendered or not as before,
\* keeps its place, or was not sent and is given up.
LEMMA PlaceKept ==
    ASSUME PlaceInv, PlaceInv', NEW t \in Tasks,
           t \in previews' <=> t \in previews, Queued(t)' <=> Queued(t),
           HeldBy(t)' <=> HeldBy(t), Unqueued(t)' => Unqueued(t)
    PROVE  Place'[t] = Place[t] \/ GivenUp(t)
  BY PlaceOf, PlaceThen DEF GivenUp

\* The same of a task whose request stays where it is.
LEMMA PlaceSame ==
    ASSUME PlaceInv, PlaceInv', NEW t \in Tasks,
           t \in previews' <=> t \in previews, Queued(t)' <=> Queued(t),
           HeldBy(t)' <=> HeldBy(t), Unqueued(t)' <=> Unqueued(t)
    PROVE  Place'[t] = Place[t]
  BY PlaceOf, PlaceThen

----------------------------------------------------------------------------
(***************************************************************************)
(* Each step, as Delivery sees it.                                         *)
(***************************************************************************)

\* A request pushes its message.
LEMMA SendStep ==
    ASSUME PlaceInv, PlaceInv', [Next]_vars, NEW u \in Tasks, EnqueueTask(u),
           UNCHANGED <<job, previews>>
    PROVE  Messages!Send(u)
  <1>0. QueueType /\ ReqType /\ OneMessage
    BY DEF PlaceInv, HonestInv, TypeOK
  <1>1. Unqueued(u) /\ ~Unqueued(u)' /\ \A t \in Tasks : t # u => req'[t] = req[t]
    BY <1>0, EnqueueOnce, ReqFields DEF EnqueueTask
  <1>2. \A t \in Tasks : Queued(t)' <=> Queued(t) \/ t = u
    BY <1>0, Pushed DEF EnqueueTask, Enqueue
  <1>3. \A t \in Tasks : HeldBy(t)' <=> HeldBy(t)
    BY DEF HeldBy, Holds
  <1>4. u \notin previews /\ ~Queued(u) /\ ~HeldBy(u)
    BY <1>0, <1>1 DEF OneMessage, UnknownBeforeQueued, Unqueued, HeldBy
  <1>5. Place[u] = "new" /\ Place'[u] = "queued"
    BY <1>1, <1>2, <1>4, PlaceOf, PlaceThen
  <1>6. \A t \in Tasks : t # u => Place'[t] = Place[t]
    BY <1>1, <1>2, <1>3, PlaceSame DEF Unqueued
  <1> QED  BY <1>5, <1>6, OneMoves DEF Messages!Send

\* Who moves messages, and that requests stay where they are meanwhile.
LEMMA PlaceSteps ==
    ASSUME [Next]_vars, "resend" \notin Faults
    PROVE  \/ UNCHANGED <<queue, job, previews>>
           \/ \E t \in Tasks : EnqueueTask(t) /\ UNCHANGED <<job, previews>>
           \/ \E a \in Attempts : AttemptStep(a) /\ UNCHANGED req
           \/ \E w \in Workers : /\ UNCHANGED req
                                 /\ \/ Fetch(w) \/ LosePopped(w) \/ Exit(w) \/ Crash(w)
                                    \/ Stop(w) /\ \E t \in Tasks : Dequeue(t)
  <1>1. ASSUME NEW t \in Tasks, Create(t)
        PROVE  \/ UNCHANGED <<queue, job, previews>>
               \/ EnqueueTask(t) /\ UNCHANGED <<job, previews>>
    BY <1>1 DEF Create, CreateStep, RejectUpload, AcceptUpload, StoreUpload, SaveUpload,
                RejectParameters, EnqueueTask, EnqueueFails, RepeatPush, EnqueueAgain,
                InsertRow, InsertFails, storeVars, runVars
  <1>2. ASSUME NEW t \in Tasks, Subscribe(t) \/ AnswerLost(t) \/ SubscribeFails(t) \/ Stream(t)
        PROVE  UNCHANGED <<queue, job, previews>>
    BY <1>2 DEF Subscribe, AnswerLost, SubscribeFails, Stream, storeVars, runVars
  <1>3. ASSUME NEW w \in Workers, Worker(w)
        PROVE  \/ UNCHANGED <<queue, job, previews>>
               \/ /\ UNCHANGED req
                  /\ \/ Fetch(w) \/ LosePopped(w) \/ Exit(w) \/ Crash(w)
                     \/ Stop(w) /\ \E t \in Tasks : Dequeue(t)
    BY <1>3 DEF Worker, WorkerStep, FetchTimeout, Stop, Start, webVars
  <1>4. \A a \in Attempts : Attempt(a) => AttemptStep(a) /\ UNCHANGED req
    BY DEF Attempt, webVars
  <1>5. WebCrash \/ ViewImage => UNCHANGED <<queue, job, previews>>
    BY DEF WebCrash, ViewImage, storeVars, runVars
  <1>6. UNCHANGED vars => UNCHANGED <<queue, job, previews>>
    BY DEF vars
  <1>7. \A a \in Attempts : ~Repeat(a)
    BY DEF Repeat, RepeatRetry, EnqueueAgain
  <1> QED  BY <1>1, <1>2, <1>3, <1>4, <1>5, <1>6, <1>7 DEF Next

\* What an attempt that moves in its coroutine has in its hands.
LEMMA AttemptHands ==
    ASSUME JobsType, NEW a \in Attempts, NEW from \in Holding, NEW to, Goto(a, from, to),
           AttemptStep(a), NEW t \in Tasks
    PROVE  /\ Holds(a, t) <=> job[a].task = t
           /\ Holds(a, t)' <=> job[a].task = t /\ to \in Holding
           /\ \A b \in Attempts : b # a => (Holds(b, t)' <=> Holds(b, t))
  BY GotoFields, OneAttempt DEF Holds, Coroutine, Holding

\* The attempt makes the preview: its message is served.
LEMMA ServeStep ==
    ASSUME PlaceInv, PlaceInv', NEW a \in Attempts, RunInference(a), UNCHANGED req
    PROVE  \E u \in Tasks : Messages!Serve(u)
  <1>0. JobsType /\ StoreType
    BY DEF PlaceInv, HonestInv, TypeOK
  <1>1. PICK u \in Tasks : u = job[a].task
    BY <1>0, BusySlot, ActiveFields DEF RunInference, Goto
  <1>2. /\ AttemptStep(a) /\ Goto(a, "ready", "uploading") /\ job[a].pc = "ready"
        /\ previews' = previews \union {u} /\ UNCHANGED queue
    BY <1>1 DEF AttemptStep, RunInference, SavePreview, Goto
  <1>3. \A t \in Tasks : HeldBy(t)' <=> HeldBy(t)
    BY <1>0, <1>2, AttemptHands DEF HeldBy, Coroutine, Holding
  <1>4. Holds(a, u)
    BY <1>1, <1>2 DEF Holds, Coroutine, Holding
  <1>5. ~Queued(u) /\ u \notin previews /\ HeldBy(u)
    BY <1>2, <1>4 DEF PlaceInv, OneMessage, QueuedOrHeld, HeldBy
  <1>6. Place[u] = "held" /\ Place'[u] = "served"
    BY <1>2, <1>5, PlaceOf, PlaceThen DEF Queued
  <1>7. \A t \in Tasks : t # u => Place'[t] = Place[t]
    BY <1>2, <1>3, PlaceSame DEF Queued, Unqueued
  <1> QED  BY <1>6, <1>7, OneMoves DEF Messages!Serve

\* The attempt failed: it gives its message back, or Redis does not take it.
LEMMA GiveBackStep ==
    ASSUME PlaceInv, PlaceInv', NEW a \in Attempts, UNCHANGED req,
           EnqueueRetry(a) \/ EnqueueRetryFails(a)
    PROVE  Messages!Lose \/ \E u \in Tasks : Messages!GiveBack(u)
  <1>0. JobsType /\ QueueType
    BY DEF PlaceInv, HonestInv, TypeOK
  <1>1. PICK u \in Tasks : u = job[a].task
    BY <1>0, BusySlot, ActiveFields DEF EnqueueRetry, EnqueueRetryFails, Goto
  <1>2. PICK to \in {"pushed", "finished"} :
           /\ AttemptStep(a) /\ Goto(a, "retrying", to) /\ job[a].pc = "retrying"
           /\ UNCHANGED previews
    BY DEF AttemptStep, EnqueueRetry, EnqueueRetryFails, Goto
  <1>3. /\ Holds(a, u) /\ ~Holds(a, u)'
        /\ \A b \in Attempts, t \in Tasks : b # a \/ t # u => (Holds(b, t)' <=> Holds(b, t))
    BY <1>0, <1>1, <1>2, AttemptHands DEF Holding
  <1>4. /\ HeldBy(u) /\ ~HeldBy(u)' /\ ~Queued(u) /\ u \notin previews /\ ~Unqueued(u)
    BY <1>2, <1>3 DEF PlaceInv, OneMessage, QueuedOrHeld, HeldOnce, UnknownBeforeQueued,
                      Unqueued, HeldBy
  <1>5. \A t \in Tasks : t # u => (HeldBy(t)' <=> HeldBy(t))
    BY <1>3 DEF HeldBy
  <1>6. Place[u] = "held"
    BY <1>4, PlaceOf
  <1>7. CASE EnqueueRetry(a)
    <2>1. \A t \in Tasks : Queued(t)' <=> Queued(t) \/ t = u
      BY <1>0, <1>1, <1>7, Pushed DEF EnqueueRetry, Enqueue
    <2>2. Place'[u] = "queued"
      BY <1>2, <1>4, <2>1, PlaceThen
    <2>3. \A t \in Tasks : t # u => Place'[t] = Place[t]
      BY <1>2, <1>5, <2>1, PlaceSame DEF Unqueued
    <2> QED  BY <1>6, <2>2, <2>3, OneMoves DEF Messages!GiveBack
  <1>8. CASE EnqueueRetryFails(a)
    <2>1. queue' = queue /\ "redis" \in Faults
      BY <1>8 DEF EnqueueRetryFails
    <2>2. \A t \in Tasks : Queued(t)' <=> Queued(t)
      BY <2>1 DEF Queued
    <2>3. GivenUp(u)
      BY <1>2, <1>4, <1>6, <2>1, <2>2, PlaceThen DEF GivenUp, MayLose, Unqueued
    <2>4. \A t \in Tasks : t # u => Place'[t] = Place[t]
      BY <1>2, <1>5, <2>2, PlaceSame DEF Unqueued
    <2> QED  BY <2>3, <2>4, SomeGivenUp
  <1> QED  BY <1>7, <1>8

\* The other steps of an attempt leave messages where they are; one that puts
\* an output lets go of a message that was served before.
LEMMA AttemptPlaces ==
    ASSUME PlaceInv, PlaceInv', NEW a \in Attempts, UNCHANGED req,
           \/ AcquirePermit(a) \/ InferenceFails(a) \/ UploadOutput(a) \/ EndRetry(a)
           \/ HandleTaskCompletion(a) \/ CheckOutput(a) \/ SettleVerdict(a)
           \/ NotifyTaskStatus(a) \/ UpdateTaskStatus(a)
    PROVE  \A t \in Tasks : Place'[t] = Place[t]
  <1> SUFFICES ASSUME NEW t \in Tasks PROVE Place'[t] = Place[t]
    OBVIOUS
  <1>0. JobsType /\ AttemptStep(a)
    BY DEF PlaceInv, HonestInv, TypeOK, AttemptStep
  <1>1. UNCHANGED <<queue, previews>>
    BY DEF AcquirePermit, InferenceFails, UploadOutput, PutOutput, EndRetry,
           HandleTaskCompletion, CheckOutput, SettleVerdict, NotifyTaskStatus,
           UpdateTaskStatus
  <1>2. Queued(t)' <=> Queued(t)
    BY <1>1 DEF Queued
  <1>3. CASE AcquirePermit(a) \/ InferenceFails(a)
    <2>1. PICK from \in Holding, to \in Holding : Goto(a, from, to)
      BY <1>3 DEF AcquirePermit, InferenceFails, Holding
    <2>2. HeldBy(t)' <=> HeldBy(t)
      BY <1>0, <2>1, AttemptHands DEF HeldBy
    <2> QED  BY <1>1, <1>2, <2>2, PlaceSame DEF Unqueued
  <1>4. CASE UploadOutput(a)
    <2>1. Goto(a, "uploading", "finished") /\ job[a].pc = "uploading"
      BY <1>4 DEF UploadOutput, Goto
    <2>2. CASE job[a].task = t
      <3>1. t \in previews
        BY <2>1, <2>2 DEF PlaceInv, HonestInv, UploadsRendered
      <3> QED  BY <1>1, <3>1, PlaceOf, PlaceThen
    <2>3. CASE job[a].task # t
      <3>1. HeldBy(t)' <=> HeldBy(t)
        BY <1>0, <2>1, <2>3, AttemptHands DEF HeldBy, Coroutine, Holding
      <3> QED  BY <1>1, <1>2, <3>1, PlaceSame DEF Unqueued
    <2> QED  BY <2>2, <2>3
  <1>5. CASE \/ HandleTaskCompletion(a) \/ CheckOutput(a) \/ SettleVerdict(a)
             \/ NotifyTaskStatus(a) \/ UpdateTaskStatus(a)
    <2>1. HeldBy(t)' <=> HeldBy(t)
      BY <1>0, <1>5, CoroutineOver, OneAttempt DEF HeldBy, Holds, Coroutine
    <2> QED  BY <1>1, <1>2, <2>1, PlaceSame DEF Unqueued
  <1>6. CASE EndRetry(a)
    <2>1. Goto(a, "pushed", "finished")
      BY <1>6 DEF EndRetry
    <2>2. ~Holds(a, t) /\ ~Holds(a, t)'
      BY <1>0, <2>1, GotoFields DEF Holds, Coroutine, Holding
    <2>3. HeldBy(t)' <=> HeldBy(t)
      BY <1>0, <2>2, OneAttempt DEF HeldBy, Holds
    <2> QED  BY <1>1, <1>2, <2>3, PlaceSame DEF Unqueued
  <1> QED  BY <1>3, <1>4, <1>5, <1>6

\* A worker takes the message.
LEMMA TakeStep ==
    ASSUME PlaceInv, PlaceInv', NEW w \in Workers, Fetch(w), UNCHANGED req
    PROVE  \E u \in Tasks : Messages!Take(u)
  <1>0. JobsType /\ QueueType
    BY DEF PlaceInv, HonestInv, TypeOK
  <1>1. PICK u \in Tasks, a \in Attempts :
           /\ Dequeue(u)
           /\ job[a] = NoJob
           /\ job' = [job EXCEPT ![a] = [NoJob EXCEPT !.pc = "waiting",
                                            !.worker = w, !.task = u]]
    BY DEF Fetch
  <1>2. /\ Queued(u) /\ ~Queued(u)' /\ u \notin previews
        /\ \A t \in Tasks : t # u => (Queued(t)' <=> Queued(t))
    BY <1>0, <1>1, Popped DEF PlaceInv, OneMessage
  <1>3. UNCHANGED previews
    BY DEF Fetch
  <1>4. /\ Holds(a, u)'
        /\ \A b \in Attempts, t \in Tasks : t # u => (Holds(b, t)' <=> Holds(b, t))
    BY <1>0, <1>1 DEF JobsType, NoJob, Holds, Coroutine, Holding
  <1>5. Place[u] = "queued" /\ Place'[u] = "held"
    BY <1>2, <1>3, <1>4, PlaceOf, PlaceThen DEF HeldBy
  <1>6. \A t \in Tasks : t # u => Place'[t] = Place[t]
    BY <1>2, <1>3, <1>4, PlaceSame DEF HeldBy, Unqueued
  <1> QED  BY <1>5, <1>6, OneMoves DEF Messages!Take

\* A popped message does not arrive.
LEMMA DropStep ==
    ASSUME PlaceInv, PlaceInv', NEW w \in Workers, UNCHANGED req,
           LosePopped(w) \/ (Stop(w) /\ \E t \in Tasks : Dequeue(t))
    PROVE  Messages!Lose
  <1>0. QueueType
    BY DEF PlaceInv, HonestInv, TypeOK
  <1>1. PICK u \in Tasks : Dequeue(u)
    BY DEF LosePopped
  <1>2. /\ Queued(u) /\ ~Queued(u)' /\ u \notin previews
        /\ \A t \in Tasks : t # u => (Queued(t)' <=> Queued(t))
    BY <1>0, <1>1, Popped DEF PlaceInv, OneMessage
  <1>3. UNCHANGED <<job, previews>> /\ MayLose
    BY DEF LosePopped, Stop, MayLose
  <1>4. \A t \in Tasks : HeldBy(t)' <=> HeldBy(t)
    BY <1>3 DEF HeldBy, Holds
  <1>5. ~HeldBy(u) /\ ~Unqueued(u)
    BY <1>2 DEF PlaceInv, OneMessage, QueuedOrHeld, UnknownBeforeQueued, Unqueued, HeldBy
  <1>6. GivenUp(u)
    BY <1>2, <1>3, <1>4, <1>5, PlaceOf, PlaceThen DEF GivenUp, Unqueued
  <1>7. \A t \in Tasks : t # u => Place'[t] = Place[t]
    BY <1>2, <1>3, <1>4, PlaceSame DEF Unqueued
  <1> QED  BY <1>6, <1>7, SomeGivenUp

\* A process ends.  Whoever exits has nothing in hand any more; in a crash what
\* is in hand is gone, unless it was served.
LEMMA EndStep ==
    ASSUME PlaceInv, PlaceInv', NEW w \in Workers, Exit(w) \/ Crash(w), UNCHANGED req
    PROVE  Messages!Lose
  <1> SUFFICES ASSUME NEW t \in Tasks PROVE Place'[t] = Place[t] \/ GivenUp(t)
    BY SomeGivenUp
  <1>0. JobsType
    BY DEF PlaceInv, HonestInv, TypeOK
  <1>1. Leave(w) /\ UNCHANGED <<queue, previews>>
    BY DEF Exit, Crash, Leave
  <1>2. Queued(t)' <=> Queued(t)
    BY <1>1 DEF Queued
  <1>3. HeldBy(t)' => HeldBy(t)
    BY <1>0, <1>1, LeaveHolds DEF HoldsKept, HeldBy
  <1>4. CASE HeldBy(t)' <=> HeldBy(t)
    BY <1>1, <1>2, <1>4, PlaceSame DEF Unqueued
  <1>5. CASE HeldBy(t) /\ ~HeldBy(t)'
    <2>1. PICK a \in Attempts : Holds(a, t) /\ ~Holds(a, t)'
      BY <1>5 DEF HeldBy
    <2>2. job[a].worker = w
      BY <1>0, <1>1, <2>1 DEF Leave, JobsType, Holds
    <2>3. MayLose
      BY <2>1, <2>2 DEF Exit, Crash, Holds, Coroutine, MayLose
    <2>4. ~Queued(t) /\ ~Unqueued(t)
      BY <1>5 DEF PlaceInv, OneMessage, QueuedOrHeld, UnknownBeforeQueued, Unqueued, HeldBy
    <2> QED  BY <1>1, <1>2, <1>5, <2>3, <2>4, PlaceOf, PlaceThen DEF GivenUp, Unqueued
  <1> QED  BY <1>3, <1>4, <1>5

LEMMA MessagesInit == Init => Messages!Init
  <1> SUFFICES ASSUME Init, NEW t \in Tasks PROVE Place[t] = "new"
    BY DEF Messages!Init, Place
  <1>1. queue = <<>> /\ previews = {} /\ \A a \in Attempts : job[a].pc = "free"
    BY DEF Init, QueueInit, StoreInit, OrchestratorInit, NoJob
  <1>2. ~Queued(t) /\ req[t] = "idle" /\ \A a \in Attempts : ~Holds(a, t)
    BY <1>1 DEF Queued, Holds, Coroutine, Holding, Init, ReqInit
  <1> QED  BY <1>1, <1>2 DEF Place

LEMMA MessagesStep ==
    ASSUME PlaceInv, PlaceInv', [Next]_vars, "resend" \notin Faults
    PROVE  Messages!Next
  <1>0. ReqType
    BY DEF PlaceInv, HonestInv, TypeOK
  <1>1. CASE UNCHANGED <<queue, job, previews>>
    <2>1. ASSUME NEW t \in Tasks PROVE Place'[t] = Place[t] \/ GivenUp(t)
      <3>1. Queued(t)' <=> Queued(t)
        BY <1>1 DEF Queued
      <3>2. HeldBy(t)' <=> HeldBy(t)
        BY <1>1 DEF HeldBy, Holds
      <3>3. Unqueued(t)' => Unqueued(t)
        BY <1>0, RequestSteps
      <3> QED  BY <1>1, <3>1, <3>2, <3>3, PlaceKept
    <2> QED  BY <2>1, SomeGivenUp DEF Messages!Next
  <1>2. ASSUME NEW u \in Tasks, EnqueueTask(u), UNCHANGED <<job, previews>>
        PROVE  Messages!Next
    BY <1>2, SendStep DEF Messages!Next
  <1>3. ASSUME NEW a \in Attempts, AttemptStep(a), UNCHANGED req
        PROVE  Messages!Next
    <2>1. CASE RunInference(a)
      BY <1>3, <2>1, ServeStep DEF Messages!Next
    <2>2. CASE EnqueueRetry(a) \/ EnqueueRetryFails(a)
      BY <1>3, <2>2, GiveBackStep DEF Messages!Next
    <2>3. CASE ~RunInference(a) /\ ~EnqueueRetry(a) /\ ~EnqueueRetryFails(a)
      <3>1. \A t \in Tasks : Place'[t] = Place[t]
        BY <1>3, <2>3, AttemptPlaces DEF AttemptStep
      <3> QED  BY <3>1, SomeGivenUp DEF Messages!Next
    <2> QED  BY <2>1, <2>2, <2>3
  <1>4. ASSUME NEW w \in Workers, UNCHANGED req,
               \/ Fetch(w) \/ LosePopped(w) \/ Exit(w) \/ Crash(w)
               \/ Stop(w) /\ \E t \in Tasks : Dequeue(t)
        PROVE  Messages!Next
    BY <1>4, TakeStep, DropStep, EndStep DEF Messages!Next
  <1> QED  BY <1>1, <1>2, <1>3, <1>4, PlaceSteps

\* The service implements Delivery, for any tasks, workers, attempts and
\* faults, as long as no client library repeats a command: what was served or
\* lost stays so, and whatever was pushed is in one place.  (A repeated command
\* puts a message in two places, which Delivery has no word for.)
THEOREM DeliveryImplemented ==
    ASSUME "resend" \notin Faults
    PROVE  Spec => ImplementsDelivery
  <1>1. DeliveryInv => OneMessage
    BY DEF DeliveryInv
  <1>2. Spec => []PlaceInv
    BY <1>1, DeliveryAlways, HonestAlways, PTL DEF PlaceInv
  <1> QED
    BY <1>2, MessagesInit, MessagesStep, PTL DEF Spec, ImplementsDelivery, Messages!Spec
================================================================================
