------------------------------ MODULE ServiceProofs ----------------------------
(***************************************************************************)
(* What the attempts of a worker share, for any number of them: its        *)
(* permits and its model.                                                  *)
(***************************************************************************)
EXTENDS DeliveryProofs

----------------------------------------------------------------------------
(***************************************************************************)
(* Semaphore and lock together.                                            *)
(***************************************************************************)

\* An attempt that waits for a permit waits for one that has it, and one that
\* waits for the model for the one inside it, which waits for nobody.
LEMMA NoDeadlock ==
    ASSUME LockInv, PermitInv
    PROVE  SomebodyGoesOn
  <1> SUFFICES ASSUME NEW a \in UnderWay
               PROVE  \E b \in UnderWay : job[b].worker = job[a].worker /\ CanGoOn(b)
    BY DEF SomebodyGoesOn
  <1> DEFINE w == job[a].worker
  <1>0. /\ a \in Attempts /\ w \in Workers /\ job[a].pc \in Coroutine
        /\ WorkerType
    BY BusySlot, ActiveFields DEF UnderWay, LockInv, TypeOK, Coroutine, Holding
  <1> HIDE DEF w
  <1>1. ASSUME NEW b \in PermitHolders(w)
        PROVE  \E c \in UnderWay : job[c].worker = w /\ CanGoOn(c)
    <2>1. b \in UnderWay /\ job[b].worker = w /\ job[b].pc \in Permitted
      BY <1>1 DEF PermitHolders, UnderWay, Permitted, Coroutine, Holding
    <2>2. CASE job[b].pc = "ready" /\ locked[w]
      <3>1. PICK c \in Attempts : Uploading(c, w)
        BY <1>0, <2>2 DEF LockInv, ModelInUseOnce
      <3>2. c \in UnderWay /\ job[c].worker = w /\ CanGoOn(c)
        BY <3>1 DEF Uploading, UnderWay, Coroutine, Holding, CanGoOn
      <3> QED  BY <3>2
    <2>3. CASE ~(job[b].pc = "ready" /\ locked[w])
      BY <2>1, <2>3 DEF CanGoOn, Permitted, Coroutine, Holding
    <2> QED  BY <2>2, <2>3
  <1>2. CASE job[a].pc = "waiting"
    <2>1. CASE permits[w] > 0
      BY <1>2, <2>1 DEF CanGoOn, w
    <2>2. CASE ~(permits[w] > 0)
      <3>1. permits[w] = 0 /\ MaxConcurrent # 0 /\ MaxConcurrent \in Nat
        BY <1>0, <2>2, StudioAssumption DEF WorkerType
      <3>2. permits[w] + Cardinality(PermitHolders(w)) = MaxConcurrent
        BY <1>0 DEF PermitInv, PermitsBalanced
      <3>3. PermitHolders(w) # {}
        <4> SUFFICES ASSUME PermitHolders(w) = {} PROVE FALSE
          OBVIOUS
        <4>1. Cardinality(PermitHolders(w)) = 0
          BY FS_EmptySet
        <4> QED  BY <3>1, <3>2, <4>1
      <3> QED  BY <1>1, <3>3 DEF w
    <2> QED  BY <2>1, <2>2
  <1>3. CASE job[a].pc # "waiting"
    <2>1. a \in PermitHolders(w)
      BY <1>0, <1>3 DEF PermitHolders, Permitted, Coroutine, Holding, w
    <2> QED  BY <1>1, <2>1 DEF w
  <1> QED  BY <1>2, <1>3

\* For any workers, attempts and permits, the coroutines of a worker never all
\* wait for each other.
THEOREM SomebodyAlwaysGoesOn == Spec => []SomebodyGoesOn
  <1>1. TypeOK /\ PermitsBalanced /\ ModelInUseOnce => SomebodyGoesOn
    BY NoDeadlock DEF LockInv, PermitInv
  <1> QED  BY <1>1, Typed, PermitsKept, ModelExclusive, PTL

----------------------------------------------------------------------------
(***************************************************************************)
(* The model of each worker.                                               *)
(***************************************************************************)

\* Nobody begins or ceases to ask for the model of w, or to use it.
SameUse(w) == Asking(w)' = Asking(w) /\ Using(w)' = Using(w)

\* What an attempt that moves in its coroutine is to the model of w.
LEMMA AttemptUse ==
    ASSUME JobsType, NEW a \in Attempts, NEW from \in Coroutine, NEW to, Goto(a, from, to),
           AttemptStep(a), NEW w \in Workers, NEW b \in Attempts
    PROVE  /\ b \in Asking(w)' <=>
                 IF b = a THEN /\ job[a].worker = w /\ to = "ready"
                               /\ job[a].task \notin UnknownType
                 ELSE b \in Asking(w)
           /\ b \in Using(w)' <=>
                 IF b = a THEN job[a].worker = w /\ to = "uploading"
                 ELSE b \in Using(w)
  BY GotoFields, OneAttempt DEF Asking, Using, Uploading

LEMMA WorkerUseInit ==
    ASSUME Init, NEW w \in Workers
    PROVE  Use(w)!Init
  <1>1. \A a \in Attempts : job[a].pc = "free"
    BY DEF Init, OrchestratorInit, NoJob
  <1> QED  BY <1>1 DEF Use!Init, Asking, Using, Uploading

\* Whoever takes the lock asked for it before, and nobody else is inside.
LEMMA WorkerUseStep ==
    ASSUME LockInv, [Next]_vars, NEW w \in Workers
    PROVE  Use(w)!Next \/ SameUse(w)
  <1>0. /\ JobsType
        /\ locked[w] <=> Using(w) # {}
        /\ \A a, b \in Using(w) : a = b
        /\ Asking(w) \subseteq Attempts /\ Using(w) \subseteq Attempts
    BY DEF LockInv, TypeOK, ModelInUseOnce, Using, Asking
  <1>1. CASE UNCHANGED job
    BY <1>1 DEF SameUse, Asking, Using, Uploading
  <1>2. ASSUME NEW a \in Attempts, AcquirePermit(a) PROVE Use(w)!Next \/ SameUse(w)
    <2>1. /\ Goto(a, "waiting", "ready") /\ AttemptStep(a)
          /\ a \notin Asking(w) /\ a \notin Using(w)
      BY <1>2 DEF AcquirePermit, AttemptStep, Goto, Asking, Using, Uploading
    <2>2. Using(w)' = Using(w)
      BY <1>0, <2>1, AttemptUse DEF Coroutine, Holding, Using
    <2>3. Asking(w)' = Asking(w) \/ Asking(w)' = Asking(w) \union {a}
      BY <1>0, <2>1, AttemptUse DEF Coroutine, Holding, Asking
    <2> QED  BY <2>1, <2>2, <2>3 DEF Use!Next, Use!Ask, SameUse
  <1>3. ASSUME NEW a \in Attempts, RunInference(a) PROVE Use(w)!Next \/ SameUse(w)
    <2>1. /\ Goto(a, "ready", "uploading") /\ AttemptStep(a)
          /\ job[a].task \notin UnknownType /\ ~locked[job[a].worker]
      BY <1>3 DEF RunInference, TakeLock, AttemptStep
    <2>2. \A b \in Attempts : /\ b \in Asking(w)' <=> b # a /\ b \in Asking(w)
                              /\ b \in Using(w)' <=> IF b = a THEN job[a].worker = w
                                                     ELSE b \in Using(w)
      BY <1>0, <2>1, AttemptUse DEF Coroutine, Holding
    <2>3. Asking(w)' \subseteq Attempts /\ Using(w)' \subseteq Attempts
      BY DEF Asking, Using
    <2>4. CASE job[a].worker = w
      <3>1. a \in Asking(w) /\ Using(w) = {}
        BY <1>0, <2>1, <2>4 DEF Asking, Goto
      <3>2. Asking(w)' = Asking(w) \ {a} /\ Using(w)' = {a}
        BY <1>0, <2>2, <2>3, <2>4, <3>1
      <3> QED  BY <3>1, <3>2 DEF Use!Next, Use!Enter
    <2>5. CASE job[a].worker # w
      <3>1. a \notin Asking(w) /\ a \notin Using(w)
        BY <2>5 DEF Asking, Using, Uploading
      <3> QED  BY <1>0, <2>2, <2>3, <2>5, <3>1 DEF SameUse
    <2> QED  BY <2>4, <2>5
  <1>4. ASSUME NEW a \in Attempts, InferenceFails(a) PROVE Use(w)!Next \/ SameUse(w)
    <2>1. /\ Goto(a, "ready", "retrying") /\ AttemptStep(a)
          /\ job[a].task \in UnknownType \/ ~locked[job[a].worker]
      BY <1>4 DEF InferenceFails, AttemptStep
    <2>2. /\ Asking(w)' = Asking(w) \ {a}
          /\ Using(w)' = Using(w)
      <3>1. a \notin Using(w)
        BY <2>1 DEF Goto, Using, Uploading
      <3>2. \A b \in Attempts : /\ b \in Asking(w)' <=> b # a /\ b \in Asking(w)
                                /\ b \in Using(w)' <=> b \in Using(w)
        BY <1>0, <2>1, <3>1, AttemptUse DEF Coroutine, Holding
      <3>3. Asking(w)' \subseteq Attempts /\ Using(w)' \subseteq Attempts
        BY DEF Asking, Using
      <3> QED  BY <1>0, <3>2, <3>3
    <2>3. CASE a \in Asking(w)
      <3>1. Using(w) = {}
        BY <1>0, <2>1, <2>3 DEF Asking
      <3> QED  BY <2>2, <2>3, <3>1 DEF Use!Next, Use!TurnAway
    <2>4. CASE a \notin Asking(w)
      BY <2>2, <2>4 DEF SameUse
    <2> QED  BY <2>3, <2>4
  <1>5. ASSUME NEW a \in Attempts, UploadOutput(a) PROVE Use(w)!Next \/ SameUse(w)
    <2>1. Goto(a, "uploading", "finished") /\ AttemptStep(a)
      BY <1>5 DEF UploadOutput, AttemptStep
    <2>2. /\ Asking(w)' = Asking(w)
          /\ Using(w)' = Using(w) \ {a}
      <3>1. a \notin Asking(w)
        BY <2>1 DEF Goto, Asking
      <3>2. \A b \in Attempts : /\ b \in Asking(w)' <=> b \in Asking(w)
                                /\ b \in Using(w)' <=> b # a /\ b \in Using(w)
        BY <1>0, <2>1, <3>1, AttemptUse DEF Coroutine, Holding
      <3>3. Asking(w)' \subseteq Attempts /\ Using(w)' \subseteq Attempts
        BY DEF Asking, Using
      <3> QED  BY <1>0, <3>2, <3>3
    <2>3. CASE a \in Using(w)
      <3>1. Using(w)' = {}
        BY <1>0, <2>2, <2>3
      <3> QED  BY <2>2, <3>1 DEF Use!Next, Use!Leave
    <2>4. CASE a \notin Using(w)
      BY <2>2, <2>4 DEF SameUse
    <2> QED  BY <2>3, <2>4
  <1>6. ASSUME NEW a \in Attempts, EnqueueRetry(a) \/ EndRetry(a) \/ EnqueueRetryFails(a)
        PROVE  SameUse(w)
    <2>1. /\ \E from \in {"retrying", "pushed"}, to \in {"pushed", "finished"} :
                Goto(a, from, to)
          /\ AttemptStep(a)
      BY <1>6 DEF EnqueueRetry, EndRetry, EnqueueRetryFails, AttemptStep
    <2>2. a \notin Asking(w) /\ a \notin Using(w)
      BY <2>1 DEF Goto, Asking, Using, Uploading
    <2>3. Asking(w)' \subseteq Attempts /\ Using(w)' \subseteq Attempts
      BY DEF Asking, Using
    <2> QED  BY <1>0, <2>1, <2>2, <2>3, AttemptUse DEF Coroutine, Holding, SameUse
  <1>7. ASSUME \A b \in Attempts : \/ job'[b] = job[b]
                                   \/ /\ job[b].pc \notin Permitted
                                      /\ job'[b].pc \notin Permitted
        PROVE  SameUse(w)
    BY <1>7 DEF SameUse, Asking, Using, Uploading, Permitted, Coroutine, Holding
  <1>8. ASSUME NEW a \in Attempts,
               \/ HandleTaskCompletion(a) \/ CheckOutput(a) \/ SettleVerdict(a)
               \/ NotifyTaskStatus(a) \/ UpdateTaskStatus(a)
        PROVE  SameUse(w)
    BY <1>0, <1>7, <1>8, OneAttempt, CoroutineOver DEF AttemptStep, Permitted, Coroutine, Holding
  <1>9. ASSUME NEW v \in Workers, Fetch(v) PROVE SameUse(w)
    BY <1>0, <1>7, <1>9 DEF Fetch, JobsType, NoJob, Permitted, Coroutine, Holding
  <1>10. ASSUME NEW v \in Workers, Leave(v) PROVE Use(w)!Next \/ SameUse(w)
    <2>1. \A b \in Attempts :
             job'[b] = IF job[b].worker = v THEN NoJob ELSE job[b]
      BY <1>10 DEF Leave
    <2>2. CASE v = w
      <3>1. Asking(w)' = {} /\ Using(w)' = {}
        BY <2>1, <2>2 DEF NoJob, Asking, Using, Uploading
      <3> QED  BY <3>1 DEF Use!Next, Use!Reset
    <2>3. CASE v # w
      BY <2>1, <2>3 DEF NoJob, SameUse, Asking, Using, Uploading
    <2> QED  BY <2>2, <2>3
  <1>11. \/ UNCHANGED job
         \/ \E a \in Attempts : AttemptStep(a)
         \/ \E v \in Workers : Fetch(v) \/ Leave(v)
    BY JobSteps
  <1> QED
    BY <1>1, <1>2, <1>3, <1>4, <1>5, <1>6, <1>8, <1>9, <1>10, <1>11 DEF AttemptStep

LEMMA LockInit == Init => LockInv
  BY TypeInit DEF LockInv, ModelInUseOnce, Init, OrchestratorInit, NoJob, Uploading

\* For any workers, attempts and permits the model of each worker is used as
\* ModelUse allows: by those who asked, one at a time, and nobody is turned
\* away from a model in use.
THEOREM UseImplemented == Spec => ImplementsUse
  <1>1. Init => \A w \in Workers : Use(w)!Init
    BY WorkerUseInit
  <1>2. LockInv /\ [Next]_vars =>
           [\A w \in Workers : Use(w)!Next \/ UNCHANGED Use(w)!vars]_vars
    BY WorkerUseStep DEF SameUse, Use!vars
  <1> QED
    BY <1>1, <1>2, LockInit, LockStep, PTL DEF Spec, ImplementsUse
================================================================================
