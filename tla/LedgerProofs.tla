------------------------------ MODULE LedgerProofs -----------------------------
(***************************************************************************)
(* The whole service implements TaskLedger, for any tasks, workers,        *)
(* attempts and faults: every step is one step of the ledger, or none.     *)
(***************************************************************************)
EXTENDS DeliveryProofs

----------------------------------------------------------------------------
(***************************************************************************)
(* Rows and requests, pages and streams.                                   *)
(***************************************************************************)

\* The row comes with the end of the request, and a page follows its stream.
RowOfRequest ==
    \A t \in Tasks : /\ req[t] \in {"idle", "saved", "queued"} => row[t] = "NONE"
                     /\ req[t] = "created" => row[t] # "NONE"

PageOfStream ==
    \A t \in Tasks : /\ stream[t] = "none" => page[t].status = "NONE"
                     /\ stream[t] = "open" => page[t].status \in {"PENDING", "PROCESSING"}

\* Requests make rows; reports change those that are there.
LEMMA RowSteps ==
    ASSUME [Next]_vars
    PROVE  \/ UNCHANGED <<req, row>>
           \/ \E t \in Tasks : InsertRow(t)
           \/ \E t \in Tasks, from \in {"idle", "saved"}, to \in {"saved", "queued", "refused"} :
                 ReqStep(t, from, to) /\ UNCHANGED row
           \/ \E t \in Tasks : ReqStep(t, "queued", "refused") /\ UNCHANGED row
           \/ AbandonRequests /\ UNCHANGED row
           \/ \E a \in Attempts : UpdateTaskStatus(a) /\ UNCHANGED req
  <1>1. ASSUME NEW t \in Tasks, Create(t)
        PROVE  \/ InsertRow(t)
               \/ \E from \in {"idle", "saved"}, to \in {"saved", "queued", "refused"} :
                     ReqStep(t, from, to) /\ UNCHANGED row
               \/ ReqStep(t, "queued", "refused") /\ UNCHANGED row
               \/ UNCHANGED <<req, row>>
    BY <1>1 DEF Create, CreateStep, RejectUpload, AcceptUpload, RejectParameters,
                EnqueueTask, EnqueueFails, RepeatPush, InsertFails, tableVars
  <1>2. ASSUME \/ \E t \in Tasks : \/ Subscribe(t) \/ AnswerLost(t)
                                   \/ SubscribeFails(t) \/ Stream(t)
               \/ ViewImage
        PROVE  UNCHANGED <<req, row>>
    BY <1>2 DEF Subscribe, AnswerLost, SubscribeFails, Stream, ViewImage, webVars, tableVars
  <1>3. ASSUME NEW a \in Attempts, Attempt(a)
        PROVE  UNCHANGED <<req, row>> \/ (UpdateTaskStatus(a) /\ UNCHANGED req)
    BY <1>3 DEF Attempt, AttemptStep, AcquirePermit, RunInference, InferenceFails,
                UploadOutput, EnqueueRetry, EndRetry, EnqueueRetryFails,
                HandleTaskCompletion, CheckOutput, SettleVerdict, NotifyTaskStatus, webVars
  <1>4. ASSUME NEW w \in Workers, Worker(w) PROVE UNCHANGED <<req, row>>
    BY <1>4 DEF Worker, WorkerStep, Fetch, FetchTimeout, LosePopped, Stop, Exit, Crash,
                Leave, Start, webVars
  <1>5. WebCrash => AbandonRequests /\ UNCHANGED row
    BY DEF WebCrash, tableVars
  <1>6. UNCHANGED vars => UNCHANGED <<req, row>>
    BY DEF vars
  <1>7. \A a \in Attempts : Repeat(a) => UNCHANGED <<req, row>>
    BY DEF Repeat, RepeatRetry, webVars
  <1> QED  BY <1>1, <1>2, <1>3, <1>4, <1>5, <1>6, <1>7 DEF Next

LEMMA RowOfRequestStep ==
    ASSUME TypeOK, RowOfRequest, [Next]_vars
    PROVE  RowOfRequest'
  <1> SUFFICES ASSUME NEW t \in Tasks
               PROVE  /\ req'[t] \in {"idle", "saved", "queued"} => row'[t] = "NONE"
                      /\ req'[t] = "created" => row'[t] # "NONE"
    BY DEF RowOfRequest
  <1>0. /\ ReqType /\ TableType /\ JobsType
        /\ req[t] \in {"idle", "saved", "queued"} => row[t] = "NONE"
        /\ req[t] = "created" => row[t] # "NONE"
    BY DEF TypeOK, RowOfRequest
  <1>1. CASE UNCHANGED <<req, row>>
    BY <1>0, <1>1
  <1>2. ASSUME NEW u \in Tasks, InsertRow(u)
        PROVE  /\ req'[t] \in {"idle", "saved", "queued"} => row'[t] = "NONE"
               /\ req'[t] = "created" => row'[t] # "NONE"
    <2>1. row' = [row EXCEPT ![u] = "PENDING"]
      BY <1>2 DEF InsertRow, CreateRow
    <2>2. ReqStep(u, "queued", "created")
      BY <1>2 DEF InsertRow
    <2> QED  BY <1>0, <2>1, <2>2, ReqFields DEF TableType
  <1>3. ASSUME NEW u \in Tasks, NEW from \in {"idle", "saved"},
               NEW to \in {"saved", "queued", "refused"}, ReqStep(u, from, to), UNCHANGED row
        PROVE  /\ req'[t] \in {"idle", "saved", "queued"} => row'[t] = "NONE"
               /\ req'[t] = "created" => row'[t] # "NONE"
    BY <1>0, <1>3, ReqFields
  <1>4. ASSUME NEW u \in Tasks, ReqStep(u, "queued", "refused"), UNCHANGED row
        PROVE  /\ req'[t] \in {"idle", "saved", "queued"} => row'[t] = "NONE"
               /\ req'[t] = "created" => row'[t] # "NONE"
    BY <1>0, <1>4, ReqFields
  <1>5. CASE AbandonRequests /\ UNCHANGED row
    BY <1>0, <1>5 DEF AbandonRequests
  <1>6. ASSUME NEW a \in Attempts, UpdateTaskStatus(a), UNCHANGED req
        PROVE  /\ req'[t] \in {"idle", "saved", "queued"} => row'[t] = "NONE"
               /\ req'[t] = "created" => row'[t] # "NONE"
    <2>1. job[a].subject \in Tasks /\ job[a].verdict \in Verdicts
      BY <1>0, <1>6, BusySlot, ActiveFields DEF UpdateTaskStatus, Done
    <2>2. row'[t] = "NONE" <=> row[t] = "NONE"
      BY <1>0, <1>6, <2>1 DEF UpdateTaskStatus, UpdateRow, TableType, Verdicts
    <2> QED  BY <1>0, <1>6, <2>2
  <1> QED  BY <1>1, <1>2, <1>3, <1>4, <1>5, <1>6, RowSteps

LEMMA PageOfStreamStep ==
    ASSUME TypeOK, PageOfStream, [Next]_vars
    PROVE  PageOfStream'
  <1>0. StreamType
    BY DEF TypeOK
  <1>1. CASE UNCHANGED <<stream, page>>
    BY <1>1 DEF PageOfStream
  <1>2. ASSUME NEW t \in Tasks, Subscribe(t) PROVE PageOfStream'
    BY <1>0, <1>2 DEF Subscribe, OpenStream, StreamType, PageOfStream
  <1>3. ASSUME NEW t \in Tasks, AnswerLost(t) \/ SubscribeFails(t) PROVE PageOfStream'
    BY <1>0, <1>3 DEF AnswerLost, SubscribeFails, OpenStreamFails, StreamType, PageOfStream
  <1>4. ASSUME NEW t \in Tasks, Relay(t) PROVE PageOfStream'
    <2>1. PICK v \in Verdicts :
            /\ page' = [page EXCEPT ![t] = [status |-> v, links |-> @.links \union LinksOf(v)]]
            /\ stream' = [stream EXCEPT ![t] = IF v \in Final THEN "ended" ELSE @]
      <3>1. inbox[t] \in Seq(Verdicts) /\ inbox[t] # <<>>
        BY <1>0, <1>4 DEF Relay, StreamType
      <3>2. Head(inbox[t]) \in Verdicts
        BY <3>1
      <3> QED  BY <1>4, <3>2 DEF Relay
    <2>2. stream[t] = "open"
      BY <1>4 DEF Relay
    <2>3. stream'[t] # "none" /\ (stream'[t] = "open" => page'[t].status = "PROCESSING")
      BY <1>0, <2>1, <2>2 DEF StreamType, Final, Verdicts
    <2>4. \A u \in Tasks : u # t => stream'[u] = stream[u] /\ page'[u] = page[u]
      BY <1>0, <2>1 DEF StreamType
    <2> QED  BY <2>3, <2>4 DEF PageOfStream
  <1>5. ASSUME NEW t \in Tasks, CutStream(t) PROVE PageOfStream'
    BY <1>0, <1>5 DEF CutStream, StreamType, PageOfStream
  <1>6. CASE WebCrash
    <2>1. \A t \in Tasks : /\ stream'[t] = IF stream[t] = "open" THEN "cut" ELSE stream[t]
                           /\ page'[t] = page[t]
      BY <1>6 DEF WebCrash
    <2> QED  BY <2>1 DEF PageOfStream
  <1>7. \A a \in Attempts : NotifyTaskStatus(a) => UNCHANGED <<stream, page>>
    BY DEF NotifyTaskStatus, Publish
  <1> QED
    BY <1>1, <1>2, <1>3, <1>4, <1>5, <1>6, <1>7, PageSteps DEF Stream, pageVars

LedgerInv == HonestInv /\ RowOfRequest /\ PageOfStream

LEMMA LedgerInvInit == Init => LedgerInv
  <1> SUFFICES ASSUME Init PROVE LedgerInv
    OBVIOUS
  <1>1. RowOfRequest
    BY DEF Init, ReqInit, TableInit, RowOfRequest
  <1>2. PageOfStream
    BY DEF Init, StreamInit, PageOfStream
  <1> QED  BY <1>1, <1>2, HonestInit DEF LedgerInv

LEMMA LedgerInvStep == LedgerInv /\ [Next]_vars => LedgerInv'
  BY HonestStep, RowOfRequestStep, PageOfStreamStep DEF LedgerInv, HonestInv

----------------------------------------------------------------------------
(***************************************************************************)
(* Each step, as the ledger sees it.                                       *)
(***************************************************************************)

\* One of the three things the ledger keeps changes at a time.
LEMMA LedgerSteps ==
    ASSUME [Next]_vars
    PROVE  \/ UNCHANGED <<previews, outputs, row, page>>
           \/ \E t \in Tasks : InsertRow(t) /\ UNCHANGED page
           \/ \E t \in Tasks : (Subscribe(t) \/ Relay(t)) /\ UNCHANGED <<row, storeVars>>
           \/ \E a \in Attempts : RunInference(a) \/ UploadOutput(a) \/ UpdateTaskStatus(a)
  <1>1. ASSUME NEW t \in Tasks, Create(t)
        PROVE  \/ UNCHANGED <<previews, outputs, row, page>>
               \/ InsertRow(t) /\ UNCHANGED page
    BY <1>1 DEF Create, CreateStep, RejectUpload, AcceptUpload, StoreUpload, SaveUpload,
                RejectParameters, EnqueueTask, EnqueueFails, RepeatPush, InsertFails,
                tableVars, storeVars, pageVars
  <1>2. ASSUME NEW t \in Tasks,
               Subscribe(t) \/ AnswerLost(t) \/ SubscribeFails(t) \/ Stream(t)
        PROVE  \/ UNCHANGED <<previews, outputs, row, page>>
               \/ (Subscribe(t) \/ Relay(t)) /\ UNCHANGED <<row, storeVars>>
    BY <1>2 DEF Subscribe, AnswerLost, SubscribeFails, OpenStreamFails, Stream, CutStream,
                tableVars, storeVars, pageVars
  <1>3. ASSUME NEW a \in Attempts, Attempt(a)
        PROVE  \/ UNCHANGED <<previews, outputs, row, page>>
               \/ RunInference(a) \/ UploadOutput(a) \/ UpdateTaskStatus(a)
    BY <1>3 DEF Attempt, AttemptStep, AcquirePermit, InferenceFails, EnqueueRetry, EndRetry,
                EnqueueRetryFails, HandleTaskCompletion, CheckOutput, SettleVerdict,
                NotifyTaskStatus, Publish
  <1>4. ASSUME NEW w \in Workers, Worker(w) PROVE UNCHANGED <<previews, outputs, row, page>>
    BY <1>4 DEF Worker, WorkerStep, Fetch, FetchTimeout, LosePopped, Stop, Exit, Crash,
                Leave, Start
  <1>5. WebCrash => UNCHANGED <<previews, outputs, row, page>>
    BY DEF WebCrash, tableVars, storeVars
  <1>6. UNCHANGED vars => UNCHANGED <<previews, outputs, row, page>>
    BY DEF vars
  <1>7. \A a \in Attempts : Repeat(a) => UNCHANGED <<previews, outputs, row, page>>
    BY DEF Repeat, RepeatRetry
  <1>8. ViewImage => UNCHANGED <<previews, outputs, row, page>>
    BY DEF ViewImage, tableVars, storeVars, pageVars
  <1> QED  BY <1>1, <1>2, <1>3, <1>4, <1>5, <1>6, <1>7, <1>8 DEF Next

LEMMA LedgerInit == Init => Ledger!Init
  BY DEF Init, StoreInit, TableInit, StreamInit, Ledger!Init, Made, Shown

LEMMA LedgerStep ==
    ASSUME LedgerInv, [Next]_vars
    PROVE  [Ledger!Next]_Ledger!vars
  <1> USE DEF Ledger!vars
  <1>0. /\ JobsType /\ TableType /\ StreamType /\ StoreType
        /\ MadeInOrder /\ UploadsRendered /\ VerdictsHonest /\ PagesHonest
        /\ RowOfRequest /\ PageOfStream
    BY DEF LedgerInv, HonestInv, TypeOK
  <1>1. CASE UNCHANGED <<previews, outputs, row, page>>
    BY <1>1 DEF Made, Shown
  <1>2. ASSUME NEW t \in Tasks, InsertRow(t), UNCHANGED page
        PROVE  Ledger!Accept(t)
    <2>1. req[t] = "queued" /\ row[t] = "NONE"
      BY <1>0, <1>2 DEF InsertRow, ReqStep, RowOfRequest
    <2>2. row' = [row EXCEPT ![t] = "PENDING"] /\ UNCHANGED storeVars
      BY <1>2 DEF InsertRow, CreateRow
    <2> QED  BY <1>2, <2>1, <2>2 DEF Ledger!Accept, Made, Shown, storeVars
  <1>3. ASSUME NEW t \in Tasks, Subscribe(t), UNCHANGED <<row, storeVars>>
        PROVE  Ledger!Open(t)
    <2>1. row[t] # "NONE" /\ page[t].status = "NONE"
      BY <1>0, <1>3 DEF Subscribe, OpenStream, RowOfRequest, PageOfStream
    <2>2. page' = [page EXCEPT ![t] = [status |-> "PENDING", links |-> {}]]
      BY <1>3 DEF Subscribe, OpenStream
    <2>3. Shown' = [Shown EXCEPT ![t] = "PENDING"]
      BY <1>0, <2>2 DEF Shown, StreamType
    <2>4. Shown[t] = "NONE" /\ Made' = Made
      BY <1>3, <2>1 DEF Shown, Made, storeVars
    <2> QED  BY <1>3, <2>1, <2>3, <2>4 DEF Ledger!Open
  <1>4. ASSUME NEW t \in Tasks, Relay(t), UNCHANGED <<row, storeVars>>
        PROVE  \E v \in Verdicts : Ledger!Show(t, v)
    <2> DEFINE v == Head(inbox[t])
    <2>1. inbox[t] \in Seq(Verdicts) /\ inbox[t] # <<>> /\ stream[t] = "open"
      BY <1>0, <1>4 DEF Relay, StreamType
    <2>2. v \in Verdicts /\ v = inbox[t][1] /\ 1 \in DOMAIN inbox[t]
      BY <2>1
    <2>3. Honest(t, v)
      BY <1>0, <2>2 DEF PagesHonest
    <2>4. page' = [page EXCEPT ![t] = [status |-> v, links |-> @.links \union LinksOf(v)]]
      BY <1>4 DEF Relay
    <2> HIDE DEF v
    <2>5. Shown' = [Shown EXCEPT ![t] = v]
      BY <1>0, <2>4 DEF Shown, StreamType
    <2>6. Shown[t] \in {"PENDING", "PROCESSING"} /\ Made' = Made
      BY <1>0, <1>4, <2>1 DEF Shown, Made, storeVars, PageOfStream
    <2>7. Ledger!Honest(t, v)
      BY <1>0, <2>2, <2>3 DEF Honest, Ledger!Honest, Made, Verdicts, MadeInOrder
    <2> QED  BY <1>4, <2>2, <2>5, <2>6, <2>7 DEF Ledger!Show
  <1>5. ASSUME NEW a \in Attempts, RunInference(a)
        PROVE  UNCHANGED Ledger!vars \/ \E t \in Tasks : Ledger!Render(t)
    <2>1. PICK t \in Tasks : t = job[a].task
      BY <1>0, <1>5, BusySlot, ActiveFields DEF RunInference, Goto
    <2>2. previews' = previews \union {t} /\ UNCHANGED <<outputs, row, page>>
      BY <1>5, <2>1 DEF RunInference, SavePreview
    <2>3. CASE t \in previews
      <3>1. previews' = previews
        BY <2>2, <2>3
      <3> QED  BY <2>2, <3>1 DEF Made, Shown
    <2>4. CASE t \notin previews
      <3>1. t \notin outputs
        BY <1>0, <2>4 DEF MadeInOrder
      <3>2. Made[t] = "nothing" /\ Made' = [Made EXCEPT ![t] = "preview"]
        BY <2>2, <2>4, <3>1 DEF Made
      <3> QED  BY <2>2, <3>2 DEF Ledger!Render, Shown
    <2> QED  BY <2>3, <2>4
  <1>6. ASSUME NEW a \in Attempts, UploadOutput(a)
        PROVE  UNCHANGED Ledger!vars \/ \E t \in Tasks : Ledger!Store(t)
    <2>1. PICK t \in Tasks : t = job[a].task
      BY <1>0, <1>6, BusySlot, ActiveFields DEF UploadOutput, Goto
    <2>2. t \in previews
      BY <1>0, <1>6, <2>1 DEF UploadOutput, Goto, UploadsRendered
    <2>3. /\ outputs' = outputs \/ outputs' = outputs \union {t}
          /\ UNCHANGED <<previews, row, page>>
      BY <1>6, <2>1 DEF UploadOutput, PutOutput
    <2>4. CASE outputs' = outputs
      BY <2>3, <2>4 DEF Made, Shown
    <2>5. CASE outputs' = outputs \union {t} /\ t \notin outputs
      <3>1. Made[t] = "preview" /\ Made' = [Made EXCEPT ![t] = "output"]
        BY <2>2, <2>3, <2>5 DEF Made
      <3> QED  BY <2>3, <3>1 DEF Ledger!Store, Shown
    <2>6. t \in outputs => outputs \union {t} = outputs
      OBVIOUS
    <2> QED  BY <2>3, <2>4, <2>5, <2>6
  <1>7. ASSUME NEW a \in Attempts, UpdateTaskStatus(a)
        PROVE  \/ UNCHANGED Ledger!vars
               \/ \E t \in Tasks, v \in Verdicts : Ledger!List(t, v)
    <2>1. PICK t \in Tasks, v \in Verdicts : t = job[a].subject /\ v = job[a].verdict
      BY <1>0, <1>7, BusySlot, ActiveFields DEF UpdateTaskStatus, Done
    <2>2. Honest(t, v)
      BY <1>0, <1>7, <2>1 DEF UpdateTaskStatus, Done, VerdictsHonest
    <2>3. /\ UNCHANGED row \/ (row[t] # "NONE" /\ row' = [row EXCEPT ![t] = v])
          /\ UNCHANGED <<previews, outputs, page>>
      BY <1>7, <2>1 DEF UpdateTaskStatus, UpdateRow
    <2>4. Made' = Made /\ Shown' = Shown
      BY <2>3 DEF Made, Shown
    <2>5. Ledger!Honest(t, v)
      BY <1>0, <2>2 DEF Honest, Ledger!Honest, Made, Verdicts, MadeInOrder
    <2>6. CASE UNCHANGED row
      BY <2>4, <2>6
    <2>7. CASE row[t] # "NONE" /\ row' = [row EXCEPT ![t] = v]
      BY <2>4, <2>5, <2>7 DEF Ledger!List
    <2> QED  BY <2>3, <2>6, <2>7
  <1> QED
    BY <1>1, <1>2, <1>3, <1>4, <1>5, <1>6, <1>7, LedgerSteps DEF Ledger!Next, Verdicts

\* The service implements the ledger: work only grows, and list and page are
\* told only what is true when they are told it.
THEOREM LedgerImplemented == Spec => ImplementsLedger
  <1>1. Spec => []LedgerInv
    BY LedgerInvInit, LedgerInvStep, PTL DEF Spec
  <1> QED
    BY <1>1, LedgerInit, LedgerStep, PTL DEF Spec, ImplementsLedger, Ledger!Spec
================================================================================
