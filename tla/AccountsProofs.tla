----------------------------- MODULE AccountsProofs ----------------------------
(***************************************************************************)
(* Accounts for any browsers, credentials, requests under way and faults:  *)
(* the types, who is shown a task, and that Registry is implemented.       *)
(***************************************************************************)
EXTENDS Accounts, TLAPS

----------------------------------------------------------------------------
(***************************************************************************)
(* Requests as records.                                                    *)
(***************************************************************************)

RequestsType == request \in [Slots -> Requests \union {NoRequest}]

\* A slot that is not free holds a request.
LEMMA BusyRequest ==
    ASSUME RequestsType, NEW r \in Slots, request[r] # NoRequest
    PROVE  request[r] \in Requests
  BY DEF RequestsType

\* The fields of a request, which is never a free slot.
LEMMA RequestFields ==
    ASSUME NEW q \in Requests
    PROVE  /\ q # NoRequest
           /\ q.pc \in {"sent", "absent", "verified", "answered"}
           /\ q.kind \in {"register", "login"}
           /\ q.browser \in Browsers
           /\ q.cred \in Credentials
           /\ q.token \in Tokens \union {NoToken}
  BY DEF Requests, NoRequest

\* A handler is at work on a request, not on a free slot.
LEMMA AtBusy ==
    ASSUME RequestsType, NEW r \in Slots,
           NEW pc \in {"sent", "absent", "verified", "answered"},
           request[r].pc = pc
    PROVE  request[r] \in Requests
  BY DEF RequestsType, NoRequest

\* The request in a slot is as before but for how far it is and its answer.
Progressed(r) ==
    /\ request'[r] \in Requests
    /\ request'[r].browser = request[r].browser
    /\ request'[r].cred = request[r].cred
    /\ \A x \in Slots \ {r} : request'[x] = request[x]

LEMMA ProceedStep ==
    ASSUME RequestsType, NEW r \in Slots, request[r] \in Requests,
           NEW pc \in {"sent", "absent", "verified", "answered"}, Proceed(r, pc)
    PROVE  /\ RequestsType'
           /\ Progressed(r)
           /\ request'[r].token = request[r].token
  <1> DEFINE q == [request[r] EXCEPT !.pc = pc]
  <1>1. /\ q \in Requests /\ q.browser = request[r].browser
        /\ q.cred = request[r].cred /\ q.token = request[r].token
    BY DEF Requests
  <1>2. request' = [request EXCEPT ![r] = q]
    BY DEF Proceed
  <1> QED  BY <1>1, <1>2 DEF RequestsType, Progressed

LEMMA ReplyStep ==
    ASSUME RequestsType, NEW r \in Slots, request[r] \in Requests,
           NEW status \in {"201", "400", "401", "500"},
           NEW token \in Tokens \union {NoToken}, Reply(r, status, token)
    PROVE  /\ RequestsType'
           /\ Progressed(r)
           /\ request'[r].token = token
  <1> DEFINE q == [request[r] EXCEPT !.pc = "answered", !.status = status,
                                     !.token = token]
  <1>1. /\ q \in Requests /\ q.browser = request[r].browser
        /\ q.cred = request[r].cred /\ q.token = token
    BY DEF Requests
  <1>2. request' = [request EXCEPT ![r] = q]
    BY DEF Reply
  <1> QED  BY <1>1, <1>2 DEF RequestsType, Progressed

----------------------------------------------------------------------------
(***************************************************************************)
(* Types.                                                                  *)
(***************************************************************************)

UsersType == users \in [Ids -> Rows \union {NoUser}]
OwnerType == owner \in [Tasks -> Ids \union {NoUser}]
StoreType == store \in [Browsers -> Tokens \union {NoToken}]
PageType  ==
    page \in [Browsers ->
                 [task : Tasks \union {NoTask}, by : Ids \union {NoUser},
                  status : {"blank", "uploaded", "shown", "denied"}]]

LEMMA TypeParts ==
    TypeOK <=> /\ UsersType /\ OwnerType /\ RequestsType
               /\ StoreType /\ PageType
  BY DEF TypeOK, UsersType, OwnerType, RequestsType, StoreType, PageType

\* A new token is one, and a token that gets older stays one.
LEMMA TokenType ==
    /\ \A u \in Ids : NewToken(u) \in Tokens
    /\ \A k \in Tokens \union {NoToken} : Older(k) \in Tokens \union {NoToken}
  <1>1. \A u \in Ids : NewToken(u) \in Tokens
    BY AccountsAssumption DEF NewToken, Tokens
  <1>2. ASSUME NEW k \in Tokens, k.left # 0
        PROVE  [k EXCEPT !.left = k.left - 1] \in Tokens
    <2>1. k.left \in 0 .. Lifetime /\ Lifetime \in Nat
      BY AccountsAssumption DEF Tokens
    <2>2. k.left - 1 \in 0 .. Lifetime
      BY <1>2, <2>1
    <2> QED  BY <2>2 DEF Tokens
  <1>3. \A k \in Tokens \union {NoToken} : Older(k) \in Tokens \union {NoToken}
    BY <1>2 DEF Older
  <1> QED  BY <1>1, <1>3

LEMMA AddUserType ==
    ASSUME UsersType, NEW u \in Ids, NEW c \in Credentials, AddUser(u, c)
    PROVE  UsersType'
  BY DEF UsersType, AddUser, Rows

LEMMA TypeInit == Init => TypeOK
  <1> SUFFICES ASSUME Init PROVE TypeOK
    OBVIOUS
  <1>1. UsersType /\ OwnerType /\ RequestsType /\ StoreType
    BY DEF Init, UsersType, OwnerType, RequestsType, StoreType
  <1>2. PageType
    BY DEF Init, PageType, BlankPage
  <1> QED  BY <1>1, <1>2, TypeParts

\* Each action keeps the types; what it leaves alone keeps its own.
LEMMA TypeStep == TypeOK /\ [Next]_vars => TypeOK'
  <1> SUFFICES ASSUME TypeOK, [Next]_vars PROVE TypeOK'
    OBVIOUS
  <1>0. /\ UsersType /\ OwnerType /\ RequestsType
        /\ StoreType /\ PageType
    BY TypeParts
  <1>1. UNCHANGED users => UsersType'
    BY <1>0 DEF UsersType
  <1>2. UNCHANGED owner => OwnerType'
    BY <1>0 DEF OwnerType
  <1>3. UNCHANGED request => RequestsType'
    BY <1>0 DEF RequestsType
  <1>4. UNCHANGED store => StoreType'
    BY <1>0 DEF StoreType
  <1>5. UNCHANGED page => PageType'
    BY <1>0 DEF PageType
  <1>all. UsersType' /\ OwnerType' /\ RequestsType'
             /\ StoreType' /\ PageType' => TypeOK'
    BY DEF TypeOK, UsersType, OwnerType, RequestsType, StoreType, PageType
  <1> USE DEF tables, browser
  <1>7. ASSUME NEW r \in Slots, Handle(r) PROVE TypeOK'
    <2>1. CASE LookUp(r)
      <3>1. RequestsType'
        BY <1>0, <2>1, AtBusy, ReplyStep, ProceedStep DEF LookUp, At
      <3> QED  BY <1>1, <1>2, <1>4, <1>5, <2>1, <3>1, <1>all DEF LookUp
    <2>2. CASE Insert(r)
      <3>1. request[r] \in Requests /\ request[r].cred \in Credentials
        BY <1>0, <2>2, AtBusy, RequestFields DEF Insert, At
      <3>2. PICK u \in Ids : AddUser(u, request[r].cred) /\ Reply(r, "201", NewToken(u))
        BY <2>2 DEF Insert
      <3>3. UsersType' /\ RequestsType'
        BY <1>0, <3>1, <3>2, AddUserType, ReplyStep, TokenType
      <3> QED  BY <1>2, <1>4, <1>5, <2>2, <3>3, <1>all DEF Insert
    <2>3. CASE InsertRefused(r)
      <3>1. RequestsType'
        BY <1>0, <2>3, AtBusy, ReplyStep DEF InsertRefused, At
      <3> QED  BY <1>1, <1>2, <1>4, <1>5, <2>3, <3>1, <1>all DEF InsertRefused
    <2>4. CASE CommitFails(r)
      <3>1. request[r] \in Requests /\ request[r].cred \in Credentials
        BY <1>0, <2>4, AtBusy, RequestFields DEF CommitFails, At
      <3>2. RequestsType'
        BY <1>0, <2>4, <3>1, ReplyStep DEF CommitFails
      <3>3. UsersType'
        BY <1>0, <1>1, <2>4, <3>1, AddUserType DEF CommitFails
      <3> QED  BY <1>2, <1>4, <1>5, <2>4, <3>2, <3>3, <1>all DEF CommitFails
    <2>5. CASE Verify(r)
      <3>1. RequestsType'
        BY <1>0, <2>5, AtBusy, ReplyStep, ProceedStep DEF Verify, At
      <3> QED  BY <1>1, <1>2, <1>4, <1>5, <2>5, <3>1, <1>all DEF Verify
    <2>6. CASE StampLogin(r)
      <3>1. RequestsType'
        BY <1>0, <2>6, AtBusy, ReplyStep DEF StampLogin, At
      <3>2. ASSUME NEW u \in Members PROVE [users[u] EXCEPT !.lastLogin = TRUE] \in Rows
        BY <1>0 DEF UsersType, Members, Rows
      <3>3. UsersType'
        BY <1>0, <2>6, <3>2 DEF StampLogin, UsersType, Members
      <3> QED  BY <1>2, <1>4, <1>5, <2>6, <3>1, <3>3, <1>all DEF StampLogin
    <2>7. CASE Deliver(r)
      <3>1. RequestsType'
        BY <1>0, <2>7 DEF Deliver, RequestsType
      <3>2. request[r] \in Requests
        BY <1>0, <2>7, AtBusy DEF Deliver
      <3>3. StoreType'
        BY <1>0, <2>7, <3>2, RequestFields DEF Deliver, StoreType
      <3> QED  BY <1>1, <1>2, <1>5, <2>7, <3>1, <3>3, <1>all DEF Deliver
    <2>8. CASE Lose(r)
      <3>1. RequestsType'
        BY <1>0, <2>8 DEF Lose, RequestsType
      <3> QED  BY <1>1, <1>2, <1>4, <1>5, <2>8, <3>1, <1>all DEF Lose
    <2> QED
      BY <1>7, <2>1, <2>2, <2>3, <2>4, <2>5, <2>6, <2>7, <2>8 DEF Handle
  <1>8. ASSUME NEW b \in Browsers, Browse(b) PROVE TypeOK'
    <2>1. ASSUME NEW kind \in {"register", "login"}, NEW c \in Credentials,
                 Submit(b, kind, c)
          PROVE  TypeOK'
      <3>1. [pc |-> "sent", kind |-> kind, browser |-> b, cred |-> c,
             status |-> "none", token |-> NoToken] \in Requests
        BY DEF Requests
      <3>2. RequestsType'
        BY <1>0, <2>1, <3>1 DEF Submit, RequestsType
      <3> QED  BY <1>1, <1>2, <1>4, <1>5, <2>1, <3>2, <1>all DEF Submit
    <2>2. CASE LogOut(b)
      <3>1. StoreType'
        BY <1>0, <2>2 DEF LogOut, StoreType
      <3> QED  BY <1>1, <1>2, <1>3, <1>5, <2>2, <3>1, <1>all DEF LogOut
    <2>3. CASE Upload(b)
      <3>1. store[b].sub \in Ids
        BY <1>0, <2>3 DEF Upload, Valid, StoreType, Tokens
      <3>2. OwnerType' /\ PageType'
        BY <1>0, <2>3, <3>1 DEF Upload, OwnerType, PageType
      <3> QED  BY <1>1, <1>3, <1>4, <2>3, <3>2, <1>all DEF Upload
    <2>4. CASE ReadTask(b)
      <3>1. PageType'
        BY <1>0, <2>4 DEF ReadTask, PageType
      <3> QED  BY <1>1, <1>2, <1>3, <1>4, <2>4, <3>1, <1>all DEF ReadTask
    <2> QED  BY <1>8, <2>1, <2>2, <2>3, <2>4 DEF Browse
  <1>9. ASSUME Tick PROVE TypeOK'
    <2>1. StoreType'
      BY <1>0, <1>9, TokenType DEF Tick, StoreType
    <2>2. ASSUME NEW r \in Slots, request[r] # NoRequest
          PROVE  [request[r] EXCEPT !.token = Older(request[r].token)] \in Requests
      <3>1. request[r] \in Requests
        BY <1>0, <2>2, BusyRequest
      <3>2. Older(request[r].token) \in Tokens \union {NoToken}
        BY <3>1, RequestFields, TokenType
      <3> QED  BY <3>1, <3>2 DEF Requests
    <2>3. RequestsType'
      BY <1>0, <1>9, <2>2 DEF Tick, RequestsType
    <2> QED  BY <1>1, <1>2, <1>5, <1>9, <2>1, <2>3, <1>all DEF Tick
  <1>10. CASE UNCHANGED vars
    BY <1>1, <1>2, <1>3, <1>4, <1>5, <1>10, <1>all DEF vars
  <1> QED  BY <1>7, <1>8, <1>9, <1>10 DEF Next

\* Every variable keeps its type: no slot is ever half a request, and no token
\* outlives its lifetime or gets older than it.
THEOREM Typed == Spec => []TypeOK
  <1> QED  BY TypeInit, TypeStep, PTL DEF Spec

----------------------------------------------------------------------------
(***************************************************************************)
(* Whose a task is.                                                        *)
(***************************************************************************)

LEMMA OwnerSteps ==
    [Next]_vars => UNCHANGED owner \/ \E b \in Browsers : Upload(b)
  BY DEF Next, vars, tables, browser, Handle, LookUp, Insert, InsertRefused,
         CommitFails, Verify, StampLogin, Deliver, Lose, Browse, Submit, LogOut,
         ReadTask, Tick

LEMMA PageSteps ==
    [Next]_vars =>
       UNCHANGED page \/ \E b \in Browsers : Upload(b) \/ ReadTask(b)
  BY DEF Next, vars, tables, browser, Handle, LookUp, Insert, InsertRefused,
         CommitFails, Verify, StampLogin, Deliver, Lose, Browse, Submit, LogOut, Tick

\* A task that has an owner keeps it.
LEMMA OwnerKept ==
    ASSUME TypeOK, [Next]_vars, NEW t \in Tasks, owner[t] # NoUser
    PROVE  owner'[t] = owner[t]
  <1>1. CASE UNCHANGED owner
    BY <1>1
  <1>2. ASSUME NEW b \in Browsers, Upload(b) PROVE owner'[t] = owner[t]
    BY <1>2 DEF Upload, TypeOK
  <1> QED  BY <1>1, <1>2, OwnerSteps

\* What an upload page shows was created for the user it was uploaded by.
PagesOwned ==
    \A b \in Browsers :
       page[b].task # NoTask =>
          owner[page[b].task] = page[b].by /\ page[b].by \in Ids

OwnedInv == TypeOK /\ PagesOwned

LEMMA OwnedInit == Init => OwnedInv
  <1> SUFFICES ASSUME Init PROVE OwnedInv
    OBVIOUS
  <1>1. TypeOK
    BY TypeInit
  <1>2. PagesOwned
    BY DEF Init, PagesOwned, BlankPage
  <1> QED  BY <1>1, <1>2 DEF OwnedInv

LEMMA PagesStep ==
    ASSUME TypeOK, PagesOwned, [Next]_vars
    PROVE  PagesOwned'
  <1>1. ASSUME NEW b \in Browsers, page[b].task # NoTask
        PROVE  owner'[page[b].task] = page[b].by /\ page[b].by \in Ids
    <2>1. page[b].task \in Tasks
      BY <1>1 DEF TypeOK
    <2>2. owner[page[b].task] = page[b].by /\ page[b].by \in Ids
      BY <1>1 DEF PagesOwned
    <2> QED  BY <2>1, <2>2, OwnerKept, AccountsAssumption
  <1>2. CASE UNCHANGED page
    BY <1>1, <1>2 DEF PagesOwned
  <1>3. ASSUME NEW b \in Browsers, Upload(b) PROVE PagesOwned'
    <2>1. store[b].sub \in Ids
      BY <1>3 DEF Upload, Valid, TypeOK, Tokens
    <2>2. PICK t \in Tasks :
            /\ owner' = [owner EXCEPT ![t] = store[b].sub]
            /\ page' = [page EXCEPT ![b] =
                           [task |-> t, by |-> store[b].sub, status |-> "uploaded"]]
      BY <1>3 DEF Upload
    <2>3. owner'[t] = store[b].sub
      BY <2>2 DEF TypeOK
    <2>4. page'[b].task = t /\ page'[b].by = store[b].sub
      BY <2>2 DEF TypeOK
    <2>5. \A c \in Browsers \ {b} : page'[c] = page[c]
      BY <2>2 DEF TypeOK
    <2> QED  BY <1>1, <2>1, <2>3, <2>4, <2>5 DEF PagesOwned
  <1>4. ASSUME NEW b \in Browsers, ReadTask(b) PROVE PagesOwned'
    <2>1. \A c \in Browsers : page'[c].task = page[c].task /\ page'[c].by = page[c].by
      BY <1>4 DEF ReadTask, TypeOK
    <2> QED  BY <1>1, <2>1 DEF PagesOwned
  <1> QED  BY <1>2, <1>3, <1>4, PageSteps

LEMMA OwnedStep == OwnedInv /\ [Next]_vars => OwnedInv'
  BY TypeStep, PagesStep DEF OwnedInv

LEMMA OwnedAlways == Spec => []OwnedInv
  <1> QED  BY OwnedInit, OwnedStep, PTL DEF Spec

\* An upload page is denied its own task only after its browser's token expired,
\* was removed or was replaced.
THEOREM DeniedOnlyForCause == Spec => DeniedForCause
  <1>1. ASSUME OwnedInv, [Next]_vars, NEW b \in Browsers,
               page[b].status # "denied", page'[b].status = "denied"
        PROVE  ~Valid(store[b]) \/ store[b].sub # page[b].by
    <2>1. page'[b] # page[b]
      BY <1>1
    <2>2. PICK c \in Browsers : Upload(c) \/ ReadTask(c)
      BY <1>1, <2>1, PageSteps
    <2>3. ~Upload(c)
      BY <1>1, <2>1 DEF Upload, OwnedInv, TypeOK
    <2>4. ReadTask(c) /\ c = b
      BY <1>1, <2>1, <2>2, <2>3 DEF ReadTask, OwnedInv, TypeOK
    <2>5. ~Admitted(store[b], page[b].task)
      BY <1>1, <2>4 DEF ReadTask, OwnedInv, TypeOK
    <2>6. owner[page[b].task] = page[b].by
      BY <1>1, <2>4 DEF ReadTask, OwnedInv, PagesOwned
    <2> QED  BY <2>5, <2>6 DEF Admitted
  <1>2. OwnedInv /\ [Next]_vars =>
           [\A b \in Browsers :
               page[b].status # "denied" /\ page'[b].status = "denied" =>
                  ~Valid(store[b]) \/ store[b].sub # page[b].by]_vars
    BY <1>1
  <1> QED  BY <1>2, OwnedAlways, PTL DEF Spec, DeniedForCause

----------------------------------------------------------------------------
(***************************************************************************)
(* Registry is implemented.                                                *)
(***************************************************************************)

\* A token that is kept or on its way was given for an account there is, and
\* the account has the credentials that were sent for it.
StoreBacked == \A b \in Browsers : store[b] # NoToken => store[b].sub \in Members
AnswerBacked(r) ==
    request[r] # NoRequest /\ request[r].token # NoToken =>
       /\ request[r].token.sub \in Members
       /\ users[request[r].token.sub].cred = request[r].cred
AnswersBacked == \A r \in Slots : AnswerBacked(r)

AccountInv == TypeOK /\ StoreBacked /\ AnswersBacked

LEMMA AccountInit == Init => AccountInv
  <1> SUFFICES ASSUME Init PROVE AccountInv
    OBVIOUS
  <1>1. TypeOK
    BY TypeInit
  <1>2. StoreBacked /\ AnswersBacked
    BY DEF Init, StoreBacked, AnswersBacked, AnswerBacked
  <1> QED  BY <1>1, <1>2 DEF AccountInv

LEMMA UserSteps ==
    [Next]_vars =>
       \/ UNCHANGED users
       \/ \E r \in Slots : Insert(r) \/ CommitFails(r) \/ StampLogin(r)
  BY DEF Next, vars, tables, browser, Handle, LookUp, InsertRefused,
         Verify, Deliver, Lose, Browse, Submit, LogOut, Upload, ReadTask, Tick

\* A row that is added is the only change, and its address was not taken.
LEMMA AddedUser ==
    ASSUME TypeOK, NEW u \in Ids, NEW c \in Credentials, AddUser(u, c)
    PROVE  /\ u \in Members' /\ users'[u].cred = c
           /\ \A v \in Members : v \in Members' /\ users'[v] = users[v]
           /\ MemberCreds' = MemberCreds \union {c}
  <1>1. users' = [users EXCEPT ![u] = [cred |-> c, lastLogin |-> FALSE]]
    BY DEF AddUser
  <1>2. users'[u] = [cred |-> c, lastLogin |-> FALSE] /\ users[u] = NoUser
    BY <1>1 DEF AddUser, TypeOK
  <1>3. users'[u] # NoUser
    <2>1. [cred |-> c, lastLogin |-> FALSE] \in Rows
      BY DEF Rows
    <2> QED  BY <1>2, <2>1, AccountsAssumption DEF Rows
  <1>4. \A v \in Ids \ {u} : users'[v] = users[v]
    BY <1>1 DEF TypeOK
  <1>5. Members' = Members \union {u} /\ u \notin Members
    BY <1>2, <1>3, <1>4 DEF Members
  <1>6. \A v \in Members : v \in Members' /\ users'[v] = users[v]
    BY <1>4, <1>5 DEF Members
  <1>7. MemberCreds' = MemberCreds \union {c}
    BY <1>2, <1>5, <1>6 DEF MemberCreds
  <1> QED  BY <1>2, <1>5, <1>6, <1>7

\* A login that is stamped changes nobody's credentials.
LEMMA StampedUser ==
    ASSUME TypeOK, NEW r \in Slots, StampLogin(r)
    PROVE  /\ Members' = Members
           /\ \A v \in Members : users'[v].cred = users[v].cred
           /\ MemberCreds' = MemberCreds
  <1>1. PICK u \in Members :
          \/ users' = [users EXCEPT ![u].lastLogin = TRUE]
          \/ UNCHANGED users
    BY DEF StampLogin
  <1>2. u \in Ids /\ users[u] \in Rows
    BY DEF Members, TypeOK
  <1>3. CASE UNCHANGED users
    BY <1>3 DEF Members, MemberCreds
  <1>4. CASE users' = [users EXCEPT ![u].lastLogin = TRUE]
    <2>1. /\ users'[u] = [users[u] EXCEPT !.lastLogin = TRUE]
          /\ \A v \in Ids \ {u} : users'[v] = users[v]
      BY <1>2, <1>4 DEF TypeOK
    <2>2. users'[u].cred = users[u].cred /\ users'[u] \in Rows
      BY <1>2, <2>1 DEF Rows
    <2>3. users'[u] # NoUser
      BY <2>2, AccountsAssumption DEF Rows
    <2>4. Members' = Members
      BY <1>2, <2>1, <2>3 DEF Members
    <2>5. \A v \in Members : users'[v].cred = users[v].cred
      BY <2>1, <2>2 DEF Members
    <2> QED  BY <2>4, <2>5 DEF MemberCreds
  <1> QED  BY <1>1, <1>3, <1>4

\* Who is a member stays one, with the same credentials.
LEMMA CredsKept ==
    ASSUME TypeOK, [Next]_vars, NEW v \in Members
    PROVE  v \in Members' /\ users'[v].cred = users[v].cred
  <1>1. CASE UNCHANGED users
    BY <1>1 DEF Members
  <1>2. ASSUME NEW r \in Slots, Insert(r) \/ CommitFails(r)
        PROVE  v \in Members' /\ users'[v].cred = users[v].cred
    <2>1. request[r].cred \in Credentials
      BY <1>2, AtBusy, RequestFields, TypeParts DEF Insert, CommitFails, At
    <2>2. UNCHANGED users \/ \E u \in Ids : AddUser(u, request[r].cred)
      BY <1>2 DEF Insert, CommitFails
    <2> QED  BY <1>1, <2>1, <2>2, AddedUser
  <1>3. ASSUME NEW r \in Slots, StampLogin(r)
        PROVE  v \in Members' /\ users'[v].cred = users[v].cred
    BY <1>3, StampedUser
  <1> QED  BY <1>1, <1>2, <1>3, UserSteps

\* Getting older changes nothing of a token but its age.
LEMMA OlderSame ==
    ASSUME NEW k \in Tokens \union {NoToken}
    PROVE  /\ Older(k) = NoToken <=> k = NoToken
           /\ k # NoToken => Older(k).sub = k.sub
           /\ Valid(Older(k)) => Valid(k)
  <1>1. CASE k = NoToken
    BY <1>1 DEF Older, Valid
  <1>2. CASE k # NoToken /\ k.left = 0
    BY <1>2 DEF Older, Valid
  <1>3. CASE k # NoToken /\ k.left # 0
    <2>1. k \in Tokens /\ k.left > 0
      BY <1>3, AccountsAssumption DEF Tokens
    <2>2. Older(k) = [k EXCEPT !.left = k.left - 1]
      BY <1>3 DEF Older
    <2>3. Older(k).sub = k.sub
      BY <2>1, <2>2 DEF Tokens
    <2>4. Older(k) \in Tokens
      BY <2>1, <2>2, AccountsAssumption DEF Tokens
    <2>5. NoToken \notin Tokens
      BY AccountsAssumption DEF Tokens
    <2> QED  BY <2>1, <2>3, <2>4, <2>5 DEF Valid
  <1> QED  BY <1>1, <1>2, <1>3

\* A handler's step is about one slot, which it frees or gets on with; only
\* Insert puts a token there.
LEMMA HandleEffect ==
    ASSUME TypeOK, NEW r \in Slots, Handle(r)
    PROVE  /\ request[r] \in Requests
           /\ \A x \in Slots \ {r} : request'[x] = request[x]
           /\ \/ request'[r] = NoRequest /\ (Deliver(r) \/ Lose(r))
              \/ /\ Progressed(r)
                 /\ \/ request'[r].token \in {NoToken, request[r].token}
                    \/ Insert(r)
  <1>0. RequestsType
    BY TypeParts
  <1>1. CASE Deliver(r) \/ Lose(r)
    <2>1. request[r] \in Requests
      BY <1>0, <1>1, AtBusy, BusyRequest DEF Deliver, Lose
    <2>2. request' = [request EXCEPT ![r] = NoRequest]
      BY <1>1 DEF Deliver, Lose
    <2> QED  BY <1>0, <1>1, <2>1, <2>2 DEF RequestsType
  <1>2. CASE LookUp(r) \/ Verify(r)
    <2>1. request[r] \in Requests
      BY <1>0, <1>2, AtBusy DEF LookUp, Verify, At
    <2>2. \/ Reply(r, "400", NoToken) \/ Reply(r, "401", NoToken)
          \/ Proceed(r, "absent") \/ Proceed(r, "verified")
      BY <1>2 DEF LookUp, Verify
    <2> QED  BY <1>0, <2>1, <2>2, ReplyStep, ProceedStep DEF Progressed
  <1>3. CASE InsertRefused(r) \/ CommitFails(r) \/ StampLogin(r)
    <2>1. request[r] \in Requests
      BY <1>0, <1>3, AtBusy DEF InsertRefused, CommitFails, StampLogin, At
    <2>2. Reply(r, "500", NoToken)
      BY <1>3 DEF InsertRefused, CommitFails, StampLogin
    <2> QED  BY <1>0, <2>1, <2>2, ReplyStep DEF Progressed
  <1>4. CASE Insert(r)
    <2>1. request[r] \in Requests
      BY <1>0, <1>4, AtBusy DEF Insert, At
    <2>2. PICK u \in Ids : Reply(r, "201", NewToken(u))
      BY <1>4 DEF Insert
    <2> QED  BY <1>0, <1>4, <2>1, <2>2, ReplyStep, TokenType DEF Progressed
  <1> QED  BY <1>1, <1>2, <1>3, <1>4 DEF Handle

LEMMA RequestSteps ==
    [Next]_vars =>
       \/ UNCHANGED request
       \/ \E r \in Slots : Handle(r)
       \/ \E b \in Browsers, kind \in {"register", "login"}, c \in Credentials :
             Submit(b, kind, c)
       \/ Tick
  BY DEF Next, vars, Browse, LogOut, Upload, ReadTask

\* An answer that stays, or has no token, stays backed.
LEMMA AnswerKept ==
    ASSUME TypeOK, AnswersBacked, [Next]_vars, NEW r \in Slots,
           \/ request'[r] = NoRequest
           \/ request'[r].token = NoToken
           \/ /\ request[r] # NoRequest
              /\ request[r].token # NoToken
              /\ request'[r].token.sub = request[r].token.sub
              /\ request'[r].cred = request[r].cred
    PROVE  AnswerBacked(r)'
  <1>1. CASE request'[r] = NoRequest \/ request'[r].token = NoToken
    BY <1>1 DEF AnswerBacked
  <1>2. CASE /\ request[r] # NoRequest
             /\ request[r].token # NoToken
             /\ request'[r].token.sub = request[r].token.sub
             /\ request'[r].cred = request[r].cred
    <2>1. /\ request[r].token.sub \in Members
          /\ users[request[r].token.sub].cred = request[r].cred
      BY <1>2 DEF AnswersBacked, AnswerBacked
    <2> QED  BY <1>2, <2>1, CredsKept DEF AnswerBacked
  <1> QED  BY <1>1, <1>2

LEMMA AnswersStep ==
    ASSUME TypeOK, AnswersBacked, [Next]_vars
    PROVE  AnswersBacked'
  <1> SUFFICES ASSUME NEW x \in Slots PROVE AnswerBacked(x)'
    BY DEF AnswersBacked
  <1>0. RequestsType
    BY TypeParts
  <1>1. CASE request'[x] = request[x]
    BY <1>1, AnswerKept
  <1>2. ASSUME NEW r \in Slots, Handle(r) PROVE AnswerBacked(x)'
    <2>1. CASE x # r
      BY <1>1, <1>2, <2>1, HandleEffect
    <2>2. CASE x = r /\ ~Insert(r)
      BY <1>2, <2>2, HandleEffect, AnswerKept, RequestFields DEF Progressed
    <2>3. CASE x = r /\ Insert(r)
      <3>1. request[r] \in Requests /\ request[r].cred \in Credentials
        BY <1>2, HandleEffect, RequestFields
      <3>2. PICK u \in Ids : AddUser(u, request[r].cred) /\ Reply(r, "201", NewToken(u))
        BY <2>3 DEF Insert
      <3>3. u \in Members' /\ users'[u].cred = request[r].cred
        BY <3>1, <3>2, AddedUser
      <3>4. request'[r].token = NewToken(u) /\ request'[r].cred = request[r].cred
        BY <1>0, <3>1, <3>2, ReplyStep, TokenType DEF Progressed
      <3> QED  BY <2>3, <3>3, <3>4 DEF AnswerBacked, NewToken
    <2> QED  BY <2>1, <2>2, <2>3
  <1>3. ASSUME NEW b \in Browsers, NEW kind \in {"register", "login"},
               NEW c \in Credentials, Submit(b, kind, c)
        PROVE  AnswerBacked(x)'
    <2>1. \/ request'[x] = request[x]
          \/ request'[x].token = NoToken
      BY <1>0, <1>3 DEF Submit, RequestsType
    <2> QED  BY <1>1, <2>1, AnswerKept
  <1>4. CASE Tick
    <2>1. CASE request[x] = NoRequest
      BY <1>1, <1>4, <2>1 DEF Tick
    <2>2. CASE request[x] # NoRequest
      <3>1. request[x] \in Requests
        BY <1>0, <2>2, BusyRequest
      <3>2. request'[x] = [request[x] EXCEPT !.token = Older(request[x].token)]
        BY <1>4, <2>2 DEF Tick
      <3>3. request'[x].token = Older(request[x].token) /\ request'[x].cred = request[x].cred
        BY <3>1, <3>2 DEF Requests
      <3> QED  BY <2>2, <3>1, <3>3, RequestFields, OlderSame, AnswerKept
    <2> QED  BY <2>1, <2>2
  <1> QED  BY <1>1, <1>2, <1>3, <1>4, RequestSteps

LEMMA StoreSteps ==
    [Next]_vars =>
       \/ UNCHANGED store
       \/ \E r \in Slots : Deliver(r)
       \/ \E b \in Browsers : LogOut(b)
       \/ Tick
  BY DEF Next, vars, browser, Handle, LookUp, Insert, InsertRefused,
         CommitFails, Verify, StampLogin, Lose, Browse, Submit, Upload, ReadTask

LEMMA StoreStep ==
    ASSUME TypeOK, AnswersBacked, StoreBacked, [Next]_vars
    PROVE  StoreBacked'
  <1> SUFFICES ASSUME NEW b \in Browsers, store'[b] # NoToken
               PROVE  store'[b].sub \in Members'
    BY DEF StoreBacked
  <1>1. CASE store'[b] = store[b]
    BY <1>1, CredsKept DEF StoreBacked
  <1>2. ASSUME NEW r \in Slots, Deliver(r) PROVE store'[b].sub \in Members'
    <2>1. request[r] \in Requests
      BY <1>2, HandleEffect DEF Handle
    <2>2. \/ store'[b] = store[b]
          \/ store'[b] = request[r].token /\ request[r].token # NoToken
      BY <1>2 DEF Deliver, TypeOK
    <2>3. request[r].token # NoToken => request[r].token.sub \in Members
      BY <2>1, RequestFields DEF AnswersBacked, AnswerBacked
    <2> QED  BY <1>1, <2>2, <2>3, CredsKept
  <1>3. ASSUME NEW c \in Browsers, LogOut(c) PROVE store'[b].sub \in Members'
    BY <1>1, <1>3 DEF LogOut, TypeOK
  <1>4. CASE Tick
    <2>1. store[b] \in Tokens \union {NoToken} /\ store'[b] = Older(store[b])
      BY <1>4 DEF Tick, TypeOK
    <2>2. store[b] # NoToken /\ store'[b].sub = store[b].sub
      BY <2>1, OlderSame
    <2> QED  BY <2>2, CredsKept DEF StoreBacked
  <1> QED  BY <1>1, <1>2, <1>3, <1>4, StoreSteps

LEMMA AccountStep == AccountInv /\ [Next]_vars => AccountInv'
  BY TypeStep, AnswersStep, StoreStep DEF AccountInv

\* Slots that stay free, or keep browser and credentials, ask for the same.
LEMMA AskingKept ==
    ASSUME \A r \in Slots :
              \/ request'[r] = request[r]
              \/ /\ request[r] # NoRequest /\ request'[r] # NoRequest
                 /\ request'[r].browser = request[r].browser
                 /\ request'[r].cred = request[r].cred
    PROVE  Asking' = Asking
  <1>1. ASSUME NEW b \in Browsers
        PROVE  {request'[r].cred : r \in Waiting(b)'} = {request[r].cred : r \in Waiting(b)}
    <2>1. Waiting(b)' = Waiting(b)
      BY DEF Waiting
    <2>2. \A r \in Waiting(b) : request'[r].cred = request[r].cred
      BY DEF Waiting
    <2> QED  BY <2>1, <2>2
  <1> QED  BY <1>1 DEF Asking

\* Who sent a form is waiting, until the slot is free; the same form may have
\* been sent twice.
LEMMA Asks ==
    ASSUME NEW r \in Slots, request[r] \in Requests
    PROVE  /\ request[r].browser \in Browsers
           /\ request[r].cred \in Credentials
           /\ request[r].cred \in Asking[request[r].browser]
  BY RequestFields DEF Asking, Waiting

LEMMA StopsAsking ==
    ASSUME TypeOK, NEW r \in Slots, request[r] \in Requests,
           request' = [request EXCEPT ![r] = NoRequest],
           NEW b, b = request[r].browser, NEW c, c = request[r].cred
    PROVE  Asking' \in {Asking, [Asking EXCEPT ![b] = @ \ {c}]}
  <1>1. /\ request'[r] = NoRequest
        /\ \A x \in Slots \ {r} : request'[x] = request[x]
    BY DEF TypeOK
  <1>2. \A x \in Browsers \ {b} : Asking'[x] = Asking[x]
    <2> SUFFICES ASSUME NEW x \in Browsers \ {b} PROVE Asking'[x] = Asking[x]
      OBVIOUS
    <2>1. Waiting(x)' = Waiting(x) /\ r \notin Waiting(x)
      BY <1>1 DEF Waiting
    <2>2. \A y \in Waiting(x) : request'[y].cred = request[y].cred
      BY <1>1, <2>1 DEF Waiting
    <2> QED  BY <2>1, <2>2 DEF Asking
  <1>3. Waiting(b)' = Waiting(b) \ {r} /\ r \in Waiting(b)
    BY <1>1, RequestFields DEF Waiting
  <1>4. \A y \in Waiting(b) \ {r} : request'[y].cred = request[y].cred
    BY <1>1 DEF Waiting
  <1>5. b \in Browsers
    BY RequestFields
  <1>6. Asking'[b] = {request[y].cred : y \in Waiting(b) \ {r}}
    BY <1>3, <1>4, <1>5 DEF Asking
  <1>7. Asking[b] = {request[y].cred : y \in Waiting(b)}
    BY <1>5 DEF Asking
  <1>8. Asking'[b] \in {Asking[b], Asking[b] \ {c}}
    <2>1. CASE \E y \in Waiting(b) \ {r} : request[y].cred = c
      BY <1>3, <1>6, <1>7, <2>1
    <2>2. CASE \A y \in Waiting(b) \ {r} : request[y].cred # c
      BY <1>3, <1>6, <1>7, <2>2
    <2> QED  BY <2>1, <2>2
  <1> QED  BY <1>2, <1>5, <1>8 DEF Asking

\* A browser whose token stays has its session in the same name.
LEMMA SessionKept ==
    ASSUME AccountInv, [Next]_vars, NEW b \in Browsers, store'[b] = store[b]
    PROVE  Session'[b] = Session[b]
  <1>1. CASE store[b] = NoToken
    BY <1>1 DEF Session, Valid
  <1>2. CASE store[b] # NoToken
    <2>1. users'[store[b].sub].cred = users[store[b].sub].cred
      BY <1>2, CredsKept DEF AccountInv, StoreBacked
    <2> QED  BY <2>1 DEF Session
  <1> QED  BY <1>1, <1>2

LEMMA SessionsKept ==
    ASSUME AccountInv, [Next]_vars, UNCHANGED store
    PROVE  UNCHANGED Session
  BY SessionKept DEF Session

LEMMA PromiseInit == Init => Promise!Init
  <1> SUFFICES ASSUME Init PROVE Promise!Init
    OBVIOUS
  <1>1. MemberCreds = {}
    BY DEF Init, MemberCreds, Members
  <1>2. Session = [b \in Browsers |-> NoToken]
    BY DEF Init, Session, Valid
  <1>3. Asking = [b \in Browsers |-> {}]
    BY DEF Init, Asking, Waiting
  <1> QED  BY <1>1, <1>2, <1>3 DEF Promise!Init

\* A handler's step joins, answers, or is not seen.
LEMMA HandlePromise ==
    ASSUME AccountInv, [Next]_vars, NEW r \in Slots, Handle(r)
    PROVE  Promise!Next \/ UNCHANGED Promise!vars
  <1> DEFINE b == request[r].browser
             c == request[r].cred
  <1>0. TypeOK /\ AnswersBacked
    BY DEF AccountInv
  <1>1. /\ request[r] \in Requests /\ b \in Browsers /\ c \in Credentials
        /\ c \in Asking[b]
    BY <1>0, HandleEffect, Asks
  <1>2. Progressed(r) => Asking' = Asking
    BY <1>1, AskingKept, RequestFields DEF Progressed
  <1>3. CASE Insert(r) \/ CommitFails(r)
    <2>1. Asking' = Asking
      <3>1. r \in Slots /\ ~(request'[r] = NoRequest /\ (Deliver(r) \/ Lose(r)))
        BY <1>0, <1>1, <1>3, RequestFields, ReplyStep, TokenType, TypeParts
        DEF Insert, CommitFails, Progressed
      <3> QED  BY <1>0, <1>2, <3>1, HandleEffect
    <2>2. UNCHANGED Session
      BY <1>3, SessionsKept DEF Insert, CommitFails, browser
    <2>3. CASE UNCHANGED users
      <3>1. MemberCreds' = MemberCreds
        BY <2>3 DEF MemberCreds, Members
      <3> QED  BY <2>1, <2>2, <3>1 DEF Promise!vars
    <2>4. CASE ~Taken(c) /\ \E u \in Ids : AddUser(u, c)
      <3>1. MemberCreds' = MemberCreds \union {c}
        BY <1>0, <1>1, <2>4, AddedUser
      <3>2. \A m \in MemberCreds : m.address # c.address
        BY <2>4 DEF Taken, MemberCreds
      <3>3. Promise!Join(b, c)
        BY <1>1, <2>1, <2>2, <3>1, <3>2 DEF Promise!Join
      <3> QED  BY <1>1, <3>3 DEF Promise!Next
    <2> QED  BY <1>3, <2>3, <2>4 DEF Insert, CommitFails
  <1>4. CASE LookUp(r) \/ InsertRefused(r) \/ Verify(r) \/ StampLogin(r)
    <2>1. MemberCreds' = MemberCreds
      <3>1. CASE StampLogin(r)
        BY <1>0, <3>1, StampedUser
      <3>2. CASE UNCHANGED users
        BY <3>2 DEF MemberCreds, Members
      <3> QED  BY <1>4, <3>1, <3>2 DEF LookUp, InsertRefused, Verify, tables
    <2>2. UNCHANGED Session
      BY <1>4, SessionsKept DEF LookUp, InsertRefused, Verify, StampLogin, browser
    <2>3. \/ Reply(r, "400", NoToken) \/ Reply(r, "401", NoToken)
          \/ Reply(r, "500", NoToken)
          \/ Proceed(r, "absent") \/ Proceed(r, "verified")
      BY <1>4 DEF LookUp, InsertRefused, Verify, StampLogin
    <2>4. Progressed(r)
      BY <1>0, <1>1, <2>3, ReplyStep, ProceedStep, TypeParts
    <2> QED  BY <1>2, <2>1, <2>2, <2>4 DEF Promise!vars
  <1>5. CASE Deliver(r) \/ Lose(r)
    <2>1. Asking' \in {Asking, [Asking EXCEPT ![b] = @ \ {c}]}
      BY <1>0, <1>1, <1>5, StopsAsking DEF Deliver, Lose
    <2>2. UNCHANGED users /\ MemberCreds' = MemberCreds
      BY <1>5 DEF Deliver, Lose, tables, MemberCreds, Members
    <2>3. \A x \in Browsers \ {b} : store'[x] = store[x]
      BY <1>0, <1>5 DEF Deliver, Lose, browser, TypeOK
    <2>4. Session'[b] \in {Session[b], NoToken} \union ({c} \intersect MemberCreds)
      <3>1. CASE store'[b] = store[b]
        BY <1>1, <3>1, SessionKept
      <3>2. CASE store'[b] # store[b]
        <4>1. /\ store'[b] = request[r].token
              /\ request[r].token # NoToken
          BY <1>0, <1>1, <1>5, <3>2 DEF Deliver, Lose, browser, TypeOK
        <4>2. /\ request[r].token.sub \in Members
              /\ users[request[r].token.sub].cred = c
          BY <1>0, <1>1, <4>1, RequestFields DEF AnswersBacked, AnswerBacked
        <4>3. c \in MemberCreds
          BY <4>2 DEF MemberCreds
        <4>4. Session'[b] = IF Valid(store'[b]) THEN users'[store'[b].sub].cred ELSE NoToken
          BY <1>1 DEF Session, Valid
        <4> QED  BY <2>2, <4>1, <4>2, <4>3, <4>4
      <3> QED  BY <3>1, <3>2
    <2>5. Session' = [Session EXCEPT ![b] = Session'[b]]
      <3>1. \A x \in Browsers \ {b} : Session'[x] = Session[x]
        BY <2>3, SessionKept
      <3> QED  BY <3>1 DEF Session
    <2>6. Promise!Answer(b, c)
      BY <1>1, <2>1, <2>2, <2>4, <2>5 DEF Promise!Answer
    <2> QED  BY <1>1, <2>6 DEF Promise!Next
  <1> QED  BY <1>3, <1>4, <1>5 DEF Handle

\* A session that ends is Registry's End; so is one that time ends.
LEMMA EndPromise ==
    ASSUME AccountInv, [Next]_vars, UNCHANGED users, Asking' = Asking,
           \A b \in Browsers : Session'[b] \in {Session[b], NoToken}
    PROVE  Promise!Next
  <1>1. MemberCreds' = MemberCreds
    BY DEF MemberCreds, Members
  <1>2. ASSUME NEW b \in Browsers PROVE Session[b] \in Credentials \union {NoToken}
    <2>1. CASE Valid(store[b])
      <3>1. users[store[b].sub] \in Rows
        BY <2>1 DEF AccountInv, StoreBacked, Valid, Members, TypeOK
      <3> QED  BY <2>1, <3>1 DEF Session, Rows
    <2>2. CASE ~Valid(store[b])
      BY <2>2 DEF Session
    <2> QED  BY <2>1, <2>2
  <1>3. Session' \in [Browsers -> Credentials \union {NoToken}]
    BY <1>2 DEF Session
  <1> QED  BY <1>1, <1>3 DEF Promise!Next, Promise!End

LEMMA PromiseStep ==
    AccountInv /\ [Next]_vars => [Promise!Next]_(Promise!vars)
  <1> SUFFICES ASSUME AccountInv, [Next]_vars
               PROVE  Promise!Next \/ UNCHANGED Promise!vars
    OBVIOUS
  <1>0. TypeOK
    BY DEF AccountInv
  <1>1. ASSUME NEW r \in Slots, Handle(r)
        PROVE  Promise!Next \/ UNCHANGED Promise!vars
    BY <1>1, HandlePromise
  <1>2. ASSUME UNCHANGED <<users, request, store>>
        PROVE  UNCHANGED Promise!vars
    <2>1. UNCHANGED Session
      BY <1>2, SessionsKept
    <2> QED  BY <1>2, <2>1 DEF Promise!vars, MemberCreds, Members, Asking, Waiting
  <1>3. ASSUME NEW b \in Browsers, Browse(b)
        PROVE  Promise!Next \/ UNCHANGED Promise!vars
    <2>1. ASSUME NEW kind \in {"register", "login"}, NEW c \in Credentials,
                 Submit(b, kind, c)
          PROVE  Promise!Next
      <3>1. PICK r \in Slots :
              /\ request[r] = NoRequest
              /\ request' = [request EXCEPT ![r] =
                    [pc |-> "sent", kind |-> kind, browser |-> b, cred |-> c,
                     status |-> "none", token |-> NoToken]]
        BY <2>1 DEF Submit
      <3>2. /\ request'[r] # NoRequest
            /\ request'[r].browser = b /\ request'[r].cred = c
            /\ \A x \in Slots \ {r} : request'[x] = request[x]
        BY <1>0, <3>1 DEF TypeOK, NoRequest
      <3>3. ASSUME NEW x \in Browsers
            PROVE  Asking'[x] = IF x = b THEN Asking[b] \union {c} ELSE Asking[x]
        <4>1. Waiting(x)' = IF x = b THEN Waiting(x) \union {r} ELSE Waiting(x)
          BY <3>1, <3>2 DEF Waiting
        <4>2. \A y \in Waiting(x) : y # r /\ request'[y].cred = request[y].cred
          BY <3>1, <3>2 DEF Waiting
        <4>3. /\ Asking'[x] = {request'[y].cred : y \in Waiting(x)'}
              /\ Asking[x] = {request[y].cred : y \in Waiting(x)}
          BY DEF Asking
        <4>4. CASE x = b
          BY <3>2, <4>1, <4>2, <4>3, <4>4
        <4>5. CASE x # b
          BY <4>1, <4>2, <4>3, <4>5
        <4> QED  BY <4>4, <4>5
      <3>4. Asking' = [Asking EXCEPT ![b] = @ \union {c}]
        BY <3>3 DEF Asking
      <3>5. UNCHANGED <<MemberCreds, Session>>
        BY <2>1, SessionsKept DEF Submit, tables, browser, MemberCreds, Members
      <3>6. Promise!Ask(b, c)
        BY <3>4, <3>5 DEF Promise!Ask
      <3> QED  BY <3>6 DEF Promise!Next
    <2>2. CASE LogOut(b)
      <3>1. UNCHANGED <<users, request>>
        BY <2>2 DEF LogOut, tables
      <3>2. Asking' = Asking
        BY <3>1 DEF Asking, Waiting
      <3>3. ASSUME NEW x \in Browsers PROVE Session'[x] \in {Session[x], NoToken}
        <4>1. CASE x = b
          BY <1>0, <2>2, <4>1 DEF LogOut, TypeOK, Session, Valid
        <4>2. CASE x # b
          BY <1>0, <2>2, <4>2, SessionKept DEF LogOut, TypeOK
        <4> QED  BY <4>1, <4>2
      <3> QED  BY <3>1, <3>2, <3>3, EndPromise
    <2>3. CASE Upload(b) \/ ReadTask(b)
      BY <1>2, <2>3 DEF Upload, ReadTask, tables
    <2> QED  BY <1>3, <2>1, <2>2, <2>3 DEF Browse
  <1>4. CASE Tick
    <2>1. UNCHANGED users
      BY <1>4 DEF Tick, tables
    <2>2. ASSUME NEW r \in Slots
          PROVE  \/ request'[r] = request[r]
                 \/ /\ request[r] # NoRequest /\ request'[r] # NoRequest
                    /\ request'[r].browser = request[r].browser
                    /\ request'[r].cred = request[r].cred
      <3>1. CASE request[r] = NoRequest
        BY <1>4, <3>1 DEF Tick
      <3>2. CASE request[r] # NoRequest
        <4>1. request[r] \in Requests
          BY <1>0, <3>2, BusyRequest, TypeParts
        <4>2. request'[r] = [request[r] EXCEPT !.token = Older(request[r].token)]
          BY <1>4, <3>2 DEF Tick
        <4>3. request'[r].pc = request[r].pc
          BY <4>1, <4>2 DEF Requests
        <4>4. request'[r] # NoRequest
          BY <4>1, <4>3, RequestFields DEF NoRequest
        <4> QED  BY <3>2, <4>1, <4>2, <4>4 DEF Requests
      <3> QED  BY <3>1, <3>2
    <2>3. Asking' = Asking
      BY <2>2, AskingKept
    <2>4. ASSUME NEW b \in Browsers PROVE Session'[b] \in {Session[b], NoToken}
      <3>1. store[b] \in Tokens \union {NoToken} /\ store'[b] = Older(store[b])
        BY <1>0, <1>4 DEF Tick, TypeOK
      <3>2. Valid(store'[b]) => Valid(store[b]) /\ store'[b].sub = store[b].sub
        BY <3>1, OlderSame DEF Valid
      <3>3. Session'[b] = IF Valid(store'[b]) THEN users'[store'[b].sub].cred ELSE NoToken
        BY DEF Session, Valid
      <3> QED  BY <2>1, <3>2, <3>3 DEF Session
    <2> QED  BY <2>1, <2>3, <2>4, EndPromise
  <1>5. CASE UNCHANGED vars
    BY <1>2, <1>5 DEF vars
  <1> QED  BY <1>1, <1>3, <1>4, <1>5 DEF Next

\* The accounts implement Registry: an address belongs to whoever registered it
\* first, and a session is given only for the credentials of a member, however
\* handlers race and whatever commits and answers fail.
THEOREM RegistryKept == Spec => ImplementsRegistry
  <1>1. Spec => []AccountInv
    BY AccountInit, AccountStep, PTL DEF Spec
  <1> QED
    BY <1>1, PromiseInit, PromiseStep, PTL DEF Spec, ImplementsRegistry, Promise!Spec
================================================================================
