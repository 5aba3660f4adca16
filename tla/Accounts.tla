-------------------------------- MODULE Accounts -------------------------------
(***************************************************************************)
(* Accounts: the handlers of /auth/register and /auth/login, which run in  *)
(* threads of their own and meet in the table users; the access tokens     *)
(* they give out, which browsers keep in localStorage and which expire;    *)
(* and what a token lets a page do with tasks.  A form that is being       *)
(* answered can be sent again, and all pages of a browser share its token. *)
(***************************************************************************)
EXTENDS Naturals, FiniteSets

CONSTANTS
    Browsers,
    Credentials,    \* what users type: records with an address and a password
    Slots,          \* slots for requests under way (bound)
    Ids,            \* the uuids accounts get (bound)
    Tasks,          \* the tasks that are created (bound)
    NoUser, NoToken, NoTask,
    Lifetime,       \* ACCESS_TOKEN_EXPIRE_MINUTES, in ticks
    Faults          \* db: a commit raises    lost: an answer does not arrive

ASSUME AccountsAssumption ==
    /\ NoUser \notin Ids
    /\ NoUser \notin [cred : Credentials, lastLogin : BOOLEAN]
    /\ NoToken \notin [sub : Ids, left : 0 .. Lifetime]
    /\ NoToken \notin Credentials
    /\ NoTask \notin Tasks
    /\ Lifetime \in Nat \ {0}
    /\ Faults \subseteq {"db", "lost"}

VARIABLES
    users,          \* the table users: the row of each id, NoUser if none
    owner,          \* the table processing_tasks: the user_id of each task
    request,        \* the request in each slot
    store,          \* the access_token in each browser's localStorage
    page            \* what a browser's upload page shows, of which task

tables  == <<users, owner>>
browser == <<store, page>>
vars    == <<users, owner, request, store, page>>

Rows   == [cred : Credentials, lastLogin : BOOLEAN]
Tokens == [sub : Ids, left : 0 .. Lifetime]

Requests ==
    [pc : {"sent", "absent", "verified", "answered"},
     kind : {"register", "login"}, browser : Browsers, cred : Credentials,
     status : {"none", "201", "400", "401", "500"}, token : Tokens \union {NoToken}]

\* A slot nobody uses.
NoRequest == [pc |-> "free"]

\* An upload page before anything was uploaded.
BlankPage == [task |-> NoTask, by |-> NoUser, status |-> "blank"]

Init ==
    /\ users = [u \in Ids |-> NoUser]
    /\ owner = [t \in Tasks |-> NoUser]
    /\ request = [r \in Slots |-> NoRequest]
    /\ store = [b \in Browsers |-> NoToken]
    /\ page = [b \in Browsers |-> BlankPage]

Members == {u \in Ids : users[u] # NoUser}

\* get_user_by_email finds a row; the password it holds is the right one.
Taken(c) == \E u \in Members : users[u].cred.address = c.address
Right(c) == \E u \in Members : users[u].cred = c

\* create_access_token, and what decode_access_token makes of a token.
NewToken(u) == [sub |-> u, left |-> Lifetime]
Valid(k)    == k # NoToken /\ k.left > 0

----------------------------------------------------------------------------
\* The login or the register page sends its form.
Submit(b, kind, c) ==
    /\ \E r \in Slots :
          /\ request[r] = NoRequest
          /\ request' = [request EXCEPT ![r] =
                [pc |-> "sent", kind |-> kind, browser |-> b, cred |-> c,
                 status |-> "none", token |-> NoToken]]
    /\ UNCHANGED <<tables, browser>>

At(r, kind, pc) == request[r].pc = pc /\ request[r].kind = kind

Proceed(r, pc) == request' = [request EXCEPT ![r].pc = pc]

Reply(r, status, token) ==
    request' = [request EXCEPT ![r].pc = "answered", ![r].status = status,
                               ![r].token = token]

\* register() looks for the address, and hashes the password if it is new.
LookUp(r) ==
    /\ At(r, "register", "sent")
    /\ IF Taken(request[r].cred)
       THEN Reply(r, "400", NoToken)
       ELSE Proceed(r, "absent")
    /\ UNCHANGED <<tables, browser>>

AddUser(u, c) ==
    /\ users[u] = NoUser
    /\ users' = [users EXCEPT ![u] = [cred |-> c, lastLogin |-> FALSE]]

\* Mutant of Insert: the column email has no unique index.
InsertUnindexed(r) ==
    /\ At(r, "register", "absent")
    /\ \E u \in Ids : AddUser(u, request[r].cred) /\ Reply(r, "201", NewToken(u))
    /\ UNCHANGED <<owner, browser>>

\* The row is committed, and a token made for it.
Insert(r) ==
    /\ At(r, "register", "absent")
    /\ ~Taken(request[r].cred)
    /\ \E u \in Ids : AddUser(u, request[r].cred) /\ Reply(r, "201", NewToken(u))
    /\ UNCHANGED <<owner, browser>>

\* Somebody registered the address since it was looked for, and the unique
\* index of the column refuses the row; nobody catches the error.
InsertRefused(r) ==
    /\ At(r, "register", "absent")
    /\ Taken(request[r].cred)
    /\ Reply(r, "500", NoToken)
    /\ UNCHANGED <<tables, browser>>

\* The commit raises, although the database may have executed it.
CommitFails(r) ==
    /\ "db" \in Faults
    /\ At(r, "register", "absent")
    /\ \/ UNCHANGED users
       \/ ~Taken(request[r].cred) /\ \E u \in Ids : AddUser(u, request[r].cred)
    /\ Reply(r, "500", NoToken)
    /\ UNCHANGED <<owner, browser>>

\* login() looks for the address and verifies the password.
Verify(r) ==
    /\ At(r, "login", "sent")
    /\ IF Right(request[r].cred)
       THEN Proceed(r, "verified")
       ELSE Reply(r, "401", NoToken)
    /\ UNCHANGED <<tables, browser>>

\* login() commits last_login and makes a token, and then its log line names
\* user_in, a variable only register() has: whatever happened, it is a 500.
StampLogin(r) ==
    /\ At(r, "login", "verified")
    /\ \E u \in Members :
          /\ users[u].cred = request[r].cred
          /\ \/ users' = [users EXCEPT ![u].lastLogin = TRUE]
             \/ "db" \in Faults /\ UNCHANGED users
    /\ Reply(r, "500", NoToken)
    /\ UNCHANGED <<owner, browser>>

\* The page that sent the form gets the answer, and keeps a token it is given
\* in place of the one that was there.
Deliver(r) ==
    LET q == request[r]
    IN  /\ q.pc = "answered"
        /\ request' = [request EXCEPT ![r] = NoRequest]
        /\ store' = IF q.token = NoToken
                    THEN store
                    ELSE [store EXCEPT ![q.browser] = q.token]
        /\ UNCHANGED <<tables, page>>

\* The answer never arrives: the server died on the way, the push of its
\* metrics failed, or the user left the page.
Lose(r) ==
    /\ "lost" \in Faults
    /\ request[r] # NoRequest
    /\ request' = [request EXCEPT ![r] = NoRequest]
    /\ UNCHANGED <<tables, browser>>

----------------------------------------------------------------------------
\* logout() of the pages.
LogOut(b) ==
    /\ store[b] # NoToken
    /\ store' = [store EXCEPT ![b] = NoToken]
    /\ UNCHANGED <<tables, request, page>>

\* submitTask of the upload page: get_current_user, and a row for that user.
\* (How a task is created, and how that fails, is in CreateTask.)
Upload(b) ==
    /\ Valid(store[b])
    /\ \E t \in Tasks :
          /\ owner[t] = NoUser
          /\ owner' = [owner EXCEPT ![t] = store[b].sub]
          /\ page' = [page EXCEPT ![b] =
                         [task |-> t, by |-> store[b].sub, status |-> "uploaded"]]
    /\ UNCHANGED <<users, request, store>>

\* Mutant of Admitted: a token counts as expired a tick too early.
AdmittedEarly(k, t) == Valid(k) /\ k.left > 1 /\ owner[t] = k.sub

\* What the handlers of a task's row, stream, preview and output ask before
\* they answer: a token that is valid, of the task's user.
Admitted(k, t) == Valid(k) /\ owner[t] = k.sub

\* The upload page opens the stream of its task or fetches an image of it, with
\* the token its browser has by now.
ReadTask(b) ==
    LET t == page[b].task
        k == store[b]
    IN  /\ t # NoTask
        /\ page' = [page EXCEPT ![b].status = IF Admitted(k, t) THEN "shown" ELSE "denied"]
        /\ UNCHANGED <<tables, request, store>>

\* Mutant of Older: the age of an expired token is counted on.
OlderPast(k) == IF k = NoToken THEN k ELSE [k EXCEPT !.left = @ - 1]

\* Time passes, for tokens in browsers and for those on their way.
Older(k) == IF k = NoToken \/ k.left = 0 THEN k ELSE [k EXCEPT !.left = @ - 1]

Tick ==
    /\ store' = [b \in Browsers |-> Older(store[b])]
    /\ request' = [r \in Slots |->
                      IF request[r] = NoRequest THEN NoRequest
                      ELSE [request[r] EXCEPT !.token = Older(@)]]
    /\ UNCHANGED <<tables, page>>

Handle(r) ==
    \/ LookUp(r) \/ Insert(r) \/ InsertRefused(r) \/ CommitFails(r)
    \/ Verify(r) \/ StampLogin(r) \/ Deliver(r) \/ Lose(r)

Browse(b) ==
    \/ \E kind \in {"register", "login"}, c \in Credentials : Submit(b, kind, c)
    \/ LogOut(b) \/ Upload(b) \/ ReadTask(b)

Next ==
    \/ \E r \in Slots : Handle(r)
    \/ \E b \in Browsers : Browse(b)
    \/ Tick

Spec == Init /\ [][Next]_vars

----------------------------------------------------------------------------
\* The types; in particular a slot is free or holds a whole request.
TypeOK ==
    /\ users \in [Ids -> Rows \union {NoUser}]
    /\ owner \in [Tasks -> Ids \union {NoUser}]
    /\ request \in [Slots -> Requests \union {NoRequest}]
    /\ store \in [Browsers -> Tokens \union {NoToken}]
    /\ page \in [Browsers ->
                    [task : Tasks \union {NoTask}, by : Ids \union {NoUser},
                     status : {"blank", "uploaded", "shown", "denied"}]]

\* The accounts implement Registry: two forms with one address that are sent
\* at once make one account, its password is what the token was given for, and
\* neither commits that raise, lost answers, forms sent twice nor tokens that
\* reach a browser late or over another give anybody a session otherwise.
MemberCreds == {users[u].cred : u \in Members}
Session == [b \in Browsers |->
               IF Valid(store[b]) THEN users[store[b].sub].cred ELSE NoToken]
Waiting(b) == {r \in Slots : request[r] # NoRequest /\ request[r].browser = b}
Asking == [b \in Browsers |-> {request[r].cred : r \in Waiting(b)}]
Promise == INSTANCE Registry WITH
              NoSession <- NoToken, members <- MemberCreds,
              session <- Session, asking <- Asking
ImplementsRegistry == Promise!Spec

\* An upload page is denied the task it uploaded only if the browser's token has
\* expired or was removed or replaced since, by whichever of its pages: the
\* page reads localStorage again for every request.
DeniedForCause ==
    [][\A b \in Browsers :
          page[b].status # "denied" /\ page'[b].status = "denied" =>
             ~Valid(store[b]) \/ store[b].sub # page[b].by]_vars

\* "Complete user registration, login, and session management": who gives the
\* right password is let in.
LoginWorks ==
    \A r \in Slots :
       request[r].pc = "answered" =>
          ~(request[r].kind = "login" /\ Right(request[r].cred) /\ request[r].status = "500")
================================================================================
