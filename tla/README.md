# A verification project for AI Photo Studio

AI Photo Studio takes an image from a user, queues a task for it, lets worker
processes run a neural network over it, and tells the user how far it has got.
The network is a published one; what the repository itself programs is what
surrounds it: a web server, a Redis list, any number of workers, a table, two
stores of images and a stream of messages, the accounts in front of them, and the
transforms an image passes through on its way to the network and back. Those are
modelled here in TLA+ and checked with TLC on small instances. Every safety
property that is checked is also proved with TLAPS, for every instance.

All source paths below are relative to `src/`.

## 1. Inventory

### Components, state and operations

| Component | Source | State | Operations |
|---|---|---|---|
| Task creation | `app/router/api/tasks.py:34-112` | where each request has got to | check, save the image, check parameters, queue, insert |
| Task queue | `app/core/queue.py`, `worker/db/queue_client.py` | the Redis list `tasks:pending` | LPUSH, BRPOP |
| Task table | `app/crud/task.py`, `worker/db/db_client.py` | `status` and `completed_at` per row | insert, update, read |
| Image stores | `app/core/storage.py` | files on the local disk, objects in the S3 bucket | save, read, exists |
| Storage provider | `app/core/dependencies.py:117-137`, `app/router/api/images.py` | the web server's one `_storage_service` | make it of the kind that is asked for first, hand it out |
| Progress stream and upload page | `tasks.py:161-236`, `app/templates/upload.html`, `worker/db/notification_client.py` | a subscription, undelivered messages, what the page shows | subscribe, publish, relay, end, break |
| Model orchestrator | `worker/models/model_orchestrator.py` | `task`, the semaphore, asyncio tasks, the running flag | fetch, infer, retry, completion callback, reports, shutdown |
| Model host | `worker/models/base.py`, `bgrm.py` | `_is_loaded`, `_model_lock`, `_last_used_time` | predict, load, detect idleness, unload |
| Transforms and result | `worker/models/u2net/transform.py`, `bgrm.py` | one image on its way | rescale, to tensor, predict, resize the mask, blend |
| Accounts and tokens | `app/router/api/auth.py`, `app/core/security.py`, `app/crud/user.py`, the ownership checks in `tasks.py` and `images.py` | the users, the owner of each task, requests under way | register, login, expiry, admit to a task |
| Login and register pages | `app/templates/login.html`, `register.html` | the token in `localStorage` | send a form, keep a token, log out |
| Redis client | `app/core/redis.py` | a pool of 20 connections | take one, give it back |
| U2Net network | `worker/models/u2net/u2net.py` | weights | infer |
| Rate limiting, task list, page routes, logging, metrics, wiring | the rest of `app/` | - | - |

### How they interact

The handler of `POST /tasks/create` saves the image through the storage
provider, pushes a payload on the Redis list and then inserts the row, with an
await between the steps. A worker's `run()` pops payloads in a loop and spawns an
asyncio task for each; those take a permit of a semaphore, then the lock of the
model, infer, save the result on the local disk (the *preview*), and put a copy
in S3 (the *output*). An exception pushes the payload again, and the asyncio task
goes on only when Redis has answered: by then another may have the payload. When an attempt is
over, a done-callback spawns a job that asks both stores for the result, derives
a verdict, and spawns two more jobs: one publishes the verdict on the Redis
channel of the task, one updates the row. The web server relays what is published
to the page that opened the stream. Pub/sub keeps nothing for those who are not
subscribed, and BRPOP forgets what it returned. Every open stream keeps a
connection of the one Redis client that pushes need too.

Registration and login run in threads of their own and meet in the table of
users. The token they answer with is kept by the browser and shared by all its
pages; each handler that shows a task compares it with the owner of the row.

### What is hard here

- Each worker is an event loop with many asyncio tasks; whatever is read before
  an await may be old after it. The callback of `run()` even closes over the loop
  variable, so its verdict is about the task that was fetched last.
- The order *queue, then insert* lets workers overtake the web server.
- Errors of the stores are swallowed: `save()` returns False to callers that do
  not look, and `exists()` takes every error for "not there".
- Messages are lost by crashes (BRPOP), by a stop request that cancels a BRPOP
  Redis had answered, and by publishing to nobody, and repeated by retries and by a
  client library that repeats commands.
- Shutdown waits for some of the asyncio tasks only.
- Which store the web server has depends on who asks first: a route's dependencies
  are resolved before its handler looks at anything, and `storage_type` is a
  parameter of the query besides.
- Connections that a subscription takes are given back by nobody.
- Two registrations of one address may both find it free; an answer may be lost
  after the account was made, arrive late, or bring a token over another one.
- The transforms take whatever `imread` makes of an allowed file, and turn sizes
  into shapes and floats into bytes.

### What makes each component correct

- Queue and orchestrator: a payload is in one place; it is lost only when Redis
  or a process fails, or together with a stop request, and then only the one BRPOP
  was about to hand over; permits and the lock are accounted for on every path; what
  has been rendered is not rendered again; every attempt ends.
- Table, stream, page: nothing is said that is not true of the stores, however
  late, twisted or repeated; links that are offered work.
- Model host: a model in use is loaded and used by one; nobody waits for its lock
  for ever; an idle model is unloaded in the end.
- Accounts: an address belongs to whoever registered it first; a session is had
  only by who gave its password; a page is denied its task only for a cause.
- Redis client: a stream is refused only while others need the connections.
- Transforms: the result has the size of the upload, colour images are served,
  and no entry wraps around.

The hazards of the code, each at its line and with the properties that are aimed
at it, are listed in `PROJECT.json`.

## 2. Modules

```
StudioTypes            tasks, workers, attempts, faults; statuses
  TaskQueue            the Redis list
  TaskTable            the table
  ImageStore           local disk and S3
    StorageProvider    the web server's _storage_service
  TaskStream           subscription, messages, page
  RedisPool            the connections of the web server's Redis client
CreateTask             = TaskQueue + TaskTable + StorageProvider + RedisPool,
                       POST /tasks/create
Orchestrator           = TaskQueue + TaskTable + ImageStore + TaskStream, the workers
PhotoStudio            = CreateTask + Orchestrator, the service and its properties
TaskLedger             what the service promises of a task, abstractly
Delivery               what it promises of a message, abstractly
ModelUse               what a model promises its callers, abstractly
StudioClaims           what comments and the README say and the code does not do
StudioProofs           theorems about PhotoStudio: types, and what is said of tasks
  DeliveryProofs       theorems about messages, locks and permits
    LedgerProofs       PhotoStudio implements TaskLedger
    QueueProofs        order and number of messages; PhotoStudio implements Delivery
    ServiceProofs      permits and lock together; PhotoStudio implements ModelUse
ModelHost              a model, its lock and its idle detector
ModelHostProofs        theorems about ModelHost; it implements ModelUse
Registry               what the accounts promise, abstractly
Accounts               register, login, tokens, who may see which task
AccountsProofs         theorems about Accounts; it implements Registry
Inference              one image through the transforms and the network
InferenceProofs        theorems about Inference
MCPhotoStudio, MCModelHost, MCAccounts   instances for TLC
```

### State and code

- `queue`: the payloads in the Redis list, oldest first. A payload is a task id:
  what else is in it never changes.
- `row`, `completedAt`: the status of a task's row ("NONE" while there is none)
  and whether `completed_at` is set. `UpdateRow` does nothing without a row, as
  `crud.update_task` does.
- `uploads`, `previews`, `outputs`: the tasks whose input image and whose result
  are on the local disk, and whose result is in S3. Paths are derived from one
  key in the code, so a set of tasks per kind of file is enough.
- `provider`: the kind of the web server's `_storage_service`. `Ask` is a call of
  `get_storage_service`, `AskAny` one without an argument, for which the query or
  the environment says what kind it is (`StorageTypes` are the kinds a run lets them
  say). An upload asks, also one that is refused, and so does every request for an
  image (`ViewPreview`, `ViewOutput`), whatever it names: they are allowed from the
  first state on, and `Fetched` says which of them a run has. Workers have one store
  of each kind of their own and do not see the provider.
- `stream`, `inbox`, `page`: the subscription of a task's stream, what was
  published to it and not relayed yet, and the status and links the page shows.
- `req`: how far the request that creates the task has got: "saved" the image,
  "queued" the payload and waiting for Redis' answer, "created" the row, or
  "refused".
- `held`: the connections of the web server's Redis client that subscriptions
  have taken, of `PoolSize`. A push takes one for the time of a command, so
  `MayBeExhausted` counts the other handlers that may be pushing as well.
- `mode`, `current`, `permits`, `locked`: per worker, whether it runs, the local
  variable `task` of `run()`, the semaphore's counter, and the model's lock.
- `job`: a slot per asyncio task a worker spawned, with everything that follows
  from it: the coroutine ("waiting" for a permit, "ready", "uploading",
  "retrying", and "pushed" while it awaits the answer to the push of its payload,
  which it does not have any more), the end of the coroutine whose callback has not
  run ("finished"), the completion job ("posted" by the callback, then "checking"
  while S3 is asked) and the two reports ("reporting", with `todo` naming those that
  are left). An action is the code between two awaits; a push takes two, since
  Redis executes it before the coroutine hears of it.

The model's inference is one action: from taking the lock to the saved preview
there is no await at which anything else could see the difference (loading and
`save_output` are `async` but never suspend). The awaits after it (reading the
preview back, the put) are a second action.

In `ModelHost` the queue of waiters of `_model_lock` is a sequence whose head has
the lock: asyncio grants it in the order of asking. Times are kept as ages
(how long since the last use, how much sleep is left) that saturate one above
`KeepAlive`, so the clock needs no bound.

Three abstract modules say what the state above is for. `TaskLedger` knows of a
task what was made, listed and shown. `Delivery` knows where its message is: not
sent, queued, held, served, or gone. The place is read off the queue and the
attempts first, so that a message that comes back after its preview was made shows
as a step no message may take. `ModelUse` knows who asks for a model and who uses
it. It is implemented twice: by `ModelHost`, with the lock's line of waiters and
the idle detector, and by the attempts of each worker in `PhotoStudio`, which see
of the lock only whether it is held. That is why `PhotoStudio` does without the
host: its attempts use a model in no way the host does not allow. That a caller is
let in at last is `CallsEnd` of the host, and fairness here.

In `Accounts`, `users` and `owner` are the two tables as far as they matter here,
`request` is a slot per form under way (sent, found absent or verified, answered),
`store` the token in each browser, and `page` which task its upload page is about
and whether it was shown or denied it. A token is its subject and how
much of its life is left. Password hashes and signatures are taken to do what
they are for: the right password verifies, and only the server makes tokens.

In `Inference` an array is its shape and its entry at one position, any one, so
that what holds of the entry holds of all. `image` is what `imread` returns,
`sample` the array the transforms make of it, `mask` the prediction (multiples of
1/`Depth`, or NaN) and `result` what `save_output` writes. The network is a
function from a square to a square of the same side of which nothing else is
known. Images for which the transforms raise are what `Unreadable` stands for in
`PhotoStudio`: they are retried like those a model failed for once.

### Faults

`Faults` says which faults a run lets happen: `disk`, `s3`, `db`, `redis` (a
command fails, executed or not), `resend` (a client library repeats a push),
`pop` (a popped message does not arrive), `inference`, `crash` (a worker process
dies in any step and is started again), `restart` (the same of the web server),
`stop` (a worker is told to stop, and takes the message with it that BRPOP had
popped for it by then), `web` (a stream breaks, or an answer is lost, for which a
push of metrics that raises is enough: the middleware makes it after the handler is
done). The step `Stop` stands for the moment Redis is rid of the BRPOP that was
cancelled: until then it may pop for a worker that does not listen any more, while
that worker's attempts go on as before.
`Accounts` has two faults of its own: `db` (a commit raises, executed or not) and
`lost` (an answer does not arrive).

Tasks in `UnknownType` are those of a type no worker registered: the upload page
offers three types and `worker/main.py` registers one. Tasks in `Unreadable` are
those whose image the transforms do not take.

## 3. What the runs check

Bounds common to the runs of the service: `Attempts` limits how many asyncio tasks are
alive at once (the code has no limit; a slot is reused when its attempt is over,
so the number of retries and attempts over time is unlimited). `InboxBound` limits
messages waiting in one stream, `QueueBound` the length a repeated push may make
the queue. Two tasks are enough for one to be judged in place of the other, for
retries to interleave with first attempts, and for FIFO order to matter; two
attempts are enough for every race between two of them, for one to hold the permit
and lock the other waits for, and for a task to be served by two workers at once.
A `PoolSize` of 1 makes a single stream exhaust the pool, as 20 do in the code.
Neither attempts nor workers have an identity, nor have browsers, request slots
and ids, so runs of safety properties use symmetry over them; runs with a liveness
property do not. What is beyond these bounds is left to the proofs, which have
none. `CHECK_DEADLOCK FALSE` is set for the service and for `Inference`, which
really do come to rest: all tasks served and all pages told, the image saved.
`ModelHost` and `Accounts` have a clock that never rests and are checked for
deadlock.

| Run | Instance | Shows |
|---|---|---|
| `studio_web` | 2 tasks (1 of unknown type, the other watched), 1 worker, 2 attempts, 2 permits, 1 connection, `QueueBound` 1, images fetched; `resend`, `restart`, `db`, `web` | `NoMessageLost`, `NeverAhead`, `LinksWork`, `ImplementsLedger` |
| `studio_workers` | 2 tasks, 2 workers, 2 attempts, 2 permits, uploads that name either store; `redis`, `crash`, `pop`, `db`, `s3`, `disk` | `TypeOK`, `SingleMessage`, `NeverAhead`, `CompletionStamped`, `PermitsBalanced`, `ModelInUseOnce`, `RenderedOnce`, `WorkBounded`, `SomebodyGoesOn`, `ImplementsDelivery`, `ImplementsUse` |
| `studio_liveness` | 2 tasks (1 with an image no transform takes), 1 worker, 2 attempts, 1 permit, outputs fetched; `stop`, `inference` | `SomebodyGoesOn`, `ServedInTurn`, `StopLosesOne`, `KnownTaskServed`, `AttemptsEnd`, `DrainEnds` |
| `model_host` | 3 calls, `KeepAlive` 3 | `HostInv`, `NeverUnloadedInUse`, `CallsEnd`, `IdleIsUnloaded`, `HostImplementsUse` |
| `accounts` | 2 browsers, 2 forms at a time, 3 credentials for 2 addresses, 2 ids, 1 task, `Lifetime` 1; `db`, `lost` | `TypeOK`, `DeniedForCause`, `ImplementsRegistry` |
| `inference` | every shape up to 3 by 3, with 1 or 2 frames, entries between the extremes, `Side` 4, masks in quarters | `SizeKept`, `ColourServed`, `Whitened` |

In words:

- `SingleMessage`: unless pushes are repeated, a task's payload is in the queue
  once or held by one attempt of one worker, never both.
- `NoMessageLost`: unless Redis or a process fails or a worker is stopped, a payload
  is queued or held until its preview exists, across raising attempts, repeated
  pushes, failed writes, lost answers and restarts of the web server.
- `StopLosesOne`: a stop request may lose a payload, but only the one at the head of
  the queue, in the step of the request. What a stopping worker holds, or pushes
  back while `shutdown()` waits, is not lost.
- `PermitsBalanced`, `ModelInUseOnce`: semaphore and lock are accounted for.
- `RenderedOnce`: no retry follows once a preview exists.
- `ImplementsDelivery`: the service implements `Delivery`: a message is sent once,
  only who holds it gives it back, it is gone only if a fault explains it, and
  what was served or lost does not come back.
- `WorkBounded`: retries make no work. Unless pushes are repeated, the payloads in
  the queue and the coroutines that carry one, which `run()` spawns without a limit,
  are together never more than the requests that were made. The coroutines that
  await the answer to a push come on top of that, since their payload may be with
  another already; a worker has no more of those than permits.
- `ServedInTurn`: unless pushes are repeated, nothing gets ahead of a message that
  waits. Together with `WorkBounded` this bounds what a task that can never succeed
  costs the others: it is in front of each of them once.
- `SomebodyGoesOn`: of the coroutines of a worker one can always go on, also while
  `shutdown()` gathers them. Two permits are needed to see it: one attempt waits
  for the model and another has it.
- `ImplementsUse`, `HostImplementsUse`: attempts and host implement `ModelUse`. For
  the workers it is stated as the initial condition and the step of each, because
  TLC takes no temporal formula under a quantifier.
- `NeverAhead`: COMPLETED is never said before the S3 object exists, PROCESSING
  never before the local one: in a verdict under way, a row, a message or a page.
- `CompletionStamped`: a row that says COMPLETED has `completed_at`, and a task
  that has it can be downloaded, even after its status went back.
- `LinksWork`: an output link works whichever kind of store the web server's
  provider has become; a lone preview link works unless that is S3.
- `ImplementsLedger`: the service implements `TaskLedger`: work never goes
  backwards, statuses lag behind it but are never ahead, and a page is told
  nothing after a final status.
- `KnownTaskServed`: a good task is served although models fail now and then and
  a task that can never succeed is retried in the same queue for ever.
- `AttemptsEnd`, `DrainEnds`: no await waits for ever, and a stopping worker stops.
- `HostInv`, `NeverUnloadedInUse`, `CallsEnd`, `IdleIsUnloaded`: the lock of a
  model, as section 1 wants it. The last exempts a host that is shut down, because
  `stop()` unloads nothing and the process ends. That the detector may unload a model
  used a moment ago violates none of them.
- `ImplementsRegistry`: the accounts implement `Registry`: one account per address
  however many forms are under way, and a session only for who gave the password
  the account was registered with, also when answers are lost, late or doubled.
- `DeniedForCause`: a page is denied its own task only after the token it was
  uploaded with expired, was removed or was replaced.
- `SizeKept`: the result has the size of the upload, although the mask passes
  through a square, through sizes written the other way round and through
  broadcasting, which makes do with many a wrong shape.
- `ColourServed`: no colour image, with or without alpha, makes the transforms raise.
- `Whitened`: the background becomes 255, the rest is kept, and nothing in between
  wraps around in the cast to a byte. Where the mask is NaN (a prediction that is
  the same everywhere has no range to divide by) nothing is claimed.

The instances of `accounts` and `inference` are small for the same reason: two
forms make every race between look-up and insert, three credentials have both a
wrong password and a second address, tokens of one tick are valid and expired;
three rows and columns tell height from width and both from the one channel of a
mask, and four channels from three.

### Claims the code does not keep

Each of these runs states what a comment or the repository's README says and ends
in a counterexample; `PROJECT.json` quotes the lines under `findings`.

| Run | Claim | What happens |
|---|---|---|
| `claim_failed` | only failures are FAILED | the callback judges the task fetched last, so a task that waits its turn is listed FAILED without any fault |
| `claim_stream` | live progress | the only message is published before the page subscribes |
| `claim_storage` | the upload is stored locally | a request for any output path comes first, the provider becomes S3 for everyone, and the next upload is put where no worker looks for it |
| `claim_pool` | a stream is closed after its final status | the server's side unsubscribes but keeps its connection, and the next stream is refused |
| `claim_login` | login works | a log line reads a name only `register` has: the right password is answered with 500 |
| `claim_gray` | gray images are blended | `ToTensorLab` raises for them first, and they are retried for ever |

None of them takes a fault. Also seen while reading, and in the models without a run
of their own: FAILED is reported while the retry is already queued; an older verdict
may overwrite a newer one; PROCESSING stays for good after a put that failed; reports
are cancelled with the event loop at shutdown; a stop request may lose a message; a
task whose insert failed is served although its user was told 500; the idle detector
measures before it waits for the lock and may unload a model used just now;
`shutdown()` says "Unload all models" and unloads none. `TaskLedger` allows what is
said of a task to go back, since the code does it: it is no guard against the first
two.

### Fairness

`FairSpec` of `PhotoStudio` assumes that the event loop runs what is ready (weak
fairness for each attempt, stream, request to insert, BRPOP timeout and exit),
and that semaphore, lock and Redis' list of blocked BRPOPs serve in the order of
asking (strong fairness for `AcquirePermit`, `RunInference`, `Fetch`). asyncio's
`Semaphore` and `Lock` keep a FIFO of waiters and Redis serves the client that has
waited longest, which is where strong fairness comes from. `Fetch` is disabled
otherwise only by the bound on attempts, which the code does not have. For
`RunInference` it says in addition that a model does not raise for ever for an
image it can take. Nothing is assumed of other faults, of stops and restarts, of
users, or of images being viewed.
`FairSpec` of `ModelHost` assumes that the clock runs, that whoever has the lock
goes on, and that the detector is woken; nobody has to call or to shut down.

## 4. What is proved

`tlapm` checks the theorems for every value of the constants that satisfies
`StudioAssumption`, `HostAssumption`, `AccountsAssumption` or
`InferenceAssumption` (no permits fewer than one, `None` is not a task, images of
8 bits, and the like). The numbers of tasks, workers, attempts, permits, calls,
browsers and forms are arbitrary; only the set of attempts is assumed finite.

`StudioProofs`:

- `Typed`: `Spec => []TypeOK`. `TypeOK` is inductive: `TypeInit`, and `TypeStep`
  with a step for each group of actions. `JobsType` is more than the shape of
  records: a slot is free, or has a worker and a task and, once there is a
  verdict, a task the verdict is about. Without it nothing could be said of the
  functions that are updated at `job[a].worker` or `job[a].subject`.
- `ServiceHonest`, `LinksServed`, `StampedRight`: `NeverAhead`, `LinksWork` and
  `CompletionStamped` are invariants. None of them is inductive alone: a row gets
  the verdict of an attempt, a page that of a message, an output is put by an
  attempt that must have made its preview. `HonestInv` adds these: verdicts under
  way are true (`VerdictsHonest`), an attempt that uploads has rendered
  (`UploadsRendered`), links are backed by objects whatever the provider is
  (`LinksBacked`), and results are made in order (`MadeInOrder`). The argument is
  that stores only grow (`StoresGrow`), so what was true when a verdict was taken
  is true whenever it is written. The lemmas `TableSteps`, `StoreSteps`,
  `PageSteps` and `JobSteps` say which actions change which variables; each part
  of the invariant then has a lemma of its own (`StoresStep`, `UploadsStep`,
  `VerdictsStep`, `RowsStep`, `PagesStep`) with the cases that matter to it.

`DeliveryProofs`:

- `MessageSingle`, `InferredOnce`: `SingleMessage` and `RenderedOnce`, which only
  hold together: a retry may push because what it holds is not queued, and an
  attempt may render because nobody else has the message. `DeliveryInv` joins
  them. `Pushed` and `Popped` say what the two ends of the list do to a sequence
  without repetitions, and `MessageSteps` splits `Next` into those that push
  (`EnqueueStep`, `RetryStep`), pop (`PopStep`), render (`RenderStep`) and leave
  messages alone (`QuietStep`).
- `MessageKept`, `StopLoss`: `NoMessageLost` and `StopLosesOne`, both from `KeptStep`:
  of all steps that Redis and processes that do not fail can take, only a stop
  request that pops a payload loses it. What it needs is that an attempt past its
  inference has its preview (`UploadsRendered` of `StudioProofs`).
- `ModelExclusive`: `ModelInUseOnce`, inductive with the types.
- `PermitsKept`: `PermitsBalanced`, an equation about a cardinality: every action
  leaves the set of holders of a worker alone, adds one to it or takes one from it
  (`HolderSteps`, `AttemptHolders`) exactly as it changes the semaphore, and a
  crash empties the set as it resets the semaphore.

`QueueProofs`:

- `TurnsKept`: `Spec => ServedInTurn`. `QueueMoves` says that a step pops the
  oldest message, or pushes one that is nowhere, or leaves the queue alone; that
  needs `DeliveryInv`, for a second copy of a message would have others ahead of it.
- `WorkCounted`: `WorkBounded`. The queue without repetitions maps into the tasks
  that are queued, the coroutines that carry a payload into those that are held, no
  task is both, and all of them were begun; the counts follow from injections between
  finite sets (`QueueCounted`, `CarryingCounted`). Coroutines that await an answer
  still hold a permit, so `PermitInv` counts them (`AwaitingCounted`).
  `CountInv` adds to `DeliveryInv` that finitely many requests were begun, so `Tasks`
  itself may be infinite.
- `DeliveryImplemented`: `Spec => Messages!Spec`, a refinement. `PlaceInv` joins
  `HonestInv` and `OneMessage`; under it a place can be read off the state
  (`PlaceOf`, `PlaceThen`). The steps that move a message have a lemma each
  (`SendStep`, `TakeStep`, `ServeStep`, `GiveBackStep`, `DropStep`, `EndStep`),
  and `AttemptPlaces` shows that the others do not. The theorem assumes that
  `resend` is not among the faults: a repeated push puts a message in two places,
  for which `Delivery` has no word. (What holds of resent messages, `NoMessageLost`
  and everything that is said of tasks, is proved without that assumption.)

`ServiceProofs`:

- `SomebodyAlwaysGoesOn`: `SomebodyGoesOn` follows from `LockInv` and `PermitInv`
  (`NoDeadlock`). Who waits for a permit waits for somebody who has one, because
  the balance of permits leaves no other place for them; who waits for the model
  waits for the one inside; and that one waits for neither.
- `UseImplemented`: `ImplementsUse`, from `LockInv`: the lock is held exactly while
  somebody is inside, so whoever takes it, or is turned away at it, finds nobody.

`LedgerProofs`:

- `LedgerImplemented`: `Spec => Ledger!Spec`. `LedgerInv` is `HonestInv` with two
  facts more: a row is there after its request inserted it and not before
  (`RowOfRequest`), and a page follows its stream (`PageOfStream`). Every step is
  then one of the ledger's `Accept`, `Render`, `Store`, `List`, `Open`, `Show`, or
  changes nothing of what the ledger knows.

`ModelHostProofs`:

- `HostCorrect`: `Spec => []HostInv`: the line for the lock has exactly those
  that wait for it or hold it, once each, and only its head uses the model.
  `JoinLine` and `TailOfLine` say what joining and leaving do to a line without
  repetitions.
- `HostSafe`: `Spec => []NeverUnloadedInUse`, from `HostInv`.
- `HostUseImplemented`: `Spec => HostImplementsUse`, a refinement: who asks is who
  is in the line without using the model, and a grant finds the model free.

`AccountsProofs`:

- `Typed`, `DeniedOnlyForCause`: `TypeOK` and `DeniedForCause`. For the latter, a
  page's task is owned by the account it was uploaded under, and owners never
  change.
- `RegistryKept`: `Spec => Promise!Spec`. `AccountInv` says that a token is for a
  member (`StoreBacked`) and that one on its way to a browser is for the credentials
  that browser sent (`AnswersBacked`). Each step is then one of `Ask`, `Join`,
  `Answer`, `End`, or none; the look-up in `register` plays no part in it, the
  unique index does.

`InferenceProofs`:

- `SizesKept`, `ColoursServed`: `SizeKept` and `ColourServed`, from `ShapesInv`,
  which ties the shape of the arrays at each stage to the upload's. `MaskFits` shows
  that broadcasting only ever stretches the mask's last, single channel.
- `BackgroundWhitened`: `Whitened`, for masks of any fineness. `EntriesInv` bounds
  entry and mask; `BlendBounds` is the arithmetic of `Blended`, from the property
  of integer division that `Quotient` states.

All safety properties of the passing runs, action properties and refinements
included, are thus proved.
Only model-checked are `KnownTaskServed`, `AttemptsEnd`, `DrainEnds`, `CallsEnd` and
`IdleIsUnloaded`: the prover has no rules for fairness and ENABLED. No module has a
recursive definition.

## 5. What is not modelled, and the plan

Not modelled and why:

- the U2Net network: a copy of a published one, numerical throughout. `Inference`
  assumes of it the sizes only;
- `ToTensorLab` with flags 1 and 2, and `delete()` of the stores: nobody calls them;
- rate limiting: the algorithm is in a library, the repository sets two numbers;
- the Redis pool of a worker, whose two clients give back what they take, and the
  session pool of SQLAlchemy: a stream keeps its session like its Redis
  connection, but the version of the framework decides when it is closed;
- logging, metrics, application wiring, validation schemas, the task list page and
  other read-only queries: no state. That a metrics push that raises loses an
  answer is modelled (`AnswerLost`, `Lose`);
- the content of payloads and of images beyond one entry, hashing and signatures.

Left to ordinary tests: a file too large is answered with 500
(`app/router/api/tasks.py:110`), and the task list page asks for a field the
response no longer has (`app/templates/tasks.html:293`), so a finished task
cannot be downloaded from it.

Done, in this order: `StudioTypes` and the four modules of shared state;
`CreateTask`, `Orchestrator` and `PhotoStudio` with `TaskLedger`; `ModelHost`;
types and honesty proved; `StorageProvider`; `Accounts` with `Registry`;
`RedisPool`; `Inference`; delivery, locks, permits and both refinements proved;
`Delivery` and `ModelUse` with their refinements, order and number of messages,
freedom from deadlock and what a stop may lose proved.

To come:

1. The sessions of SQLAlchemy, once it is settled when a stream gives its back.
2. How long a stopping worker may take, in steps: with `WorkBounded` it is a
   number that could be stated without fairness.
