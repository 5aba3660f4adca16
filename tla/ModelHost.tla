------------------------------- MODULE ModelHost -------------------------------
(***************************************************************************)
(* One BaseModel of a worker: calls of predict_async, which load the model *)
(* when it is not, and the detector of start_idle_detection, which unloads *)
(* it when it was not used for KeepAlive.  Both take _model_lock, which    *)
(* asyncio grants in the order of asking: `line` is that order, and its    *)
(* head has the lock.  The detector measures the idle time before it asks. *)
(*                                                                         *)
(* Times are kept as ages, which stop counting where nothing distinguishes *)
(* them any more, so the clock needs no bound.                             *)
(***************************************************************************)
EXTENDS Naturals, Sequences

CONSTANTS
    Callers,        \* attempts that may be inside predict_async
    Detector,       \* the task that runs start_idle_detection
    KeepAlive       \* _keep_alive_seconds

ASSUME HostAssumption ==
    /\ Detector \notin Callers
    /\ KeepAlive \in Nat

VARIABLES
    idleFor,        \* the clock minus _last_used_time
    loaded,         \* _is_loaded, and _model is not None
    line,           \* who asked for _model_lock and has not left it
    caller,         \* each caller: "idle", "waiting" for the lock, or "using"
    detector,       \* "due", "waiting" for the lock, "asleep", or "cancelled"
    idleTime,       \* idle_time, what the detector measured last
    sleepsFor       \* what is left of its sleep

vars == <<idleFor, loaded, line, caller, detector, idleTime, sleepsFor>>

\* Any age above KeepAlive is too old.
Ages == 0 .. KeepAlive + 1

Init ==
    /\ idleFor = 0
    /\ loaded = FALSE
    /\ line = <<>>
    /\ caller = [c \in Callers |-> "idle"]
    /\ detector = "due"
    /\ idleTime = 0
    /\ sleepsFor = 0

HasLock(p) == line # <<>> /\ Head(line) = p

Tick ==
    /\ idleFor' = IF idleFor > KeepAlive THEN idleFor ELSE idleFor + 1
    /\ sleepsFor' = IF sleepsFor = 0 THEN 0 ELSE sleepsFor - 1
    /\ UNCHANGED <<loaded, line, caller, detector, idleTime>>

\* predict_async is called and asks for the lock.
Call(c) ==
    /\ caller[c] = "idle"
    /\ detector # "cancelled"
    /\ caller' = [caller EXCEPT ![c] = "waiting"]
    /\ line' = Append(line, c)
    /\ UNCHANGED <<idleFor, loaded, detector, idleTime, sleepsFor>>

\* Mutant of Use: the lock is not waited for.
UseUnlocked(c) ==
    /\ caller[c] = "waiting"
    /\ caller' = [caller EXCEPT ![c] = "using"]
    /\ loaded' = TRUE
    /\ UNCHANGED <<idleFor, line, detector, idleTime, sleepsFor>>

\* It has the lock, loads the model if need be, and infers.
Use(c) ==
    /\ caller[c] = "waiting"
    /\ HasLock(c)
    /\ caller' = [caller EXCEPT ![c] = "using"]
    /\ loaded' = TRUE
    /\ UNCHANGED <<idleFor, line, detector, idleTime, sleepsFor>>

\* The model cannot be loaded.
LoadFails(c) ==
    /\ caller[c] = "waiting"
    /\ HasLock(c)
    /\ ~loaded
    /\ caller' = [caller EXCEPT ![c] = "idle"]
    /\ line' = Tail(line)
    /\ UNCHANGED <<idleFor, loaded, detector, idleTime, sleepsFor>>

\* Mutant of Return: the lock is not left when the call raises.
ReturnKeepsLock(c) ==
    /\ caller[c] = "using"
    /\ caller' = [caller EXCEPT ![c] = "idle"]
    /\ \/ idleFor' = 0 /\ line' = Tail(line)
       \/ UNCHANGED <<idleFor, line>>
    /\ UNCHANGED <<loaded, detector, idleTime, sleepsFor>>

\* The call is over; one that raised does not count as a use.
Return(c) ==
    /\ caller[c] = "using"
    /\ caller' = [caller EXCEPT ![c] = "idle"]
    /\ line' = Tail(line)
    /\ idleFor' \in {0, idleFor}
    /\ UNCHANGED <<loaded, detector, idleTime, sleepsFor>>

\* What the detector does with the lock: unload a model idle for too long,
\* then sleep for the rest of KeepAlive and one more, which is no time at all
\* when that is past.
Sweep(idle) ==
    /\ loaded' = (loaded /\ ~(idle > KeepAlive))
    /\ detector' = "asleep"
    /\ sleepsFor' = KeepAlive + 1 - idle

\* Mutant of Look: the lock is not waited for.
LookUnlocked ==
    /\ detector = "due"
    /\ idleTime' = idleFor
    /\ Sweep(idleFor)
    /\ UNCHANGED <<idleFor, line, caller>>

\* The detector measures the idle time and asks for the lock, which it gets
\* without a break when nobody has it.
Look ==
    /\ detector = "due"
    /\ idleTime' = idleFor
    /\ IF line = <<>>
       THEN Sweep(idleFor) /\ UNCHANGED line
       ELSE /\ detector' = "waiting"
            /\ line' = Append(line, Detector)
            /\ UNCHANGED <<loaded, sleepsFor>>
    /\ UNCHANGED <<idleFor, caller>>

\* It gets the lock later, and goes by what it measured before.
SweepLate ==
    /\ detector = "waiting"
    /\ HasLock(Detector)
    /\ Sweep(idleTime)
    /\ line' = Tail(line)
    /\ UNCHANGED <<idleFor, caller, idleTime>>

\* Mutant of Wake: the detector ends once there is no model to watch.
WakeOnlyIfLoaded ==
    /\ detector = "asleep"
    /\ sleepsFor = 0
    /\ detector' = IF loaded THEN "due" ELSE "over"
    /\ UNCHANGED <<idleFor, loaded, line, caller, idleTime, sleepsFor>>

\* The sleep is over.
Wake ==
    /\ detector = "asleep"
    /\ sleepsFor = 0
    /\ detector' = "due"
    /\ UNCHANGED <<idleFor, loaded, line, caller, idleTime, sleepsFor>>

\* shutdown(), when no call is left: the detector is cancelled, wherever it
\* waits, and stop() leaves the model loaded.
Shutdown ==
    /\ \A c \in Callers : caller[c] = "idle"
    /\ detector # "cancelled"
    /\ detector' = "cancelled"
    /\ line' = <<>>
    /\ UNCHANGED <<idleFor, loaded, caller, idleTime, sleepsFor>>

CallerStep(c) == Call(c) \/ Use(c) \/ LoadFails(c) \/ Return(c)

Next ==
    \/ \E c \in Callers : CallerStep(c)
    \/ Look
    \/ SweepLate
    \/ Wake
    \/ Tick
    \/ Shutdown

Spec == Init /\ [][Next]_vars

\* The clock runs, the event loop wakes the detector, and whoever has the
\* lock gets on; nobody has to call, and nobody has to shut down.
Fairness ==
    /\ WF_vars(Tick)
    /\ WF_vars(Look) /\ WF_vars(SweepLate) /\ WF_vars(Wake)
    /\ \A c \in Callers : WF_vars(Use(c) \/ LoadFails(c)) /\ WF_vars(Return(c))

FairSpec == Spec /\ Fairness

----------------------------------------------------------------------------
InLine(p) == \E i \in DOMAIN line : line[i] = p

TypeOK ==
    /\ idleFor \in Ages
    /\ loaded \in BOOLEAN
    /\ line \in Seq(Callers \union {Detector})
    /\ caller \in [Callers -> {"idle", "waiting", "using"}]
    /\ detector \in {"due", "waiting", "asleep", "cancelled"}
    /\ idleTime \in Ages
    /\ sleepsFor \in Ages

\* The lock is asked for by those that wait for it or hold it, once each, and
\* a call is using the model at the head of the line only.
LineOK ==
    /\ \A i, j \in DOMAIN line : line[i] = line[j] => i = j
    /\ \A c \in Callers : InLine(c) <=> caller[c] # "idle"
    /\ InLine(Detector) <=> detector = "waiting"
    /\ \A c \in Callers : caller[c] = "using" => HasLock(c) /\ loaded

\* The types, and who is in line for _model_lock: nobody is forgotten there,
\* and nobody stays there who is done, on any path out of `async with`.
HostInv == TypeOK /\ LineOK

\* "protect the model from being used and unloaded at the same time": a model
\* in use is loaded, and one call at a time uses it.
NeverUnloadedInUse ==
    /\ \A c \in Callers : caller[c] = "using" => loaded
    /\ \A c, d \in Callers : caller[c] = "using" /\ caller[d] = "using" => c = d

\* What the callers see of the host: who waits for the model, and who uses it.
Asking == {c \in Callers : caller[c] = "waiting"}
Using  == {c \in Callers : caller[c] = "using"}
ModelOf == INSTANCE ModelUse WITH
              Users <- Callers, asking <- Asking, using <- Using

\* The host implements ModelUse: with the detector in the same line, loads that
\* fail and calls that raise, its callers still have the model one by one.
HostImplementsUse == ModelOf!Spec

\* Nobody waits for the lock for ever: callers, loads that fail, calls that
\* raise and the detector hand it on in turn.
CallsEnd == \A c \in Callers : caller[c] = "waiting" ~> caller[c] = "idle"

\* A model nobody calls any more is unloaded in the end, although the detector
\* may have measured too early, overslept behind a call, or found the model
\* not loaded - unless the worker is shut down.
IdleIsUnloaded ==
    <>[](\A c \in Callers : caller[c] = "idle") =>
       <>[](~loaded \/ detector = "cancelled")
================================================================================
