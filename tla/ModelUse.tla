-------------------------------- MODULE ModelUse -------------------------------
(***************************************************************************)
(* What a model promises those who call it, without its lock: those who    *)
(* asked for it use it one at a time, and one who cannot is turned away    *)
(* only while nobody uses it.  ModelHost keeps this promise, and the       *)
(* workers of Orchestrator, which have no host, behave as it allows.       *)
(***************************************************************************)
CONSTANT Users

VARIABLES
    asking,         \* those who wait for the model
    using           \* those who use it

vars == <<asking, using>>

Init == asking = {} /\ using = {}

Ask(u) ==
    /\ u \notin asking \union using
    /\ asking' = asking \union {u}
    /\ UNCHANGED using

Enter(u) ==
    /\ u \in asking /\ using = {}
    /\ asking' = asking \ {u}
    /\ using' = {u}

TurnAway(u) ==
    /\ u \in asking /\ using = {}
    /\ asking' = asking \ {u}
    /\ UNCHANGED using

Leave ==
    /\ using' = {}
    /\ UNCHANGED asking

\* The process that has the model is gone, and all who called it.
Reset == asking' = {} /\ using' = {}

Next ==
    \/ \E u \in Users : Ask(u) \/ Enter(u) \/ TurnAway(u)
    \/ Leave
    \/ Reset

Spec == Init /\ [][Next]_vars
================================================================================
