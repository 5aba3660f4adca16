-------------------------------- MODULE Delivery -------------------------------
(***************************************************************************)
(* What the queue and the workers promise about the one message of a task, *)
(* without lists, attempts and processes: it is in one place at a time,    *)
(* is given back as often as inference fails, and is served at most once;  *)
(* what was served or is gone does not come back.                          *)
(***************************************************************************)
CONSTANTS
    Tasks,
    MayLose         \* whether messages that were sent may be lost

VARIABLE place      \* where each message is

Places == {"new", "queued", "held", "served", "gone"}

Init == place = [t \in Tasks |-> "new"]

Move(t, from, to) ==
    /\ place[t] = from
    /\ place' = [place EXCEPT ![t] = to]

Send(t)     == Move(t, "new", "queued")
Take(t)     == Move(t, "queued", "held")
GiveBack(t) == Move(t, "held", "queued")
Serve(t)    == Move(t, "held", "served")

\* Any number of messages are given up together, those that were not sent and,
\* if messages may be lost, those that were.
Lose ==
    /\ place' \in [Tasks -> Places]
    /\ \A t \in Tasks : place'[t] # place[t] =>
          /\ place'[t] = "gone"
          /\ place[t] \in {"new"} \union (IF MayLose THEN {"queued", "held"} ELSE {})

Next ==
    \/ \E t \in Tasks : Send(t) \/ Take(t) \/ GiveBack(t) \/ Serve(t)
    \/ Lose

Spec == Init /\ [][Next]_place
================================================================================
