------------------------------- MODULE TaskQueue -------------------------------
(***************************************************************************)
(* The Redis list "tasks:pending": LPUSH at one end, BRPOP at the other,   *)
(* so a FIFO queue, written here oldest message first.  BRPOP removes the  *)
(* message it returns: nothing acknowledges it later.                      *)
(***************************************************************************)
EXTENDS StudioTypes

VARIABLE queue      \* the payloads waiting, oldest first

QueueInit == queue = <<>>

Queued(t) == \E i \in DOMAIN queue : queue[i] = t

\* Mutant of Enqueue: the message is pushed at the end BRPOP takes from.
EnqueueAtHead(t) == queue' = <<t>> \o queue

\* enqueue(): Redis executes the LPUSH.  Its answer is still under way: whoever
\* awaits it goes on in a later step, when a worker may have the message.
Enqueue(t) == queue' = Append(queue, t)

\* The client library repeats the command, since it lost the answer.
EnqueueAgain(t) ==
    /\ "resend" \in Faults
    /\ Len(queue) < QueueBound
    /\ Enqueue(t)

\* Mutant of Dequeue: the message is read and left in the list.
DequeuePeeks(t) ==
    /\ queue # <<>>
    /\ t = Head(queue)
    /\ UNCHANGED queue

\* dequeue(): BRPOP returns the oldest message and forgets it.
Dequeue(t) ==
    /\ queue # <<>>
    /\ t = Head(queue)
    /\ queue' = Tail(queue)

QueueType == queue \in Seq(Tasks)

================================================================================
