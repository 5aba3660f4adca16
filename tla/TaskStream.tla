------------------------------- MODULE TaskStream ------------------------------
(***************************************************************************)
(* The progress stream GET /tasks/{id}/stream: a Redis subscription on the *)
(* channel of one task, relayed to the upload page as Server-Sent Events.  *)
(* Pub/sub keeps nothing: a message published while nobody is subscribed   *)
(* is gone, and the stream starts by telling PENDING without reading the   *)
(* row.                                                                    *)
(***************************************************************************)
EXTENDS StudioTypes

VARIABLES
    stream,         \* "none", "open", "ended" by a final status, or "cut"
    inbox,          \* messages published to the subscription, not yet relayed
    page            \* what the page shows: a status and the links it offers

Links == {"preview", "output"}

StreamInit ==
    /\ stream = [t \in Tasks |-> "none"]
    /\ inbox = [t \in Tasks |-> <<>>]
    /\ page = [t \in Tasks |-> [status |-> "NONE", links |-> {}]]

OpenStream(t) ==
    /\ stream[t] = "none"
    /\ stream' = [stream EXCEPT ![t] = "open"]
    /\ page' = [page EXCEPT ![t] = [status |-> "PENDING", links |-> {}]]
    /\ UNCHANGED inbox

\* subscribe() raises, or the page waits for an answer that is lost: it has no
\* EventSource, or closes the one it has, and never reconnects.
OpenStreamFails(t) ==
    /\ stream[t] = "none"
    /\ stream' = [stream EXCEPT ![t] = "cut"]
    /\ UNCHANGED <<inbox, page>>

Publish(t, v) ==
    /\ stream[t] = "open" => Len(inbox[t]) < InboxBound
    /\ inbox' = IF stream[t] = "open"
                THEN [inbox EXCEPT ![t] = Append(@, v)]
                ELSE inbox
    /\ UNCHANGED <<stream, page>>

\* Mutant of LinksOf: the output is offered together with the preview.
LinksOfBoth(v) == IF v = "FAILED" THEN {} ELSE Links

\* The links one message adds; response_data keeps those of earlier ones.
LinksOf(v) ==
    CASE v = "COMPLETED"  -> {"preview", "output"}
      [] v = "PROCESSING" -> {"preview"}
      [] v = "FAILED"     -> {}

\* Mutant of Final: the stream goes on after FAILED.
FinalCompletedOnly == {"COMPLETED"}

\* The statuses that end a stream.
Final == {"COMPLETED", "FAILED"}

\* One turn of the listen() loop; a final status unsubscribes and ends it,
\* and the page closes its side.
Relay(t) ==
    /\ stream[t] = "open"
    /\ inbox[t] # <<>>
    /\ LET v == Head(inbox[t])
       IN  /\ page' = [page EXCEPT ![t] =
                          [status |-> v, links |-> @.links \union LinksOf(v)]]
           /\ stream' = [stream EXCEPT ![t] = IF v \in Final THEN "ended" ELSE @]
           /\ inbox' = [inbox EXCEPT ![t] = IF v \in Final THEN <<>> ELSE Tail(@)]

\* The connection to the page or to Redis breaks, or the user leaves: the page
\* closes its EventSource here as well.
CutStream(t) ==
    /\ {"web", "redis"} \intersect Faults # {}
    /\ stream[t] = "open"
    /\ stream' = [stream EXCEPT ![t] = "cut"]
    /\ inbox' = [inbox EXCEPT ![t] = <<>>]
    /\ UNCHANGED page

StreamType ==
    /\ stream \in [Tasks -> {"none", "open", "ended", "cut"}]
    /\ inbox \in [Tasks -> Seq(Verdicts)]
    /\ page \in [Tasks -> [status : Statuses \union {"NONE"}, links : SUBSET Links]]

================================================================================
