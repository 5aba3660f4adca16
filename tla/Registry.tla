-------------------------------- MODULE Registry -------------------------------
(***************************************************************************)
(* What the accounts promise, without requests, tokens or tables: an       *)
(* address belongs for ever to whoever registered it first, under the      *)
(* password given then, and a browser has a session only after it was      *)
(* given the address and the password of a member.                         *)
(***************************************************************************)
CONSTANTS
    Browsers,
    Credentials,    \* records with an address (and a password)
    NoSession

VARIABLES
    members,        \* the credentials that were registered
    session,        \* in whose name a browser may act, NoSession if nobody's
    asking          \* the credentials each browser has sent and waits about

vars == <<members, session, asking>>

Init ==
    /\ members = {}
    /\ session = [b \in Browsers |-> NoSession]
    /\ asking = [b \in Browsers |-> {}]

Ask(b, c) ==
    /\ asking' = [asking EXCEPT ![b] = @ \union {c}]
    /\ UNCHANGED <<members, session>>

Join(b, c) ==
    /\ c \in asking[b]
    /\ \A m \in members : m.address # c.address
    /\ members' = members \union {c}
    /\ UNCHANGED <<session, asking>>

\* The browser stops waiting; if c is a member's it may have a session now.
\* (It may go on asking: a form can be sent twice.)
Answer(b, c) ==
    /\ c \in asking[b]
    /\ asking' \in {asking, [asking EXCEPT ![b] = @ \ {c}]}
    /\ \E s \in {session[b], NoSession} \union ({c} \intersect members) :
          session' = [session EXCEPT ![b] = s]
    /\ UNCHANGED members

\* Sessions end, on their own or when users leave.
End ==
    /\ session' \in [Browsers -> Credentials \union {NoSession}]
    /\ \A b \in Browsers : session'[b] \in {session[b], NoSession}
    /\ UNCHANGED <<members, asking>>

Next ==
    \/ \E b \in Browsers, c \in Credentials : Ask(b, c) \/ Join(b, c) \/ Answer(b, c)
    \/ End

Spec == Init /\ [][Next]_vars
================================================================================
