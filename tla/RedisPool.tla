-------------------------------- MODULE RedisPool ------------------------------
(***************************************************************************)
(* The connections of the web server's one Redis client.  A command takes  *)
(* one and gives it back; a subscription takes one, and nobody closes it:  *)
(* not the stream that told its last status, and not the one that broke.   *)
(* A client that has none left raises at once.                             *)
(***************************************************************************)
EXTENDS StudioTypes

VARIABLE held       \* the connections that subscriptions have taken

PoolInit == held = 0

\* subscribe() of a new pubsub().
TakeConnection ==
    /\ held < PoolSize
    /\ held' = held + 1

\* None is left, as long as the given number of commands is under way.
MayBeExhausted(commands) == held + commands >= PoolSize

\* A new web process has a new client.
NewPool == held' = 0

PoolType == held \in Nat
================================================================================
