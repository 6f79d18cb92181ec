-------------------------- MODULE MCLocalTaskQueue --------------------------
(***************************************************************************)
(* Instances of the two backends of the task queue for TLC: a behaviour is  *)
(* one of the spool (LocalTaskQueue) or one of the streams                  *)
(* (RedisTaskQueue), and the variables of the other stay as they were.     *)
(***************************************************************************)
EXTENDS LocalTaskQueue, RedisTaskQueue, TLC

CONSTANTS m1, m2

Order == m1 :> 1 @@ m2 :> 2

\* One message of high priority and one of low priority.
Streams == m1 :> 1 @@ m2 :> 3

VARIABLE part

QueuesInit == part \in {"spool", "redis"} /\ Init /\ RedisInit

Spooling  == part = "spool" /\ Next /\ UNCHANGED <<part, redisVars>>
Streaming == part = "redis" /\ RedisNext /\ UNCHANGED <<part, vars>>

QueuesSpec ==
  /\ QueuesInit /\ [][Spooling \/ Streaming]_<<part, vars, redisVars>>
  /\ Fairness /\ RedisFairness

\* Workers that go on consume every message, in the spool when files are not disturbed for
\* ever, and in the streams although answers are lost and workers crash.
QueuesDrain == Drains /\ Empties
=============================================================================
