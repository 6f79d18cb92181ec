--------------------------- MODULE RedisTaskQueue ---------------------------
(***************************************************************************)
(* The redis backend of portrait_task_queue: a message is an entry of one of *)
(* three streams, by its priority, that a consumer group reads.  An entry    *)
(* that was read is pending until it is acknowledged, and another worker     *)
(* takes it when it has been idle for the visibility timeout.  One call of    *)
(* redis is one step, and its answer may be lost.                            *)
(***************************************************************************)
EXTENDS QueueParameters

CONSTANTS
  Bucket,      (* the stream of a message: 1 for high priority, 2, 3 for low *)
  RedisFaults  (* bound on lost answers, stalls and crashes                  *)

ASSUME RedisFaultsAssumption == RedisFaults \in Nat

VARIABLES
  entry,  (* the id of the entry of each message, or 0                     *)
  next,   (* the next id                                                   *)
  seen,   (* messages that the group has delivered                         *)
  idle,   (* the pending entries: none, fresh or stale                     *)
  producer, (* where the producer of each message is                       *)
  at,     (* where each worker is                                          *)
  stage,  (* the stream it asks next                                       *)
  about,  (* the message each worker is about, or None                     *)
  beat,   (* the message whose lease it is about to renew, or None         *)
  gone,   (* messages that were acknowledged                               *)
  rest    (* what is left of RedisFaults                                   *)

redis == <<entry, next, seen, idle>>
redisVars  == <<redis, producer, at, stage, about, beat, gone, rest>>

Lost   == rest > 0 /\ rest' = rest - 1
Answered == UNCHANGED rest

Pending(m, how) == idle' = [idle EXCEPT ![m] = how]
Deleted(m)      == entry' = [entry EXCEPT ![m] = 0]

\* What a worker may still get: what nobody has read, and what is pending.
Deliverable(m) == entry[m] # 0 /\ (m \notin seen \/ idle[m] # "none")

-----------------------------------------------------------------------------
(* The producer.                                                           *)
ProducerAt(m, p, q) == producer[m] = p /\ producer' = [producer EXCEPT ![m] = q]
Producer == UNCHANGED <<at, stage, about, beat, gone>>

Added(m) == entry' = [entry EXCEPT ![m] = next] /\ next' = next + 1

\* enqueue: the answer may be lost, after the entry was added or before.
Enqueue(m) ==
  /\ \/ ProducerAt(m, "new", "ok") /\ Added(m) /\ Answered
     \/ ProducerAt(m, "new", "failed") /\ Added(m) /\ Lost
     \/ ProducerAt(m, "new", "refused") /\ UNCHANGED <<entry, next>> /\ Lost
  /\ UNCHANGED <<seen, idle>> /\ Producer

\* remove, by a producer that rolls back: it is acknowledged, and then deleted.
Withdraw(m) ==
  /\ ProducerAt(m, "ok", "removing") /\ Lost
  /\ Pending(m, "none")
  /\ UNCHANGED <<entry, next, seen>> /\ Producer

Delete(m) ==
  /\ ProducerAt(m, "removing", "removed")
  /\ (Deleted(m) /\ Answered) \/ (UNCHANGED entry /\ Lost)
  /\ UNCHANGED <<next, seen, idle>> /\ Producer

-----------------------------------------------------------------------------
(* A worker.                                                               *)
WorkerAt(w, p, s, m) == at' = [at EXCEPT ![w] = p] /\ stage' = [stage EXCEPT ![w] = s] /\ about' = [about EXCEPT ![w] = m]
Rest(w) == WorkerAt(w, "idle", 1, None)

FirstEntry(m, S) == m \in S /\ \A n \in S : entry[m] <= entry[n]

\* XAUTOCLAIM of a stream: the first entry that is idle for long enough.  Those that
\* were deleted meanwhile are no longer pending.
Stale(s) == {m \in Messages : Bucket[m] = s /\ idle[m] = "stale" /\ entry[m] # 0}
Swept(s) == [m \in Messages |-> IF Bucket[m] = s /\ idle[m] = "stale" /\ entry[m] = 0 THEN "none" ELSE idle[m]]

\* What is waiting in a stream for its first reader.
Waiting(s) == {m \in Messages : Bucket[m] = s /\ entry[m] # 0 /\ m \notin seen}

\* claim: the streams are asked one after the other, first for what is idle, and then for
\* what is new.
Start(w) ==
  /\ at[w] = "idle" /\ \E m \in Messages : Deliverable(m)
  /\ WorkerAt(w, "reclaim", 1, None)
  /\ UNCHANGED <<redis, producer, beat, gone>> /\ Answered

NextStream(w) ==
  IF stage[w] < 3 THEN WorkerAt(w, at[w], stage[w] + 1, None)
  ELSE IF at[w] = "reclaim" THEN WorkerAt(w, "read", 1, None) ELSE Rest(w)

\* Mutant: an entry is taken whether its lease is over or not.
ReclaimAtOnce(w) ==
  /\ at[w] = "reclaim"
  /\ LET s == stage[w]
         T == {m \in Messages : Bucket[m] = s /\ idle[m] # "none" /\ entry[m] # 0} IN
     \/ /\ T = {} /\ idle' = Swept(s) /\ NextStream(w) /\ Answered
     \/ \E m \in T : FirstEntry(m, T) /\ idle' = [Swept(s) EXCEPT ![m] = "fresh"] /\ WorkerAt(w, "work", 1, m) /\ Answered
     \/ NextStream(w) /\ Lost /\ UNCHANGED idle
  /\ UNCHANGED <<entry, next, seen, producer, beat, gone>>

\* A call that fails is passed over, although it may have taken an entry.
Reclaim(w) ==
  /\ at[w] = "reclaim"
  /\ LET s == stage[w] IN
     \/ Stale(s) = {} /\ idle' = Swept(s) /\ NextStream(w) /\ Answered
     \/ \E m \in Messages :
          /\ FirstEntry(m, Stale(s)) /\ idle' = [Swept(s) EXCEPT ![m] = "fresh"]
          /\ (WorkerAt(w, "work", 1, m) /\ Answered) \/ (NextStream(w) /\ Lost)
     \/ NextStream(w) /\ Lost /\ UNCHANGED idle
  /\ UNCHANGED <<entry, next, seen, producer, beat, gone>>

\* XREADGROUP of a stream.  When its answer is lost, the entry is pending all the same.
ReadNew(w) ==
  /\ at[w] = "read"
  /\ \/ Waiting(stage[w]) = {} /\ NextStream(w) /\ Answered /\ UNCHANGED <<seen, idle>>
     \/ \E m \in Messages :
          /\ FirstEntry(m, Waiting(stage[w])) /\ seen' = seen \cup {m} /\ Pending(m, "fresh")
          /\ (WorkerAt(w, "work", 1, m) /\ Answered) \/ (Rest(w) /\ Lost)
     \/ Rest(w) /\ Lost /\ UNCHANGED <<seen, idle>>
  /\ UNCHANGED <<entry, next, producer, beat, gone>>

\* maintain_message_lease: the call is on its way when the work may end.
Beat(w) ==
  /\ at[w] = "work" /\ beat[w] = None
  /\ beat' = [beat EXCEPT ![w] = about[w]]
  /\ UNCHANGED <<redis, producer, at, stage, about, gone>> /\ Answered

\* heartbeat: XCLAIM takes the entry from whoever has it, as long as it is pending and there.
Renew(w) ==
  /\ beat[w] # None /\ beat' = [beat EXCEPT ![w] = None]
  /\ LET m == beat[w] IN
     IF idle[m] = "none" THEN UNCHANGED idle
     ELSE Pending(m, IF entry[m] = 0 THEN "none" ELSE "fresh")
  /\ UNCHANGED <<entry, next, seen, producer, at, stage, about, gone>> /\ Answered

\* Mutant: the entry is deleted first, and acknowledged when that is done.
AckDeletesFirst(w) ==
  /\ at[w] = "work" /\ Deleted(about[w]) /\ WorkerAt(w, "delete", 1, about[w])
  /\ UNCHANGED <<next, seen, idle, producer, beat, gone>> /\ Answered

\* ack: XACK, and XDEL.  If the first fails, the message is released.
AckEntry(w) ==
  /\ at[w] = "work"
  /\ \/ Pending(about[w], "none") /\ gone' = gone \cup {about[w]}
        /\ ((WorkerAt(w, "delete", 1, about[w]) /\ Answered) \/ (Rest(w) /\ Lost))
     \/ Rest(w) /\ Lost /\ UNCHANGED <<idle, gone>>
  /\ UNCHANGED <<entry, next, seen, producer, beat>>

AckDelete(w) ==
  /\ at[w] = "delete" /\ Rest(w)
  /\ (Deleted(about[w]) /\ Answered) \/ (UNCHANGED entry /\ Lost)
  /\ UNCHANGED <<next, seen, idle, producer, beat, gone>>

\* release leaves the entry as it is, and so does a process that dies.
LeaveEntry(w) ==
  /\ at[w] = "work" /\ Lost /\ Rest(w)
  /\ UNCHANGED <<redis, producer, beat, gone>>

WorkerDies(w) ==
  /\ at[w] # "idle" /\ Lost /\ Rest(w) /\ beat' = [beat EXCEPT ![w] = None]
  /\ UNCHANGED <<redis, producer, gone>>

-----------------------------------------------------------------------------
(* Time: an entry is idle for the visibility timeout when nobody works on it, *)
(* or when the worker that does stalls.                                     *)
WorkedOn(m) == \E w \in Consumers : about[w] = m /\ at[w] = "work"

Idles(m) ==
  /\ idle[m] = "fresh" /\ Pending(m, "stale")
  /\ IF WorkedOn(m) THEN Lost ELSE Answered
  /\ UNCHANGED <<entry, next, seen, producer, at, stage, about, beat, gone>>

-----------------------------------------------------------------------------
RedisInit ==
  /\ entry = [m \in Messages |-> 0] /\ next = 1 /\ seen = {} /\ idle = [m \in Messages |-> "none"]
  /\ producer = [m \in Messages |-> "new"]
  /\ at = [w \in Consumers |-> "idle"] /\ stage = [w \in Consumers |-> 1] /\ about = [w \in Consumers |-> None]
  /\ beat = [w \in Consumers |-> None] /\ gone = {} /\ rest = RedisFaults

RedisStep(w) == Start(w) \/ Reclaim(w) \/ ReadNew(w) \/ AckEntry(w) \/ AckDelete(w)

RedisNext ==
  \/ \E m \in Messages : Enqueue(m) \/ Withdraw(m) \/ Delete(m) \/ Idles(m)
  \/ \E w \in Consumers : RedisStep(w) \/ Beat(w) \/ Renew(w) \/ LeaveEntry(w) \/ WorkerDies(w)

RedisSpec == RedisInit /\ [][RedisNext]_redisVars

(***************************************************************************)
(* Fairness: producers and workers go on with what they have begun, and an *)
(* entry that nobody works on gets idle.                                   *)
(***************************************************************************)
RedisFairness ==
  /\ \A m \in Messages : WF_redisVars(Delete(m)) /\ WF_redisVars(~WorkedOn(m) /\ Idles(m))
  /\ \A w \in Consumers : WF_redisVars(RedisStep(w)) /\ WF_redisVars(Renew(w))

-----------------------------------------------------------------------------
(* Properties.                                                             *)

Steps == {"idle", "reclaim", "read", "work", "delete"}

\* Every variable has its type, and a worker is about a message exactly when it works on
\* it or deletes it.
RedisTypeOK ==
  /\ entry \in [Messages -> Nat] /\ next \in Nat \ {0} /\ seen \subseteq Messages
  /\ idle \in [Messages -> {"none", "fresh", "stale"}]
  /\ producer \in [Messages -> {"new", "ok", "failed", "refused", "removing", "removed"}]
  /\ at \in [Consumers -> Steps] /\ stage \in [Consumers -> 1..3]
  /\ about \in [Consumers -> Messages \cup {None}] /\ beat \in [Consumers -> Messages \cup {None}]
  /\ \A w \in Consumers : about[w] # None <=> at[w] \in {"work", "delete"}
  /\ gone \subseteq Messages /\ rest \in 0..RedisFaults

\* A message that was enqueued, and neither acknowledged nor withdrawn, is read in the end:
\* it waits in its stream or is pending there, whoever crashed or lost an answer.
NothingIsLost == \A m \in Messages : producer[m] = "ok" /\ m \notin gone => Deliverable(m)

\* The two together: what is in the streams has its type, and nothing of it is lost.
RedisLosesNothing == RedisTypeOK /\ NothingIsLost

\* The queue as its users see it.
RedisUsed   == {m \in Messages : producer[m] \notin {"new", "refused"}}
RedisDone   == gone \cup {m \in Messages : producer[m] \in {"removing", "removed"}}
RedisLive   == {m \in Messages : Deliverable(m)}
RedisLeased == {m \in RedisLive : idle[m] = "fresh"}
RedisHeld   == [w \in Consumers |-> IF at[w] = "work" THEN about[w] ELSE None]

RedisPromise == INSTANCE TaskQueue
             WITH used <- RedisUsed, done <- RedisDone, live <- RedisLive, leased <- RedisLeased, held <- RedisHeld

\* The streams do what the queue promises, step by step.
RedisKeepsPromise == [][RedisPromise!Next]_<<RedisUsed, RedisDone, RedisLive, RedisLeased, RedisHeld>>

\* Every message is consumed in the end, although workers crash and answers are lost.
Empties == <>[](\A m \in Messages : ~Deliverable(m))
=============================================================================
