--------------------------- MODULE LocalTaskQueue ---------------------------
(***************************************************************************)
(* The spool of portrait_task_queue: a message is a file in the directory  *)
(* pending or processing, and workers of several processes move, touch,    *)
(* rewrite and delete these files without a lock.  One call of the file    *)
(* system is one step.                                                     *)
(*                                                                         *)
(* Of a file the model keeps whether its modification time is older than   *)
(* the visibility timeout.  A file is named after its message, so that     *)
(* every worker means the same path by it.  The list TASK_MESSAGES, which  *)
(* only feeds a count, is left out; cancellation markers are in VideoJob.  *)
(***************************************************************************)
EXTENDS QueueParameters

CONSTANT Rank  (* the order of the messages by priority and creation        *)

ASSUME RankAssumption == Rank \in [Messages -> Nat]

VARIABLES
  pend,      (* the file in pending: none, fresh or stale                  *)
  proc,      (* the file in processing                                     *)
  api,       (* where the producer of each message is                      *)
  pc,        (* where each worker is                                       *)
  msg,       (* the message each worker is about, or None                  *)
  todo,      (* the pending files a claim has listed and not tried         *)
  acked,     (* messages that were acknowledged                            *)
  discarded, (* messages whose file a claim deleted as invalid             *)
  left       (* what is left of MaxFaults                                  *)

files == <<pend, proc>>
vars  == <<pend, proc, api, pc, msg, todo, acked, discarded, left>>

Fault == left > 0 /\ left' = left - 1

Put(m, dir)    == [dir EXCEPT ![m] = "fresh"]
Unlink(m, dir) == [dir EXCEPT ![m] = "none"]

\* os.replace of processing by pending: it keeps the modification time.
PutBack(m) == pend' = [pend EXCEPT ![m] = proc[m]] /\ proc' = Unlink(m, proc)

Go(w, p, m) == pc' = [pc EXCEPT ![w] = p] /\ msg' = [msg EXCEPT ![w] = m]

-----------------------------------------------------------------------------
(* The producer.                                                           *)

At(m, p, q) == api[m] = p /\ api' = [api EXCEPT ![m] = q]

\* enqueue: the file, and then the required line in the queue's log.
EnqueueWrite(m) ==
  /\ At(m, "new", "written")
  /\ pend' = Put(m, pend)
  /\ UNCHANGED <<proc, pc, msg, todo, acked, discarded, left>>

EnqueueLogged(m) ==
  /\ At(m, "written", "ok")
  /\ UNCHANGED <<files, pc, msg, todo, acked, discarded, left>>

EnqueueFails(m) ==
  /\ At(m, "written", "failed") /\ Fault
  /\ pend' = Unlink(m, pend)
  /\ UNCHANGED <<proc, pc, msg, todo, acked, discarded>>

\* remove, by a producer that rolls back: one directory after the other.
RemovePending(m) ==
  /\ At(m, "ok", "removing") /\ Fault
  /\ pend' = Unlink(m, pend)
  /\ UNCHANGED <<proc, pc, msg, todo, acked, discarded>>

RemoveProcessing(m) ==
  /\ At(m, "removing", "removed")
  /\ proc' = Unlink(m, proc)
  /\ UNCHANGED <<pend, pc, msg, todo, acked, discarded, left>>

-----------------------------------------------------------------------------
(* A worker: claim, heartbeat, ack and release.                            *)

\* _requeue_stale looks at a file ...
Look(w, m) ==
  /\ pc[w] = "idle" /\ proc[m] = "stale"
  /\ Go(w, "requeue", m)
  /\ UNCHANGED <<files, api, todo, acked, discarded, left>>

\* Mutant: a stale file stays where it is.
RequeueForgets(w) ==
  /\ pc[w] = "requeue" /\ Go(w, "idle", None)
  /\ UNCHANGED <<files, api, todo, acked, discarded, left>>

\* ... and moves it, if it is still there, whatever happened since.
Requeue(w) ==
  /\ pc[w] = "requeue"
  /\ IF proc[msg[w]] = "none" THEN UNCHANGED files ELSE PutBack(msg[w])
  /\ Go(w, "idle", None)
  /\ UNCHANGED <<api, todo, acked, discarded, left>>

List(w) ==
  /\ pc[w] = "idle"
  /\ \E m \in Messages : pend[m] # "none"
  /\ todo' = [todo EXCEPT ![w] = {m \in Messages : pend[m] # "none"}]
  /\ Go(w, "try", None)
  /\ UNCHANGED <<files, api, acked, discarded, left>>

First(m, S) == m \in S /\ \A n \in S : Rank[m] <= Rank[n]

\* The claim goes on with the next file it has listed, or looks again.
Continue(w, rest) == Go(w, IF rest = {} THEN "idle" ELSE "try", None)

\* Mutant: the file is copied.
TryCopies(w) ==
  /\ pc[w] = "try"
  /\ \E m \in Messages :
       /\ First(m, todo[w])
       /\ todo' = [todo EXCEPT ![w] = @ \ {m}]
       /\ IF pend[m] = "none" THEN Continue(w, todo[w] \ {m}) /\ UNCHANGED files
          ELSE Go(w, "touch", m) /\ proc' = [proc EXCEPT ![m] = pend[m]] /\ UNCHANGED pend
  /\ UNCHANGED <<api, acked, discarded, left>>

\* The rename that decides who gets the message.
Try(w) ==
  /\ pc[w] = "try"
  /\ \E m \in Messages :
       /\ First(m, todo[w])
       /\ todo' = [todo EXCEPT ![w] = @ \ {m}]
       /\ IF pend[m] = "none" THEN Continue(w, todo[w] \ {m}) /\ UNCHANGED files
          ELSE /\ Go(w, "touch", m)
               /\ proc' = [proc EXCEPT ![m] = pend[m]] /\ pend' = Unlink(m, pend)
  /\ UNCHANGED <<api, acked, discarded, left>>

Touch(w) ==
  /\ pc[w] = "touch"
  /\ IF proc[msg[w]] = "none" THEN Continue(w, todo[w]) /\ UNCHANGED proc
     ELSE Go(w, "read", msg[w]) /\ proc' = Put(msg[w], proc)
  /\ UNCHANGED <<pend, api, todo, acked, discarded, left>>

Read(w) ==
  /\ pc[w] = "read"
  /\ Go(w, IF proc[msg[w]] = "none" THEN "discard" ELSE "write", msg[w])
  /\ UNCHANGED <<files, api, todo, acked, discarded, left>>

\* Mutant: the message is removed as its producer would.
DiscardEverywhere(w) ==
  /\ pc[w] = "discard"
  /\ discarded' = IF proc[msg[w]] = "none" THEN discarded ELSE discarded \cup {msg[w]}
  /\ proc' = Unlink(msg[w], proc) /\ pend' = Unlink(msg[w], pend)
  /\ Continue(w, todo[w])
  /\ UNCHANGED <<api, todo, acked, left>>

\* The file could not be read: it is deleted, whoever has put one there since.
Discard(w) ==
  /\ pc[w] = "discard"
  /\ discarded' = IF proc[msg[w]] = "none" THEN discarded ELSE discarded \cup {msg[w]}
  /\ proc' = Unlink(msg[w], proc)
  /\ Continue(w, todo[w])
  /\ UNCHANGED <<pend, api, todo, acked, left>>

Write(w) ==
  /\ pc[w] = "write"
  /\ proc' = Put(msg[w], proc)
  /\ Go(w, "work", msg[w]) /\ todo' = [todo EXCEPT ![w] = {}]
  /\ UNCHANGED <<pend, api, acked, discarded, left>>

Heartbeat(w) ==
  /\ pc[w] = "work" /\ proc[msg[w]] = "stale"
  /\ proc' = Put(msg[w], proc)
  /\ UNCHANGED <<pend, api, pc, msg, todo, acked, discarded, left>>

\* Mutant: the worker goes on without letting go of the message.
AckKeepsMessage(w) ==
  /\ pc[w] = "work" /\ pc' = [pc EXCEPT ![w] = "idle"]
  /\ proc' = Unlink(msg[w], proc) /\ acked' = acked \cup {msg[w]}
  /\ UNCHANGED <<pend, api, msg, todo, discarded, left>>

Ack(w) ==
  /\ pc[w] = "work"
  /\ proc' = Unlink(msg[w], proc) /\ acked' = acked \cup {msg[w]}
  /\ Go(w, "idle", None)
  /\ UNCHANGED <<pend, api, todo, discarded, left>>

\* release: the file is moved, if it is there, and then written once more.
Release(w) ==
  /\ pc[w] = "work" /\ Fault
  /\ IF proc[msg[w]] = "none" THEN Go(w, "idle", None) /\ UNCHANGED files
     ELSE Go(w, "rewrite", msg[w]) /\ PutBack(msg[w])
  /\ UNCHANGED <<api, todo, acked, discarded>>

Rewrite(w) ==
  /\ pc[w] = "rewrite"
  /\ pend' = Put(msg[w], pend)
  /\ Go(w, "idle", None)
  /\ UNCHANGED <<proc, api, todo, acked, discarded, left>>

-----------------------------------------------------------------------------
(* Time and faults.                                                        *)

AgePending(m) ==
  /\ pend[m] = "fresh" /\ pend' = [pend EXCEPT ![m] = "stale"]
  /\ UNCHANGED <<proc, api, pc, msg, todo, acked, discarded, left>>

\* A file in processing gets old when nobody works on it, or when the worker
\* that does stalls.
Attended(m) == \E w \in Consumers : msg[w] = m /\ pc[w] \in {"read", "write", "work"}

AgeProcessing(m) ==
  /\ proc[m] = "fresh" /\ proc' = [proc EXCEPT ![m] = "stale"]
  /\ IF Attended(m) THEN Fault ELSE UNCHANGED left
  /\ UNCHANGED <<pend, api, pc, msg, todo, acked, discarded>>

\* A worker's process dies and starts again.
Crash(w) ==
  /\ pc[w] # "idle" /\ Fault
  /\ Go(w, "idle", None) /\ todo' = [todo EXCEPT ![w] = {}]
  /\ UNCHANGED <<files, api, acked, discarded>>

-----------------------------------------------------------------------------
Init ==
  /\ pend = [m \in Messages |-> "none"] /\ proc = [m \in Messages |-> "none"]
  /\ api = [m \in Messages |-> "new"]
  /\ pc = [w \in Consumers |-> "idle"] /\ msg = [w \in Consumers |-> None]
  /\ todo = [w \in Consumers |-> {}]
  /\ acked = {} /\ discarded = {}
  /\ left = MaxFaults

ProducerStep(m) == \/ EnqueueLogged(m) \/ EnqueueFails(m) \/ RemoveProcessing(m)

WorkerStep(w) ==
  \/ \E m \in Messages : Look(w, m)
  \/ Requeue(w) \/ List(w) \/ Try(w) \/ Touch(w) \/ Read(w) \/ Discard(w) \/ Write(w)
  \/ Heartbeat(w) \/ Ack(w) \/ Release(w) \/ Rewrite(w)

Next ==
  \/ \E m \in Messages : \/ EnqueueWrite(m) \/ RemovePending(m) \/ ProducerStep(m)
                         \/ AgePending(m) \/ AgeProcessing(m)
  \/ \E w \in Consumers : WorkerStep(w) \/ Crash(w)

Spec == Init /\ [][Next]_vars

(***************************************************************************)
(* Fairness: producers and workers go on with what they have begun, and a  *)
(* file that nobody touches gets old.  Work is released only as often as   *)
(* the bound says, and ends otherwise.                                     *)
(***************************************************************************)
Fairness ==
  /\ \A m \in Messages : WF_vars(ProducerStep(m)) /\ WF_vars(~Attended(m) /\ AgeProcessing(m))
  /\ \A w \in Consumers : WF_vars(WorkerStep(w))

FairSpec == Spec /\ Fairness

-----------------------------------------------------------------------------
(* Properties.                                                             *)

Age == {"none", "fresh", "stale"}

\* Every variable has its type, and a worker is about a message exactly when it
\* is at a step that needs one.
TypeOK ==
  /\ pend \in [Messages -> Age] /\ proc \in [Messages -> Age]
  /\ api \in [Messages -> {"new", "written", "ok", "failed", "removing", "removed"}]
  /\ pc \in [Consumers -> {"idle", "requeue", "try", "touch", "read", "discard", "write",
                           "work", "rewrite"}]
  /\ msg \in [Consumers -> Messages \cup {None}]
  /\ \A w \in Consumers : msg[w] = None <=> pc[w] \in {"idle", "try"}
  /\ todo \in [Consumers -> SUBSET Messages]
  /\ acked \subseteq Messages /\ discarded \subseteq Messages
  /\ left \in 0..MaxFaults

Exists(m) == pend[m] # "none" \/ proc[m] # "none"

\* A message that was enqueued and neither acknowledged nor removed has a file,
\* so that some worker will claim it, whoever crashes.
UnackedIsKept == \A m \in Messages : api[m] = "ok" /\ m \notin acked => Exists(m)

\* The only way to lose a message is the claim that finds its file gone after
\* it touched it, and then deletes the file of the next claim as an invalid
\* one.
NoOtherLoss == \A m \in Messages : api[m] = "ok" /\ m \notin acked \cup discarded => Exists(m)

\* The queue as its users see it: a message is leased while its only file is
\* in processing, and claimed from the rename on.
Used   == {m \in Messages : api[m] # "new"}
Done   == acked \cup {m \in Messages : api[m] \in {"failed", "removing", "removed"}}
Live   == {m \in Messages : Exists(m)}
Leased == {m \in Messages : proc[m] # "none" /\ pend[m] = "none"}
Held   == [w \in Consumers |->
             IF pc[w] \in {"touch", "read", "write", "work"} THEN msg[w] ELSE None]

Promise == INSTANCE TaskQueue
             WITH used <- Used, done <- Done, live <- Live, leased <- Leased, held <- Held

\* Every step of the spool is a step that the queue promises, or none, except
\* the deletion of a file that a claim could not read.
PromiseKept ==
  [][Promise!Next \/ \E w \in Consumers : Discard(w)]_<<Used, Done, Live, Leased, Held>>

\* A worker puts back what another one has just claimed: until a claim touches
\* the file, it is as old as the message.
Disturbs == \E w, v \in Consumers :
  Requeue(w) /\ msg[v] = msg[w] /\ pc[v] \in {"touch", "read", "write", "work"}

\* As long as the workers do not keep disturbing each other's claims, every
\* message is consumed in the end, although they crash, stall and release.
Drains == <>[][~Disturbs]_vars => <>[](\A m \in Messages : ~Exists(m))
=============================================================================
