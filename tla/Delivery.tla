------------------------------ MODULE Delivery ------------------------------
(***************************************************************************)
(* The delivery of events to one webhook (portrait_webhook_delivery): a     *)
(* record per event and resource, attempts with pauses between them, dead   *)
(* letters, and their retry by hand.                                        *)
(*                                                                         *)
(* Every process keeps the records in its memory, under a lock, and writes  *)
(* all of them to one file at every change; it reads the file when it       *)
(* starts, and only then.  A request leaves outside the lock, so that the   *)
(* events of a job that was run twice, retries by hand and changes of the   *)
(* webhook come in between.                                                 *)
(***************************************************************************)
EXTENDS Naturals, FiniteSets, Sequences

CONSTANTS
  Processes,  (* processes                                                 *)
  Tasks,      (* what runs in them                                         *)
  Resources,  (* the jobs whose end is announced                           *)
  Scenes,     (* where each task runs and what it does                     *)
  RetryLimit, (* retry_limit of the webhook                                *)
  SendFaults, MaxHookChanges, MaxRestarts, (* bounds                       *)
  Absent      (* no value                                                  *)

Statuses == {"pending", "delivering", "retrying", "delivered", "dead_letter"}
DeliveryRecord ==
  [status : Statuses, reason : {"retry_exhausted", "manual_retry_setup_failed", Absent},
   manual : Nat, attempts : Seq([number : Nat, success : BOOLEAN])]
Duty == [op : {"event", "retry"}, resource : Resources]

ASSUME DeliveryAssumption ==
  /\ IsFiniteSet(Tasks) /\ IsFiniteSet(Processes) /\ RetryLimit \in Nat /\ Absent \notin DeliveryRecord
  /\ \A s \in Scenes : s.home \in [Tasks -> Processes] /\ s.todo \in [Tasks -> Seq(Duty)]

VARIABLES
  home,     (* the process of each task                                    *)
  active,   (* whether the webhook is active                               *)
  mem,      (* the records in each process                                 *)
  disk,     (* the records of the file                                     *)
  found,    (* the records of each process that are as its start found     *)
            (* them in the file                                            *)
  todo,     (* what is still to be done by each task                       *)
  task,     (* where each task is                                          *)
  accepted, (* how often the receiver has said yes to a delivery           *)
  spared,   (* resources that a failure, a restart from a file that does   *)
            (* not say what the process knew, or the undoing of a retry    *)
            (* beside a sender has disturbed                               *)
  allowance (* what is left of the bounds                                  *)

deliveryVars == <<home, active, mem, disk, found, todo, task, accepted, spared, allowance>>

Idle == [pc |-> "idle", tries |-> 0, base |-> 0, success |-> FALSE]

DeliveryInit ==
  /\ \E s \in Scenes : home = s.home /\ todo = s.todo
  /\ active = TRUE
  /\ mem = [p \in Processes |-> [r \in Resources |-> Absent]] /\ disk = [r \in Resources |-> Absent]
  /\ found = {}
  /\ task = [t \in Tasks |-> Idle]
  /\ accepted = [r \in Resources |-> 0] /\ spared = {}
  /\ allowance = [faults |-> SendFaults, changes |-> MaxHookChanges, restarts |-> MaxRestarts]

Subject(t)  == Head(todo[t]).resource
Manual(t)   == Head(todo[t]).op = "retry"
RecordOf(t) == mem[home[t]][Subject(t)]
At(t, p)    == todo[t] # <<>> /\ task[t].pc = p

-----------------------------------------------------------------------------
(* Ends of a call: it returns, or raises.                                  *)
Returns(t) == /\ task' = [task EXCEPT ![t] = Idle]
              /\ todo' = [todo EXCEPT ![t] = Tail(@)]
Continues(t, step) == task' = [task EXCEPT ![t] = step] /\ UNCHANGED todo
GoesTo(t, p)  == Continues(t, [task[t] EXCEPT !.pc = p])

\* An event logs the exception and goes on with the job; a retry by hand undoes.
Raises(t) == IF Manual(t) THEN GoesTo(t, "undo") ELSE Returns(t)

\* The record changes in memory and all records of the process are written; when that
\* fails the change stays in memory and the call raises.
Remember(t, rec) ==
  /\ mem' = [mem EXCEPT ![home[t]][Subject(t)] = rec]
  /\ found' = found \ {<<home[t], Subject(t)>>}
Saved(t, rec) == Remember(t, rec) /\ disk' = mem'[home[t]] /\ UNCHANGED <<allowance, spared>>
Fails(t, rec, file) ==
  /\ allowance.faults > 0 /\ allowance' = [allowance EXCEPT !.faults = @ - 1]
  /\ Remember(t, rec) /\ disk' = file
  /\ spared' = spared \cup {Subject(t)}
Unsaved(t, rec) == Fails(t, rec, disk)
Change(t, rec, step) ==
  \/ Saved(t, rec) /\ Continues(t, step)
  \/ Unsaved(t, rec) /\ Raises(t)

-----------------------------------------------------------------------------
(* deliver_webhook_event.                                                  *)

\* Mutant: an event that comes while a sender waits for its next attempt sends as well.
OnItsWayAlone == {"delivering"}

OnItsWay == {"delivering", "retrying"}

Finished == {"delivered"}

\* The webhook as it is when the call begins, for an event also in
\* deliver_job_terminal_event.
Begin(t) ==
  /\ At(t, "idle") \/ At(t, "deliver")
  /\ Manual(t) = (task[t].pc = "deliver")
  /\ IF active THEN GoesTo(t, "take") ELSE Raises(t)
  /\ UNCHANGED <<home, active, mem, disk, found, accepted, spared, allowance>>

New == [status |-> "pending", reason |-> Absent, manual |-> 0, attempts |-> <<>>]

\* Under the lock: what is delivered, or on its way, is not sent again.  A new record is
\* saved before its status is: a file that has it pending is as good as one without it.
Take(t) ==
  /\ At(t, "take")
  /\ IF RecordOf(t) # Absent /\ RecordOf(t).status \in OnItsWay \cup Finished
     THEN Returns(t) /\ UNCHANGED <<mem, disk, found, allowance, spared>>
     ELSE LET rec   == IF RecordOf(t) = Absent THEN New ELSE RecordOf(t)
              taken == [rec EXCEPT !.status = "delivering", !.reason = Absent]
              file  == IF RecordOf(t) = Absent THEN [mem[home[t]] EXCEPT ![Subject(t)] = New] ELSE disk
          IN \/ RecordOf(t) = Absent /\ Unsaved(t, rec) /\ Raises(t)
             \/ Fails(t, taken, file) /\ Raises(t)
             \/ /\ Saved(t, taken)
                /\ Continues(t, [task[t] EXCEPT !.pc = "sign", !.tries = IF Manual(t) THEN 1 ELSE RetryLimit + 1,
                                                !.base = Len(rec.attempts)])
  /\ UNCHANGED <<home, active, accepted>>

\* The status of the record before each attempt.
Sign(t) ==
  /\ At(t, "sign")
  /\ Change(t, [RecordOf(t) EXCEPT !.status = "delivering"], [task[t] EXCEPT !.pc = "send"])
  /\ UNCHANGED <<home, active, accepted>>

\* The request: the receiver says yes, or the attempt fails (another status, no answer,
\* no connection); an answer that cannot be parsed is an exception nobody catches.
Send(t) ==
  /\ At(t, "send")
  /\ \/ \E yes \in BOOLEAN :
          /\ accepted' = IF yes THEN [accepted EXCEPT ![Subject(t)] = @ + 1] ELSE accepted
          /\ Continues(t, [task[t] EXCEPT !.pc = "record", !.success = yes])
          /\ UNCHANGED <<allowance, spared>>
     \/ /\ allowance.faults > 0 /\ allowance' = [allowance EXCEPT !.faults = @ - 1]
        /\ spared' = spared \cup {Subject(t)} /\ Raises(t) /\ UNCHANGED accepted
  /\ UNCHANGED <<home, active, mem, disk, found>>

\* _record_attempt
RecordAttempt(t) ==
  /\ At(t, "record")
  /\ Change(t, [RecordOf(t) EXCEPT !.attempts = Append(@, [number |-> task[t].base + 1, success |-> task[t].success])],
            [task[t] EXCEPT !.pc = "settle", !.tries = @ - 1, !.base = @ + 1])
  /\ UNCHANGED <<home, active, accepted>>

\* Delivered, to be tried again after a pause, or a dead letter.
Settle(t) ==
  /\ At(t, "settle")
  /\ LET again == ~task[t].success /\ task[t].tries > 0
         rec   == IF task[t].success THEN [RecordOf(t) EXCEPT !.status = "delivered", !.reason = Absent]
                  ELSE IF again THEN [RecordOf(t) EXCEPT !.status = "retrying"]
                  ELSE [RecordOf(t) EXCEPT !.status = "dead_letter", !.reason = "retry_exhausted"]
     IN \/ Saved(t, rec) /\ IF again THEN GoesTo(t, "sign") ELSE Returns(t)
        \/ Unsaved(t, rec) /\ Raises(t)
  /\ UNCHANGED <<home, active, accepted>>

-----------------------------------------------------------------------------
(* retry_webhook_delivery and its route.                                   *)
Retriable(t) == RecordOf(t) # Absent /\ RecordOf(t).status = "dead_letter"

RetryLook(t) ==
  /\ At(t, "idle") /\ Manual(t)
  /\ IF Retriable(t) THEN GoesTo(t, "check") ELSE Returns(t)
  /\ UNCHANGED <<home, active, mem, disk, found, accepted, spared, allowance>>

RetryCheck(t) ==
  /\ At(t, "check")
  /\ IF active THEN GoesTo(t, "mark") ELSE Returns(t)
  /\ UNCHANGED <<home, active, mem, disk, found, accepted, spared, allowance>>

\* The record is looked at once more; a failure here is not undone.
RetryMark(t) ==
  /\ At(t, "mark")
  /\ LET rec == [RecordOf(t) EXCEPT !.status = "pending", !.reason = Absent, !.manual = @ + 1]
     IN IF Retriable(t)
        THEN \/ Saved(t, rec) /\ GoesTo(t, "deliver")
             \/ Unsaved(t, rec) /\ Returns(t)
        ELSE Returns(t) /\ UNCHANGED <<mem, disk, found, allowance, spared>>
  /\ UNCHANGED <<home, active, accepted>>

Sending(t, p, r) ==
  /\ todo[t] # <<>> /\ home[t] = p /\ Subject(t) = r
  /\ task[t].pc \in {"sign", "send", "record", "settle"}

\* The handler of the retry makes a dead letter of whatever is not settled, also when
\* the event of the job is what is on its way.
RetryUndo(t) ==
  /\ At(t, "undo")
  /\ LET rec == [RecordOf(t) EXCEPT !.status = "dead_letter", !.reason = "manual_retry_setup_failed"]
         beside == {r \in {Subject(t)} : \E o \in Tasks : Sending(o, home[t], r)}
     IN IF RecordOf(t).status \in OnItsWay \cup {"pending"}
        THEN /\ \/ /\ Remember(t, rec) /\ disk' = mem'[home[t]]
                   /\ spared' = spared \cup beside /\ UNCHANGED allowance
                \/ Unsaved(t, rec)
        ELSE UNCHANGED <<mem, disk, found, allowance, spared>>
  /\ Returns(t)
  /\ UNCHANGED <<home, active, accepted>>

-----------------------------------------------------------------------------
\* The webhook is disabled or enabled (see Access).
HookChanges ==
  /\ allowance.changes > 0 /\ allowance' = [allowance EXCEPT !.changes = @ - 1]
  /\ active' = ~active
  /\ UNCHANGED <<home, mem, disk, found, todo, task, accepted, spared>>

\* load_webhook_delivery_state, when the module is imported: a process starts with the
\* records of the file, whoever wrote it last.  Those that were on their way have nobody
\* any more who sends them.  The message of a job comes again, with its event; a retry by
\* hand is forgotten.
Restart(p) ==
  /\ allowance.restarts > 0 /\ allowance' = [allowance EXCEPT !.restarts = @ - 1]
  /\ mem' = [mem EXCEPT ![p] = disk]
  /\ found' = {x \in found : x[1] # p} \cup {<<p, r>> : r \in {r \in Resources : disk[r] # Absent}}
  /\ spared' = spared \cup {r \in Resources : mem[p][r] \notin {Absent, disk[r]}}
  /\ task' = [t \in Tasks |-> IF home[t] = p THEN Idle ELSE task[t]]
  /\ todo' = [t \in Tasks |-> IF home[t] = p /\ todo[t] # <<>> /\ Manual(t) THEN Tail(todo[t]) ELSE todo[t]]
  /\ UNCHANGED <<home, active, disk, accepted>>

DeliveryNext ==
  \/ HookChanges
  \/ \E p \in Processes : Restart(p)
  \/ \E t \in Tasks : \/ Begin(t) \/ Take(t) \/ Sign(t) \/ Send(t) \/ RecordAttempt(t) \/ Settle(t)
                      \/ RetryLook(t) \/ RetryCheck(t) \/ RetryMark(t) \/ RetryUndo(t)

DeliverySpec == DeliveryInit /\ [][DeliveryNext]_deliveryVars

-----------------------------------------------------------------------------
DeliveryTypeOK ==
  /\ \A p \in Processes, r \in Resources : mem[p][r] # Absent => mem[p][r] \in DeliveryRecord
  /\ \A r \in Resources : disk[r] # Absent => disk[r] \in DeliveryRecord

Sound(r)      == r \notin spared
AsFound(p, r) == <<p, r>> \in found

\* A record on its way is in the hands of exactly one sender, and one that waits has been
\* put there by a retry that is about to send: nothing is forgotten half sent while its
\* process lives, and two senders never work on one delivery (deliver_webhook_event,
\* retry_webhook_delivery).  What a restart finds on its way is the exception: it has no
\* sender, and gets none, for the next event is answered as a replay and a retry refused.
OneSender ==
  \A p \in Processes, r \in Resources : mem[p][r] # Absent /\ Sound(r) =>
    LET senders == Cardinality({t \in Tasks : Sending(t, p, r)})
    IN /\ mem[p][r].status \in OnItsWay => senders = IF AsFound(p, r) THEN 0 ELSE 1
       /\ mem[p][r].status \notin OnItsWay => senders = 0
       /\ mem[p][r].status = "pending" =>
            \/ AsFound(p, r)
            \/ \E t \in Tasks : todo[t] # <<>> /\ home[t] = p /\ Subject(t) = r /\ task[t].pc \in {"deliver", "take", "undo"}

\* The status tells what the last attempt was, the attempts are numbered in order, and
\* only the last one may have been accepted (_record_attempt, and the ends of the loop).
HistoryIsTrue ==
  \A p \in Processes, r \in Resources : mem[p][r] # Absent /\ Sound(r) =>
    LET rec == mem[p][r]
        n   == Len(rec.attempts)
    IN /\ \A i \in 1..n : rec.attempts[i].number = i /\ (rec.attempts[i].success => i = n)
       /\ rec.status = "delivered" => n > 0 /\ rec.attempts[n].success
       /\ rec.status \in {"retrying", "dead_letter"} => n > 0 /\ ~rec.attempts[n].success

\* A receiver that has accepted a delivery is not asked again by the same process, nor by
\* the one that is started after it.
AcceptedOnce ==
  \A r \in Resources : Sound(r) => accepted[r] <= Cardinality({home[t] : t \in Tasks})

DeliveriesAreSound == DeliveryTypeOK /\ OneSender /\ HistoryIsTrue /\ AcceptedOnce
=============================================================================
