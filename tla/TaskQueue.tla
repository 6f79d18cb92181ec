----------------------------- MODULE TaskQueue -----------------------------
(***************************************************************************)
(* What portrait_task_queue promises to those who use it, whichever of its *)
(* backends is configured: a message is delivered at least once.  It goes  *)
(* to one consumer at a time as long as leases do not run out, and it is   *)
(* there until a consumer that claimed it acknowledges it or its producer  *)
(* withdraws it; after that it may still come back.                        *)
(***************************************************************************)
CONSTANTS
  Consumers,  (* the workers                                               *)
  Messages,   (* everything that may be enqueued                           *)
  None        (* no message                                                *)

VARIABLES
  used,    (* the messages enqueued so far                                 *)
  done,    (* those that were acknowledged or withdrawn                    *)
  live,    (* those that are there                                         *)
  leased,  (* those that a lease hides                                     *)
  held     (* the message each consumer has claimed, or None               *)

vars == <<used, done, live, leased, held>>

Drop(w) == held[w] # None /\ held' = [held EXCEPT ![w] = None]

Enqueue(m) ==
  /\ m \in Messages \ used
  /\ used' = used \cup {m} /\ live' = live \cup {m}
  /\ UNCHANGED <<done, leased, held>>

Claim(w, m) ==
  /\ held[w] = None /\ m \in live \ leased
  /\ held' = [held EXCEPT ![w] = m] /\ leased' = leased \cup {m}
  /\ UNCHANGED <<used, done, live>>

\* The visibility timeout of a message is over.
Expire(m) ==
  /\ m \in leased /\ leased' = leased \ {m}
  /\ UNCHANGED <<used, done, live, held>>

\* The message is gone, unless its lease has run out: then the local spool
\* may have put it back already, where the acknowledgement does not find it.
Ack(w) ==
  /\ Drop(w) /\ done' = done \cup {held[w]}
  /\ \/ live' = live \ {held[w]} /\ leased' = leased \ {held[w]}
     \/ held[w] \notin leased /\ UNCHANGED <<live, leased>>
  /\ UNCHANGED used

\* The local spool puts the message back at once, redis leaves it to the
\* visibility timeout, and so does a consumer that dies.
Release(w) ==
  /\ Drop(w)
  /\ leased' \in {leased, leased \ {held[w]}}
  /\ UNCHANGED <<used, done, live>>

\* The producer withdraws a message, in one step or in two.
Remove(m) ==
  /\ m \in used /\ done' = done \cup {m}
  /\ live' \in {live, live \ {m}}
  /\ leased' \in {leased \ {m}, (leased \cup {m}) \cap live'}
  /\ UNCHANGED <<used, held>>

\* A claim or a release that races an acknowledgement writes the message once
\* more.
Reappear(m) ==
  /\ m \in used \ live /\ live' = live \cup {m}
  /\ leased' \in {leased, leased \cup {m}}
  /\ UNCHANGED <<used, done, held>>

\* A consumer that still works, or the claim whose answer was lost, begins the lease anew.
Renew(m) ==
  /\ m \in live /\ leased' = leased \cup {m}
  /\ UNCHANGED <<used, done, live, held>>

Init ==
  /\ used = {} /\ done = {} /\ live = {} /\ leased = {}
  /\ held = [w \in Consumers |-> None]

Next ==
  \/ \E m \in Messages : Enqueue(m) \/ Expire(m) \/ Remove(m) \/ Reappear(m) \/ Renew(m)
  \/ \E w \in Consumers : Ack(w) \/ Release(w) \/ \E m \in Messages : Claim(w, m)

Spec == Init /\ [][Next]_vars
=============================================================================
