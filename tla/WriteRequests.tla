--------------------------- MODULE WriteRequests ---------------------------
(***************************************************************************)
(* The way of a write request through the server: the commercial           *)
(* concurrency slot (commercial_concurrency, permission_dependency), the   *)
(* reservation of its idempotency key (portrait_idempotency), the handler, *)
(* and the end of both, in either order: the slot is given back when the   *)
(* dependency is left, the reservation is finalized by the middleware.     *)
(*                                                                         *)
(* With redis the slots and the records are shared by all processes and    *)
(* outlive each of them, a slot is a lease, and a call of the backend may  *)
(* fail; without it they live in the memory of the one process.  Every     *)
(* script and every `with _LOCK` block is one step.                        *)
(*                                                                         *)
(* Every record is kept for the same window, so that records expire in the *)
(* order in which they were reserved, which is their order in recs.  A     *)
(* request is its own owner token; a repeated request is another request   *)
(* with the same key and fingerprint.                                      *)
(***************************************************************************)
EXTENDS Naturals, FiniteSets, SequencesExt

CONSTANTS
  Requests,  (* write requests                                             *)
  Inputs,    (* what is sent: for every request an idempotency key in its  *)
             (* scope and a fingerprint of method, path, query and body    *)
  Backends,  (* which deployments: TRUE is redis, FALSE is memory          *)
  Limit,     (* effective_concurrency_limit of the project                 *)
  Capacity,  (* IDEMPOTENCY_MAX_ENTRIES of the memory store                *)
  Quota,     (* bound on every fault, by kind                              *)
  MaxKinds,  (* bound on the kinds of faults in one behaviour              *)
  Nil        (* no value                                                   *)

Kinds == {"backend", "lookup", "error", "large", "expire", "lease", "crash"}

ASSUME BackendsAssumption == Backends \subseteq BOOLEAN
ASSUME BoundsAssumption   == /\ Limit \in Nat \ {0} /\ Capacity \in Nat \ {0}
                             /\ Quota \in [Kinds -> Nat] /\ MaxKinds \in Nat

VARIABLES
  redis,  (* REDIS_URL is configured                                       *)
  sent,   (* which of Inputs is sent                                       *)
  recs,   (* the idempotency records, oldest first                         *)
  slots,  (* the requests whose slot the backend counts                    *)
  holds,  (* the requests between the two ends of permission_dependency    *)
  pc,     (* where each request is                                         *)
  out,    (* the answer of each request and the request that made it       *)
  effect, (* the requests whose handler wrote                              *)
  lost,   (* the requests whose record was dropped: it expired, was        *)
          (* evicted, or went with the process                             *)
  left    (* what is left of Quota                                         *)

vars == <<redis, sent, recs, slots, holds, pc, out, effect, lost, left>>

Spent    == {k \in Kinds : left[k] < Quota[k]}
Spend(k) == /\ left[k] > 0 /\ Cardinality(Spent \cup {k}) <= MaxKinds
            /\ left' = [left EXCEPT ![k] = @ - 1]

\* A call of redis raises; its script may have run all the same.
BackendFails == redis /\ Spend("backend")

Go(r, p)     == pc' = [pc EXCEPT ![r] = p]
Answer(r, q, code) == out' = [out EXCEPT ![r] = [by |-> q, code |-> code]]

Key(r)  == sent[r].key
Hash(r) == sent[r].hash

\* The record of a key; expired records are purged before it is looked up.
Of(k)    == {i \in DOMAIN recs : recs[i].key = k}
Mine(r)  == {i \in Of(Key(r)) : recs[i].owner = r}

-----------------------------------------------------------------------------
\* acquire_commercial_slot: a slot, 429 when there is none, or 503.
Acquire(r) ==
  /\ pc[r] = "new"
  /\ \/ /\ Cardinality(slots) < Limit
        /\ slots' = slots \cup {r} /\ holds' = holds \cup {r}
        /\ Go(r, "reserve") /\ UNCHANGED <<out, left>>
     \/ /\ Cardinality(slots) >= Limit
        /\ Go(r, "done") /\ Answer(r, r, "busy") /\ UNCHANGED <<slots, holds, left>>
     \/ /\ BackendFails /\ UNCHANGED holds
        /\ slots' \in {slots, IF Cardinality(slots) < Limit THEN slots \cup {r} ELSE slots}
        /\ Go(r, "done") /\ Answer(r, r, "busy")
  /\ UNCHANGED <<redis, sent, recs, effect, lost>>

\* require_idempotent_write, for a key that has a record: another fingerprint
\* and a request in progress are refused, a completed one is replayed.
Found(r) ==
  \E i \in Of(Key(r)) :
    /\ IF recs[i].hash = Hash(r) /\ recs[i].state = "completed"
       THEN Answer(r, recs[i].owner, out[recs[i].owner].code)
       ELSE Answer(r, r, "conflict")
    /\ Go(r, "done")
    /\ UNCHANGED <<recs, lost, left>>

\* _reserve, for a key that has none.  A full memory store evicts its oldest
\* completed record, or refuses with 503 when all are in progress.
Record(r)  == [key |-> Key(r), hash |-> Hash(r), owner |-> r, state |-> "in_progress"]
Completed  == {i \in DOMAIN recs : recs[i].state = "completed"}
Full       == ~redis /\ Len(recs) >= Capacity

Unused(r) ==
  /\ Of(Key(r)) = {}
  /\ \/ ~Full /\ recs' = Append(recs, Record(r)) /\ UNCHANGED lost
     \/ Full /\ \E oldest \in Completed :
          /\ \A j \in Completed : oldest <= j
          /\ recs' = Append(RemoveAt(recs, oldest), Record(r))
          /\ lost' = lost \cup {recs[oldest].owner}
  /\ Go(r, "run")
  /\ UNCHANGED <<out, left>>

Unavailable(r) ==
  /\ \/ Of(Key(r)) = {} /\ Full /\ Completed = {} /\ UNCHANGED <<recs, left>>
     \/ BackendFails /\ recs' \in {recs, IF Of(Key(r)) = {} THEN Append(recs, Record(r)) ELSE recs}
  /\ Answer(r, r, "error") /\ Go(r, "done")
  /\ UNCHANGED lost

Reserve(r) ==
  /\ pc[r] = "reserve"
  /\ Found(r) \/ Unused(r) \/ Unavailable(r)
  /\ UNCHANGED <<redis, sent, slots, holds, effect>>

\* The handler: it writes, or refuses, or fails before or after its write; its
\* answer may be too large to be kept.
Handle(r) ==
  /\ pc[r] = "run"
  /\ \/ Answer(r, r, "ok") /\ effect' = effect \cup {r} /\ UNCHANGED left
     \/ Answer(r, r, "refused") /\ UNCHANGED <<effect, left>>
     \/ Answer(r, r, "error") /\ effect' \in {effect, effect \cup {r}} /\ Spend("error")
     \/ Answer(r, r, "large") /\ effect' = effect \cup {r} /\ Spend("large")
  /\ Go(r, "finalize")
  /\ UNCHANGED <<redis, sent, recs, slots, holds, lost>>

\* The records without the one at a position of P, which are one or none.
Dropped(P) == IF P = {} THEN recs ELSE RemoveAt(recs, CHOOSE i \in P : TRUE)

CompletedAt(P) ==
  [i \in DOMAIN recs |-> IF i \in P THEN [recs[i] EXCEPT !.state = "completed"] ELSE recs[i]]

\* Mutant: the reservation is released after every answer.
ReleasedAlways(r) == Dropped(Mine(r))

\* Mutant: a reservation is released by its key, whoever owns it.
ReleasedByKey(r) ==
  IF out[r].code \in {"error", "large"} THEN Dropped(Of(Key(r))) ELSE CompletedAt(Mine(r))

\* _release after a 5xx or a large answer, _complete otherwise; both leave a
\* record alone that another request owns.
Finalized(r) ==
  IF out[r].code \in {"error", "large"} THEN Dropped(Mine(r)) ELSE CompletedAt(Mine(r))

\* The middleware once the handler has answered: it looks the application up,
\* and when that raises the answer is a 500 and nothing is finalized;
\* otherwise finalize_idempotent_response, whose failures are passed over.
Finalize(r) ==
  /\ pc[r] = "finalize"
  /\ \/ recs' = Finalized(r) /\ UNCHANGED <<out, left>>
     \/ BackendFails /\ recs' \in {recs, Finalized(r)} /\ UNCHANGED out
     \/ Spend("lookup") /\ Answer(r, r, "error") /\ UNCHANGED recs
  /\ Go(r, "done")
  /\ UNCHANGED <<redis, sent, slots, holds, effect, lost>>

\* Mutant: only a handler that was run gives its slot back.
ReleaseSlotOfRun(r) ==
  /\ r \in holds /\ pc[r] \in {"finalize", "done"} /\ out[r].by = r
  /\ holds' = holds \ {r} /\ slots' = slots \ {r}
  /\ UNCHANGED <<redis, sent, recs, pc, out, effect, lost, left>>

\* release_commercial_slot, when the dependency is left: after the handler, a
\* replay or a refusal.  A failing call is passed over; the lease ends it.
ReleaseSlot(r) ==
  /\ r \in holds /\ pc[r] \in {"finalize", "done"}
  /\ holds' = holds \ {r}
  /\ \/ slots' = slots \ {r} /\ UNCHANGED left
     \/ BackendFails /\ slots' \in {slots, slots \ {r}}
  /\ UNCHANGED <<redis, sent, recs, pc, out, effect, lost>>

-----------------------------------------------------------------------------
\* The oldest record reaches the end of its window (_purge_expired, EX).
ExpireRecord ==
  /\ recs # <<>> /\ Spend("expire")
  /\ recs' = Tail(recs)
  /\ lost' = lost \cup {Head(recs).owner}
  /\ UNCHANGED <<redis, sent, slots, holds, pc, out, effect>>

\* A lease ends: of a request that is gone sooner or later, of one that is
\* still running only if it outlasts COMMERCIAL_CONCURRENCY_LEASE_SECONDS.
ExpireLease(r) ==
  /\ redis /\ r \in slots
  /\ IF r \in holds THEN Spend("lease") ELSE UNCHANGED left
  /\ slots' = slots \ {r}
  /\ UNCHANGED <<redis, sent, recs, holds, pc, out, effect, lost>>

\* A process dies: with redis the requests it served, without it everything
\* that is in memory too.
Running == {r \in Requests : pc[r] \notin {"new", "dead"} /\ (pc[r] # "done" \/ r \in holds)}

Crash ==
  /\ Spend("crash")
  /\ \E D \in SUBSET Running :
       /\ D # {} /\ (~redis => D = Running)
       /\ pc' = [r \in Requests |-> IF r \in D THEN "dead" ELSE pc[r]]
       /\ holds' = holds \ D
  /\ IF redis THEN UNCHANGED <<recs, slots, lost>>
     ELSE /\ recs' = <<>> /\ slots' = {}
          /\ lost' = lost \cup {recs[i].owner : i \in DOMAIN recs}
  /\ UNCHANGED <<redis, sent, out, effect>>

Init ==
  /\ redis \in Backends /\ sent \in Inputs
  /\ recs = <<>> /\ slots = {} /\ holds = {}
  /\ pc = [r \in Requests |-> "new"]
  /\ out = [r \in Requests |-> Nil]
  /\ effect = {} /\ lost = {}
  /\ left = Quota

Step(r) == Reserve(r) \/ Handle(r) \/ Finalize(r) \/ ReleaseSlot(r)

Next ==
  \/ \E r \in Requests : Acquire(r) \/ Step(r) \/ ExpireLease(r)
  \/ ExpireRecord \/ Crash

Spec == Init /\ [][Next]_vars

(***************************************************************************)
(* Fairness: the event loop runs every request that has arrived to its     *)
(* end, and redis removes an expired lease.                                *)
(***************************************************************************)
Fairness == \A r \in Requests : WF_vars(Step(r)) /\ WF_vars(r \notin holds /\ ExpireLease(r))

-----------------------------------------------------------------------------
(* Properties.                                                             *)

\* Every variable has its type, and no key has two records.
TypeOK ==
  /\ redis \in BOOLEAN /\ sent \in Inputs
  /\ \A i \in DOMAIN recs : /\ recs[i].owner \in Requests
                            /\ recs[i].state \in {"in_progress", "completed"}
                            /\ Of(recs[i].key) = {i}
  /\ slots \subseteq Requests /\ holds \subseteq Requests
  /\ pc \in [Requests -> {"new", "reserve", "run", "finalize", "done", "dead"}]
  /\ \A r \in Requests : out[r] # Nil =>
       out[r].by \in Requests /\ out[r].code \in {"ok", "refused", "error", "large", "busy", "conflict"}
  /\ effect \subseteq Requests /\ lost \subseteq Requests
  /\ left \in [Kinds -> Nat]

\* Of the requests with one key whose record is not dropped, at most one
\* writes, whatever crashes and whichever answers are lost; the documented
\* exceptions are a 5xx and an answer too large to keep.
AtMostOnce ==
  \A r, q \in effect \ lost :
    /\ Key(r) = Key(q) /\ r # q
    => \E s \in {r, q} : out[s].code \in {"error", "large"}

\* A replayed answer is the answer of a request with the same key and the same
\* fingerprint that the handler completed.
ReplayIsFaithful ==
  \A r \in Requests : out[r] # Nil /\ out[r].by # r =>
    LET q == out[r].by
    IN  /\ Key(q) = Key(r) /\ Hash(q) = Hash(r)
        /\ out[q] = out[r] /\ out[r].code \in {"ok", "refused"}

\* A repeated request writes once and gets the answer of the one that wrote.
Idempotent == TypeOK /\ AtMostOnce /\ ReplayIsFaithful

\* A request keeps its reservation until it finalizes it: a late request whose
\* own record has expired neither completes nor releases a later one.
KeepsReservation ==
  \A r \in Requests \ lost : pc[r] \in {"run", "finalize"} => Mine(r) # {}

\* As long as no request outlasts its lease, no more of them are inside than
\* the entitlement allows.
SlotBound == left["lease"] = Quota["lease"] => Cardinality(holds) <= Limit

\* What a request has taken, its key and its slot, is its own until it gives it back.
KeepsWhatItTook == KeepsReservation /\ SlotBound

\* Every slot that is taken is given back, whether the request ends, is
\* replayed or refused, its release fails or its process dies.
SlotsComeBack == <>[](slots = {})
=============================================================================
