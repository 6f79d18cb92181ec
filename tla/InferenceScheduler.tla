------------------------- MODULE InferenceScheduler -------------------------
(***************************************************************************)
(* The dynamic batching of one model (inference_scheduler): submit puts a  *)
(* request on a bounded queue and awaits its future; one worker task waits *)
(* for a batch, takes it fairly from the scopes that are waiting, runs it  *)
(* and hands every caller its own rows, falling back to one call for every *)
(* request when the batch fails.                                           *)
(*                                                                         *)
(* All of it runs on one event loop: what lies between two awaits is one   *)
(* step.  Requests are enqueued in the order of their enqueued_at, so that *)
(* the oldest one of a priority is its first one in the queue.  Time is    *)
(* left open: a wait may be over and a deadline may have passed whenever   *)
(* the code looks.  Row i of the input of r is the pair <<r, i>>, and the  *)
(* model maps rows to rows.                                                *)
(***************************************************************************)
EXTENDS Naturals, FiniteSets, SequencesExt

CONSTANTS
  Requests,  (* inference requests                                         *)
  Inputs,    (* what they are: a function from Requests to scope, priority *)
             (* (0 is sync, 1 is async), weight, group and size            *)
  MaxBatch,  (* dynamic_batch_max_size                                     *)
  MaxQueue,  (* dynamic_batch_max_queue_size                               *)
  MaxFaults, (* bound on cancellations, timeouts and failing calls         *)
  Nil        (* no value                                                   *)

ASSUME BoundsAssumption == /\ IsFiniteSet(Requests)
                           /\ MaxBatch \in Nat \ {0} /\ MaxQueue \in Nat \ {0}
                           /\ MaxFaults \in Nat
ASSUME InputsAssumption ==
  \A in \in Inputs, r \in Requests : /\ in[r].priority \in {0, 1}
                                     /\ in[r].weight \in Nat \ {0}
                                     /\ in[r].size \in Nat \ {0}

VARIABLES
  item,   (* which of Inputs is submitted                                  *)
  queue,  (* _queue                                                        *)
  fut,    (* the future of each request, "new" before its submit           *)
  result, (* the rows a future was given                                   *)
  worker, (* _worker: none, or where the task is                           *)
  wake,   (* _wake is set                                                  *)
  seed,   (* the request whose wait the worker sleeps through              *)
  batch,  (* the batch that is dispatched                                  *)
  single, (* the requests whose own call is running                        *)
  last,   (* _last_scope                                                   *)
  over,   (* queued requests whose wait is known to be over                *)
  overtaken, (* how many batches in a row, each with this request as its   *)
             (* seed, were taken without it                                *)
  left    (* what is left of MaxFaults                                     *)

vars == <<item, queue, fut, result, worker, wake, seed, batch, single, last, over, overtaken, left>>

Fault == left > 0 /\ left' = left - 1

\* The requests of s that are in S, in their order.
Those(s, S) ==
  LET f[n \in 0..Len(s)] == IF n = 0 THEN <<>>
                            ELSE IF s[n] \in S THEN Append(f[n - 1], s[n]) ELSE f[n - 1]
  IN  f[Len(s)]

\* a comes before b in q.
Before(q, a, b) == \E i, j \in DOMAIN q : i < j /\ q[i] = a /\ q[j] = b

\* The rows of the first n requests of s, and of all of them.
Sizes(s) == LET f[n \in 0..Len(s)] == IF n = 0 THEN 0 ELSE f[n - 1] + item[s[n]].size IN f
Size(s)  == Sizes(s)[Len(s)]

Rows(r)   == [i \in 1..item[r].size |-> <<r, i>>]
AllScopes == {item[r].scope : r \in Requests}
Class(r)  == <<item[r].priority, item[r].group>>

\* _discard_finished: what was cancelled is dropped, and D, the requests that
\* are past their deadline, fail.
Late     == {D \in SUBSET {r \in ToSet(queue) : fut[r] = "pending"} : Cardinality(D) <= left}
Kept(D)  == Those(queue, {r \in Requests : fut[r] = "pending"} \ D)
Timed(D) == [r \in Requests |-> IF r \in D THEN "timeout" ELSE fut[r]]

-----------------------------------------------------------------------------
\* submit
Submit(r) ==
  /\ fut[r] = "new"
  /\ \E D \in Late :
       /\ left' = left - Cardinality(D)
       /\ IF Len(Kept(D)) >= MaxQueue
          THEN /\ queue' = Kept(D) /\ fut' = [Timed(D) EXCEPT ![r] = "rejected"]
               /\ UNCHANGED <<worker, wake>>
          ELSE /\ queue' = Append(Kept(D), r) /\ fut' = [Timed(D) EXCEPT ![r] = "pending"]
               /\ wake' = TRUE
               /\ worker' = IF worker = "none" THEN "loop" ELSE worker
  /\ UNCHANGED <<item, result, seed, batch, single, last, over, overtaken>>

\* The task that awaits submit is cancelled.
Cancel(r) ==
  /\ fut[r] = "pending" /\ Fault
  /\ fut' = [fut EXCEPT ![r] = "cancelled"]
  /\ wake' = TRUE
  /\ UNCHANGED <<item, queue, result, worker, seed, batch, single, last, over, overtaken>>

-----------------------------------------------------------------------------
(* _take_fair_batch, over the candidates C of the seed's class: rounds     *)
(* over the scopes, in each of which a scope gives as many requests as the *)
(* weight of its first one says, as long as they fit.                      *)

\* The scopes that wait, in the order of their first request.
Scopes(C) ==
  LET firsts == Those(C, {r \in ToSet(C) : \A b \in ToSet(C) : Before(C, b, r) => item[b].scope # item[r].scope})
  IN  [i \in DOMAIN firsts |-> item[firsts[i]].scope]

\* Mutant: the scope that was served last comes first again.
RotatedToLast(s) ==
  IF last \in ToSet(s)
  THEN LET k == CHOOSE i \in DOMAIN s : s[i] = last
       IN  SubSeq(s, k, Len(s)) \o SubSeq(s, 1, k - 1)
  ELSE s

\* The scope after the one that was served last comes first.
Rotated(s) ==
  IF last \in ToSet(s)
  THEN LET k == CHOOSE i \in DOMAIN s : s[i] = last
       IN  SubSeq(s, k + 1, Len(s)) \o SubSeq(s, 1, k)
  ELSE s

\* Request i of q still fits behind sel and the requests before it in q; the
\* first one of a batch always does.
Fits(sel, q, i) ==
  LET before == Size(sel) + Sizes(q)[i - 1]
  IN  /\ before < MaxBatch
      /\ (sel # <<>> \/ i > 1) => before + item[q[i]].size <= MaxBatch

\* The requests a scope gives when its turn comes after sel.
Share(C, sel, scope) ==
  LET q   == Those(C, {r \in Requests : item[r].scope = scope} \ ToSet(sel))
      cap == IF q = <<>> THEN 0 ELSE Min({Len(q), item[q[1]].weight})
  IN  SubSeq(q, 1, Max({j \in 0..cap : \A i \in 1..j : Fits(sel, q, i)}))

\* The turns of all rounds: every round but the last selects something, so
\* that as many rounds as candidates are enough.
FairBatch(C) ==
  LET scopes == Rotated(Scopes(C))
      Turn[n \in 0..(Len(scopes) * Len(C))] ==
        IF n = 0 THEN <<>>
        ELSE LET sel == Turn[n - 1]
             IN  sel \o Share(C, sel, scopes[((n - 1) % Len(scopes)) + 1])
  IN  Turn[Len(scopes) * Len(C)]

-----------------------------------------------------------------------------
\* The queue is empty: the task ends, and the next submit starts another.
LoopEnds(q) ==
  /\ q = <<>> /\ worker' = "none" /\ queue' = q
  /\ UNCHANGED <<wake, seed, batch, single, last, over, overtaken>>

\* The seed is the oldest request of the best priority.
Seed(q) == LET best == Min({item[r].priority : r \in ToSet(q)})
           IN  q[Min({i \in DOMAIN q : item[q[i]].priority = best})]

Candidates(q) == Those(q, {r \in Requests : Class(r) = Class(Seed(q))})

\* Its wait is not over and no batch is full: the task sleeps.
LoopSleeps(q) ==
  /\ q # <<>> /\ Seed(q) \notin over /\ Size(Candidates(q)) < MaxBatch
  /\ seed' = Seed(q) /\ wake' = FALSE /\ worker' = "sleep" /\ queue' = q
  /\ UNCHANGED <<batch, single, last, over, overtaken>>

\* _take_fair_batch and the beginning of _dispatch.
LoopDispatches(q) ==
  /\ q # <<>>
  /\ \E new \in {FairBatch(Candidates(q))} :
     LET B    == ToSet(new)
         rest == Those(q, Requests \ B)
     IN  /\ queue' = rest /\ last' = item[Last(new)].scope
         /\ IF Len(new) = 1 THEN worker' = "single" /\ single' = B /\ UNCHANGED batch
            ELSE worker' = "batch" /\ batch' = new /\ UNCHANGED single
         /\ over' = IF Size(Candidates(q)) < MaxBatch THEN over \cup {Seed(q)} ELSE over
         /\ overtaken' = [r \in Requests |-> IF r = Seed(q) /\ r \notin B THEN overtaken[r] + 1 ELSE 0]
  /\ UNCHANGED <<wake, seed>>

\* One turn of the loop of _run, up to its next await.
Loop ==
  /\ worker = "loop"
  /\ \E D \in Late : \E q \in {Kept(D)} :
       /\ left' = left - Cardinality(D) /\ fut' = Timed(D)
       /\ LoopEnds(q) \/ LoopSleeps(q) \/ LoopDispatches(q)
  /\ UNCHANGED <<item, result>>

\* The sleep ends with its time, or because something was submitted or
\* cancelled.
Awake ==
  /\ worker = "sleep" /\ worker' = "loop" /\ seed' = Nil
  /\ \/ wake /\ UNCHANGED over
     \/ over' = over \cup {seed}
  /\ UNCHANGED <<item, queue, fut, result, wake, batch, single, last, overtaken, left>>

-----------------------------------------------------------------------------
\* Mutant: the second slice starts where the first one does.
SplitOverlapping(out, k) == SubSeq(out, 1, item[batch[k]].size)

\* _split_outputs: the rows of the k-th request of the batch.
Split(out, k) == SubSeq(out, Sizes(batch)[k - 1] + 1, Sizes(batch)[k])

\* The rows of all requests of s, one request after the other.
Joined(s) ==
  LET f[n \in 0..Len(s)] == IF n = 0 THEN <<>> ELSE f[n - 1] \o Rows(s[n]) IN f[Len(s)]

\* Mutant: the outcome is written into a future that was cancelled.
OpenAny(r) == TRUE

\* The future is neither cancelled nor done.
Open(r) == fut[r] = "pending"

\* The executor returns from a batch: every caller gets its slice.
BatchDone ==
  /\ worker = "batch"
  /\ LET Of(r) == CHOOSE k \in DOMAIN batch : batch[k] = r
         B == {r \in ToSet(batch) : Open(r)}
     IN  /\ fut' = [r \in Requests |-> IF r \in B THEN "done" ELSE fut[r]]
         /\ result' = [r \in Requests |-> IF r \in B THEN Split(Joined(batch), Of(r)) ELSE result[r]]
  /\ worker' = "loop" /\ batch' = <<>>
  /\ UNCHANGED <<item, queue, wake, seed, single, last, over, overtaken, left>>

\* Mutant: nobody is told that the batch failed.
BatchFailsSilently ==
  /\ worker = "batch" /\ Fault /\ worker' = "loop" /\ batch' = <<>>
  /\ UNCHANGED <<item, queue, fut, result, wake, seed, single, last, over, overtaken>>

\* It raises, or does not keep the batch dimension: one call for every request.
BatchFails ==
  /\ worker = "batch" /\ Fault /\ batch' = <<>>
  /\ single' = {r \in ToSet(batch) : Open(r)}
  /\ worker' = IF single' = {} THEN "loop" ELSE "single"
  /\ UNCHANGED <<item, queue, fut, result, wake, seed, last, over, overtaken>>

\* _execute_one, from its call to its end; gather waits for the last one.
SingleDone(r) ==
  /\ worker = "single" /\ r \in single
  /\ single' = single \ {r}
  /\ worker' = IF single' = {} THEN "loop" ELSE worker
  /\ \/ /\ fut' = IF Open(r) THEN [fut EXCEPT ![r] = "done"] ELSE fut
        /\ result' = IF Open(r) THEN [result EXCEPT ![r] = Rows(r)] ELSE result
        /\ UNCHANGED left
     \/ /\ fut' = IF Open(r) THEN [fut EXCEPT ![r] = "failed"] ELSE fut
        /\ Fault /\ UNCHANGED result
  /\ UNCHANGED <<item, queue, wake, seed, batch, last, over, overtaken>>

-----------------------------------------------------------------------------
Init ==
  /\ item \in Inputs
  /\ queue = <<>> /\ batch = <<>> /\ single = {} /\ over = {}
  /\ fut = [r \in Requests |-> "new"] /\ result = [r \in Requests |-> <<>>]
  /\ worker = "none" /\ wake = FALSE /\ seed = Nil /\ last = Nil
  /\ overtaken = [r \in Requests |-> 0]
  /\ left = MaxFaults

WorkerStep == Loop \/ Awake \/ BatchDone \/ BatchFails \/ \E r \in Requests : SingleDone(r)

Next == WorkerStep \/ \E r \in Requests : Submit(r) \/ Cancel(r)

Spec == Init /\ [][Next]_vars

(***************************************************************************)
(* Fairness: the event loop runs the worker, the wait it sleeps through    *)
(* ends, and the executor returns.  This is WF_vars(WorkerStep): the step  *)
(* is enabled exactly as long as there is a worker.                        *)
(***************************************************************************)
FairSpec == Spec /\ ([]<>(worker = "none") \/ []<><<WorkerStep>>_vars)

-----------------------------------------------------------------------------
(* Properties.                                                             *)

\* A batch of several is no larger than the model allows, and all of it belongs
\* together; a request that is larger by itself is called by itself.
BatchFits ==
  worker = "batch" => /\ Size(batch) <= MaxBatch
                      /\ \A i, j \in DOMAIN batch : Class(batch[i]) = Class(batch[j])

\* Every variable has its type, and the queue and the batch their bounds.
TypeOK ==
  /\ item \in Inputs /\ queue \in Seq(Requests) /\ Len(queue) <= MaxQueue
  /\ IsInjective(queue \o batch)
  /\ fut \in [Requests -> {"new", "pending", "done", "failed", "timeout", "cancelled", "rejected"}]
  /\ worker \in {"none", "loop", "sleep", "batch", "single"} /\ wake \in BOOLEAN
  /\ single \subseteq Requests /\ over \subseteq Requests
  /\ overtaken \in [Requests -> Nat] /\ left \in 0..MaxFaults
  /\ BatchFits

\* Whoever is answered is answered with the rows of his own input, from a
\* batch as from a call of its own.
ResultIsOwn == \A r \in Requests : fut[r] = "done" => result[r] = Rows(r)

\* No batch is larger than its limit or of several classes, nobody is queued or batched twice,
\* and every answer is the caller's own.
BatchesAreSound == TypeOK /\ ResultIsOwn

\* Where requests are of one size, the request that has waited longest among those of the
\* best priority is left out of fewer batches in a row than there are scopes, whatever the
\* others submit with whatever weight: _last_scope goes round.  A waiting request that is
\* cancelled or late may give its scope one more turn before.  (A younger request may be
\* left out more often, and with sizes of its own a large one again and again.)
Uniform == \A r, q \in Requests : item[r].size = item[q].size

RarelyOvertaken ==
  Uniform => \A r \in Requests : overtaken[r] < Cardinality(AllScopes) + (MaxFaults - left)

\* A future is settled once: a cancelled or timed out caller is not answered
\* by the batch that was already running.
SettledOnce ==
  [][\A r \in Requests : fut[r] \notin {"new", "pending"} => fut'[r] = fut[r] /\ result'[r] = result[r]]_vars

\* Every request that is let in is settled: none waits for ever behind a worker
\* that has gone, a sleep nobody ends or a batch that failed.
EverySettles == <>[](\A r \in Requests : fut[r] # "pending")

=============================================================================
