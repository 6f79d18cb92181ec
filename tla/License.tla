------------------------------ MODULE License -------------------------------
(***************************************************************************)
(* The signed licence of a deployment (portrait_commercial_license): a file  *)
(* that is verified with a key file and kept under the two files' stamps,    *)
(* and what it allows.  New projects, streams and capacity need a licence    *)
(* that is active and a limit that is not reached; what is there may still   *)
(* be used in the grace period.  The routes count, ask, and create in steps  *)
(* between which others run.                                                *)
(***************************************************************************)
EXTENDS Naturals, FiniteSets, Sequences

CONSTANTS
  Reqs, Names,
  Docs,      (* licences [starts, expires, grace, key: that signed it, here: *)
             (* for this instance, names: projects, projects, streams:       *)
             (* limits, caps: capabilities]                                 *)
  Home,      (* the project of the streams and the credential                *)
  Scenes,    (* [doc, key: at first, plan: limits of the entitlement or Nil, *)
             (* projects, running: at first, todo: per request its calls,     *)
             (* moves, faults, time: bounds]                                 *)
  Nil

VARIABLES
  scene,
  now,
  licence, key,    (* the files: what they hold, and their stamp             *)
  old,             (* the licence before, for an operator who puts it back    *)
  cache,           (* [stamps, doc] of the last verification, or Nil         *)
  lock,            (* the request that verifies, or Nil                      *)
  projects,        (* the tenant's projects                                  *)
  streams,         (* per stream "none", "stopped" or "running"              *)
  cap,             (* the capacity of the credential                         *)
  task, todo,
  left,            (* [moves, faults] that may still come                    *)
  backdated,       (* a licence was put back with its old stamp              *)
  restored         (* a snapshot of the projects was restored                *)

vars == <<scene, now, licence, key, old, cache, lock, projects, streams, cap, task, todo, left, backdated, restored>>

Idle == [pc |-> "idle", call |-> Nil, count |-> 0, asked |-> FALSE, stamps |-> Nil, doc |-> Nil, at |-> 0,
         snap |-> Nil, limit |-> 0, before |-> 0, after |-> 0, others |-> 0, seen |-> {}, keys |-> {}]
To(r, p) == task' = [task EXCEPT ![r].pc = p]
Op(r) == task[r].call.op
Id(r) == task[r].call.id
Fault == left.faults > 0 /\ left' = [left EXCEPT !.faults = @ - 1]
NoFault == UNCHANGED left

-----------------------------------------------------------------------------
(* The licence.                                                            *)

\* verify_license_document, but for the forms of its fields.
Verified(doc, k) == doc.key = k /\ doc.here /\ doc.starts < doc.expires
RuntimeStatus(doc, t) ==
  IF t < doc.starts THEN "pending" ELSE IF t <= doc.expires THEN "active"
  ELSE IF t <= doc.expires + doc.grace THEN "grace" ELSE "expired"

\* The limit that a licence or a plan sets, of what a call counts.
Limited == {"project", "stream", "start"}
LimitOf(op, limits) == IF op = "project" THEN limits.projects ELSE limits.streams

\* require_license_allocation
Allocates(doc, c, count, t) ==
  /\ RuntimeStatus(doc, t) = "active"
  /\ (IF c.op = "project" THEN c.id ELSE Home) \in doc.names
  /\ c.op \in Limited => count < LimitOf(c.op, doc)
\* require_license_capability
Permits(doc, c, t) == RuntimeStatus(doc, t) \in {"active", "grace"} /\ Home \in doc.names /\ c.id \in doc.caps

Allowed(doc, c, count, t) == IF c.op = "use" THEN Permits(doc, c, t) ELSE Allocates(doc, c, count, t)

-----------------------------------------------------------------------------
(* A request.                                                              *)
Same == UNCHANGED <<scene, now, licence, key, old, backdated>>
SameGoods == UNCHANGED <<projects, streams, cap, restored>>

\* What is counted, or compared, before the question: a stream that runs is not asked for,
\* and neither is a change of a credential that does not expand it.
Running == {s \in Names : streams[s] = "running"}
There(op, ps, st, c) ==
  CASE op = "project" -> Cardinality(ps) [] op = "stream" -> Cardinality({n \in Names : st[n] # "none"})
    [] op = "patch" -> c [] OTHER -> Cardinality({n \in Names : st[n] = "running"})
Asks(c) == CASE c.op = "stop" -> FALSE [] c.op = "start" -> streams[c.id] # "running" [] c.op = "patch" -> c.value > cap [] OTHER -> TRUE

Begin(r) ==
  /\ task[r].pc = "idle" /\ todo[r] # <<>>
  /\ LET c == Head(todo[r]) IN
     /\ c.op \in {"start", "stop"} => streams[c.id] # "none"
     /\ task' = [task EXCEPT ![r] = [Idle EXCEPT !.pc = IF Asks(c) THEN "ask" ELSE "snap", !.call = c,
                                                 !.count = There(c.op, projects, streams, cap), !.asked = Asks(c)]]
  /\ todo' = [todo EXCEPT ![r] = Tail(@)] /\ UNCHANGED <<cache, lock>> /\ NoFault /\ Same /\ SameGoods

\* require_project_allocation and require_entitlement_allocation: first the limits of the
\* plan, then the licence: its files' stamps.
Ask(r) ==
  /\ task[r].pc = "ask"
  /\ task' = [task EXCEPT ![r] =
       IF scene.plan # Nil /\ Op(r) \in Limited /\ @.count >= LimitOf(Op(r), scene.plan) THEN Idle
       ELSE [@ EXCEPT !.pc = "load", !.stamps = <<licence.stamp, key.stamp>>, !.seen = {licence.doc}, !.keys = {key.of}]]
  /\ UNCHANGED <<todo, cache, lock>> /\ NoFault /\ Same /\ SameGoods

Answered(r, doc) == LET q == task[r]  op == q.call.op IN
  task' = [task EXCEPT ![r] = IF ~Allowed(doc, q.call, q.count, now) THEN Idle
                              ELSE [q EXCEPT !.pc = IF op = "use" THEN "used" ELSE "snap", !.doc = doc, !.at = now,
                                             !.limit = IF op \in Limited THEN LimitOf(op, doc) ELSE 0]]

\* load_and_verify_commercial_license: what was verified under these stamps is taken again,
\* but its status is told anew.
Cached(r) == cache # Nil /\ cache.stamps = task[r].stamps
Load(r) ==
  /\ task[r].pc = "load" /\ lock = Nil
  /\ IF Cached(r) THEN Answered(r, cache.doc) /\ UNCHANGED lock
     ELSE task' = [task EXCEPT ![r].pc = "verify", ![r].doc = licence.doc] /\ lock' = r
  /\ UNCHANGED <<todo, cache>> /\ NoFault /\ Same /\ SameGoods

Verify(r) ==
  /\ task[r].pc = "verify" /\ lock' = Nil
  /\ IF Verified(task[r].doc, key.of) THEN cache' = [stamps |-> task[r].stamps, doc |-> task[r].doc] /\ Answered(r, task[r].doc)
     ELSE task' = [task EXCEPT ![r] = Idle] /\ UNCHANGED cache
  /\ UNCHANGED todo /\ NoFault /\ Same /\ SameGoods

Used(r) == task[r].pc = "used" /\ task' = [task EXCEPT ![r] = Idle] /\ UNCHANGED <<todo, cache, lock>> /\ NoFault /\ Same /\ SameGoods

\* The snapshot that a failing audit record restores.
Snap(r) ==
  /\ task[r].pc = "snap"
  /\ task' = [task EXCEPT ![r].pc = "act",
                          ![r].snap = IF Op(r) \in {"project", "patch"} THEN [projects |-> projects, cap |-> cap] ELSE streams[Id(r)]]
  /\ UNCHANGED <<todo, cache, lock>> /\ NoFault /\ Same /\ SameGoods

\* It is created, started, stopped or changed.  A project that is there already answers 409.
Kind(op) == IF op \in {"start", "stop"} THEN "running" ELSE op
Act(r) ==
  /\ task[r].pc = "act"
  /\ LET op == Op(r)  refused == op = "project" /\ Id(r) \in projects IN
     /\ projects' = IF op = "project" THEN projects \cup {Id(r)} ELSE projects
     /\ streams' = IF op \in {"stream", "start", "stop"}
                   THEN [streams EXCEPT ![Id(r)] = IF op = "start" THEN "running" ELSE "stopped"] ELSE streams
     /\ cap' = IF op = "patch" THEN task[r].call.value ELSE cap
     /\ task' = [q \in Reqs |->
          IF q = r THEN IF refused THEN Idle ELSE [task[r] EXCEPT !.pc = "audit", !.before = There(op, projects, streams, cap),
                                                                             !.after = There(op, projects', streams', cap')]
          ELSE IF ~refused /\ task[q].pc \notin {"idle", "audit"} /\ Kind(Op(q)) = Kind(op) /\ op # "stop"
               THEN [task[q] EXCEPT !.others = @ + 1] ELSE task[q]]
  /\ UNCHANGED <<todo, cache, lock, restored>> /\ NoFault /\ Same

\* audit_event, or what was done is put back: of a project all of the access state.
Audit(r) ==
  /\ task[r].pc = "audit" /\ task' = [task EXCEPT ![r] = Idle] /\ UNCHANGED <<todo, cache, lock>> /\ Same
  /\ \/ NoFault /\ SameGoods
     \/ /\ Fault
        /\ IF Op(r) \in {"project", "patch"}
           THEN projects' = task[r].snap.projects /\ cap' = task[r].snap.cap /\ restored' = TRUE /\ UNCHANGED streams
           ELSE streams' = [streams EXCEPT ![Id(r)] = task[r].snap] /\ restored' = TRUE /\ UNCHANGED <<projects, cap>>

-----------------------------------------------------------------------------
(* The operator and the clock.                                             *)
Looking(r) == task[r].pc \in {"load", "verify"}
Replaced(docs, keys) ==
  task' = [r \in Reqs |-> IF Looking(r) THEN [task[r] EXCEPT !.seen = @ \cup docs, !.keys = @ \cup keys] ELSE task[r]]
Moves == left.moves > 0 /\ left' = [left EXCEPT !.moves = @ - 1]
Stamps == {licence.stamp, old.stamp, key.stamp}
Newest == CHOOSE n \in Stamps : \A m \in Stamps : m <= n

Install ==
  /\ Moves /\ \E d \in Docs \ {licence.doc} : licence' = [doc |-> d, stamp |-> Newest + 1] /\ Replaced({d}, {})
  /\ old' = licence /\ UNCHANGED <<scene, now, key, cache, lock, todo, backdated>> /\ SameGoods
PutBack ==
  /\ Moves /\ licence # old /\ licence' = old /\ old' = licence /\ backdated' = TRUE /\ Replaced({old.doc}, {})
  /\ UNCHANGED <<scene, now, key, cache, lock, todo>> /\ SameGoods
ChangeKey ==
  /\ Moves /\ \E k \in {d.key : d \in Docs} \ {key.of} : key' = [of |-> k, stamp |-> Newest + 1] /\ Replaced({}, {k})
  /\ UNCHANGED <<scene, now, licence, old, cache, lock, todo, backdated>> /\ SameGoods
Tick == /\ now < scene.time /\ now' = now + 1
        /\ UNCHANGED <<scene, licence, key, old, cache, lock, task, todo, left, backdated>> /\ SameGoods

Init ==
  /\ scene \in Scenes /\ now = 1
  /\ licence = [doc |-> scene.doc, stamp |-> 1] /\ key = [of |-> scene.key, stamp |-> 1] /\ old = licence
  /\ cache = Nil /\ lock = Nil /\ projects = scene.projects /\ cap = 1
  /\ streams = [s \in Names |-> IF s \in scene.running THEN "running" ELSE "none"]
  /\ task = [r \in Reqs |-> Idle] /\ todo = scene.todo /\ left = [moves |-> scene.moves, faults |-> scene.faults]
  /\ backdated = FALSE /\ restored = FALSE

Next ==
  \/ \E r \in Reqs : Begin(r) \/ Ask(r) \/ Load(r) \/ Verify(r) \/ Used(r) \/ Snap(r) \/ Act(r) \/ Audit(r)
  \/ Install \/ PutBack \/ ChangeKey \/ Tick

Spec == Init /\ [][Next]_vars

-----------------------------------------------------------------------------
\* What is kept under the stamps of the files is what they hold, and it verifies, unless a
\* licence was put back with its old stamp while it was read.
KeptIsTrue ==
  cache # Nil /\ ~backdated /\ cache.stamps = <<licence.stamp, key.stamp>> =>
    cache.doc = licence.doc /\ Verified(licence.doc, key.of)

\* What is allowed was allowed by a licence that lay there, with its key, while it was asked
\* for, by its status at that time: nothing new in the grace period, nothing at all after it.
AllowedWasLicensed ==
  ~backdated => \A r \in Reqs : LET q == task[r] IN
    q.asked /\ q.pc \in {"used", "snap", "act", "audit"} =>
      /\ q.doc \in q.seen /\ \E k \in q.keys : Verified(q.doc, k)
      /\ RuntimeStatus(q.doc, q.at) \in (IF q.call.op = "use" THEN {"active", "grace"} ELSE {"active"})

\* A limit is passed by no more than were created by others between the count and the
\* creation, and a credential grows unasked only if another change came between.
LimitsHold ==
  ~restored => \A r \in Reqs : LET q == task[r] IN
    q.pc = "audit" =>
      /\ q.call.op \in Limited /\ q.asked => q.after <= q.limit + q.others
      /\ q.call.op = "patch" /\ ~q.asked => q.after <= q.before \/ q.others > 0

LicenceIsSound == KeptIsTrue /\ AllowedWasLicensed /\ LimitsHold
=============================================================================
