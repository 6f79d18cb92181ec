--------------------------- MODULE ModelRelease ----------------------------
(***************************************************************************)
(* Governed releases of one model behind one alias: the registry of model  *)
(* versions with their evaluations, approvals and release events           *)
(* (portrait_model_registry), the alias in models.yml (model_config_writer,*)
(* model_config_resolver) and the routes that change both and put both     *)
(* back when a step fails.                                                 *)
(*                                                                         *)
(* Every call of the routes awaits between two of the steps below; a       *)
(* registry operation runs under the lock of the registry, while the file  *)
(* models.yml is read, changed and written by threads that hold no lock.   *)
(* A version is its own model_target, artifacts match their digest, and    *)
(* provenance is given: register_model_version demands it.                 *)
(***************************************************************************)
EXTENDS Naturals, FiniteSets, Sequences

CONSTANTS
  Versions, (* versions of the model                                       *)
  Stable,   (* the one that is active, and served by the alias, at first   *)
  Tasks,    (* calls under way at a time                                   *)
  Actors,   (* who calls: evaluates, approves and releases                 *)
  Workloads, (* functions from Tasks to sequences of calls: see Request    *)
  MaxFailures, (* bound on failing loads, writes and audit records         *)
  Nothing    (* no value                                                   *)

\* op, version, actor, risk, share of the traffic, expected_current_target
Actions == {"shadow", "canary", "activate", "rollback", "pause", "deprecate"}
Request == [op : {"register", "evaluate", "approve", "switch", "undo"} \cup Actions,
            v : Versions, by : Actors, risk : {1, 2}, share : {5, 60},
            expect : Versions \cup {Nothing}]
Rollout == [old : Versions, new : Versions, share : {5, 60}]

ASSUME VersionsAssumption == Stable \in Versions /\ Nothing \notin Versions \cup Rollout
ASSUME ActorsAssumption   == IsFiniteSet(Actors)
ASSUME CallsAssumption    == Workloads \subseteq [Tasks -> Seq(Request)] /\ MaxFailures \in Nat

VARIABLES
  reg,   (* the registry state: status and rollback_target of every        *)
         (* version, versions with a passing evaluation, approvals, and    *)
         (* the last release of every version: who, and what it required   *)
  alias, (* the entry of the alias in models.yml                           *)
  todo,  (* the calls of each task that are still to come                  *)
  task,  (* where each task is, and what it has read                       *)
  faults, (* what is left of MaxFailures                                   *)
  putBack, (* something was put back                                       *)
  mixed  (* a release met another call, or the alias changed past the registry *)

rlVars == <<reg, alias, todo, task, faults, putBack, mixed>>

Idle  == [pc |-> "idle", call |-> Nothing, reg |-> Nothing, alias |-> Nothing, doc |-> Nothing, old |-> Nothing, cur |-> Nothing]
Op(t) == task[t].call.op
V(t)  == task[t].call.v
To(t, p) == task' = [task EXCEPT ![t].pc = p]
Fault == faults > 0 /\ faults' = faults - 1

-----------------------------------------------------------------------------
(* The alias.                                                              *)

\* rollout_candidates and alias_resolution without a traffic key: the static
\* target, or the candidate with the highest weight (the first of the highest).
Resolved(a) ==
  IF a.target # Nothing THEN a.target
  ELSE IF a.rollout = Nothing THEN Nothing
  ELSE IF a.rollout.share > 50 THEN a.rollout.new ELSE a.rollout.old

\* The versions that some traffic key resolves to.
Served(a) == IF a.target # Nothing THEN {a.target}
             ELSE IF a.rollout = Nothing THEN {} ELSE {a.rollout.old, a.rollout.new}

\* configure_alias_shadow; with Nothing it ends the shadow.
Shadowed(a, v) == [a EXCEPT !.shadow = v]

\* switch_alias_target
Switched(a, v) ==
  [a EXCEPT !.target = v, !.prev = IF Resolved(a) \notin {Nothing, v} THEN Resolved(a) ELSE @]

\* configure_weighted_alias_rollout with the two targets of a canary
Weighted(a, old, new, share) ==
  [a EXCEPT !.target = Nothing, !.rollout = [old |-> old, new |-> new, share |-> share],
            !.prev = IF Resolved(a) # Nothing THEN Resolved(a) ELSE @]

MayRollBack(a) == a.prev # Nothing

\* rollback_alias_target
RolledBack(a) == [a EXCEPT !.target = a.prev, !.prev = Resolved(a)]

-----------------------------------------------------------------------------
(* The registry.                                                           *)
Transitions ==
  [draft      |-> {"candidate", "blocked"},
   candidate  |-> {"shadow", "canary", "blocked", "deprecated"},
   shadow     |-> {"canary", "candidate", "blocked", "deprecated"},
   canary     |-> {"active", "candidate", "blocked", "deprecated"},
   active     |-> {"deprecated", "blocked"},
   deprecated |-> {"candidate", "active"},
   blocked    |-> {"draft", "candidate", "deprecated"}]

\* register_model_version; the version is new.
Registered(r, c) == [r EXCEPT !.status[c.v] = "draft"]

\* create_model_evaluation, of an evaluation that passes its gates: a draft
\* becomes a candidate.
Evaluated(r, c) ==
  [r EXCEPT !.passed = @ \cup {c.v},
            !.status[c.v] = IF @ = "draft" THEN "candidate" ELSE @]

\* create_model_approval
Approved(r, c) == [r EXCEPT !.approved = @ \cup {<<c.v, c.by>>}]

\* The calls that change the registry only: what they demand and what they do.
Admits(r, c) ==
  CASE c.op = "register" -> r.status[c.v] = "none"
    [] c.op = "evaluate" -> r.status[c.v] # "none"
    [] c.op = "approve"  -> r.status[c.v] # "none" /\ <<c.v, c.by>> \notin r.approved

Changed(r, c) ==
  CASE c.op = "register" -> Registered(r, c)
    [] c.op = "evaluate" -> Evaluated(r, c)
    [] c.op = "approve"  -> Approved(r, c)

Approvers(r, c) == {a \in Actors \ {c.by} : <<c.v, a>> \in r.approved}

\* release_preflight: nothing blocks the release.
PreflightOk(r, a, c) ==
  /\ r.status[c.v] # "none"
  /\ c.op \in {"shadow", "canary", "activate"} => r.status[c.v] \notin {"draft", "blocked", "deprecated"}
  /\ c.v \in r.passed
  /\ Cardinality(Approvers(r, c)) >= c.risk
  /\ c.op = "rollback" => r.rollback[c.v]

Becomes(op) ==
  CASE op = "shadow" -> "shadow" [] op = "canary" -> "canary" [] op \in {"activate", "rollback"} -> "active"
    [] op = "pause" -> "blocked" [] op = "deprecate" -> "deprecated"

MayBecome(r, c) == LET s == r.status[c.v]
                   IN  s # "none" /\ (Becomes(c.op) = s \/ Becomes(c.op) \in Transitions[s])

\* record_release_event: what was active is deprecated, and may be rolled back
\* to; only then is the transition of the version looked at.
Succeeded(r, c) ==
  LET old == {u \in Versions \ {c.v} : Becomes(c.op) = "active" /\ r.status[u] = "active"}
  IN  [r EXCEPT !.status = [u \in Versions |-> IF u \in old THEN "deprecated" ELSE @[u]],
                !.rollback = [u \in Versions |-> @[u] \/ u \in old]]

Released(r, c) ==
  [Succeeded(r, c) EXCEPT !.status[c.v] = Becomes(c.op), !.last[c.v] = [by |-> c.by, needs |-> c.risk]]

-----------------------------------------------------------------------------
(* Register, evaluate and approve: snapshot, change, audit record.         *)
Releasing(t) == task[t].pc \notin {"idle", "change", "audit"}
Pops(t) == todo' = [todo EXCEPT ![t] = Tail(@)]

Begin(t) ==
  /\ task[t].pc = "idle" /\ todo[t] # <<>> /\ Head(todo[t]).op \in {"register", "evaluate", "approve"}
  /\ Pops(t) /\ task' = [task EXCEPT ![t] = [Idle EXCEPT !.pc = "change", !.call = Head(todo[t]), !.reg = reg]]
  /\ mixed' = (mixed \/ \E u \in Tasks \ {t} : Releasing(u))
  /\ UNCHANGED <<reg, alias, faults, putBack>>

Change(t) ==
  /\ task[t].pc = "change"
  /\ IF Admits(reg, task[t].call)
     THEN reg' = Changed(reg, task[t].call) /\ To(t, "audit")
     ELSE task' = [task EXCEPT ![t] = Idle] /\ UNCHANGED reg
  /\ UNCHANGED <<alias, todo, faults, putBack, mixed>>

-----------------------------------------------------------------------------
(* v1_model_release_apply                                                  *)
\* release_preflight; a release that is blocked answers 409.
Preflight(t) ==
  /\ task[t].pc = "idle" /\ todo[t] # <<>> /\ Head(todo[t]).op \in Actions
  /\ Pops(t)
  /\ LET c == Head(todo[t]) IN
     IF PreflightOk(reg, alias, c)
     THEN /\ task' = [task EXCEPT ![t] = [Idle EXCEPT !.pc = "snap", !.call = c, !.cur = alias.target]]
          /\ mixed' = (mixed \/ \E u \in Tasks \ {t} : task[u].pc # "idle")
     ELSE UNCHANGED <<task, mixed>>
  /\ UNCHANGED <<reg, alias, faults, putBack>>

\* model_registry_state_payload, then load_raw_model_config.
Snap(t) ==
  /\ \/ task[t].pc = "snap" /\ task' = [task EXCEPT ![t].reg = reg, ![t].pc = "snapcfg"]
     \/ task[t].pc = "snapcfg" /\ task' = [task EXCEPT ![t].alias = alias, ![t].pc = "load"]
  /\ UNCHANGED <<reg, alias, todo, faults, putBack, mixed>>

\* The candidate is loaded and prewarmed where it is going to serve.
Load(t) ==
  /\ task[t].pc = "load"
  /\ \/ To(t, "read") /\ UNCHANGED <<faults, putBack>>
     \/ Op(t) \notin {"pause", "deprecate"} /\ Fault /\ To(t, "undo") /\ putBack' = TRUE
  /\ UNCHANGED <<reg, alias, todo, mixed>>

\* models.yml is read and the new entry made: first, but for a new shadow, the
\* one without a shadow, then the target or the weights.  A target that is not
\* the expected one, or a current target that is missing, fails the release.
Second(t) == task[t].pc = "read2"
NewDoc(t) ==
  CASE ~Second(t) -> Shadowed(alias, IF Op(t) = "shadow" THEN V(t) ELSE Nothing)
    [] Second(t) /\ Op(t) = "canary" -> Weighted(alias, task[t].cur, V(t), task[t].call.share)
    [] OTHER -> Switched(alias, V(t))

ReadFails(t) ==
  \/ Resolved(alias) = Nothing
  \/ Op(t) = "shadow" /\ (task[t].cur = Nothing \/ V(t) = Resolved(alias))
  \/ Second(t) /\ \/ Op(t) = "canary" /\ task[t].cur = Nothing
                  \/ task[t].call.expect \notin {Nothing, Resolved(alias)}

Read(t) ==
  /\ task[t].pc \in {"read", "read2"}
  /\ IF ReadFails(t) THEN To(t, "undo") /\ putBack' = TRUE
     ELSE task' = [task EXCEPT ![t].doc = NewDoc(t), ![t].old = alias, ![t].pc = IF Second(t) THEN "write2" ELSE "write"]
          /\ UNCHANGED putBack
  /\ UNCHANGED <<reg, alias, todo, faults, mixed>>

\* commit_model_config_with_audit: the file is replaced by what was made of the
\* one that was read.  When the rollout audit cannot be written, the one that was
\* read comes back; when the file cannot be written, nothing has changed.
WriteAlias(t) ==
  /\ task[t].pc \in {"write", "write2"}
  /\ \/ /\ alias' = task[t].doc
        /\ To(t, IF task[t].pc = "write2" \/ Op(t) \in {"shadow", "pause", "deprecate"} THEN "record" ELSE "read2")
        /\ UNCHANGED <<faults, putBack>>
     \/ Fault /\ To(t, "undo") /\ putBack' = TRUE /\ alias' \in {alias, task[t].old}
  /\ UNCHANGED <<reg, todo, mixed>>

\* record_release_event; an illegal transition fails the release.
Record(t) ==
  /\ task[t].pc = "record"
  /\ IF MayBecome(reg, task[t].call)
     THEN reg' = Released(reg, task[t].call) /\ To(t, "relaudit") /\ UNCHANGED putBack
     ELSE reg' = Succeeded(reg, task[t].call) /\ To(t, "undo") /\ putBack' = TRUE
  /\ UNCHANGED <<alias, todo, faults, mixed>>

\* The audit record is written, or what was done is put back.
AuditRelease(t) ==
  /\ task[t].pc \in {"audit", "relaudit"}
  /\ \/ task' = [task EXCEPT ![t] = Idle] /\ UNCHANGED <<faults, putBack>>
     \/ Fault /\ putBack' = TRUE /\ To(t, IF task[t].pc = "audit" THEN "restore" ELSE "undo")
  /\ UNCHANGED <<reg, alias, todo, mixed>>

\* Mutant: a failed release leaves the alias as it is.
UndoRegistryOnly(t) ==
  /\ task[t].pc = "undo" /\ To(t, "restore") /\ UNCHANGED <<reg, alias, todo, faults, putBack, mixed>>

\* write_raw_model_config of the snapshot, then restore_model_registry_state.
Undo(t) ==
  /\ task[t].pc = "undo" /\ alias' = task[t].alias
  /\ To(t, "restore") /\ UNCHANGED <<reg, todo, faults, putBack, mixed>>

RestoreRegistry(t) ==
  /\ task[t].pc = "restore" /\ reg' = task[t].reg
  /\ task' = [task EXCEPT ![t] = Idle] /\ UNCHANGED <<alias, todo, faults, putBack, mixed>>

-----------------------------------------------------------------------------
(* The rollout routes, which change the alias without the registry: one    *)
(* step of the event loop each, beside the threads of a release.           *)
Direct(t) ==
  /\ task[t].pc = "idle" /\ todo[t] # <<>> /\ Head(todo[t]).op \in {"switch", "undo"}
  /\ Pops(t) /\ mixed' = TRUE
  /\ LET c == Head(todo[t]) IN
     alias' = IF c.op = "switch" /\ c.expect \in {Nothing, Resolved(alias)} THEN Switched(alias, c.v)
              ELSE IF c.op = "undo" /\ MayRollBack(alias) THEN RolledBack(alias) ELSE alias
  /\ UNCHANGED <<reg, task, faults, putBack>>

-----------------------------------------------------------------------------
ReleaseInit ==
  /\ reg = [status |-> [v \in Versions |-> IF v = Stable THEN "active" ELSE "none"],
            rollback |-> [v \in Versions |-> FALSE], passed |-> {Stable}, approved |-> {},
            last |-> [v \in Versions |-> Nothing]]
  /\ alias = [target |-> Stable, rollout |-> Nothing, prev |-> Nothing, shadow |-> Nothing]
  /\ todo \in Workloads
  /\ task = [t \in Tasks |-> Idle] /\ faults = MaxFailures /\ putBack = FALSE /\ mixed = FALSE

ReleaseNext == \E t \in Tasks :
  \/ Begin(t) \/ Change(t) \/ Preflight(t) \/ Snap(t) \/ Load(t) \/ Read(t) \/ WriteAlias(t)
  \/ Record(t) \/ AuditRelease(t) \/ Undo(t) \/ RestoreRegistry(t) \/ Direct(t)

ReleaseSpec == ReleaseInit /\ [][ReleaseNext]_rlVars

-----------------------------------------------------------------------------
(* Properties.                                                             *)
Statuses == {"none"} \cup DOMAIN Transitions

\* Every variable has its type.
ReleaseTypeOK ==
  /\ reg.status \in [Versions -> Statuses] /\ reg.rollback \in [Versions -> BOOLEAN]
  /\ reg.passed \subseteq Versions /\ reg.approved \subseteq Versions \X Actors
  /\ alias.target \in Versions \cup {Nothing} /\ alias.prev \in Versions \cup {Nothing}
  /\ alias.shadow \in Versions \cup {Nothing} /\ Resolved(alias) \in Versions
  /\ faults \in 0..MaxFailures

\* One version of a model is active at most, in whatever order releases,
\* failures and restored snapshots follow each other.
OneActive == \A u, v \in Versions : reg.status[u] = "active" /\ reg.status[v] = "active" => u = v

\* What was released was evaluated, and approved by as many others as its risk
\* demands, as long as no failed call has taken an approval back that a release
\* under way had counted.
ReleasedWasApproved ==
  ~putBack => \A v \in Versions : reg.last[v] # Nothing =>
    /\ v \in reg.passed
    /\ Cardinality({a \in Actors \ {reg.last[v].by} : <<v, a>> \in reg.approved}) >= reg.last[v].needs

\* As long as no release met another call or a direct change of the alias, the
\* active version is one that the alias serves: a release that fails at any
\* of its steps leaves neither the alias nor the registry ahead of the other.
ActiveIsServed ==
  (~mixed /\ \A t \in Tasks : task[t].pc = "idle") =>
    \A v \in Versions : reg.status[v] = "active" => v \in Served(alias)

\* The registry and the alias stay in step, and nobody gets past the policy.
ReleaseIsSound == ReleaseTypeOK /\ OneActive /\ ReleasedWasApproved /\ ActiveIsServed
=============================================================================
