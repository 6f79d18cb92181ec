----------------------------- MODULE Governance -----------------------------
(***************************************************************************)
(* What operators govern in the commercial state of a project              *)
(* (portrait_commercial): industry templates that are previewed, applied   *)
(* and rolled back, requests of data subjects, compliance controls,        *)
(* incidents, support cases and SLA reports.                               *)
(*                                                                         *)
(* A route copies the whole state, runs its operation, which holds _LOCK   *)
(* and ends with a save, records it in the audit chain, and puts the whole *)
(* copy back when that fails (routes_portrait_commercial); other routes    *)
(* run between these steps.  The state is that of one process with its     *)
(* file; ControlState has the one that replicas share.                     *)
(***************************************************************************)
EXTENDS Integers, FiniteSets, Sequences

CONSTANTS
  Tasks,     (* routes that run at a time                                  *)
  Templates, (* published industry templates, with their evidence          *)
  Backends,  (* RIGHTS_EXECUTION_BACKENDS                                  *)
  Workloads, (* functions from Tasks to sequences of calls                 *)
  MaxFaults, (* bound on failing saves, failing audit records and restarts *)
  Never,     (* an expires_at beyond the bound of the clock                *)
  Nil        (* no value                                                   *)

Tracked == {"incident", "case"}  \* records that carry a status and a severity

VARIABLES
  st,    (* _STATE of the process                                          *)
  disk,  (* the saved state                                                *)
  now,   (* now_seconds: 0, and 1 once the controls that expire have       *)
  todo,  (* the calls of each task that are still to come                  *)
  task,  (* where each task is, what it copied, read and changed           *)
  left,  (* what is left of MaxFaults                                      *)
  won,   (* versions of records that updates were answered with            *)
  odd    (* what the code is known to leave behind                         *)

vars == <<st, disk, now, todo, task, left, won, odd>>

Idle  == [pc |-> "idle", seen |-> Nil, copy |-> Nil, base |-> Nil, made |-> Nil]
Call(t)  == Head(todo[t])
Fault    == left > 0 /\ left' = left - 1
Mark(x)  == odd' = odd \cup {x}
Pending(kind) == [kind |-> kind, status |-> "received", proven |-> FALSE, done |-> {}, version |-> 1]
Opened(sev) == [status |-> "open", severity |-> sev, version |-> 1]
Statuses == {"open", "closed"}

Init ==
  /\ st = [template |-> Nil, apps |-> <<>>, rights |-> Nil, control |-> Nil,
           record |-> [k \in Tracked |-> Nil], slas |-> {}, reports |-> {}]
  /\ disk = st /\ now = 0
  /\ todo \in Workloads /\ task = [t \in Tasks |-> Idle]
  /\ left = MaxFaults /\ won = {} /\ odd = {}

-----------------------------------------------------------------------------
(* The operations, of state s and call c: what each demands (Admits) and   *)
(* what it makes of the state (Changed).                                   *)

\* apply_industry_template: the fingerprint stands for the configuration that the
\* preview showed; what was there is kept for the roll back.
Applied(s, c) ==
  [s EXCEPT !.template = c.template,
            !.apps = Append(@, [of |-> c.template, previous |-> s.template, applied |-> TRUE])]

\* Mutant: a roll back does not say so in the application.
RolledBackSilently(s, c) == [s EXCEPT !.template = s.apps[c.nth].previous]

\* rollback_industry_template
RolledBack(s, c) ==
  [s EXCEPT !.template = s.apps[c.nth].previous, !.apps[c.nth].applied = FALSE]

\* require_compliance_control: the control of cross-border transfers, COM-006.
Compliant(s) == s.control # Nil /\ s.control.approved /\ s.control.until > now

\* upsert_compliance_record: a control is approved only with its baseline and data.
Controlled(s, c) == [s EXCEPT !.control = [approved |-> c.approved, until |-> c.until]]

\* RIGHTS_REQUEST_TRANSITIONS
Onward ==
  [received |-> {"identity_pending", "rejected"}, identity_pending |-> {"verified", "rejected"},
   verified |-> {"in_progress", "rejected"}, in_progress |-> {"completed", "rejected"},
   completed |-> {}, rejected |-> {}]

\* update_rights_request: the identity and the evidence that the update gives replace
\* those of the record.
Proceeded(r, c) ==
  [r EXCEPT !.status = c.status, !.version = @ + 1,
            !.proven = IF c.proven = Nil THEN @ ELSE c.proven,
            !.done   = IF c.done = Nil THEN @ ELSE c.done]

\* Who asks must be identified before anything is done; a completion has evidence, that
\* of a deletion from every backend (_completed_execution_backends).
Shown(r) == r.done # {} /\ (r.kind = "deletion" => r.done = Backends)

MayProceed(r, c) ==
  /\ c.expect \in {Nil, r.version}
  /\ c.status = r.status \/ c.status \in Onward[r.status]
  /\ c.status \in {"verified", "in_progress", "completed"} => Proceeded(r, c).proven
  /\ c.status = "completed" => Shown(Proceeded(r, c))

\* update_incident, update_support_case: the version is compared before anything else.
Tracks(s, c) ==
  /\ s.record[c.op] # Nil /\ c.expect \in {Nil, s.record[c.op].version}
  /\ c.status \in Statuses

Updated(s, c) ==
  [s EXCEPT !.record[c.op] = [status |-> c.status, severity |-> c.severity, version |-> @.version + 1]]

\* update_support_case copies the fields of the update before it looks at the
\* severity, so that a refused update has changed the record, its version apart;
\* update_incident does not look at the severity.
Leaves(s, c) ==
  IF c.op = "case" /\ Tracks(s, c)
  THEN [s EXCEPT !.record["case"].status = c.status, !.record["case"].severity = c.severity]
  ELSE s

\* compute_sla_report uses the latest definition, and makes one when there is none:
\* upsert_sla_definition.
Defined(s) == IF s.slas = {} THEN [s EXCEPT !.slas = {1}] ELSE s
Latest(s)  == CHOOSE v \in s.slas : \A w \in s.slas : w <= v

Admits(s, c, seen) ==
  CASE c.op = "apply"   -> seen = <<c.template, s.template>>
    [] c.op = "back"    -> /\ c.nth \in DOMAIN s.apps /\ s.apps[c.nth].applied
                           /\ s.template = s.apps[c.nth].of
    [] c.op = "control" -> c.approved => c.complete
    [] c.op = "ask"     -> c.kind = "export" => Compliant(s)
    [] c.op = "rights"  -> s.rights # Nil /\ MayProceed(s.rights, c)
    [] c.op = "open"    -> c.severity # "bad"
    [] c.op \in Tracked -> Tracks(s, c) /\ (c.op = "case" => c.severity # "bad")
    [] c.op = "define"  -> c.version \notin s.slas
    [] c.op = "report"  -> TRUE

Changed(s, c, seen) ==
  CASE c.op = "apply"   -> Applied(s, c)
    [] c.op = "back"    -> RolledBack(s, c)
    [] c.op = "control" -> Controlled(s, c)
    [] c.op = "ask"     -> [s EXCEPT !.rights = Pending(c.kind)]
    [] c.op = "rights"  -> [s EXCEPT !.rights = Proceeded(@, c)]
    [] c.op = "open"    -> [s EXCEPT !.record[c.kind] = Opened(c.severity)]
    [] c.op \in Tracked -> Updated(s, c)
    [] c.op = "define"  -> [s EXCEPT !.slas = @ \cup {c.version}]
    [] c.op = "report"  -> [s EXCEPT !.reports = @ \cup {seen}]

-----------------------------------------------------------------------------
(* The routes.                                                             *)
Waits(t, p) == todo[t] # <<>> /\ task[t].pc = p

Ends(t) == task' = [task EXCEPT ![t] = [Idle EXCEPT !.seen = @]] /\ todo' = [todo EXCEPT ![t] = Tail(@)]

\* _save: the file is replaced; or it is not, and the memory keeps the change.
Save(s, failed) ==
  /\ st' = s
  /\ IF failed THEN Fault /\ UNCHANGED disk /\ Mark("unsaved")
     ELSE disk' = s /\ UNCHANGED left

\* preview_template, by a client that then applies what it has seen.
Preview(t) ==
  /\ Waits(t, "idle") /\ Call(t).op = "preview"
  /\ task' = [task EXCEPT ![t].seen = <<Call(t).template, st.template>>]
  /\ todo' = [todo EXCEPT ![t] = Tail(@)]
  /\ UNCHANGED <<st, disk, now, left, won, odd>>

\* commercial_state_payload
Copy(t) ==
  /\ Waits(t, "idle") /\ Call(t).op # "preview"
  /\ task' = [task EXCEPT ![t].pc = IF Call(t).op = "report" THEN "define" ELSE "change", ![t].copy = st]
  /\ UNCHANGED <<st, disk, now, todo, left, won, odd>>

\* compute_sla_report: the definition is chosen under the lock, and the usage is summed
\* up outside it.
Define(t) ==
  /\ Waits(t, "define")
  /\ \/ /\ Save(Defined(st), FALSE) /\ UNCHANGED <<odd, todo>>
        /\ task' = [task EXCEPT ![t].pc = "change", ![t].seen = Latest(Defined(st))]
     \/ /\ st.slas = {} /\ Save(Defined(st), TRUE)
        /\ task' = [task EXCEPT ![t] = Idle] /\ todo' = [todo EXCEPT ![t] = Tail(@)]
  /\ UNCHANGED <<now, won>>

\* The operation under its lock: refused, saved, or changed in memory only.
Change(t) ==
  /\ Waits(t, "change")
  /\ LET c == Call(t)  s == Changed(st, c, task[t].seen)
     IN \/ /\ ~Admits(st, c, task[t].seen)
           /\ st' = Leaves(st, c)
           /\ (IF st' # st THEN Mark("touched") ELSE UNCHANGED odd)
           /\ task' = [task EXCEPT ![t] = Idle] /\ todo' = [todo EXCEPT ![t] = Tail(@)]
           /\ UNCHANGED <<disk, left>>
        \/ /\ Admits(st, c, task[t].seen) /\ Save(s, FALSE) /\ UNCHANGED <<odd, todo>>
           /\ task' = [task EXCEPT ![t].pc = "audit", ![t].base = st, ![t].made = s]
        \/ /\ Admits(st, c, task[t].seen) /\ Save(s, TRUE)
           /\ task' = [task EXCEPT ![t] = Idle] /\ todo' = [todo EXCEPT ![t] = Tail(@)]
  /\ UNCHANGED <<now, won>>

\* The version an update is answered with.
Answered(t) ==
  LET c == Call(t) IN
  IF c.op \in Tracked THEN {<<c.op, task[t].made.record[c.op].version>>}
  ELSE IF c.op = "rights" THEN {<<task[t].made.rights.kind, task[t].made.rights.version>>} ELSE {}

\* audit_event has recorded the change, and the caller is answered.
Audit(t) ==
  /\ Waits(t, "audit")
  /\ won' = won \cup Answered(t)
  /\ (IF Answered(t) \cap won # {} THEN Mark("twice") ELSE UNCHANGED odd)
  /\ task' = [task EXCEPT ![t] = Idle] /\ todo' = [todo EXCEPT ![t] = Tail(@)]
  /\ UNCHANGED <<st, disk, now, left>>

\* audit_or_restore: it could not be recorded.
AuditFails(t) ==
  /\ Waits(t, "audit") /\ Fault
  /\ task' = [task EXCEPT ![t].pc = "restore"]
  /\ UNCHANGED <<st, disk, now, todo, won, odd>>

\* restore_commercial_state: the whole copy, with what others have changed since.
Restore(t) ==
  /\ Waits(t, "restore")
  /\ LET lost == {"undone"} \ (IF task[t].copy = task[t].base /\ task[t].made = st THEN {"undone"} ELSE {})
     IN \E failed \in BOOLEAN :
          /\ st' = task[t].copy
          /\ odd' = odd \cup {"restored"} \cup lost \cup (IF failed THEN {"unsaved"} ELSE {})
          /\ IF failed THEN Fault /\ UNCHANGED disk ELSE disk' = st' /\ UNCHANGED left
  /\ task' = [task EXCEPT ![t] = Idle] /\ todo' = [todo EXCEPT ![t] = Tail(@)]
  /\ UNCHANGED <<now, won>>

\* load_commercial_state, in a new process.
Restart ==
  /\ Fault
  /\ st' = disk
  /\ task' = [t \in Tasks |-> Idle]
  /\ todo' = [t \in Tasks |-> IF task[t].pc = "idle" THEN todo[t] ELSE Tail(todo[t])]
  /\ UNCHANGED <<disk, now, won, odd>>

\* A control expires.
Tick ==
  /\ now = 0 /\ now' = 1
  /\ st.control # Nil /\ st.control.until # Never
  /\ UNCHANGED <<st, disk, todo, task, left, won, odd>>

Next ==
  \/ \E t \in Tasks : \/ Preview(t) \/ Copy(t) \/ Define(t) \/ Change(t)
                      \/ Audit(t) \/ AuditFails(t) \/ Restore(t)
  \/ Restart \/ Tick

Spec == Init /\ [][Next]_vars

-----------------------------------------------------------------------------
(* Properties.                                                             *)
TypeOK ==
  /\ {st.template, disk.template} \subseteq Templates \cup {Nil}
  /\ now \in 0..1 /\ left \in 0..MaxFaults
  /\ odd \subseteq {"unsaved", "touched", "restored", "undone", "twice"}
  /\ \A t \in Tasks : task[t].pc \in {"idle", "define", "change", "audit", "restore"}

Standing(s, x, field) == {n \in DOMAIN s.apps : s.apps[n].applied /\ s.apps[n][field] = x}

\* The applications that still stand lead, one after the other, from no template to the
\* current one, in whatever order they were applied and rolled back: every template is
\* entered as often as it is left, but for the current one.
TemplateTrail(s) ==
  \A x \in Templates :
    Cardinality(Standing(s, x, "of")) =
      Cardinality(Standing(s, x, "previous")) + (IF s.template = x THEN 1 ELSE 0)

\* A request that is completed was made by somebody identified, and, if it was to delete,
\* every backend has shown what it did.
RightsHaveEvidence(s) ==
  s.rights # Nil /\ s.rights.status = "completed" => s.rights.proven /\ Shown(s.rights)

\* A restart finds what the routes have read and answered, unless a save failed, or an
\* update was refused after it had changed the record.
MemoryIsSaved == odd \cap {"unsaved", "touched"} = {} => st = disk

\* Of the updates that were made from one version of a record only one is answered,
\* unless a failing audit record has put a copy back over what others had changed.
OneWinner == "undone" \notin odd => "twice" \notin odd

\* A report names a definition that exists, unless one was taken back while the usage
\* was summed up.
ReportsAreDefined == "restored" \notin odd => st.reports \subseteq st.slas

GovernanceIsSound ==
  /\ TypeOK /\ MemoryIsSaved /\ OneWinner /\ ReportsAreDefined
  /\ \A s \in {st, disk} : TemplateTrail(s) /\ RightsHaveEvidence(s)
=============================================================================
