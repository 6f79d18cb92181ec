------------------------------- MODULE Access -------------------------------
(***************************************************************************)
(* Access of one tenant (portrait_access, postgres_access): his projects,  *)
(* applications with their keys and quotas, webhooks and members, kept as  *)
(* one document that is a file of one process, or a row with a revision    *)
(* that several replicas cache.                                            *)
(*                                                                         *)
(* A function of portrait_access holds the lock of its process from its    *)
(* refresh to its save: Enter and then Edit or Put.  The routes copy the   *)
(* document first, write an audit record last, and put the copy back when  *)
(* that fails; the calls of a route run in threads, so that the calls of   *)
(* others come between them.                                               *)
(***************************************************************************)
EXTENDS Naturals, Sequences, FiniteSets

CONSTANTS
  Nodes,     (* replicas                                                   *)
  Tasks,     (* requests under way at a time                               *)
  Homes,     (* functions from Tasks to Nodes: which replica serves a task *)
  Projects, Default, Apps, Hooks, Members,
  Documents, (* what the document holds at first                           *)
  Workloads, (* functions from Tasks to sequences of calls: see Call       *)
  Grace,     (* PORTRAIT_ACCESS_KEY_ROTATION_GRACE_SECONDS                 *)
  KeptKeys,  (* replaced keys that an application keeps: 5                 *)
  DayLength, MaxTime, (* ticks in a day, and in a behaviour                *)
  MaxFaults, (* bound on failing loads, saves and audit records, on        *)
             (* refused licences and on crashes                            *)
  None       (* no value                                                   *)

\* op, the object x, the project of the caller's context, and what he sends: None
\* stands for a field that is not given; bad for an invalid list of scopes or
\* events, which is looked at after the fields before it.
Call == [op : STRING, x : Projects \cup Apps \cup Hooks \cup Members \cup {None},
         in : Projects, status : {"active", "disabled", None}, bad : BOOLEAN,
         project : Projects \cup {None}, quota : Nat, app : Apps \cup {None},
         url : BOOLEAN \cup {None}, phone : Nat \cup {None}, subject : Nat \cup {None}]

VARIABLES
  mode,   (* "file" or "postgres"                                          *)
  home,   (* the replica that serves each task                             *)
  row,    (* the row or the file                                           *)
  cache,  (* _ACCESS_STATE and its revision in each replica                *)
  lock,   (* the task that holds _ACCESS_LOCK in each replica, or None     *)
  dirty,  (* _ACCESS_STATS_DIRTY                                           *)
  usage,  (* portrait_application_daily_usage: per application, today      *)
  now, todo, task, faults,
  tainted,  (* the memory of a replica holds an edit that was never saved  *)
  admitted, (* requests admitted today, per application                    *)
  reset     (* a quota was set, or a snapshot put back                     *)

accessVars == <<mode, home, row, cache, lock, dirty, usage, now, todo, task, faults, tainted, admitted, reset>>

Idle   == [pc |-> "idle", call |-> None, key |-> None, second |-> FALSE, old |-> None, quota |-> 0]
P(t)   == home[t]
Replicas == {home[t] : t \in Tasks}   \* a file has one
C(t)   == task[t].call
Op(t)  == C(t).op
Fault  == faults > 0 /\ faults' = faults - 1
To(t, p) == task' = [task EXCEPT ![t].pc = p]
End(t)   == task' = [task EXCEPT ![t] = Idle]
Today    == now \div DayLength

-----------------------------------------------------------------------------
(* What the functions do to a document: what is left in memory, and whether *)
(* they go on to save it.                                                  *)
Saves(s)   == [st |-> s, saves |-> TRUE]
Refused(s) == [st |-> s, saves |-> FALSE]

EnsureTenant(s) ==
  IF s.tenant # "none" THEN s
  ELSE [s EXCEPT !.tenant = "active", !.projects[Default] = IF @ = "none" THEN "active" ELSE @]

CreateTenant(s) == IF s.tenant # "none" THEN Refused(s) ELSE Saves(EnsureTenant(s))
UpdateTenant(s, c) == IF s.tenant = "none" THEN Refused(s) ELSE Saves([s EXCEPT !.tenant = c.status])

CreateProject(s, c) ==
  LET e == EnsureTenant(s)
  IN  IF e.projects[c.x] # "none" THEN Refused(e) ELSE Saves([e EXCEPT !.projects[c.x] = c.status])
UpdateProject(s, c) ==
  IF s.projects[c.x] = "none" THEN Refused(s) ELSE Saves([s EXCEPT !.projects[c.x] = c.status])

CreateApp(s, c, k) ==
  LET e == EnsureTenant(s) IN
  IF s.apps[c.x] # None THEN Refused(s)
  ELSE IF e.projects[c.project] # "active" \/ c.bad THEN Refused(e)
  ELSE Saves([e EXCEPT !.apps[c.x] =
         [project |-> c.project, status |-> c.status, key |-> k, prev |-> <<>>,
          quota |-> c.quota, day |-> Today, used |-> 0]])

Given(v, old) == IF v = None THEN old ELSE v

\* The project and the status are set before the scopes are looked at.
UpdateApp(s, c) ==
  LET a == s.apps[c.x]
      m == [s EXCEPT !.apps[c.x].project = Given(c.project, @), !.apps[c.x].status = Given(c.status, @)]
  IN  IF a = None THEN Refused(s)
      ELSE IF a.project # c.in \/ (c.project # None /\ s.projects[c.project] # "active") THEN Refused(s)
      ELSE IF c.bad THEN Refused(m)
      ELSE IF c.quota = 0 THEN Saves(m)
      ELSE Saves([m EXCEPT !.apps[c.x].quota = c.quota, !.apps[c.x].day = Today, !.apps[c.x].used = 0])

\* active_previous_api_key_hashes
ActivePrev(a) ==
  LET f[n \in 0..Len(a.prev)] == IF n = 0 THEN <<>>
                                 ELSE IF a.prev[n].until > now THEN Append(f[n - 1], a.prev[n]) ELSE f[n - 1]
  IN  f[Len(a.prev)]

LastOf(s, n) == SubSeq(s, IF Len(s) > n THEN Len(s) - n + 1 ELSE 1, Len(s))

RotateApp(s, c, k) ==
  LET a == s.apps[c.x] IN
  IF a = None THEN Refused(s) ELSE IF a.project # c.in THEN Refused(s)
  ELSE Saves([EnsureTenant(s) EXCEPT !.apps[c.x].key = k,
         !.apps[c.x].prev = LastOf(ActivePrev(a) \o IF Grace > 0 THEN << [key |-> a.key, until |-> now + Grace] >> ELSE <<>>,
                                   KeptKeys)])

\* validate_webhook_url: an active webhook needs one.
HasUrl(url, required) == required => url

CreateHook(s, c, k) ==
  IF s.hooks[c.x] # None \/ s.apps[c.app] = None THEN Refused(s)
  ELSE IF s.apps[c.app].project # c.in \/ ~HasUrl(c.url = TRUE, c.status = "active") \/ c.bad THEN Refused(s)
  ELSE Saves([s EXCEPT !.hooks[c.x] = [app |-> c.app, project |-> c.in, status |-> c.status,
                                       url |-> c.url = TRUE, secret |-> k]])

\* The application is set before the URL is looked at, the URL before the events,
\* and the status before it is known that an active webhook has a URL.
UpdateHook(s, c) ==
  LET h == s.hooks[c.x]
      next == IF h = None THEN None ELSE Given(c.status, h.status)
      h1 == [s EXCEPT !.hooks[c.x].app = Given(c.app, @)]
      h2 == [h1 EXCEPT !.hooks[c.x].url = Given(c.url, @)]
      h3 == [h2 EXCEPT !.hooks[c.x].status = next]
  IN  IF h = None THEN Refused(s)
      ELSE IF h.project # c.in \/ (c.app # None /\ (s.apps[c.app] = None \/ s.apps[c.app].project # h.project)) THEN Refused(s)
      ELSE IF c.url # None /\ ~HasUrl(c.url, next = "active") THEN Refused(h1)
      ELSE IF c.bad THEN Refused(h2)
      ELSE IF ~HasUrl(h3.hooks[c.x].url, next = "active") THEN Refused(h3)
      ELSE Saves(h3)

RotateHook(s, c, k) ==
  IF s.hooks[c.x] = None THEN Refused(s) ELSE IF s.hooks[c.x].project # c.in THEN Refused(s)
  ELSE Saves([s EXCEPT !.hooks[c.x].secret = k])

Others(s, x) == {m \in Members \ {x} : s.members[m] # None}
PhoneTaken(s, x, v)   == \E m \in Others(s, x) : s.members[m].phone = v
SubjectTaken(s, x, v) == v # None /\ \E m \in Others(s, x) : s.members[m].subject = v

CreateMember(s, c) ==
  IF s.tenant = "none" \/ PhoneTaken(s, c.x, c.phone) \/ SubjectTaken(s, c.x, c.subject) \/ c.bad THEN Refused(s)
  ELSE Saves([s EXCEPT !.members[c.x] = [phone |-> c.phone, subject |-> c.subject]])

\* The phone is set before the subject is looked at.
UpdateMember(s, c) ==
  LET m == [s EXCEPT !.members[c.x].phone = Given(c.phone, @)] IN
  IF s.members[c.x] = None THEN Refused(s)
  ELSE IF c.phone # None /\ PhoneTaken(s, c.x, c.phone) THEN Refused(s)
  ELSE IF SubjectTaken(s, c.x, c.subject) THEN Refused(m)
  ELSE Saves([m EXCEPT !.members[c.x].subject = Given(c.subject, @)])

DeleteMember(s, c) ==
  IF s.members[c.x] = None THEN Refused(s) ELSE Saves([s EXCEPT !.members[c.x] = None])

\* Mutant: who signs in is looked up by his phone only.
ResolveByPhone(s, c) ==
  LET known == {m \in Members : s.members[m] # None /\ s.members[m].phone = c.phone}
  IN  IF known = {} THEN Refused(s) ELSE Saves([s EXCEPT !.members[CHOOSE m \in known : TRUE].subject = c.subject])

\* resolve_member with bind_subject: who has the subject is found; otherwise who
\* has the phone, and no subject yet, gets it.
ResolveMember(s, c) ==
  LET known == {m \in Members : s.members[m] # None /\ s.members[m].subject = c.subject}
      free  == {m \in Members : s.members[m] # None /\ s.members[m].phone = c.phone /\ s.members[m].subject = None}
  IN  IF known # {} \/ free = {} THEN Refused(s)
      ELSE Saves([s EXCEPT !.members[CHOOSE m \in free : TRUE].subject = c.subject])

\* The keys of an application: its own, and the replaced ones whose grace is not over.
InForce(a) == {a.key} \cup {a.prev[i].key : i \in {i \in 1..Len(a.prev) : a.prev[i].until > now}}

\* application_record_for_key: the applications that a key opens.
Opens(s, k) ==
  {a \in Apps : s.tenant # "disabled" /\ s.apps[a] # None /\ s.apps[a].status = "active" /\ k \in InForce(s.apps[a])}

\* application_request_policy with the file store
Counted(s, a) ==
  [s EXCEPT !.apps[a].day = Today, !.apps[a].used = IF s.apps[a].day = Today THEN @ + 1 ELSE 1]
Exhausted(s, a) == s.apps[a].day = Today /\ s.apps[a].used >= s.apps[a].quota
Fresh(s, a) == [s EXCEPT !.apps[a].day = Today, !.apps[a].used = IF s.apps[a].day = Today THEN @ ELSE 0]

Does(s, c, k) ==
  CASE c.op = "newTenant" -> CreateTenant(s)        [] c.op = "tenant" -> UpdateTenant(s, c)
    [] c.op = "newProject" -> CreateProject(s, c)   [] c.op = "project" -> UpdateProject(s, c)
    [] c.op = "newApp" -> CreateApp(s, c, k)        [] c.op = "app" -> UpdateApp(s, c)
    [] c.op = "rotate" -> RotateApp(s, c, k)        [] c.op = "newHook" -> CreateHook(s, c, k)
    [] c.op = "hook" -> UpdateHook(s, c)            [] c.op = "rotateHook" -> RotateHook(s, c, k)
    [] c.op = "newMember" -> CreateMember(s, c)     [] c.op = "member" -> UpdateMember(s, c)
    [] c.op = "dropMember" -> DeleteMember(s, c)    [] c.op = "bind" -> ResolveMember(s, c)

-----------------------------------------------------------------------------
(* Refresh and save.                                                       *)

\* refresh_access_state: what the replica goes on with.
Newest(p) == IF row.rev > cache[p].rev THEN row ELSE cache[p]
Loads(p)  == /\ cache' = [cache EXCEPT ![p] = Newest(p)]
             /\ tainted' = [tainted EXCEPT ![p] = @ /\ row.rev <= cache[p].rev]

\* save_access_snapshot
Next1 == IF mode = "postgres" THEN row.rev + 1 ELSE row.rev

\* Mutant: the update does not ask for the revision.
SaveAnyway(t, s, good, bad) ==
  /\ row' = [rev |-> Next1, st |-> s] /\ cache' = [cache EXCEPT ![P(t)] = row'] /\ good
  /\ tainted' = [tainted EXCEPT ![P(t)] = FALSE] /\ dirty' = [dirty EXCEPT ![P(t)] = FALSE] /\ UNCHANGED faults

\* save_access_state of s by task t, which goes on with good or bad.  A conflict
\* loads the newer document; any other failure, before or after the commit, and
\* a failing load leave s in memory.
Save(t, s, good, bad) ==
  LET p == P(t)
      Keeps == /\ cache' = [cache EXCEPT ![p].st = s] /\ tainted' = [tainted EXCEPT ![p] = TRUE]
               /\ UNCHANGED dirty /\ bad
  IN \/ /\ cache[p].rev = row.rev
        /\ row' = [rev |-> Next1, st |-> s] /\ cache' = [cache EXCEPT ![p] = row']
        /\ tainted' = [tainted EXCEPT ![p] = FALSE] /\ dirty' = [dirty EXCEPT ![p] = FALSE]
        /\ good /\ UNCHANGED faults
     \/ /\ cache[p].rev # row.rev /\ cache' = [cache EXCEPT ![p] = row]
        /\ tainted' = [tainted EXCEPT ![p] = FALSE]
        /\ bad /\ UNCHANGED <<row, dirty, faults>>
     \/ cache[p].rev # row.rev /\ Fault /\ Keeps /\ UNCHANGED row
     \/ /\ cache[p].rev = row.rev /\ Fault /\ Keeps
        /\ row' \in {row, [rev |-> Next1, st |-> s]}

-----------------------------------------------------------------------------
(* The steps of a request.                                                 *)
Unaudited == {"bind", "use"}
Key(t) == <<t, Len(todo[t])>>

\* A route begins with access_state_payload; a sign-in and the rate limit do not.
Begin(t) ==
  /\ task[t].pc = "idle" /\ todo[t] # <<>>
  /\ todo' = [todo EXCEPT ![t] = Tail(@)]
  /\ LET c == Head(todo[t]) IN
     IF c.op \in Unaudited
     THEN task' = [task EXCEPT ![t] = [Idle EXCEPT !.pc = "enter", !.call = c]] /\ UNCHANGED <<cache, tainted, faults>>
     ELSE \/ /\ lock[P(t)] = None /\ Loads(P(t)) /\ UNCHANGED faults
             /\ task' = [task EXCEPT ![t] = [Idle EXCEPT !.pc = "enter", !.call = c, !.key = Key(t), !.old = Newest(P(t)).st]]
          \/ Fault /\ UNCHANGED <<task, cache, tainted>>
  /\ UNCHANGED <<mode, home, row, lock, dirty, usage, now, admitted, reset>>

\* What ends a request: the route that creates a tenant puts the copy back first.
Fails(t) == IF Op(t) = "newTenant" THEN To(t, "undo") ELSE End(t)

\* _access_operation: the lock and the refresh.
Enter(t) ==
  /\ task[t].pc \in {"enter", "undo"} /\ lock[P(t)] = None
  /\ \/ /\ Loads(P(t)) /\ lock' = [lock EXCEPT ![P(t)] = t]
        /\ To(t, IF task[t].pc = "enter" THEN "edit" ELSE "put") /\ UNCHANGED faults
     \/ /\ Fault /\ (IF task[t].pc = "enter" THEN Fails(t) ELSE End(t)) /\ UNCHANGED <<cache, tainted, lock>>
  /\ UNCHANGED <<mode, home, row, dirty, usage, now, todo, admitted, reset>>

Unlock(t) == lock' = [lock EXCEPT ![P(t)] = None]

\* The second function of the route that creates a tenant is create_application,
\* when the licence allows one; then come the audit record, or the end.
Proceeds(t) ==
  IF Op(t) = "newTenant" /\ ~task[t].second
  THEN task' = [task EXCEPT ![t].pc = "enter", ![t].second = TRUE]
  ELSE IF Op(t) \in Unaudited THEN End(t) ELSE To(t, "audit")

Edit(t) ==
  /\ task[t].pc = "edit" /\ Op(t) # "use" /\ Unlock(t)
  /\ LET p == P(t)
         d == IF task[t].second THEN CreateApp(cache[p].st, C(t), task[t].key)
              ELSE Does(cache[p].st, C(t), task[t].key)
     IN  IF d.saves THEN Save(t, d.st, Proceeds(t), Fails(t))
         ELSE /\ cache' = [cache EXCEPT ![p].st = d.st] /\ Fails(t)
              /\ tainted' = [tainted EXCEPT ![p] = @ \/ d.st # cache[p].st]
              /\ UNCHANGED <<row, dirty, faults>>
  /\ reset' = (reset \/ (Op(t) = "app" /\ C(t).quota > 0))
  /\ UNCHANGED <<mode, home, usage, now, todo, admitted>>

\* require_license_allocation refuses the first credential of a new tenant.
Refuse(t) ==
  /\ task[t].pc = "enter" /\ task[t].second /\ Fault /\ To(t, "undo")
  /\ UNCHANGED <<mode, home, row, cache, lock, dirty, usage, now, todo, tainted, admitted, reset>>

\* application_request_policy, and record_application_call afterwards: the key
\* is the one that the application of the call had at first.
Use(t) ==
  /\ task[t].pc = "edit" /\ Op(t) = "use" /\ Unlock(t)
  /\ LET p == P(t)
         s == cache[p].st
         a == C(t).x
         admits == admitted' = [admitted EXCEPT ![a] = @ + 1]
     IN  IF a \notin Opens(s, a)
         THEN End(t) /\ UNCHANGED <<row, cache, tainted, dirty, faults, admitted>>
         ELSE IF s.apps[a].quota = 0 THEN End(t) /\ UNCHANGED <<row, cache, tainted, dirty, faults, admitted>>
         ELSE IF mode = "postgres"
         THEN /\ task' = [task EXCEPT ![t].pc = "consume", ![t].quota = s.apps[a].quota]
              /\ UNCHANGED <<row, cache, tainted, dirty, faults, admitted>>
         ELSE IF Exhausted(s, a) THEN Save(t, Fresh(s, a), End(t), End(t)) /\ UNCHANGED admitted
         ELSE Save(t, Counted(s, a), End(t) /\ admits, End(t) /\ UNCHANGED admitted)
  /\ UNCHANGED <<mode, home, usage, now, todo, reset>>

\* consume_application_daily_quota: one statement of the database.
Consume(t) ==
  /\ task[t].pc = "consume" /\ End(t)
  /\ LET a == C(t).x IN
     IF usage[a] < task[t].quota
     THEN usage' = [usage EXCEPT ![a] = @ + 1] /\ admitted' = [admitted EXCEPT ![a] = @ + 1]
     ELSE UNCHANGED <<usage, admitted>>
  /\ UNCHANGED <<mode, home, row, cache, lock, dirty, now, todo, faults, tainted, reset>>

\* record_application_call
CountCall(p) ==
  /\ mode = "file" /\ ~dirty[p] /\ dirty' = [dirty EXCEPT ![p] = TRUE]
  /\ UNCHANGED <<mode, home, row, cache, lock, usage, now, todo, task, faults, tainted, admitted, reset>>

\* flush_access_call_stats: what is in memory is saved, with the counters.
Flush(p) ==
  /\ dirty[p] /\ lock[p] = None
  /\ row' = [row EXCEPT !.st = cache[p].st] /\ dirty' = [dirty EXCEPT ![p] = FALSE]
  /\ tainted' = [tainted EXCEPT ![p] = FALSE]
  /\ UNCHANGED <<mode, home, cache, lock, usage, now, todo, task, faults, admitted, reset>>

\* audit_or_restore, audit_identity_or_restore
Audit(t) ==
  /\ task[t].pc = "audit"
  /\ \/ End(t) /\ UNCHANGED faults
     \/ Fault /\ To(t, "undo")
  /\ UNCHANGED <<mode, home, row, cache, lock, dirty, usage, now, todo, tainted, admitted, reset>>

\* restore_access_state: the copy, at the revision of the moment.
Put(t) ==
  /\ task[t].pc = "put" /\ Unlock(t) /\ reset' = TRUE
  /\ Save(t, task[t].old, End(t), End(t))
  /\ UNCHANGED <<mode, home, usage, now, todo, admitted>>

\* A replica dies and starts again: load_access_state.
Restart(p) ==
  /\ Fault /\ cache' = [cache EXCEPT ![p] = row] /\ tainted' = [tainted EXCEPT ![p] = FALSE]
  /\ lock' = [lock EXCEPT ![p] = None] /\ dirty' = [dirty EXCEPT ![p] = FALSE]
  /\ task' = [t \in Tasks |-> IF P(t) = p THEN Idle ELSE task[t]]
  /\ UNCHANGED <<mode, home, row, usage, now, todo, admitted, reset>>

\* Time passes; a new day has counts of its own.
Tick ==
  /\ now < MaxTime /\ now' = now + 1
  /\ LET new == now' \div DayLength # Today IN
     /\ usage' = IF new THEN [a \in Apps |-> 0] ELSE usage
     /\ admitted' = IF new THEN [a \in Apps |-> 0] ELSE admitted
  /\ UNCHANGED <<mode, home, row, cache, lock, dirty, todo, task, faults, tainted, reset>>

-----------------------------------------------------------------------------
AccessInit ==
  /\ mode \in {"file", "postgres"}
  /\ \E d \in Documents : row = [rev |-> 0, st |-> d]
  /\ cache = [p \in Nodes |-> row] /\ lock = [p \in Nodes |-> None] /\ dirty = [p \in Nodes |-> FALSE]
  /\ home \in {h \in Homes : mode = "file" => \A t, u \in Tasks : h[t] = h[u]}
  /\ usage = [a \in Apps |-> 0] /\ admitted = [a \in Apps |-> 0] /\ now = 0
  /\ todo \in Workloads /\ task = [t \in Tasks |-> Idle] /\ faults = MaxFaults
  /\ tainted = [p \in Nodes |-> FALSE] /\ reset = FALSE

AccessNext ==
  \/ \E t \in Tasks : \/ Begin(t) \/ Enter(t) \/ Edit(t) \/ Refuse(t) \/ Use(t) \/ Consume(t)
                      \/ Audit(t) \/ Put(t)
  \/ \E p \in Replicas : CountCall(p) \/ Flush(p) \/ Restart(p)
  \/ Tick

-----------------------------------------------------------------------------
(* Properties.                                                             *)

\* Every variable has its type.
AccessTypeOK ==
  /\ row.rev \in Nat /\ \A p \in Nodes : cache[p].rev \in 0..row.rev
  /\ row.st.tenant \in {"none", "active", "disabled"}
  /\ \A p \in Nodes : lock[p] \in Tasks \cup {None} /\ (lock[p] # None <=> \E t \in Tasks : P(t) = p /\ task[t].pc \in {"edit", "put"})
  /\ faults \in 0..MaxFaults /\ now \in 0..MaxTime

\* Two members never share a phone or a subject, whatever is refused half way,
\* saved by another replica or put back.
MembersDiffer(s) ==
  \A m, n \in Members : m # n /\ s.members[m] # None /\ s.members[n] # None =>
    /\ s.members[m].phone # s.members[n].phone
    /\ s.members[m].subject = None \/ s.members[m].subject # s.members[n].subject

\* A replica that is at the revision of the row has what the row has, so that
\* a key that is rotated away, or an application or a tenant that is disabled, is
\* refused by all at once.  A call that was refused half way, or whose save
\* failed, is the exception: its edit stays in the memory of the replica.
CachesAgree == \A p \in Replicas : ~tainted[p] /\ cache[p].rev = row.rev => cache[p].st = row.st

\* The quota of a day is what is admitted, over all replicas, until it is set anew
\* or a snapshot takes the count back.
QuotaHolds ==
  \A a \in Apps : ~reset /\ row.st.apps[a] # None =>
    row.st.apps[a].quota = 0 \/ admitted[a] <= row.st.apps[a].quota

\* The documents are sound, and the same wherever they are looked at.
DocumentsAgree ==
  AccessTypeOK /\ CachesAgree /\ MembersDiffer(row.st) /\ \A p \in Nodes : MembersDiffer(cache[p].st)

\* ... and they hold who has used up the quota of the day.
AccessIsSound == DocumentsAgree /\ QuotaHolds

\* What a call of task t may change in a document.
Elsewhere(s, c) ==
  <<[q \in Projects \ {c.x, Default} |-> s.projects[q]], [a \in Apps \ {c.x} |-> s.apps[a]],
    [h \in Hooks \ {c.x} |-> s.hooks[h]],
    [m \in IF c.op = "bind" THEN {} ELSE Members \ {c.x} |-> s.members[m]]>>

\* Task t saves an edit, and there was none in memory that was never saved.
Saving(t) == task[t].pc = "edit" /\ task'[t].pc # "edit" /\ row' # row /\ ~tainted[P(t)]

\* A save changes nothing but what its call is about: no replica overwrites what
\* another one has just saved, unless it puts a snapshot back.
SavesOnlyItsOwn ==
  \A t \in Tasks : Saving(t) =>
    /\ Elsewhere(row'.st, C(t)) = Elsewhere(row.st, C(t))
    /\ row'.st.tenant = row.st.tenant \/ row.st.tenant = "none" \/ Op(t) = "tenant"

\* It never cuts off a key before its grace is over, as long as no more keys were
\* replaced than are kept.
KeepsKeys ==
  \A t \in Tasks : Saving(t) =>
    \A a \in Apps : row.st.apps[a] # None /\ Len(row.st.apps[a].prev) < KeptKeys =>
      InForce(row.st.apps[a]) \ (IF Grace > 0 THEN {} ELSE {row.st.apps[a].key}) \subseteq InForce(row'.st.apps[a])

\* Both.
SavesItsOwn == SavesOnlyItsOwn /\ KeepsKeys

AccessSafe == [][SavesItsOwn]_accessVars
=============================================================================
