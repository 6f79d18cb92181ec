---------------------------- MODULE Entitlements ----------------------------
(***************************************************************************)
(* The commercial life of one project (portrait_commercial): its           *)
(* entitlements, which of them is current, the status of the commercial    *)
(* profile with at most one scheduled transition, and the decisions that   *)
(* guard the project's calls and allocations.                              *)
(*                                                                         *)
(* Nothing runs by itself when a date is reached.  Every operation takes   *)
(* _LOCK, and most reconcile the project with the clock first; an          *)
(* operation is one step and reads the clock once.  A refused operation    *)
(* has at most reconciled, as Read does.                                   *)
(*                                                                         *)
(* A call of an operator copies the whole state before its operation, and   *)
(* puts the copy back when what it did cannot be audited (audit_or_restore): *)
(* over all that other calls did since.  Only the copies of calls that fail  *)
(* so are followed; those of other calls are never used.                    *)
(*                                                                         *)
(* An entitlement is named by its version, the order of creation; no       *)
(* expiry is an expiry after the horizon of the model's clock.             *)
(***************************************************************************)
EXTENDS Integers, Sequences, FiniteSets

CONSTANTS
  MaxEnts,   (* bound on the entitlements created                          *)
  Horizon,   (* bound on the clock                                         *)
  Terms,     (* terms that are asked for: [delay, length, grace, temp]     *)
  Asked,     (* statuses that the operator asks for                        *)
  Dates,     (* dates that the operator schedules them for                 *)
  MaxFailing (* bound on the calls at once whose audit will fail           *)

ASSUME BoundsAssumption == MaxEnts \in Nat /\ Horizon \in Nat
ASSUME TermsAssumption  ==
  Terms \subseteq [delay : Int, length : Nat \ {0}, grace : Nat, temp : BOOLEAN]

Statuses == {"trial", "active", "grace", "suspended", "offboarding", "closed"}

ASSUME AskedAssumption == Asked \subseteq Statuses /\ Dates \subseteq Nat

\* COMMERCIAL_STATUS_TRANSITIONS
Transitions == [
  trial       |-> {"active", "grace", "suspended", "offboarding"},
  active      |-> {"grace", "suspended", "offboarding"},
  grace       |-> {"active", "suspended", "offboarding"},
  suspended   |-> {"active", "grace", "offboarding"},
  offboarding |-> {"active", "closed"},
  closed      |-> {}]

VARIABLES
  ents,     (* the project's entitlements                                  *)
  cur,      (* current_entitlement_id of the profile, or 0                 *)
  status,   (* commercial_status of the profile                            *)
  sched,    (* scheduled_transition: none or one                           *)
  closable, (* no active application, and the deletion evidence is there   *)
  held,     (* the copies of calls whose audit will fail                   *)
  now,      (* the clock                                                   *)
  grant     (* the entitlement the last step granted something under, or 0 *)

vars == <<ents, cur, status, sched, closable, held, now, grant>>

-----------------------------------------------------------------------------
(* Entitlements.  A book is what the operations work on: [ents, cur].      *)

Book == [ents |-> ents, cur |-> cur]
Mark(b, i, s) == [b EXCEPT !.ents[i].status = s]
Until(e) == e.expires + e.grace

\* Mutant: a target's status is not looked at.
UsableWhatever(b, i) ==
  /\ i # 0
  /\ b.ents[i].starts <= now /\ now <= Until(b.ents[i])

\* _rollback_target_is_usable
Usable(b, i) ==
  /\ i # 0
  /\ b.ents[i].status \in {"active", "superseded"}
  /\ b.ents[i].starts <= now /\ now <= Until(b.ents[i])

\* _restore_entitlement_rollback_target
Restore(b, i) ==
  LET target == b.ents[i].target
  IN  IF Usable(b, target) THEN [Mark(b, target, "active") EXCEPT !.cur = target]
                           ELSE [b EXCEPT !.cur = 0]

\* The term of an active entitlement is over; a temporary expansion has no
\* grace period.
Lapsed(e) == /\ e.status = "active"
             /\ now > Until(e) \/ (e.temp /\ now > e.expires)

\* The first half of _reconcile_entitlements: the current one lapses.
Expire(b) == IF b.cur # 0 /\ Lapsed(b.ents[b.cur])
             THEN Restore(Mark(b, b.cur, "expired"), b.cur)
             ELSE b

\* The second half: pending entitlements whose date has come.  The one that
\* starts last is activated, of several the newest; the others are passed over.
Due(b)    == {i \in DOMAIN b.ents : b.ents[i].status = "pending" /\ b.ents[i].starts <= now}
Missed(b) == {i \in Due(b) : now > Until(b.ents[i])}
Ready(b)  == Due(b) \ Missed(b)
Winner(b) == CHOOSE i \in Ready(b) : \A j \in Ready(b) :
               \/ b.ents[j].starts < b.ents[i].starts
               \/ b.ents[j].starts = b.ents[i].starts /\ j <= i

Passed(b, i) == i \in Ready(b) \/ (Ready(b) # {} /\ i = b.cur /\ b.ents[i].status = "active")

\* Mutant: the winner takes over and the current entitlement stays active.
ActivateBeside(b) ==
  [ents |-> [i \in DOMAIN b.ents |->
               [b.ents[i] EXCEPT !.status =
                  IF i \in Missed(b) THEN "expired"
                  ELSE IF Ready(b) # {} /\ i = Winner(b) THEN "active"
                  ELSE IF i \in Ready(b) THEN "superseded" ELSE @]],
   cur  |-> IF Ready(b) = {} THEN b.cur ELSE Winner(b)]

Activate(b) ==
  [ents |-> [i \in DOMAIN b.ents |->
               [b.ents[i] EXCEPT !.status =
                  IF i \in Missed(b) THEN "expired"
                  ELSE IF Ready(b) # {} /\ i = Winner(b) THEN "active"
                  ELSE IF Passed(b, i) THEN "superseded" ELSE @]],
   cur  |-> IF Ready(b) = {} THEN b.cur ELSE Winner(b)]

\* _reconcile_entitlements
Reconciled(b) == Activate(Expire(b))

SetBook(b) == ents' = b.ents /\ cur' = b.cur

-----------------------------------------------------------------------------
(* The profile: [status, sched].                                           *)

Allowed(s, t) == t = s \/ t \in Transitions[s]

\* _reconcile_commercial_profile_transition, with _require_offboarding_closure.
Closing(s, t) == s = "offboarding" /\ t = "closed"

Transitioned(p) ==
  IF p.sched = <<>> \/ p.sched[1].state = "conflicted" \/ now < p.sched[1].at THEN p
  ELSE LET t == p.sched[1]
       IN  IF p.status # t.from \/ ~Allowed(p.status, t.to)
           THEN [p EXCEPT !.sched[1].state = "conflicted"]
           ELSE IF Closing(p.status, t.to) /\ ~closable
           THEN [p EXCEPT !.sched[1].state = "blocked"]
           ELSE [status |-> t.to, sched |-> <<>>]

Profile == [status |-> status, sched |-> sched]
SetProfile(p) == status' = p.status /\ sched' = p.sched

-----------------------------------------------------------------------------
(* Calls of operators.                                                     *)

\* commercial_state_payload, of a call whose audit will fail: nothing is reconciled.
Copy ==
  /\ Cardinality(held) < MaxFailing
  /\ held' = held \cup {[book |-> Book, profile |-> Profile, done |-> FALSE]}
  /\ grant' = 0
  /\ UNCHANGED <<ents, cur, status, sched, closable, now>>

\* An operation is that of a call whose audit is written, or of one whose audit will fail.
ByCall ==
  \/ UNCHANGED held
  \/ \E h \in {h \in held : ~h.done} : held' = (held \ {h}) \cup {[h EXCEPT !.done = TRUE]}

\* restore_commercial_state: the deletion evidence is as it was, too.
RollBack(h) ==
  /\ h.done /\ held' = held \ {h}
  /\ SetBook(h.book) /\ SetProfile(h.profile)
  /\ closable' \in BOOLEAN
  /\ grant' = 0
  /\ UNCHANGED now

-----------------------------------------------------------------------------
(* Operations.                                                             *)

\* What get_commercial_profile makes of the profile p.
Answer(p) ==
  /\ SetProfile(Transitioned(p)) /\ SetBook(Reconciled(Book))
  /\ grant' = 0
  /\ UNCHANGED <<closable, now>>

\* get_commercial_profile and list_entitlements
Read == Answer(Profile) /\ UNCHANGED held

\* update_commercial_profile: the operator cancels the scheduled transition,
\* schedules one over whatever is scheduled, or changes the status at once.
CancelSchedule ==
  /\ sched # <<>> /\ sched[1].state \in {"pending", "blocked"}
  /\ Answer([status |-> status, sched |-> <<>>]) /\ ByCall

Schedule(to, at) ==
  /\ Allowed(status, to) /\ at > now
  /\ Answer([status |-> status,
             sched  |-> <<[state |-> "pending", from |-> status, to |-> to, at |-> at]>>])
  /\ ByCall

ChangeStatus(to) ==
  /\ Allowed(status, to)
  /\ Closing(status, to) => closable
  /\ Answer([status |-> to, sched |-> sched]) /\ ByCall

\* create_entitlement, on the reconciled project.  A term that starts in the
\* future is pending; any other replaces the current entitlement at once.
\* The roll-back target is a named entitlement or else the current one.
NewEntitlement(b, term, target) ==
  [status  |-> IF term.delay > 0 THEN "pending" ELSE "active",
   starts  |-> now + term.delay,
   expires |-> now + term.delay + term.length,
   grace   |-> term.grace,
   temp    |-> term.temp,
   target  |-> target]

TakeOver(b, e) ==
  LET c == IF e.status = "active" /\ b.cur # 0 /\ b.ents[b.cur].status = "active"
           THEN Mark(b, b.cur, "superseded") ELSE b
  IN  [ents |-> Append(c.ents, e),
       cur  |-> IF e.status = "active" THEN Len(b.ents) + 1 ELSE b.cur]

CreateEntitlement(term, named) ==
  LET b == Reconciled(Book)
      target == IF named # 0 THEN named ELSE b.cur
  IN  /\ Len(ents) < MaxEnts
      /\ term.temp => target # 0
      /\ SetProfile(Transitioned(Profile))
      /\ SetBook(TakeOver(b, NewEntitlement(b, term, target))) /\ ByCall
      /\ grant' = 0
      /\ UNCHANGED <<closable, now>>

\* change_entitlement_status: cancel, revoke or roll back, between two
\* reconciliations.
Cancelled(b, i) == Mark(b, i, "revoked")

Revoked(b, i) == LET c == Mark(b, i, "revoked") IN IF b.cur = i THEN Restore(c, i) ELSE c

RolledBack(b, i) == Restore(Mark(b, i, "superseded"), i)

MayChange(b, i, action) ==
  \/ action = "cancel" /\ b.ents[i].status = "pending"
  \/ action = "revoke" /\ b.ents[i].status \in {"pending", "active"}
  \/ /\ action = "rollback" /\ b.cur = i /\ b.ents[i].status = "active"
     /\ Usable(b, b.ents[i].target)

Changed(b, i, action) == CASE action = "cancel"   -> Cancelled(b, i)
                           [] action = "revoke"   -> Revoked(b, i)
                           [] action = "rollback" -> RolledBack(b, i)

ChangeEntitlement(i, action) ==
  LET b == Reconciled(Book)
  IN  /\ MayChange(b, i, action)
      /\ SetProfile(Transitioned(Transitioned(Profile)))
      /\ SetBook(Reconciled(Changed(b, i, action))) /\ ByCall
      /\ grant' = 0
      /\ UNCHANGED <<closable, now>>

\* entitlement_runtime_status
RuntimeStatus(e) ==
  CASE now < e.starts -> "pending"
    [] now >= e.starts /\ e.status \in {"revoked", "superseded", "expired"} -> e.status
    [] OTHER -> IF now <= e.expires THEN "active"
                ELSE IF now <= Until(e) THEN "grace" ELSE "expired"

\* require_entitlement_capability: it reconciles the entitlements, not the
\* profile.  The capability, compliance and licence checks that follow are the
\* caller's to fail; a refusal is a step that grants nothing.
RequireCapability ==
  LET b == Reconciled(Book)
  IN  /\ SetBook(b)
      /\ grant' \in {0} \cup
           {i \in {b.cur} \ {0} : /\ status \in {"active", "grace"}
                                  /\ RuntimeStatus(b.ents[i]) \in {"active", "grace"}}
      /\ UNCHANGED <<status, sched, closable, held, now>>

\* require_entitlement_allocation: new streams and projects need both active.
RequireAllocation ==
  LET b == Reconciled(Book)
      p == Transitioned(Profile)
  IN  /\ SetBook(b) /\ SetProfile(p)
      /\ grant' \in {0} \cup
           {i \in {b.cur} \ {0} : p.status = "active" /\ RuntimeStatus(b.ents[i]) = "active"}
      /\ UNCHANGED <<closable, held, now>>

\* Applications are disabled or enabled, the deletion evidence is completed.
Prepare ==
  /\ closable' = ~closable
  /\ grant' = 0 /\ ByCall
  /\ UNCHANGED <<ents, cur, status, sched, now>>

Tick ==
  /\ now < Horizon
  /\ now' = now + 1
  /\ grant' = 0
  /\ UNCHANGED <<ents, cur, status, sched, closable, held>>

\* _default_profile
Init ==
  /\ ents = <<>> /\ cur = 0
  /\ status = "trial" /\ sched = <<>>
  /\ closable = FALSE
  /\ held = {}
  /\ now = 0
  /\ grant = 0

Next ==
  \/ Read \/ CancelSchedule
  \/ \E to \in Asked : ChangeStatus(to) \/ \E at \in Dates : Schedule(to, at)
  \/ \E term \in Terms, named \in 0..Len(ents) : CreateEntitlement(term, named)
  \/ \E i \in DOMAIN ents, action \in {"cancel", "revoke", "rollback"} : ChangeEntitlement(i, action)
  \/ RequireCapability \/ RequireAllocation \/ Prepare \/ Tick
  \/ Copy \/ \E h \in held : RollBack(h)

Spec == Init /\ [][Next]_vars

-----------------------------------------------------------------------------
(* Properties.                                                             *)

Entitlement == [status : {"pending", "active", "superseded", "revoked", "expired"},
                starts : Int, expires : Int, grace : Nat, temp : BOOLEAN, target : Nat]
Transition  == [state : {"pending", "blocked", "conflicted"},
                from : Statuses, to : Statuses, at : Nat]

\* Every variable has its type; the current entitlement and every roll-back
\* target exist, and a target is older than what would be rolled back to it.
TypeOK ==
  /\ ents \in Seq(Entitlement) /\ \A i \in DOMAIN ents : ents[i].target < i
  /\ cur \in 0..Len(ents) /\ grant \in 0..Len(ents)
  /\ status \in Statuses
  /\ sched \in Seq(Transition) /\ Len(sched) <= 1
  /\ closable \in BOOLEAN /\ now \in 0..Horizon
  /\ held \subseteq [book    : [ents : Seq(Entitlement), cur : Nat],
                    profile : [status : Statuses, sched : Seq(Transition)], done : BOOLEAN]

\* However activations, expiries, revocations and roll-backs follow each
\* other, the active entitlement is the profile's current one, and the only
\* active one.
ActiveIsCurrent == TypeOK /\ {i \in DOMAIN ents : ents[i].status = "active"} = {cur} \ {0}

\* A call is let through, or a stream allocated, only under an entitlement
\* that has started, is not over and was neither revoked nor replaced.
GrantInForce ==
  grant # 0 => /\ grant = cur /\ ents[grant].status = "active"
               /\ ents[grant].starts <= now /\ now <= Until(ents[grant])

\* What is active is the current entitlement, and what is granted rests on it.
GrantsAreCurrent == ActiveIsCurrent /\ GrantInForce

\* What was revoked or has expired never comes back, by no operation.
Ended(b, i) == i \in DOMAIN b.ents /\ b.ents[i].status \in {"revoked", "expired"}

EndedIsFinal ==
  \A i \in DOMAIN ents : Ended(Book, i) => i \in DOMAIN ents' /\ ents'[i].status = ents[i].status

\* A project is closed only with its applications disabled and the deletion
\* evidence there, at once or by schedule, and it stays closed.
ClosureIsSound ==
  /\ status = "closed" => status' = "closed"
  /\ status # "closed" /\ status' = "closed" => closable

\* What had ended before any call that still fails had begun has ended for good,
\* whichever copies are put back, in whatever order.
Books  == {Book} \cup {h.book : h \in held}
Closed == status = "closed" /\ \A h \in held : h.profile.status = "closed"

SettledIsFinal ==
  /\ \A i \in DOMAIN ents : (\A b \in Books : Ended(b, i)) => \A b \in Books' : Ended(b, i)
  /\ Closed => Closed'

\* What has ended stays ended, an entitlement as well as a project: as long as no copy is
\* put back of a state in which it had not (restore_commercial_state), and then, too, when
\* it had ended before.
EndingsAreFinal ==
  [][SettledIsFinal /\ ((EndedIsFinal /\ ClosureIsSound) \/ \E h \in held : RollBack(h))]_vars

=============================================================================
