---------------------------- MODULE ControlState ----------------------------
(***************************************************************************)
(* The control state that the API replicas share (portrait_control_state,  *)
(* postgres_control_state), with the usage ledger of portrait_metering as  *)
(* its content: one row in postgres with a revision, a copy of it in every *)
(* process, and optimistic locking on the revision.                        *)
(*                                                                         *)
(* A `with _LOCK` block is two steps: the snapshot is read before the lock *)
(* is taken; the block itself, which ends with at most one save, is atomic *)
(* for its process, and the save is one transaction of the store.          *)
(*                                                                         *)
(* A ledger entry is named after the request that appended it; Of gives    *)
(* what it is the entry of, which is its idempotency key.                  *)
(***************************************************************************)
EXTENDS Integers, FiniteSets

CONSTANTS
  Procs,     (* API processes                                              *)
  Reversals, (* requests of a route that audits what it wrote              *)
  Calls,     (* HTTP calls that the metering middleware records            *)
  Keys,      (* idempotency keys of ledger entries                         *)
  Of,        (* the key of the entry that a request appends                *)
  Quota,     (* bound on every fault and on retries, by kind               *)
  Nil        (* no value                                                   *)

Requests == Reversals \cup Calls
Kinds    == {"load", "reload", "save", "audit", "crash", "retry"}

ASSUME RequestsAssumption == Reversals \cap Calls = {}
ASSUME KeysAssumption     == Of \in [Requests -> Keys]
ASSUME QuotaAssumption    == Quota \in [Kinds -> Nat]

Ledger   == SUBSET Requests
Snapshot == [rev : Int, state : Ledger]

ASSUME NilAssumption == Nil \notin Snapshot

VARIABLES
  row,    (* the row in postgres; revision 0 when there is none            *)
  cache,  (* _STATE and the backend's revision, of each process            *)
  pc,     (* where each request is                                         *)
  at,     (* the process that serves each request                          *)
  got,    (* the snapshot a request prefetched for its next block, or Nil  *)
  undo,   (* the ledger an audited route would restore                     *)
  left    (* what is left of Quota                                         *)

vars == <<row, cache, pc, at, got, undo, left>>

Spend(k) == left[k] > 0 /\ left' = [left EXCEPT ![k] = @ - 1]
Go(r, p) == pc' = [pc EXCEPT ![r] = p]

\* What _apply_snapshot leaves in memory: an older or equal revision is
\* ignored.
Apply(c, s) == IF s.rev <= c.rev THEN c ELSE s

\* The copy that request r works on once it is inside the lock.
Fresh(r) == Apply(cache[at[r]], got[r])

SetCache(r, c) == cache' = [cache EXCEPT ![at[r]] = c]

\* A request arrives at a process.  The route first copies the state for its
\* roll back; the middleware does not.
Arrive(r, p) ==
  /\ pc[r] = "idle"
  /\ at' = [at EXCEPT ![r] = p]
  /\ Go(r, IF r \in Reversals THEN "snapshot" ELSE "write")
  /\ UNCHANGED <<row, cache, got, undo, left>>

\* operation(): the snapshot is loaded outside the lock; a failing load ends
\* the request with 503.
Prefetch(r) ==
  /\ pc[r] \in {"snapshot", "write", "restore"} /\ got[r] = Nil
  /\ \/ got' = [got EXCEPT ![r] = row] /\ UNCHANGED <<pc, left>>
     \/ Spend("load") /\ Go(r, "failed") /\ UNCHANGED got
  /\ UNCHANGED <<row, cache, at, undo>>

\* metering_state_payload
TakeSnapshot(r) ==
  /\ pc[r] = "snapshot" /\ got[r] # Nil
  /\ SetCache(r, Fresh(r))
  /\ undo' = [undo EXCEPT ![r] = Fresh(r).state]
  /\ got' = [got EXCEPT ![r] = Nil]
  /\ Go(r, "write")
  /\ UNCHANGED <<row, at, left>>

\* Mutant: the update does not ask for the revision it was made from.
SaveUnconditionally(r, c, s, next, refused) ==
  /\ row' = [rev |-> row.rev + 1, state |-> s]
  /\ SetCache(r, row') /\ Go(r, next) /\ UNCHANGED left

\* Mutant: a conflict reloads the copy, and the request goes on all the same.
SaveHidesConflict(r, c, s, next, refused) ==
  /\ Go(r, next) /\ UNCHANGED left
  /\ \/ /\ c.rev = row.rev
        /\ row' = [rev |-> row.rev + 1, state |-> s] /\ SetCache(r, row')
     \/ c.rev # row.rev /\ SetCache(r, row) /\ UNCHANGED row

\* save(): state s of the copy c goes to the row if the row still has c's
\* revision, and the request goes on at next.  On a conflict the copy is
\* loaded again and the request is refused.  A save that fails otherwise,
\* before or after its commit, and a reload that fails, leave the copy as the
\* block changed it.
Save(r, c, s, next, refused) ==
  \/ /\ c.rev = row.rev
     /\ row' = [rev |-> row.rev + 1, state |-> s]
     /\ SetCache(r, row') /\ Go(r, next) /\ UNCHANGED left
  \/ /\ c.rev # row.rev
     /\ SetCache(r, row) /\ Go(r, refused) /\ UNCHANGED <<row, left>>
  \/ /\ c.rev # row.rev /\ Spend("reload")
     /\ SetCache(r, [c EXCEPT !.state = s]) /\ Go(r, "failed") /\ UNCHANGED row
  \/ /\ Spend("save")
     /\ \/ row' = row
        \/ c.rev = row.rev /\ row' = [rev |-> row.rev + 1, state |-> s]
     /\ SetCache(r, [c EXCEPT !.state = s]) /\ Go(r, "failed")

\* Mutant: no entry with the same key is looked for.
ExistingNone(s, k) == {}

\* record_usage_event and reverse_usage_event: an entry with this key is
\* returned as it is, otherwise one is appended and saved.
Existing(s, k) == {q \in s : Of[q] = k}

\* Mutant: the route goes on with a step that nothing handles.
WrittenAstray(r) == IF r \in Reversals THEN "respond" ELSE "ok"

Written(r) == IF r \in Reversals THEN "audit" ELSE "ok"

Write(r) ==
  LET c == Fresh(r)
  IN  /\ pc[r] = "write" /\ got[r] # Nil
      /\ IF Existing(c.state, Of[r]) # {}
         THEN SetCache(r, c) /\ Go(r, Written(r)) /\ UNCHANGED <<row, left>>
         ELSE Save(r, c, c.state \cup {r}, Written(r), "conflict")
      /\ got' = [got EXCEPT ![r] = Nil]
      /\ UNCHANGED <<at, undo>>

\* audit_metering_or_restore: without its audit record the write is undone.
Audit(r) ==
  /\ pc[r] = "audit"
  /\ \/ Go(r, "ok") /\ UNCHANGED left
     \/ Spend("audit") /\ Go(r, "restore")
  /\ UNCHANGED <<row, cache, at, got, undo>>

\* restore_metering_state replaces the whole state by the copy.
Restore(r) ==
  LET c == Fresh(r)
  IN  /\ pc[r] = "restore" /\ got[r] # Nil
      /\ Save(r, c, undo[r], "failed", "failed")
      /\ got' = [got EXCEPT ![r] = Nil]
      /\ UNCHANGED <<at, undo>>

\* The client of a route repeats a refused or failed request, at any process.
\* The middleware only logs that the event was not written.
Retry(r) ==
  /\ r \in Reversals /\ pc[r] \in {"conflict", "failed"}
  /\ Spend("retry")
  /\ Go(r, "idle")
  /\ UNCHANGED <<row, cache, at, got, undo>>

\* A process dies with its requests and starts again without a copy.
Crash(p) ==
  LET hit == {r \in Requests : at[r] = p /\ pc[r] \in {"snapshot", "write", "audit", "restore"}}
  IN  /\ Spend("crash")
      /\ cache' = [cache EXCEPT ![p] = [rev |-> -1, state |-> {}]]
      /\ pc' = [r \in Requests |-> IF r \in hit THEN "failed" ELSE pc[r]]
      /\ got' = [r \in Requests |-> IF r \in hit THEN Nil ELSE got[r]]
      /\ UNCHANGED <<row, at, undo>>

Init ==
  /\ row = [rev |-> 0, state |-> {}]
  /\ cache = [p \in Procs |-> [rev |-> -1, state |-> {}]]
  /\ pc = [r \in Requests |-> "idle"]
  /\ at \in [Requests -> Procs]
  /\ got = [r \in Requests |-> Nil]
  /\ undo = [r \in Requests |-> {}]
  /\ left = Quota

Next ==
  \/ \E r \in Requests :
       \/ \E p \in Procs : Arrive(r, p)
       \/ Prefetch(r) \/ TakeSnapshot(r) \/ Write(r) \/ Audit(r) \/ Restore(r) \/ Retry(r)
  \/ \E p \in Procs : Crash(p)

Spec == Init /\ [][Next]_vars

-----------------------------------------------------------------------------
(* Properties.                                                             *)

Locations == {"idle", "snapshot", "write", "audit", "restore", "ok", "conflict", "failed"}

\* Every variable has its type.
TypeOK ==
  /\ row \in [rev : Nat, state : Ledger]
  /\ cache \in [Procs -> Snapshot]
  /\ pc \in [Requests -> Locations]
  /\ at \in [Requests -> Procs]
  /\ got \in [Requests -> Snapshot \cup {Nil}]
  /\ undo \in [Requests -> Ledger]
  /\ left \in [Kinds -> Nat]

Recorded(k) == \E q \in row.state : Of[q] = k

\* No save, no reload after a conflict and no audit has failed so far.
Undisturbed == \A k \in {"save", "reload", "audit"} : left[k] = Quota[k]

\* As long as the store takes what is saved and nothing is rolled back, a write
\* that the client was told is done is in the store, whichever replicas wrote
\* at the same time and whatever was refused, repeated or lost in a crash.
AckedIsDurable == Undisturbed => \A r \in Reversals : pc[r] = "ok" => Recorded(Of[r])

\* The revision check: until an audit fails and a route rolls back, no entry
\* leaves the ledger, whatever the replicas do and whatever else fails.
LedgerGrows == [][left["audit"] = Quota["audit"] => row.state \subseteq row'.state]_vars

\* No replica overwrites what another one committed: an entry leaves the ledger
\* only when the request that made it is undone.
NoSilentOverwrite ==
  [][\A q \in row.state \ row'.state : pc[q] = "restore" /\ pc'[q] # "restore"]_vars

\* Two replicas that reverse the same usage event leave one reversal.
OneEntryPerKey ==
  \A q, s \in row.state : Of[q] = Of[s] => q = s

=============================================================================
