------------------------- MODULE ControlStateProofs -------------------------
(***************************************************************************)
(* Proofs about what operators change: the control state of ControlState,  *)
(* for any number of processes and requests and any quota of faults, and   *)
(* the releases of ModelRelease, for any versions, tasks, actors and calls.*)
(*                                                                         *)
(* None of the properties is inductive.  What carries those of the control *)
(* state is what the revisions say of the copies: no copy is ahead of the  *)
(* row, and a copy with the row's revision misses nothing of the row       *)
(* (Cover) until a route rolls back; as long as nothing fails, no copy has *)
(* anything that the row lacks either (Durable).  What carries those of    *)
(* the releases is what each has read and made so far (Stage).             *)
(***************************************************************************)
EXTENDS ControlState, ModelRelease, FiniteSetTheorems, TLAPS

NoRollback == left["audit"] = Quota["audit"]

QuotasFall == \A k \in Kinds : left[k] <= Quota[k]

Revisions ==
  /\ \A p \in Procs : cache[p].rev <= row.rev
  /\ \A r \in Requests : got[r] # Nil =>
       got[r].rev <= row.rev /\ (got[r].rev = row.rev => got[r].state = row.state)

Cover ==
  /\ \A r \in Requests : pc[r] # "restore"
  /\ \A p \in Procs : cache[p].rev = row.rev => row.state \subseteq cache[p].state

Durable ==
  /\ \A p \in Procs : cache[p].state \subseteq row.state
  /\ \A r \in Requests : got[r] # Nil => got[r].state \subseteq row.state
  /\ \A r \in Reversals : pc[r] \in {"audit", "ok"} => Recorded(Of[r])

Inv == /\ TypeOK /\ QuotasFall /\ Revisions
       /\ NoRollback => Cover
       /\ Undisturbed => Durable

-----------------------------------------------------------------------------
\* What is spent of a quota is never given back.
LEMMA SpendLemma ==
  ASSUME NEW k \in Kinds, left \in [Kinds -> Nat], QuotasFall, Spend(k)
  PROVE  /\ left' \in [Kinds -> Nat] /\ QuotasFall'
         /\ NoRollback' => NoRollback /\ k # "audit"
         /\ Undisturbed' => Undisturbed /\ k \notin {"save", "reload", "audit"}
BY QuotaAssumption DEF Spend, QuotasFall, NoRollback, Undisturbed, Kinds

\* The copy a block works on is a snapshot no newer than the row; with the
\* row's revision it misses nothing, and while nothing failed it adds nothing.
LEMMA FreshLemma ==
  ASSUME Inv, NEW r \in Requests, got[r] # Nil
  PROVE  /\ at[r] \in Procs
         /\ Fresh(r) \in Snapshot
         /\ Fresh(r).rev <= row.rev
         /\ NoRollback /\ Fresh(r).rev = row.rev => row.state \subseteq Fresh(r).state
         /\ Undisturbed => Fresh(r).state \subseteq row.state
<1>1. got[r] \in Snapshot /\ at[r] \in Procs /\ cache[at[r]] \in Snapshot
  BY DEF Inv, TypeOK
<1>2. CASE got[r].rev <= cache[at[r]].rev
  <2>1. Fresh(r) = cache[at[r]]
    BY <1>2 DEF Fresh, Apply
  <2> QED
    BY <1>1, <2>1 DEF Inv, Revisions, Cover, Durable
<1>3. CASE ~(got[r].rev <= cache[at[r]].rev)
  <2>1. Fresh(r) = got[r]
    BY <1>3 DEF Fresh, Apply
  <2> QED
    BY <1>1, <2>1 DEF Inv, Revisions, Cover, Durable
<1> QED
  BY <1>2, <1>3

-----------------------------------------------------------------------------
\* What a save of state s over the copy c establishes, provided that a block
\* works on a copy that is not ahead of the row and drops nothing.
LEMMA SaveLemma ==
  ASSUME Inv, NEW r \in Requests, NEW c \in Snapshot, NEW s \in Ledger,
         NEW n \in Locations, NEW f \in Locations,
         at[r] \in Procs, c.rev <= row.rev,
         NoRollback /\ c.rev = row.rev => row.state \subseteq s,
         Save(r, c, s, n, f)
  PROVE  /\ row' \in [rev : Nat, state : Ledger]
         /\ cache' \in [Procs -> Snapshot]
         /\ left' \in [Kinds -> Nat] /\ QuotasFall'
         /\ row' = row \/ row'.rev > row.rev
         /\ \A p \in Procs : cache'[p].rev <= row'.rev
         /\ \E l \in {n, f, "failed"} : pc' = [pc EXCEPT ![r] = l]
         /\ NoRollback => row.state \subseteq row'.state
         /\ NoRollback' =>
              /\ NoRollback
              /\ \A p \in Procs : cache'[p].rev = row'.rev => row'.state \subseteq cache'[p].state
         /\ Undisturbed' =>
              /\ Undisturbed
              /\ \A p \in Procs : cache'[p].state \subseteq row'.state
              /\ row'.state = s \/ pc' = [pc EXCEPT ![r] = f]
<1> USE DEF SetCache, Go
<1>t. /\ row \in [rev : Nat, state : Ledger] /\ cache \in [Procs -> Snapshot]
      /\ left \in [Kinds -> Nat] /\ QuotasFall
      /\ \A p \in Procs : cache[p].rev <= row.rev
  BY DEF Inv, TypeOK, Revisions
<1>c. NoRollback => \A p \in Procs : cache[p].rev = row.rev => row.state \subseteq cache[p].state
  BY DEF Inv, Cover
<1>d. Undisturbed => NoRollback /\ \A p \in Procs : cache[p].state \subseteq row.state
  BY DEF Inv, Durable, Undisturbed, NoRollback
<1>1. CASE /\ c.rev = row.rev
           /\ row' = [rev |-> row.rev + 1, state |-> s]
           /\ SetCache(r, row') /\ Go(r, n) /\ UNCHANGED left
  <2>1. /\ row' \in [rev : Nat, state : Ledger] /\ row'.rev = row.rev + 1 /\ row'.state = s
        /\ cache' = [cache EXCEPT ![at[r]] = row']
        /\ (NoRollback' <=> NoRollback) /\ (Undisturbed' <=> Undisturbed) /\ QuotasFall'
    BY <1>1, <1>t DEF NoRollback, Undisturbed, QuotasFall
  <2>2. cache' \in [Procs -> Snapshot] /\ \A p \in Procs : cache'[p].rev <= row'.rev
    BY <2>1, <1>t DEF Snapshot
  <2>3. NoRollback' => \A p \in Procs : cache'[p].rev = row'.rev => row'.state \subseteq cache'[p].state
    BY <2>1, <1>t DEF Snapshot
  <2>4. Undisturbed' => \A p \in Procs : cache'[p].state \subseteq row'.state
    BY <2>1, <1>1, <1>t, <1>d DEF Snapshot
  <2> QED
    BY <1>1, <1>t, <2>1, <2>2, <2>3, <2>4
<1>2. CASE /\ c.rev # row.rev
           /\ SetCache(r, row) /\ Go(r, f) /\ UNCHANGED <<row, left>>
  <2>1. /\ cache' = [cache EXCEPT ![at[r]] = row] /\ row' = row
        /\ (NoRollback' <=> NoRollback) /\ (Undisturbed' <=> Undisturbed) /\ QuotasFall'
    BY <1>2, <1>t DEF NoRollback, Undisturbed, QuotasFall
  <2>2. cache' \in [Procs -> Snapshot] /\ \A p \in Procs : cache'[p].rev <= row'.rev
    BY <2>1, <1>t DEF Snapshot
  <2>3. NoRollback' => \A p \in Procs : cache'[p].rev = row'.rev => row'.state \subseteq cache'[p].state
    BY <2>1, <1>t, <1>c
  <2>4. Undisturbed' => \A p \in Procs : cache'[p].state \subseteq row'.state
    BY <2>1, <1>t, <1>d
  <2> QED
    BY <1>2, <1>t, <2>1, <2>2, <2>3, <2>4
<1>3. CASE /\ c.rev # row.rev /\ Spend("reload")
           /\ SetCache(r, [c EXCEPT !.state = s]) /\ Go(r, "failed") /\ UNCHANGED row
  <2>0. /\ left' \in [Kinds -> Nat] /\ QuotasFall'
        /\ (NoRollback' => NoRollback) /\ ~Undisturbed'
    BY <1>3, <1>t, SpendLemma DEF Kinds
  <2>1. /\ cache' = [cache EXCEPT ![at[r]] = [c EXCEPT !.state = s]] /\ row' = row
        /\ [c EXCEPT !.state = s] \in Snapshot /\ [c EXCEPT !.state = s].rev = c.rev
    BY <1>3 DEF Snapshot
  <2>2. cache' \in [Procs -> Snapshot] /\ \A p \in Procs : cache'[p].rev <= row'.rev
    BY <2>1, <1>t
  <2>3. NoRollback' => \A p \in Procs : cache'[p].rev = row'.rev => row'.state \subseteq cache'[p].state
    BY <2>0, <2>1, <1>3, <1>t, <1>c
  <2> QED
    BY <1>3, <1>t, <2>0, <2>1, <2>2, <2>3
<1>4. CASE /\ Spend("save")
           /\ \/ row' = row
              \/ c.rev = row.rev /\ row' = [rev |-> row.rev + 1, state |-> s]
           /\ SetCache(r, [c EXCEPT !.state = s]) /\ Go(r, "failed")
  <2>0. /\ left' \in [Kinds -> Nat] /\ QuotasFall'
        /\ (NoRollback' => NoRollback) /\ ~Undisturbed'
    BY <1>4, <1>t, SpendLemma DEF Kinds
  <2>1. /\ cache' = [cache EXCEPT ![at[r]] = [c EXCEPT !.state = s]]
        /\ [c EXCEPT !.state = s] \in Snapshot /\ [c EXCEPT !.state = s].rev = c.rev
        /\ [c EXCEPT !.state = s].state = s
    BY <1>4 DEF Snapshot
  <2>2. /\ row' \in [rev : Nat, state : Ledger]
        /\ row' = row \/ (c.rev = row.rev /\ row'.rev = row.rev + 1 /\ row'.state = s)
    BY <1>4, <1>t
  <2>3. cache' \in [Procs -> Snapshot] /\ \A p \in Procs : cache'[p].rev <= row'.rev
    BY <2>1, <2>2, <1>t DEF Snapshot
  <2>4. NoRollback' => \A p \in Procs : cache'[p].rev = row'.rev => row'.state \subseteq cache'[p].state
    <3> SUFFICES ASSUME NoRollback, NEW p \in Procs, cache'[p].rev = row'.rev
                 PROVE  row'.state \subseteq cache'[p].state
      BY <2>0
    <3>1. CASE row' = row
      BY <3>1, <2>1, <1>t, <1>c
    <3>2. CASE c.rev = row.rev /\ row'.rev = row.rev + 1 /\ row'.state = s
      <4>1. c.rev \in Int /\ cache[p].rev \in Int /\ row.rev \in Int
        BY <1>t DEF Snapshot
      <4>2. p # at[r] => cache'[p] = cache[p]
        BY <2>1, <1>t
      <4>3. p = at[r] => cache'[p].rev = c.rev
        BY <2>1, <1>t
      <4> QED
        BY <4>1, <4>2, <4>3, <3>2, <1>t
    <3> QED
      BY <2>2, <3>1, <3>2
  <2>5. NoRollback => row.state \subseteq row'.state
    BY <2>2
  <2>6. row' = row \/ row'.rev > row.rev
    BY <2>2, <1>t
  <2> QED
    BY <1>4, <2>0, <2>2, <2>3, <2>4, <2>5, <2>6
<1> QED
  BY <1>1, <1>2, <1>3, <1>4 DEF Save

-----------------------------------------------------------------------------
\* The saves of Write and Restore keep the invariant, once the request has
\* moved on from its block.
LEMMA BlockLemma ==
  ASSUME Inv, NEW r \in Requests, NEW s \in Ledger, NEW n \in Locations, NEW f \in Locations,
         got[r] # Nil, got' = [got EXCEPT ![r] = Nil], UNCHANGED <<at, undo>>,
         NoRollback /\ Fresh(r).rev = row.rev => row.state \subseteq s,
         "restore" \notin {n, f},
         r \in Reversals /\ n \in {"audit", "ok"} /\ Undisturbed => \E q \in s : Of[q] = Of[r],
         f \notin {"audit", "ok"},
         Save(r, Fresh(r), s, n, f)
  PROVE  Inv' /\ (NoRollback => row.state \subseteq row'.state)
<1>f. /\ at[r] \in Procs /\ Fresh(r) \in Snapshot /\ Fresh(r).rev <= row.rev
  BY FreshLemma
<1>s. /\ row' \in [rev : Nat, state : Ledger]
      /\ cache' \in [Procs -> Snapshot]
      /\ left' \in [Kinds -> Nat] /\ QuotasFall'
      /\ row' = row \/ row'.rev > row.rev
      /\ \A p \in Procs : cache'[p].rev <= row'.rev
      /\ \E l \in {n, f, "failed"} : pc' = [pc EXCEPT ![r] = l]
      /\ NoRollback => row.state \subseteq row'.state
      /\ NoRollback' =>
           /\ NoRollback
           /\ \A p \in Procs : cache'[p].rev = row'.rev => row'.state \subseteq cache'[p].state
      /\ Undisturbed' =>
           /\ Undisturbed
           /\ \A p \in Procs : cache'[p].state \subseteq row'.state
           /\ row'.state = s \/ pc' = [pc EXCEPT ![r] = f]
  BY <1>f, SaveLemma
<1>t. /\ row \in [rev : Nat, state : Ledger] /\ pc \in [Requests -> Locations]
      /\ got \in [Requests -> Snapshot \cup {Nil}]
  BY DEF Inv, TypeOK
<1>1. TypeOK'
  BY <1>s, <1>t DEF Inv, TypeOK, Locations
<1>2. Revisions'
  <2>1. ASSUME NEW q \in Requests, got'[q] # Nil
        PROVE  got'[q].rev <= row'.rev /\ (got'[q].rev = row'.rev => got'[q].state = row'.state)
    <3>1. got'[q] = got[q] /\ got[q] # Nil /\ got[q] \in Snapshot
      BY <2>1, <1>t
    <3>2. got[q].rev <= row.rev /\ (got[q].rev = row.rev => got[q].state = row.state)
      BY <3>1 DEF Inv, Revisions
    <3> QED
      BY <1>s, <1>t, <3>1, <3>2 DEF Snapshot
  <2> QED
    BY <1>s, <2>1 DEF Revisions
<1>3. NoRollback' => Cover'
  BY <1>s, <1>t DEF Inv, Cover
<1>4. Undisturbed' => Durable'
  <2> SUFFICES ASSUME Undisturbed' PROVE Durable'
    OBVIOUS
  <2>1. Undisturbed /\ NoRollback /\ row.state \subseteq row'.state /\ Durable
    BY <1>s DEF Inv, Undisturbed, NoRollback
  <2>2. \A q \in Requests : got'[q] # Nil => got'[q].state \subseteq row'.state
    BY <2>1, <1>t DEF Durable
  <2>3. ASSUME NEW q \in Reversals, pc'[q] \in {"audit", "ok"} PROVE Recorded(Of[q])'
    <3>1. CASE pc'[q] = pc[q] /\ pc[q] \in {"audit", "ok"}
      BY <2>1, <3>1 DEF Durable, Recorded
    <3>2. CASE q = r /\ pc'[q] = n /\ row'.state = s
      BY <2>1, <2>3, <3>2 DEF Recorded
    <3> QED
      BY <1>s, <1>t, <2>1, <2>3, <3>1, <3>2 DEF Requests
  <2> QED
    BY <1>s, <2>2, <2>3 DEF Durable
<1> QED
  BY <1>s, <1>1, <1>2, <1>3, <1>4 DEF Inv

\* A step that leaves the row and the copies alone, and moves no request into
\* a roll back or past its write, keeps the invariant.
LEMMA QuietLemma ==
  ASSUME Inv, TypeOK', QuotasFall', UNCHANGED row,
         NoRollback' => NoRollback, Undisturbed' => Undisturbed,
         \A p \in Procs : \/ cache'[p] = cache[p]
                          \/ cache'[p].rev < 0 /\ cache'[p].state = {}
                          \/ \E r \in Requests : got[r] # Nil /\ cache'[p] = Fresh(r),
         \A r \in Requests : got'[r] \in {got[r], Nil, row},
         NoRollback' => \A r \in Requests : pc'[r] # "restore",
         Undisturbed' => \A r \in Reversals : pc'[r] \in {"audit", "ok"} => Recorded(Of[r])
  PROVE  Inv'
<1>t. row \in [rev : Nat, state : Ledger] /\ row' = row
  BY DEF Inv, TypeOK
<1>0. Undisturbed' => NoRollback'
  BY DEF Undisturbed, NoRollback
<1>1. Revisions'
  <2>1. ASSUME NEW p \in Procs PROVE cache'[p].rev <= row'.rev
    <3>1. CASE cache'[p] = cache[p]
      BY <1>t, <3>1 DEF Inv, Revisions
    <3>2. CASE cache'[p].rev < 0
      <4>1. cache'[p].rev \in Int
        BY DEF TypeOK, Snapshot
      <4> QED
        BY <1>t, <3>2, <4>1
    <3>3. CASE \E r \in Requests : got[r] # Nil /\ cache'[p] = Fresh(r)
      BY <1>t, <3>3, FreshLemma
    <3> QED
      BY <3>1, <3>2, <3>3
  <2>2. ASSUME NEW q \in Requests, got'[q] # Nil
        PROVE  got'[q].rev <= row'.rev /\ (got'[q].rev = row'.rev => got'[q].state = row'.state)
    BY <1>t, <2>2 DEF Inv, Revisions
  <2> QED
    BY <2>1, <2>2 DEF Revisions
<1>2. NoRollback' => Cover'
  <2> SUFFICES ASSUME NoRollback', NEW p \in Procs, cache'[p].rev = row'.rev
               PROVE  row'.state \subseteq cache'[p].state
    BY DEF Cover
  <2>1. CASE cache'[p] = cache[p]
    BY <1>t, <2>1 DEF Inv, Cover
  <2>2. CASE cache'[p].rev < 0
    BY <1>t, <2>2
  <2>3. CASE \E r \in Requests : got[r] # Nil /\ cache'[p] = Fresh(r)
    BY <1>t, <2>3, FreshLemma
  <2> QED
    BY <2>1, <2>2, <2>3
<1>3. Undisturbed' => Durable'
  <2> SUFFICES ASSUME Undisturbed' PROVE Durable'
    OBVIOUS
  <2>1. Durable /\ Undisturbed
    BY DEF Inv
  <2>2. ASSUME NEW p \in Procs PROVE cache'[p].state \subseteq row'.state
    BY <1>t, <2>1, FreshLemma DEF Durable
  <2>3. \A r \in Requests : got'[r] # Nil => got'[r].state \subseteq row'.state
    BY <1>t, <2>1 DEF Durable
  <2>4. \A r \in Reversals : pc'[r] \in {"audit", "ok"} => Recorded(Of[r])'
    BY <1>t DEF Recorded
  <2> QED
    BY <2>2, <2>3, <2>4 DEF Durable
<1> QED
  BY <1>1, <1>2, <1>3 DEF Inv

-----------------------------------------------------------------------------
LEMMA InitLemma == Init => Inv
<1> SUFFICES ASSUME Init PROVE Inv
  OBVIOUS
<1>1. TypeOK
  BY QuotaAssumption DEF Init, TypeOK, Ledger, Snapshot, Locations
<1>2. QuotasFall
  BY QuotaAssumption DEF Init, QuotasFall
<1>3. Revisions /\ Cover
  BY DEF Init, Revisions, Cover
<1>4. Durable
  BY DEF Init, Durable, Requests
<1> QED
  BY <1>1, <1>2, <1>3, <1>4 DEF Inv

\* The invariant is inductive, and no step removes an entry before a roll back.
LEMMA NextLemma ==
  ASSUME Inv, [Next]_vars
  PROVE  Inv' /\ (NoRollback => row.state \subseteq row'.state)
<1> USE DEF Go
<1>t. TypeOK /\ QuotasFall /\ left \in [Kinds -> Nat]
  BY DEF Inv, TypeOK
<1>o. Undisturbed => \A r \in Reversals : pc[r] \in {"audit", "ok"} => Recorded(Of[r])
  BY DEF Inv, Durable
<1>c. NoRollback => \A r \in Requests : pc[r] # "restore"
  BY DEF Inv, Cover
<1>1. ASSUME NEW r \in Requests, NEW p \in Procs, Arrive(r, p) PROVE Inv' /\ UNCHANGED row
  <2>1. TypeOK' /\ QuotasFall' /\ (NoRollback' <=> NoRollback) /\ (Undisturbed' <=> Undisturbed)
    BY <1>1, <1>t DEF Arrive, TypeOK, QuotasFall, NoRollback, Undisturbed, Locations
  <2>2. /\ \A q \in Requests : q # r => pc'[q] = pc[q]
        /\ pc'[r] \in {"snapshot", "write"}
    BY <1>1, <1>t DEF Arrive, TypeOK
  <2> QED
    BY <1>1, <1>t, <1>o, <1>c, <2>1, <2>2, QuietLemma DEF Arrive, Requests
<1>2. ASSUME NEW r \in Requests, Prefetch(r) PROVE Inv' /\ UNCHANGED row
  <2>1. /\ left' \in [Kinds -> Nat] /\ QuotasFall'
        /\ (NoRollback' => NoRollback) /\ (Undisturbed' => Undisturbed)
    BY <1>2, <1>t, SpendLemma DEF Prefetch, Kinds, QuotasFall, NoRollback, Undisturbed
  <2>2. TypeOK'
    <3>1. row \in Snapshot
      BY <1>t DEF TypeOK, Snapshot
    <3>2. got' \in [Requests -> Snapshot \cup {Nil}] /\ pc' \in [Requests -> Locations]
      BY <1>2, <1>t, <3>1 DEF Prefetch, TypeOK, Locations
    <3> QED
      BY <1>2, <1>t, <2>1, <3>2 DEF Prefetch, TypeOK
  <2>3. \A q \in Requests : pc'[q] = pc[q] \/ pc'[q] = "failed"
    BY <1>2, <1>t DEF Prefetch, TypeOK
  <2>4. \A q \in Requests : got'[q] \in {got[q], Nil, row}
    BY <1>2, <1>t DEF Prefetch, TypeOK
  <2> QED
    BY <1>2, <1>o, <1>c, <2>1, <2>2, <2>3, <2>4, QuietLemma DEF Prefetch, Requests
<1>3. ASSUME NEW r \in Requests, TakeSnapshot(r) PROVE Inv' /\ UNCHANGED row
  <2>1. /\ at[r] \in Procs /\ Fresh(r) \in Snapshot /\ got[r] # Nil
    BY <1>3, FreshLemma DEF TakeSnapshot
  <2>2. QuotasFall' /\ (NoRollback' <=> NoRollback) /\ (Undisturbed' <=> Undisturbed)
    BY <1>3, <1>t DEF TakeSnapshot, QuotasFall, NoRollback, Undisturbed
  <2>3. TypeOK'
    BY <1>3, <1>t, <2>1 DEF TakeSnapshot, SetCache, TypeOK, Locations, Snapshot
  <2>4. \A p \in Procs : cache'[p] = cache[p] \/ cache'[p] = Fresh(r)
    BY <1>3, <1>t, <2>1 DEF TakeSnapshot, SetCache, TypeOK
  <2>5. \A q \in Requests : /\ got'[q] \in {got[q], Nil, row}
                            /\ pc'[q] = pc[q] \/ pc'[q] = "write"
    BY <1>3, <1>t DEF TakeSnapshot, TypeOK
  <2> QED
    BY <1>3, <1>o, <1>c, <2>1, <2>2, <2>3, <2>4, <2>5, QuietLemma DEF TakeSnapshot, Requests
<1>4. ASSUME NEW r \in Requests, Write(r)
      PROVE  Inv' /\ (NoRollback => row.state \subseteq row'.state)
  <2> DEFINE c == Fresh(r)
  <2>0. got[r] # Nil /\ got' = [got EXCEPT ![r] = Nil] /\ UNCHANGED <<at, undo>>
    BY <1>4 DEF Write
  <2>1. /\ at[r] \in Procs /\ c \in Snapshot /\ c.rev <= row.rev
        /\ NoRollback /\ c.rev = row.rev => row.state \subseteq c.state
        /\ Undisturbed => c.state \subseteq row.state
    BY <2>0, FreshLemma
  <2>w. Written(r) \in {"audit", "ok"}
    BY DEF Written
  <2>2. CASE Existing(c.state, Of[r]) # {}
    <3>0. SetCache(r, c) /\ pc' = [pc EXCEPT ![r] = Written(r)] /\ UNCHANGED <<row, left>>
      BY <1>4, <2>2 DEF Write
    <3>1. QuotasFall' /\ (NoRollback' <=> NoRollback) /\ (Undisturbed' <=> Undisturbed)
      BY <3>0, <1>t DEF QuotasFall, NoRollback, Undisturbed
    <3>2. TypeOK'
      BY <3>0, <2>0, <2>1, <2>w, <1>t DEF SetCache, TypeOK, Locations, Snapshot
    <3>3. \A p \in Procs : cache'[p] = cache[p] \/ cache'[p] = Fresh(r)
      BY <3>0, <1>t, <2>1 DEF SetCache, TypeOK
    <3>4. \A q \in Requests : /\ got'[q] \in {got[q], Nil, row}
                              /\ pc'[q] = pc[q] \/ (q = r /\ pc'[q] \in {"audit", "ok"})
      BY <3>0, <2>0, <2>w, <1>t DEF TypeOK
    <3>5. Undisturbed => Recorded(Of[r])
      BY <2>1, <2>2 DEF Existing, Recorded
    <3> HIDE DEF c
    <3> QED
      BY <3>0, <1>o, <1>c, <2>0, <2>1, <3>1, <3>2, <3>3, <3>4, <3>5, QuietLemma DEF Requests
  <2>3. CASE ~(Existing(c.state, Of[r]) # {})
    <3>1. Save(r, Fresh(r), c.state \cup {r}, Written(r), "conflict")
      BY <1>4, <2>3 DEF Write
    <3>2. /\ c.state \cup {r} \in Ledger /\ Written(r) \in Locations /\ "conflict" \in Locations
          /\ NoRollback /\ Fresh(r).rev = row.rev => row.state \subseteq c.state \cup {r}
          /\ \E q \in c.state \cup {r} : Of[q] = Of[r]
          /\ "restore" \notin {Written(r), "conflict"}
      BY <2>1, <2>w DEF Snapshot, Ledger, Locations
    <3> HIDE DEF c
    <3> QED
      BY <2>0, <3>1, <3>2, BlockLemma
  <2> QED
    BY <2>2, <2>3
<1>5. ASSUME NEW r \in Requests, Audit(r) PROVE Inv' /\ UNCHANGED row
  <2>1. /\ left' \in [Kinds -> Nat] /\ QuotasFall'
        /\ (NoRollback' => NoRollback) /\ (Undisturbed' => Undisturbed)
        /\ NoRollback' => pc' = [pc EXCEPT ![r] = "ok"]
        /\ \/ pc' = [pc EXCEPT ![r] = "ok"]
           \/ pc' = [pc EXCEPT ![r] = "restore"]
    BY <1>5, <1>t, SpendLemma DEF Audit, Kinds, QuotasFall, NoRollback, Undisturbed
  <2>2. TypeOK'
    BY <1>5, <1>t, <2>1 DEF Audit, TypeOK, Locations
  <2>3. NoRollback' => \A q \in Requests : pc'[q] # "restore"
    BY <1>t, <1>c, <2>1 DEF TypeOK
  <2>4. Undisturbed' => \A q \in Reversals : pc'[q] \in {"audit", "ok"} => Recorded(Of[q])
    BY <1>5, <1>t, <1>o, <2>1 DEF Audit, TypeOK, Requests
  <2> QED
    BY <1>5, <2>1, <2>2, <2>3, <2>4, QuietLemma DEF Audit
<1>6. ASSUME NEW r \in Requests, Restore(r)
      PROVE  Inv' /\ (NoRollback => row.state \subseteq row'.state)
  <2>0. /\ got[r] # Nil /\ got' = [got EXCEPT ![r] = Nil] /\ UNCHANGED <<at, undo>>
        /\ Save(r, Fresh(r), undo[r], "failed", "failed") /\ ~NoRollback
    BY <1>6, <1>c DEF Restore
  <2>1. undo[r] \in Ledger /\ "failed" \in Locations /\ "restore" # "failed"
    BY <1>t DEF TypeOK, Locations
  <2> QED
    BY <2>0, <2>1, BlockLemma
<1>7. ASSUME NEW r \in Requests, Retry(r) PROVE Inv' /\ UNCHANGED row
  <2>1. /\ left' \in [Kinds -> Nat] /\ QuotasFall'
        /\ (NoRollback' => NoRollback) /\ (Undisturbed' => Undisturbed)
    BY <1>7, <1>t, SpendLemma DEF Retry, Kinds
  <2>2. TypeOK'
    BY <1>7, <1>t, <2>1 DEF Retry, TypeOK, Locations
  <2>3. \A q \in Requests : pc'[q] = pc[q] \/ pc'[q] = "idle"
    BY <1>7, <1>t DEF Retry, TypeOK
  <2> QED
    BY <1>7, <1>o, <1>c, <2>1, <2>2, <2>3, QuietLemma DEF Retry, Requests
<1>8. ASSUME NEW p \in Procs, Crash(p) PROVE Inv' /\ UNCHANGED row
  <2>1. /\ left' \in [Kinds -> Nat] /\ QuotasFall'
        /\ (NoRollback' => NoRollback) /\ (Undisturbed' => Undisturbed)
    BY <1>8, <1>t, SpendLemma DEF Crash, Kinds
  <2>2. TypeOK'
    BY <1>8, <1>t, <2>1 DEF Crash, TypeOK, Locations, Snapshot, Ledger
  <2>3. \A q \in Requests : /\ pc'[q] = pc[q] \/ pc'[q] = "failed"
                            /\ got'[q] = got[q] \/ got'[q] = Nil
    BY <1>8 DEF Crash
  <2>4. \A q \in Procs : cache'[q] = cache[q] \/ (cache'[q].rev < 0 /\ cache'[q].state = {})
    BY <1>8, <1>t DEF Crash, TypeOK
  <2> QED
    BY <1>8, <1>o, <1>c, <2>1, <2>2, <2>3, <2>4, QuietLemma DEF Crash, Requests
<1>9. CASE UNCHANGED vars
  <2>1. row' = row /\ cache' = cache /\ pc' = pc /\ at' = at /\ got' = got /\ undo' = undo /\ left' = left
    BY <1>9 DEF vars
  <2> QED
    BY <2>1 DEF Inv, TypeOK, QuotasFall, Revisions, Cover, Durable, NoRollback, Undisturbed,
                Recorded
<1> QED
  BY <1>1, <1>2, <1>3, <1>4, <1>5, <1>6, <1>7, <1>8, <1>9 DEF Next

LEMMA Invariance == Spec => []Inv
<1>1. Inv /\ [Next]_vars => Inv'
  BY NextLemma
<1> QED
  BY <1>1, InitLemma, PTL DEF Spec

\* Every reachable state of the shared control state is well typed.
THEOREM TypeCorrect == Spec => []TypeOK
<1>1. Inv => TypeOK
  BY DEF Inv
<1> QED
  BY <1>1, Invariance, PTL

\* A confirmed write of record_usage_event or reverse_usage_event is in the
\* store as long as no save, reload or audit has failed.
THEOREM Durability == Spec => []AckedIsDurable
<1>1. Inv => AckedIsDurable
  BY DEF Inv, Durable, AckedIsDurable
<1> QED
  BY <1>1, Invariance, PTL

\* Until a route rolls back, save_control_snapshot's revision check keeps
\* every entry that any replica committed.
THEOREM NoLostUpdate == Spec => LedgerGrows
<1>1. Inv /\ [Next]_vars =>
        [left["audit"] = Quota["audit"] => row.state \subseteq row'.state]_vars
  BY NextLemma DEF NoRollback
<1> QED
  BY <1>1, Invariance, PTL DEF Spec, LedgerGrows

-----------------------------------------------------------------------------
(* One entry per key.  The row alone says nothing of the next save, which   *)
(* stores what some copy holds: the invariant is about every copy.          *)

Single(s) == \A q, t \in s : Of[q] = Of[t] => q = t

KeyInv ==
  /\ Single(row.state)
  /\ \A p \in Procs : Single(cache[p].state)
  /\ \A r \in Requests : got[r] # Nil => Single(got[r].state)
  /\ \A r \in Requests : Single(undo[r])

\* A block works on one of the copies.
LEMMA FreshIsSingle ==
  ASSUME TypeOK, KeyInv, NEW r \in Requests, got[r] # Nil
  PROVE  Single(Fresh(r).state)
<1>1. at[r] \in Procs
  BY DEF TypeOK
<1>2. Fresh(r) = cache[at[r]] \/ Fresh(r) = got[r]
  BY DEF Fresh, Apply
<1> QED
  BY <1>1, <1>2 DEF KeyInv

\* Whatever becomes of a save, the row and the copies hold what they held, or
\* what was saved.
LEMMA SaveIsSingle ==
  ASSUME TypeOK, KeyInv, NEW r \in Requests, NEW c \in Snapshot, NEW s \in Ledger,
         NEW n, NEW f, Single(s), Save(r, c, s, n, f)
  PROVE  Single(row'.state) /\ \A p \in Procs : Single(cache'[p].state)
<1>1. row'.state \in {row.state, s}
  BY DEF Save
<1>2. ASSUME NEW p \in Procs PROVE cache'[p].state \in {cache[p].state, row.state, s}
  <2>1. PICK d \in Snapshot : d.state \in {row.state, s} /\ cache' = [cache EXCEPT ![at[r]] = d]
    <3>1. row \in Snapshot /\ row.state \in {row.state, s}
      BY DEF TypeOK, Snapshot
    <3>2. [c EXCEPT !.state = s] \in Snapshot /\ [c EXCEPT !.state = s].state = s
      BY DEF Snapshot
    <3>3. CASE row' = [rev |-> row.rev + 1, state |-> s] /\ SetCache(r, row')
      <4>1. row.rev + 1 \in Int /\ s \in Ledger
        BY DEF TypeOK
      <4>2. row' \in Snapshot /\ row'.state = s
        BY <3>3, <4>1 DEF Snapshot
      <4> QED
        BY <3>3, <4>2 DEF SetCache
    <3>4. CASE SetCache(r, row)
      BY <3>1, <3>4 DEF SetCache
    <3>5. CASE SetCache(r, [c EXCEPT !.state = s])
      BY <3>2, <3>5 DEF SetCache
    <3> QED
      BY <3>3, <3>4, <3>5 DEF Save
  <2>2. cache \in [Procs -> Snapshot]
    BY DEF TypeOK
  <2> QED
    BY <2>1, <2>2
<1> QED
  BY <1>1, <1>2 DEF KeyInv

LEMMA KeyNext ==
  ASSUME TypeOK, TypeOK', KeyInv, [Next]_vars
  PROVE  KeyInv'
<1>t. /\ got \in [Requests -> Snapshot \cup {Nil}] /\ undo \in [Requests -> Ledger]
      /\ cache \in [Procs -> Snapshot] /\ at \in [Requests -> Procs]
  BY DEF TypeOK
<1>e. Single({})
  BY DEF Single
<1>1. ASSUME NEW r \in Requests, NEW p \in Procs, Arrive(r, p) PROVE KeyInv'
  BY <1>1 DEF Arrive, KeyInv
<1>2. ASSUME NEW r \in Requests, Prefetch(r) PROVE KeyInv'
  BY <1>2, <1>t DEF Prefetch, KeyInv
<1>3. ASSUME NEW r \in Requests, TakeSnapshot(r) PROVE KeyInv'
  <2>1. Single(Fresh(r).state)
    BY <1>3, FreshIsSingle DEF TakeSnapshot
  <2> QED
    BY <1>3, <1>t, <2>1 DEF TakeSnapshot, SetCache, KeyInv
<1>b. ASSUME NEW r \in Requests, Write(r) \/ Restore(r)
      PROVE  Single(row'.state) /\ \A p \in Procs : Single(cache'[p].state)
  <2>1. got[r] # Nil
    BY <1>b DEF Write, Restore
  <2>2. Fresh(r) \in Snapshot
    BY <1>t, <2>1 DEF Fresh, Apply
  <2>3. Single(Fresh(r).state)
    BY <2>1, FreshIsSingle
  <2>4. CASE Restore(r)
    BY <1>t, <2>2, <2>4, SaveIsSingle DEF Restore, KeyInv
  <2>5. CASE Write(r) /\ Existing(Fresh(r).state, Of[r]) # {}
    BY <1>t, <2>3, <2>5 DEF Write, SetCache, KeyInv
  <2>6. CASE Write(r) /\ Existing(Fresh(r).state, Of[r]) = {}
    <3>1. Single(Fresh(r).state \cup {r})
      BY <2>3, <2>6 DEF Existing, Single
    <3>2. Fresh(r).state \cup {r} \in Ledger
      BY <2>2 DEF Snapshot, Ledger
    <3> QED
      BY <2>2, <2>6, <3>1, <3>2, SaveIsSingle DEF Write
  <2> QED
    BY <1>b, <2>4, <2>5, <2>6
<1>4. ASSUME NEW r \in Requests, Write(r) \/ Restore(r) PROVE KeyInv'
  <2>1. got' = [got EXCEPT ![r] = Nil] /\ undo' = undo
    BY <1>4 DEF Write, Restore
  <2> QED
    BY <1>4, <1>b, <1>t, <2>1 DEF KeyInv
<1>5. ASSUME NEW r \in Requests, Audit(r) \/ Retry(r) PROVE KeyInv'
  BY <1>5 DEF Audit, Retry, KeyInv
<1>6. ASSUME NEW p \in Procs, Crash(p) PROVE KeyInv'
  <2>1. \A q \in Procs : cache'[q] = cache[q] \/ cache'[q].state = {}
    BY <1>6, <1>t DEF Crash
  <2>2. \A r \in Requests : got'[r] = got[r] \/ got'[r] = Nil
    BY <1>6 DEF Crash
  <2>3. UNCHANGED <<row, undo>>
    BY <1>6 DEF Crash
  <2> QED
    BY <1>e, <2>1, <2>2, <2>3 DEF KeyInv
<1>7. CASE UNCHANGED vars
  BY <1>7 DEF vars, KeyInv
<1> QED
  BY <1>1, <1>2, <1>3, <1>4, <1>5, <1>6, <1>7 DEF Next

\* Whatever fails and whatever is rolled back, record_usage_event and
\* reverse_usage_event never leave two ledger entries of one idempotency key.
THEOREM OneEntry == Spec => []OneEntryPerKey
<1>1. Init => KeyInv
  BY DEF Init, KeyInv, Single
<1>2. TypeOK /\ TypeOK' /\ KeyInv /\ [Next]_vars => KeyInv'
  BY KeyNext
<1>3. KeyInv => OneEntryPerKey
  BY DEF KeyInv, Single, OneEntryPerKey
<1> QED
  BY <1>1, <1>2, <1>3, TypeCorrect, PTL DEF Spec

-----------------------------------------------------------------------------
(* Releases.  That the alias serves the active version is inductive only   *)
(* with what every release has read and made so far (Stage), and that its  *)
(* approvals count when it is recorded only with the preflight's result.   *)

Pending  == {"change", "audit"}
Underway == {"snap", "snapcfg", "load", "read", "write", "read2", "write2", "record", "relaudit", "undo"}

OneActiveIn(r) == \A u, v \in Versions : r.status[u] = "active" /\ r.status[v] = "active" => u = v

Registries ==
  {r \in [status : [Versions -> Statuses], rollback : [Versions -> BOOLEAN], passed : SUBSET Versions,
          approved : SUBSET (Versions \X Actors), last : [Versions -> {Nothing} \cup [by : Actors, needs : {1, 2}]]] :
     OneActiveIn(r)}

Entries == [target : Versions \cup {Nothing}, rollout : Rollout \cup {Nothing},
            prev : Versions \cup {Nothing}, shadow : Versions \cup {Nothing}]
Aliases == {a \in Entries : Resolved(a) \in Versions}

Frames ==
  [pc : {"idle", "restore"} \cup Pending \cup Underway, call : Request \cup {Nothing}, reg : Registries \cup {Nothing},
   alias : Aliases \cup {Nothing}, doc : Aliases \cup {Nothing}, old : Aliases \cup {Nothing}, cur : Versions \cup {Nothing}]

\* What a task has read by the time it is where it is.
Fits(T) ==
  /\ T.pc # "idle" => T.call \in Request
  /\ T.pc = "change" => T.call.op \in {"register", "evaluate", "approve"}
  /\ T.pc \in Underway => T.call.op \in Actions
  /\ T.pc \in {"read2", "write2"} => T.call.op \in {"canary", "activate", "rollback"}
  /\ T.pc \notin {"idle", "snap"} => T.reg \in Registries
  /\ T.pc \in Underway \ {"snap", "snapcfg"} => T.alias \in Aliases
  /\ T.pc \in {"write", "write2"} => T.doc \in Aliases /\ T.old \in Aliases

\* Evaluated, and approved by n others.
Backed(r, v, by, n) ==
  v \in r.passed /\ Cardinality({a \in Actors \ {by} : <<v, a>> \in r.approved}) >= n

AllBacked(r) == \A v \in Versions : r.last[v] # Nothing => Backed(r, v, r.last[v].by, r.last[v].needs)

\* Nothing was put back so far, and a release still has what its preflight counted.
Counted(T, r) ==
  /\ T.pc \notin {"undo", "restore"}
  /\ T.pc \in Underway => Backed(r, T.call.v, T.call.by, T.call.risk)

InStep(r, a) == \A v \in Versions : r.status[v] = "active" => v \in Served(a)

SameTargets(a, b) == a.target = b.target /\ a.rollout = b.rollout

\* The versions that the alias serves after the last write of a release.
Reached(T) ==
  IF T.call.op = "canary" THEN {T.cur, T.call.v}
  ELSE IF T.call.op \in {"activate", "rollback"} THEN {T.call.v} ELSE Served(T.alias)

\* How the registry and the alias stand to what a release that meets nobody has
\* read and made.
Stage(T, r, a) ==
  /\ T.pc \in {"snap", "snapcfg"} => InStep(r, a) /\ T.cur = a.target
  /\ T.pc = "snapcfg" => T.reg = r
  /\ T.pc \in Underway \ {"snap", "snapcfg"} => InStep(T.reg, T.alias)
  /\ T.pc \in {"load", "read", "write", "read2", "write2", "record"} => T.reg = r /\ T.cur = T.alias.target
  /\ T.pc \in {"load", "read"} => a = T.alias
  /\ T.pc = "write" => SameTargets(T.doc, T.alias)
  /\ T.pc = "read2" => SameTargets(a, T.alias)
  /\ T.pc = "write2" => Served(T.doc) = Reached(T) /\ (T.call.op = "canary" => T.cur # Nothing)
  /\ T.pc = "record" => Served(a) = Reached(T) /\ (T.call.op = "canary" => T.cur # Nothing)
  /\ T.pc = "relaudit" => InStep(r, a)
  /\ T.pc \in Pending \cup {"restore"} => InStep(T.reg, a)

ReleaseTypes ==
  /\ reg \in Registries /\ alias \in Aliases /\ faults \in 0..MaxFailures
  /\ todo \in [Tasks -> Seq(Request)] /\ putBack \in BOOLEAN /\ mixed \in BOOLEAN
  /\ task \in [Tasks -> Frames] /\ \A t \in Tasks : Fits(task[t])

Policy == ~putBack => AllBacked(reg) /\ \A t \in Tasks : Counted(task[t], reg)

Together ==
  ~mixed =>
    /\ \A t \in Tasks : task[t].pc \in Underway => \A u \in Tasks \ {t} : task[u].pc = "idle"
    /\ (\A t \in Tasks : ~Releasing(t)) => InStep(reg, alias)
    /\ \A t \in Tasks : Stage(task[t], reg, alias)

ReleaseInv == ReleaseTypes /\ Policy /\ Together

-----------------------------------------------------------------------------
\* What the writer makes of an entry.
LEMMA AliasLemma ==
  ASSUME NEW a \in Aliases
  PROVE  /\ \A v \in Versions \cup {Nothing} : Shadowed(a, v) \in Aliases /\ SameTargets(Shadowed(a, v), a)
         /\ \A v \in Versions : Switched(a, v) \in Aliases /\ Served(Switched(a, v)) = {v}
         /\ MayRollBack(a) => RolledBack(a) \in Aliases
<1>1. a \in Entries /\ Resolved(a) \in Versions
  BY DEF Aliases
<1>2. ASSUME NEW v \in Versions \cup {Nothing}
      PROVE  Shadowed(a, v) \in Aliases /\ SameTargets(Shadowed(a, v), a)
  <2>1. Shadowed(a, v) \in Entries /\ SameTargets(Shadowed(a, v), a)
    BY <1>1 DEF Shadowed, Entries, SameTargets
  <2>2. Resolved(Shadowed(a, v)) = Resolved(a)
    BY <2>1 DEF SameTargets, Resolved
  <2> QED
    BY <1>1, <2>1, <2>2 DEF Aliases
<1>3. ASSUME NEW v \in Versions
      PROVE  Switched(a, v) \in Aliases /\ Served(Switched(a, v)) = {v}
  <2>1. PICK p \in Versions \cup {Nothing} : Switched(a, v) = [a EXCEPT !.target = v, !.prev = p]
    <3>1. (IF Resolved(a) \notin {Nothing, v} THEN Resolved(a) ELSE a.prev) \in Versions \cup {Nothing}
      BY <1>1 DEF Entries
    <3> QED
      BY <3>1 DEF Switched
  <2>2. Switched(a, v) \in Entries /\ Switched(a, v).target = v /\ v # Nothing
    BY <1>1, <2>1, VersionsAssumption DEF Entries
  <2>3. Resolved(Switched(a, v)) = v /\ Served(Switched(a, v)) = {v}
    BY <2>2 DEF Resolved, Served
  <2> QED
    BY <2>2, <2>3 DEF Aliases
<1>5. ASSUME MayRollBack(a) PROVE RolledBack(a) \in Aliases
  <2>1. RolledBack(a) \in Entries /\ RolledBack(a).target = a.prev /\ a.prev \in Versions
    BY <1>1, <1>5 DEF MayRollBack, RolledBack, Entries
  <2>2. Resolved(RolledBack(a)) = a.prev
    BY <2>1, VersionsAssumption DEF Resolved
  <2> QED
    BY <2>1, <2>2 DEF Aliases
<1> QED
  BY <1>2, <1>3, <1>5

LEMMA WeightedLemma ==
  ASSUME NEW a \in Aliases, NEW old \in Versions, NEW new \in Versions, NEW share \in {5, 60}
  PROVE  Weighted(a, old, new, share) \in Aliases /\ Served(Weighted(a, old, new, share)) = {old, new}
<1> DEFINE w == [old |-> old, new |-> new, share |-> share]
<1>0. a \in Entries /\ Resolved(a) \in Versions
  BY DEF Aliases
<1>1. w \in Rollout /\ w # Nothing /\ w.old = old /\ w.new = new /\ w.share = share
  BY VersionsAssumption DEF Rollout
<1>2. PICK b : b = Weighted(a, old, new, share)
  OBVIOUS
<1>3. b = [a EXCEPT !.target = Nothing, !.rollout = w, !.prev = Resolved(a)]
  BY <1>0, <1>2, VersionsAssumption DEF Weighted
<1> HIDE DEF w
<1>4. b \in Entries /\ b.target = Nothing /\ b.rollout = w
  BY <1>0, <1>1, <1>3 DEF Entries
<1>5. Resolved(b) \in {old, new} /\ Served(b) = {old, new}
  BY <1>1, <1>4 DEF Resolved, Served
<1> QED
  BY <1>2, <1>4, <1>5 DEF Aliases

LEMMA StatusLemma ==
  /\ Statuses = {"none", "draft", "candidate", "shadow", "canary", "active", "deprecated", "blocked"}
  /\ \A op \in Actions : Becomes(op) \in Statuses \ {"none"}
  /\ \A op \in Actions : Becomes(op) = "active" <=> op \in {"activate", "rollback"}
BY DEF Statuses, Transitions, Becomes, Actions

\* An approval that counts still counts when there are more.
LEMMA BackedLemma ==
  ASSUME NEW r \in Registries, NEW s \in Registries, r.passed \subseteq s.passed, r.approved \subseteq s.approved,
         NEW v, NEW by, NEW n \in Nat, Backed(r, v, by, n)
  PROVE  Backed(s, v, by, n)
<1> DEFINE A(q) == {a \in Actors \ {by} : <<v, a>> \in q.approved}
<1>1. A(r) \subseteq A(s) /\ A(s) \subseteq Actors
  OBVIOUS
<1> HIDE DEF A
<1>2. IsFiniteSet(A(s)) /\ IsFiniteSet(A(r))
  BY <1>1, ActorsAssumption, FS_Subset
<1>3. Cardinality(A(r)) <= Cardinality(A(s)) /\ Cardinality(A(r)) \in Nat /\ Cardinality(A(s)) \in Nat
  BY <1>1, <1>2, FS_Subset, FS_CardinalityType
<1>4. Cardinality(A(r)) >= n /\ v \in s.passed
  BY DEF Backed, A
<1>5. Cardinality(A(s)) >= n
  BY <1>3, <1>4
<1> QED
  BY <1>4, <1>5 DEF Backed, A

\* An evaluation, an approval or a new version leaves the active version as it is.
LEMMA ChangedLemma ==
  ASSUME NEW r \in Registries, NEW c \in Request, c.op \in {"register", "evaluate", "approve"}, Admits(r, c)
  PROVE  /\ Changed(r, c) \in Registries
         /\ \A v \in Versions : Changed(r, c).status[v] = "active" => r.status[v] = "active"
         /\ r.passed \subseteq Changed(r, c).passed /\ r.approved \subseteq Changed(r, c).approved
         /\ Changed(r, c).last = r.last
<1> DEFINE R == [status : [Versions -> Statuses], rollback : [Versions -> BOOLEAN], passed : SUBSET Versions,
          approved : SUBSET (Versions \X Actors), last : [Versions -> {Nothing} \cup [by : Actors, needs : {1, 2}]]]
<1>0. r \in R /\ c.v \in Versions /\ c.by \in Actors
  BY DEF Registries, Request
<1>1. PICK s : s = Changed(r, c)
  OBVIOUS
<1>2. /\ s \in R
      /\ \A v \in Versions : s.status[v] = "active" => r.status[v] = "active"
      /\ r.passed \subseteq s.passed /\ r.approved \subseteq s.approved /\ s.last = r.last
  <2>1. CASE c.op = "register"
    <3>1. s = [r EXCEPT !.status[c.v] = "draft"]
      BY <1>1, <2>1 DEF Changed, Registered
    <3>2. s.status = [r.status EXCEPT ![c.v] = "draft"] /\ "draft" \in Statuses
      BY <1>0, <3>1, StatusLemma
    <3>3. s = [r EXCEPT !.status = s.status] /\ s.status \in [Versions -> Statuses]
      BY <1>0, <3>1, <3>2
    <3> QED
      BY <1>0, <3>2, <3>3
  <2>2. CASE c.op = "evaluate"
    <3>1. PICK f : f = [r.status EXCEPT ![c.v] = IF @ = "draft" THEN "candidate" ELSE @]
      OBVIOUS
    <3>2. f \in [Versions -> Statuses] /\ \A v \in Versions : f[v] = "active" => r.status[v] = "active"
      BY <1>0, <3>1, StatusLemma
    <3>3. s = [r EXCEPT !.passed = @ \cup {c.v}, !.status = f]
      BY <1>0, <1>1, <2>2, <3>1 DEF Changed, Evaluated
    <3> QED
      BY <1>0, <3>2, <3>3
  <2>3. CASE c.op = "approve"
    <3>1. s = [r EXCEPT !.approved = @ \cup {<<c.v, c.by>>}]
      BY <1>1, <2>3 DEF Changed, Approved
    <3> QED
      BY <1>0, <3>1
  <2> QED
    BY <2>1, <2>2, <2>3
<1>3. OneActiveIn(s)
  BY <1>2 DEF OneActiveIn, Registries
<1> QED
  BY <1>1, <1>2, <1>3 DEF Registries

\* What a release leaves of the registry, whether its transition is allowed or not.
LEMMA ReleasedLemma ==
  ASSUME NEW r \in Registries, NEW c \in Request, c.op \in Actions
  PROVE  /\ Succeeded(r, c) \in Registries /\ Released(r, c) \in Registries
         /\ Released(r, c).passed = r.passed /\ Released(r, c).approved = r.approved
         /\ Released(r, c).last = [r.last EXCEPT ![c.v] = [by |-> c.by, needs |-> c.risk]]
         /\ \A v \in Versions : Released(r, c).status[v] = "active" =>
              IF c.op \in {"activate", "rollback"} THEN v = c.v ELSE r.status[v] = "active"
<1> DEFINE R == [status : [Versions -> Statuses], rollback : [Versions -> BOOLEAN], passed : SUBSET Versions,
          approved : SUBSET (Versions \X Actors), last : [Versions -> {Nothing} \cup [by : Actors, needs : {1, 2}]]]
<1>0. r \in R /\ c.v \in Versions /\ c.by \in Actors /\ c.risk \in {1, 2} /\ OneActiveIn(r)
  BY DEF Registries, Request
<1>1. PICK old : old = {u \in Versions \ {c.v} : Becomes(c.op) = "active" /\ r.status[u] = "active"}
  OBVIOUS
<1>2. PICK f : f = [u \in Versions |-> IF u \in old THEN "deprecated" ELSE r.status[u]]
  OBVIOUS
<1>3. PICK g : g = [u \in Versions |-> r.rollback[u] \/ u \in old]
  OBVIOUS
<1>4. f \in [Versions -> Statuses] /\ g \in [Versions -> BOOLEAN]
  BY <1>0, <1>2, <1>3, StatusLemma
<1>5. PICK s : s = Succeeded(r, c)
  OBVIOUS
<1>6. s = [r EXCEPT !.status = f, !.rollback = g]
  BY <1>0, <1>1, <1>2, <1>3, <1>5 DEF Succeeded
<1>7. s \in R /\ s.status = f /\ s.passed = r.passed /\ s.approved = r.approved /\ s.last = r.last
  BY <1>0, <1>4, <1>6
<1>8. \A v \in Versions : f[v] = "active" => r.status[v] = "active" /\ (Becomes(c.op) = "active" => v = c.v)
  BY <1>1, <1>2
<1>9. s \in Registries
  BY <1>0, <1>7, <1>8 DEF Registries, OneActiveIn
<1>10. PICK e : e = [by |-> c.by, needs |-> c.risk]
  OBVIOUS
<1>11. PICK q : q = Released(r, c)
  OBVIOUS
<1>12. PICK h : h = [f EXCEPT ![c.v] = Becomes(c.op)]
  OBVIOUS
<1>13. PICK l : l = [r.last EXCEPT ![c.v] = e]
  OBVIOUS
<1>14. h \in [Versions -> Statuses] /\ l \in [Versions -> {Nothing} \cup [by : Actors, needs : {1, 2}]]
  BY <1>0, <1>4, <1>10, <1>12, <1>13, StatusLemma
<1>15. q = [s EXCEPT !.status = h, !.last = l]
  BY <1>5, <1>7, <1>10, <1>11, <1>12, <1>13 DEF Released
<1>16. q \in R /\ q.status = h /\ q.passed = r.passed /\ q.approved = r.approved /\ q.last = l
  BY <1>7, <1>14, <1>15
<1>17. \A v \in Versions : h[v] = "active" =>
         IF Becomes(c.op) = "active" THEN v = c.v ELSE r.status[v] = "active"
  BY <1>4, <1>8, <1>12, <1>0
<1>18. q \in Registries
  BY <1>0, <1>16, <1>17 DEF Registries, OneActiveIn
<1> QED
  BY <1>5, <1>9, <1>10, <1>11, <1>13, <1>16, <1>17, <1>18, StatusLemma

-----------------------------------------------------------------------------
(* One step changes the frame of one task.                                 *)

\* What a step of t, whose frame becomes N, must leave to keep the invariant.
Settled(t, N, r, q, a, b) ==
  ~mixed' =>
    /\ N.pc \in Underway => \A u \in Tasks \ {t} : task[u].pc = "idle"
    /\ N.pc \in Pending \cup {"idle"} /\ (\A u \in Tasks \ {t} : ~Releasing(u)) => InStep(q, b)
    /\ Stage(N, q, b)
    /\ \A u \in Tasks \ {t} : task[u].pc # "idle" => b = a /\ (q = r \/ task[u].pc \notin Underway)
    /\ N.pc # "idle" => \A u \in Tasks \ {t} : task[u].pc \notin Underway

LEMMA FrameLemma ==
  ASSUME ReleaseInv, NEW t \in Tasks, NEW N \in Frames, task' = [task EXCEPT ![t] = N], Fits(N),
         reg' \in Registries, alias' \in Aliases, todo' \in [Tasks -> Seq(Request)], faults' \in 0..MaxFailures,
         putBack' \in BOOLEAN, mixed' \in BOOLEAN, putBack => putBack', mixed => mixed',
         ~putBack' => /\ AllBacked(reg') /\ Counted(N, reg')
                      /\ reg.passed \subseteq reg'.passed /\ reg.approved \subseteq reg'.approved,
         Settled(t, N, reg, reg', alias, alias')
  PROVE  ReleaseInv'
<1>0. ReleaseTypes /\ Policy /\ Together
  BY DEF ReleaseInv
<1>1. task \in [Tasks -> Frames] /\ reg \in Registries /\ alias \in Aliases
  BY <1>0 DEF ReleaseTypes
<1>2. task'[t] = N /\ \A u \in Tasks \ {t} : task'[u] = task[u]
  BY <1>1
<1>3. task' \in [Tasks -> Frames]
  BY <1>1
<1>4. \A u \in Tasks : Fits(task'[u])
  BY <1>0, <1>2 DEF ReleaseTypes
<1>5. ReleaseTypes'
  BY <1>3, <1>4 DEF ReleaseTypes
<1>6. ASSUME ~putBack', NEW u \in Tasks PROVE Counted(task'[u], reg')
  <2>1. CASE u = t
    BY <1>2, <1>6, <2>1
  <2>2. CASE u # t
    <3>1. Counted(task[u], reg) /\ Fits(task[u]) /\ task'[u] = task[u]
      BY <1>0, <1>2, <1>6, <2>2 DEF Policy, ReleaseTypes
    <3>2. PICK T : T = task[u]
      OBVIOUS
    <3>3. T.pc \in Underway => Backed(reg', T.call.v, T.call.by, T.call.risk)
      <4> SUFFICES ASSUME T.pc \in Underway PROVE Backed(reg', T.call.v, T.call.by, T.call.risk)
        OBVIOUS
      <4>1. T.call \in Request
        BY <3>1, <3>2 DEF Fits, Underway
      <4>2. T.call.risk \in Nat
        BY <4>1 DEF Request
      <4> QED
        BY <1>1, <1>6, <3>1, <3>2, <4>2, BackedLemma DEF Counted
    <3> QED
      BY <3>1, <3>2, <3>3 DEF Counted
  <2> QED
    BY <2>1, <2>2
<1>7. Policy'
  BY <1>6 DEF Policy
<1>8. ASSUME ~mixed'
      PROVE  /\ \A v \in Tasks : task'[v].pc \in Underway => \A u \in Tasks \ {v} : task'[u].pc = "idle"
             /\ (\A v \in Tasks : ~Releasing(v)') => InStep(reg', alias')
             /\ \A v \in Tasks : Stage(task'[v], reg', alias')
  <2>0. ~mixed
    BY <1>8
  <2>1. /\ \A v \in Tasks : task[v].pc \in Underway => \A u \in Tasks \ {v} : task[u].pc = "idle"
        /\ \A v \in Tasks : Stage(task[v], reg, alias)
    BY <1>0, <2>0 DEF Together
  <2>2. /\ N.pc \in Underway => \A u \in Tasks \ {t} : task[u].pc = "idle"
        /\ N.pc \in Pending \cup {"idle"} /\ (\A u \in Tasks \ {t} : ~Releasing(u)) => InStep(reg', alias')
        /\ Stage(N, reg', alias')
        /\ \A u \in Tasks \ {t} : task[u].pc # "idle" => alias' = alias /\ (reg' = reg \/ task[u].pc \notin Underway)
        /\ N.pc # "idle" => \A u \in Tasks \ {t} : task[u].pc \notin Underway
    BY <1>8 DEF Settled
  <2>3. ASSUME NEW u \in Tasks \ {t} PROVE Stage(task'[u], reg', alias')
    <3>1. task'[u] = task[u] /\ Stage(task[u], reg, alias)
      BY <1>2, <2>1
    <3>2. CASE task[u].pc = "idle"
      BY <3>1, <3>2 DEF Stage, Underway, Pending
    <3>3. CASE task[u].pc # "idle" /\ reg' = reg
      BY <2>2, <3>1, <3>3
    <3>4. CASE task[u].pc # "idle" /\ task[u].pc \notin Underway
      BY <2>2, <3>1, <3>4 DEF Stage, Underway
    <3> QED
      BY <2>2, <3>2, <3>3, <3>4
  <2>4. ASSUME NEW v \in Tasks, task'[v].pc \in Underway, NEW u \in Tasks \ {v} PROVE task'[u].pc = "idle"
    <3>1. CASE v = t
      BY <1>2, <2>2, <2>4, <3>1
    <3>2. CASE v # t
      <4>1. task[v].pc \in Underway /\ N.pc = "idle"
        BY <1>2, <2>2, <2>4, <3>2
      <4> QED
        BY <1>2, <2>1, <2>4, <3>2, <4>1
    <3> QED
      BY <3>1, <3>2
  <2>5. ASSUME \A v \in Tasks : ~Releasing(v)' PROVE InStep(reg', alias')
    <3>1. N.pc \in Pending \cup {"idle"}
      BY <1>2, <2>5 DEF Releasing, Pending
    <3>2. \A u \in Tasks \ {t} : ~Releasing(u)
      BY <1>2, <2>5 DEF Releasing
    <3> QED
      BY <2>2, <3>1, <3>2
  <2>6. \A v \in Tasks : Stage(task'[v], reg', alias')
    BY <1>2, <2>2, <2>3
  <2> QED
    BY <2>4, <2>5, <2>6
<1>9. Together'
  BY <1>8 DEF Together
<1> QED
  BY <1>5, <1>7, <1>9 DEF ReleaseInv

\* Where a task is, as the invariant has it.
LEMMA HereLemma ==
  ASSUME ReleaseInv, NEW t \in Tasks
  PROVE  /\ task \in [Tasks -> Frames] /\ task[t] \in Frames /\ Fits(task[t])
         /\ reg \in Registries /\ alias \in Aliases /\ faults \in 0..MaxFailures
         /\ todo \in [Tasks -> Seq(Request)] /\ putBack \in BOOLEAN /\ mixed \in BOOLEAN
         /\ ~putBack => AllBacked(reg) /\ Counted(task[t], reg)
         /\ ~mixed => /\ Stage(task[t], reg, alias)
                      /\ task[t].pc \in Underway => \A u \in Tasks \ {t} : task[u].pc = "idle"
                      /\ task[t].pc # "idle" => \A u \in Tasks \ {t} : task[u].pc \notin Underway
                      /\ (\A u \in Tasks : ~Releasing(u)) => InStep(reg, alias)
BY DEF ReleaseInv, ReleaseTypes, Policy, Together

\* The frame of a task that goes on to p with nothing read.
LEMMA ToLemma ==
  ASSUME task \in [Tasks -> Frames], NEW t \in Tasks, NEW p \in {"idle", "restore"} \cup Pending \cup Underway, To(t, p)
  PROVE  \E N \in Frames : task' = [task EXCEPT ![t] = N] /\ N = [task[t] EXCEPT !.pc = p]
<1>1. PICK N : N = [task[t] EXCEPT !.pc = p]
  OBVIOUS
<1>2. N \in Frames
  BY <1>1 DEF Frames
<1>3. task' = [task EXCEPT ![t] = N]
  BY <1>1 DEF To
<1> QED
  BY <1>1, <1>2, <1>3

LEMMA FaultLemma ==
  ASSUME faults \in 0..MaxFailures, Fault
  PROVE  faults' \in 0..MaxFailures
BY CallsAssumption DEF Fault

LEMMA TodoLemma ==
  ASSUME todo \in [Tasks -> Seq(Request)], NEW t \in Tasks, todo[t] # <<>>
  PROVE  Head(todo[t]) \in Request /\ (Pops(t) => todo' \in [Tasks -> Seq(Request)])
<1>1. todo[t] \in Seq(Request)
  OBVIOUS
<1>2. Head(todo[t]) \in Request /\ Tail(todo[t]) \in Seq(Request)
  BY <1>1
<1> QED
  BY <1>2 DEF Pops

LEMMA IdleLemma ==
  /\ Idle \in Frames /\ Idle.pc = "idle" /\ Fits(Idle)
  /\ \A r, a : Stage(Idle, r, a)
  /\ \A r : Counted(Idle, r)
BY DEF Idle, Frames, Fits, Stage, Counted, Pending, Underway

LEMMA BeginKeeps ==
  ASSUME ReleaseInv, NEW t \in Tasks, Begin(t)
  PROVE  ReleaseInv'
<1>1. PICK c : c = Head(todo[t])
  OBVIOUS
<1>2. /\ task[t].pc = "idle" /\ c.op \in {"register", "evaluate", "approve"} /\ Pops(t) /\ todo[t] # <<>>
      /\ mixed' = (mixed \/ \E u \in Tasks \ {t} : Releasing(u))
      /\ UNCHANGED <<reg, alias, faults, putBack>>
  BY <1>1 DEF Begin
<1>3. PICK N : N = [Idle EXCEPT !.pc = "change", !.call = c, !.reg = reg]
  OBVIOUS
<1>4. task' = [task EXCEPT ![t] = N]
  BY <1>1, <1>3 DEF Begin
<1>5. c \in Request /\ todo' \in [Tasks -> Seq(Request)]
  BY <1>1, <1>2, HereLemma, TodoLemma
<1>6. N \in Frames /\ N.pc = "change" /\ N.call = c /\ N.reg = reg
  BY <1>3, <1>5, HereLemma DEF Idle, Frames, Pending
<1>7. Fits(N) /\ Counted(N, reg)
  BY <1>2, <1>5, <1>6, HereLemma DEF Fits, Counted, Underway
<1>8. Settled(t, N, reg, reg', alias, alias')
  <2>1. SUFFICES ASSUME ~mixed' PROVE
          /\ InStep(reg, alias)
          /\ \A u \in Tasks \ {t} : task[u].pc \notin Underway
    <3>1. Stage(N, reg, alias) <=> InStep(reg, alias)
      BY <1>6 DEF Stage, Pending, Underway
    <3> QED
      BY <1>2, <1>6, <3>1, <2>1 DEF Settled, Underway
  <2>2. ~mixed /\ \A u \in Tasks : ~Releasing(u)
    BY <1>2, <2>1 DEF Releasing
  <2> QED
    BY <2>2, HereLemma DEF Releasing, Underway
<1> QED
  BY <1>2, <1>4, <1>5, <1>6, <1>7, <1>8, HereLemma, FrameLemma

LEMMA ChangeKeeps ==
  ASSUME ReleaseInv, NEW t \in Tasks, Change(t)
  PROVE  ReleaseInv'
<1>0. PICK T : T = task[t]
  OBVIOUS
<1>1. T.pc = "change" /\ UNCHANGED <<alias, todo, faults, putBack, mixed>>
  BY <1>0 DEF Change
<1>2. /\ T \in Frames /\ T.call \in Request /\ T.call.op \in {"register", "evaluate", "approve"} /\ T.reg \in Registries
  BY <1>0, <1>1, HereLemma DEF Fits
<1>3. ~mixed => Stage(T, reg, alias) /\ InStep(T.reg, alias) /\ \A u \in Tasks \ {t} : task[u].pc \notin Underway
  BY <1>0, <1>1, HereLemma DEF Stage, Pending
<1>4. CASE Admits(reg, T.call)
  <2>1. reg' = Changed(reg, T.call) /\ To(t, "audit")
    BY <1>0, <1>4 DEF Change
  <2>2. /\ reg' \in Registries
        /\ \A v \in Versions : reg'.status[v] = "active" => reg.status[v] = "active"
        /\ reg.passed \subseteq reg'.passed /\ reg.approved \subseteq reg'.approved /\ reg'.last = reg.last
    BY <1>2, <1>4, <2>1, HereLemma, ChangedLemma
  <2>3. PICK N \in Frames : task' = [task EXCEPT ![t] = N] /\ N = [T EXCEPT !.pc = "audit"]
    BY <1>0, <2>1, HereLemma, ToLemma DEF Pending
  <2>4. N.pc = "audit" /\ N.call = T.call /\ N.reg = T.reg
    BY <1>2, <2>3 DEF Frames
  <2>5. Fits(N) /\ Counted(N, reg')
    BY <1>2, <2>4 DEF Fits, Counted, Underway
  <2>6. ~putBack => AllBacked(reg')
    <3> SUFFICES ASSUME ~putBack, NEW v \in Versions, reg'.last[v] # Nothing
                 PROVE  Backed(reg', v, reg'.last[v].by, reg'.last[v].needs)
      BY DEF AllBacked
    <3>1. Backed(reg, v, reg.last[v].by, reg.last[v].needs)
      BY <2>2, HereLemma DEF AllBacked
    <3>2. reg.last[v].needs \in Nat
      <4>1. reg.last \in [Versions -> {Nothing} \cup [by : Actors, needs : {1, 2}]]
        BY HereLemma DEF Registries
      <4>2. reg.last[v] \in [by : Actors, needs : {1, 2}]
        BY <2>2, <4>1
      <4> QED
        BY <4>2
    <3>3. reg \in Registries
      BY HereLemma
    <3> QED
      BY <2>2, <3>1, <3>2, <3>3, BackedLemma
  <2>7. Settled(t, N, reg, reg', alias, alias')
    <3> SUFFICES ASSUME ~mixed'
                 PROVE  /\ (\A u \in Tasks \ {t} : ~Releasing(u)) => InStep(reg', alias)
                        /\ Stage(N, reg', alias)
                        /\ \A u \in Tasks \ {t} : task[u].pc \notin Underway
      BY <1>1, <2>4 DEF Settled, Underway, Pending
    <3>1. Stage(N, reg', alias)
      BY <1>1, <1>3, <2>4 DEF Stage, Underway, Pending
    <3>2. ASSUME \A u \in Tasks \ {t} : ~Releasing(u) PROVE InStep(reg', alias)
      <4>1. InStep(reg, alias)
        BY <1>0, <1>1, <3>2, HereLemma DEF Releasing
      <4> QED
        BY <2>2, <4>1 DEF InStep
    <3> QED
      BY <1>1, <1>3, <3>1, <3>2
  <2> QED
    BY <1>1, <2>2, <2>3, <2>5, <2>6, <2>7, HereLemma, FrameLemma
<1>5. CASE ~Admits(reg, T.call)
  <2>1. task' = [task EXCEPT ![t] = Idle] /\ reg' = reg
    BY <1>0, <1>5 DEF Change
  <2>2. Settled(t, Idle, reg, reg', alias, alias')
    <3> SUFFICES ASSUME ~mixed', \A u \in Tasks \ {t} : ~Releasing(u) PROVE InStep(reg, alias)
      BY <1>1, <2>1, IdleLemma DEF Settled, Underway, Pending
    <3> QED
      BY <1>0, <1>1, HereLemma DEF Releasing
  <2> QED
    BY <1>1, <2>1, <2>2, IdleLemma, HereLemma, FrameLemma
<1> QED
  BY <1>4, <1>5

LEMMA PreflightKeeps ==
  ASSUME ReleaseInv, NEW t \in Tasks, Preflight(t)
  PROVE  ReleaseInv'
<1>1. PICK c : c = Head(todo[t])
  OBVIOUS
<1>2. /\ task[t].pc = "idle" /\ c.op \in Actions /\ Pops(t) /\ todo[t] # <<>>
      /\ UNCHANGED <<reg, alias, faults, putBack>>
  BY <1>1 DEF Preflight
<1>3. c \in Request /\ todo' \in [Tasks -> Seq(Request)]
  BY <1>1, <1>2, HereLemma, TodoLemma
<1>4. CASE PreflightOk(reg, alias, c)
  <2>1. PICK N : N = [Idle EXCEPT !.pc = "snap", !.call = c, !.cur = alias.target]
    OBVIOUS
  <2>2. /\ task' = [task EXCEPT ![t] = N]
        /\ mixed' = (mixed \/ \E u \in Tasks \ {t} : task[u].pc # "idle")
    BY <1>1, <1>4, <2>1 DEF Preflight
  <2>3. alias.target \in Versions \cup {Nothing}
    BY HereLemma DEF Aliases, Entries
  <2>4. N \in Frames /\ N.pc = "snap" /\ N.call = c /\ N.cur = alias.target
    BY <1>3, <2>1, <2>3 DEF Idle, Frames, Underway
  <2>5. Backed(reg, c.v, c.by, c.risk)
    BY <1>4 DEF PreflightOk, Approvers, Backed
  <2>6. Fits(N) /\ Counted(N, reg)
    BY <1>2, <1>3, <2>4, <2>5 DEF Fits, Counted
  <2>7. Settled(t, N, reg, reg', alias, alias')
    <3> SUFFICES ASSUME ~mixed'
                 PROVE  Stage(N, reg, alias) /\ \A u \in Tasks \ {t} : task[u].pc = "idle"
      BY <1>2, <2>4 DEF Settled, Pending, Underway
    <3>1. ~mixed /\ \A u \in Tasks : task[u].pc = "idle"
      BY <1>2, <2>2
    <3>2. InStep(reg, alias)
      BY <3>1, HereLemma DEF Releasing
    <3> QED
      BY <2>4, <3>1, <3>2 DEF Stage, Pending, Underway
  <2> QED
    BY <1>2, <1>3, <2>2, <2>4, <2>6, <2>7, HereLemma, FrameLemma
<1>5. CASE ~PreflightOk(reg, alias, c)
  <2>1. task' = task /\ mixed' = mixed
    BY <1>1, <1>5 DEF Preflight
  <2>2. task' = [task EXCEPT ![t] = task[t]]
    BY <2>1, HereLemma
  <2>3. Settled(t, task[t], reg, reg', alias, alias')
    <3> SUFFICES ASSUME ~mixed, \A u \in Tasks \ {t} : ~Releasing(u) PROVE InStep(reg, alias)
      BY <1>2, <2>1, HereLemma DEF Settled, Underway
    <3> QED
      BY <1>2, HereLemma DEF Releasing
  <2> QED
    BY <1>2, <1>3, <2>1, <2>2, <2>3, HereLemma, FrameLemma
<1> QED
  BY <1>4, <1>5

\* A step of a release that keeps the registry's approvals and puts nothing back.
LEMMA MoveLemma ==
  ASSUME ReleaseInv, NEW t \in Tasks, task[t].pc \in Underway,
         NEW N \in Frames, task' = [task EXCEPT ![t] = N], Fits(N), N.call = task[t].call, N.pc \in Underway \ {"undo"},
         reg' \in Registries, alias' \in Aliases, UNCHANGED <<todo, faults, putBack, mixed>>,
         reg'.passed = reg.passed, reg'.approved = reg.approved, ~putBack => AllBacked(reg'),
         ~mixed => Stage(N, reg', alias')
  PROVE  ReleaseInv'
<1>1. Settled(t, N, reg, reg', alias, alias')
  BY HereLemma DEF Settled, Underway, Pending
<1>2. ASSUME ~putBack PROVE Counted(N, reg')
  <2>1. PICK T : T = task[t]
    OBVIOUS
  <2>2. T.call \in Request /\ Backed(reg, T.call.v, T.call.by, T.call.risk)
    BY <1>2, <2>1, HereLemma DEF Fits, Counted, Underway
  <2>3. T.call.risk \in Nat
    BY <2>2 DEF Request
  <2>4. Backed(reg', T.call.v, T.call.by, T.call.risk)
    BY <2>2, <2>3, HereLemma, BackedLemma
  <2> QED
    BY <2>1, <2>4 DEF Counted, Underway
<1> QED
  BY <1>1, <1>2, HereLemma, FrameLemma

\* A release that fails at any step behind its snapshots.
LEMMA UndoLemma ==
  ASSUME ReleaseInv, NEW t \in Tasks, task[t].pc \in Underway \ {"snap", "snapcfg"}, To(t, "undo"),
         reg' \in Registries, alias' \in Aliases, UNCHANGED <<todo, mixed>>, putBack' = TRUE, faults' \in 0..MaxFailures
  PROVE  ReleaseInv'
<1>1. PICK T : T = task[t]
  OBVIOUS
<1>2. T \in Frames /\ Fits(T)
  BY <1>1, HereLemma
<1>3. PICK N \in Frames : task' = [task EXCEPT ![t] = N] /\ N = [T EXCEPT !.pc = "undo"]
  BY <1>1, HereLemma, ToLemma DEF Underway
<1>4. N.pc = "undo" /\ N.call = T.call /\ N.reg = T.reg /\ N.alias = T.alias
  BY <1>2, <1>3 DEF Frames
<1>5. Fits(N)
  BY <1>1, <1>2, <1>4 DEF Fits, Underway
<1>6. ~mixed => Stage(N, reg', alias')
  <2>1. ~mixed => InStep(T.reg, T.alias)
    BY <1>1, HereLemma DEF Stage
  <2> QED
    BY <1>4, <2>1 DEF Stage, Underway, Pending
<1>7. Settled(t, N, reg, reg', alias, alias')
  BY <1>4, <1>6, HereLemma DEF Settled, Underway, Pending
<1> QED
  BY <1>3, <1>5, <1>7, HereLemma, FrameLemma

LEMMA SnapKeeps ==
  ASSUME ReleaseInv, NEW t \in Tasks, Snap(t)
  PROVE  ReleaseInv'
<1>1. PICK T : T = task[t]
  OBVIOUS
<1>2. T \in Frames /\ Fits(T) /\ (~mixed => Stage(T, reg, alias)) /\ T.pc \in {"snap", "snapcfg"}
      /\ UNCHANGED <<reg, alias, todo, faults, putBack, mixed>>
  BY <1>1, HereLemma DEF Snap
<1>3. CASE T.pc = "snap"
  <2>1. PICK N : N = [T EXCEPT !.reg = reg, !.pc = "snapcfg"]
    OBVIOUS
  <2>2. task' = [task EXCEPT ![t] = N]
    BY <1>1, <1>3, <2>1, HereLemma DEF Snap
  <2>3. N \in Frames /\ N.pc = "snapcfg" /\ N.reg = reg /\ N.call = T.call /\ N.cur = T.cur
    BY <1>2, <2>1, HereLemma DEF Frames, Underway
  <2>4. Fits(N) /\ (~mixed => Stage(N, reg, alias))
    BY <1>2, <1>3, <2>3, HereLemma DEF Fits, Stage, Underway, Pending
  <2> QED
    BY <1>1, <1>2, <2>2, <2>3, <2>4, HereLemma, MoveLemma DEF Underway
<1>4. CASE T.pc = "snapcfg"
  <2>1. PICK N : N = [T EXCEPT !.alias = alias, !.pc = "load"]
    OBVIOUS
  <2>2. task' = [task EXCEPT ![t] = N]
    BY <1>1, <1>4, <2>1, HereLemma DEF Snap
  <2>3. N \in Frames /\ N.pc = "load" /\ N.reg = T.reg /\ N.call = T.call /\ N.cur = T.cur /\ N.alias = alias
    BY <1>2, <2>1, HereLemma DEF Frames, Underway
  <2>4. Fits(N)
    BY <1>2, <1>4, <2>3, HereLemma DEF Fits, Underway, Pending
  <2>5. ~mixed => Stage(N, reg, alias)
    BY <1>2, <1>4, <2>3 DEF Stage, Underway, Pending
  <2> QED
    BY <1>1, <1>2, <2>2, <2>3, <2>4, <2>5, HereLemma, MoveLemma DEF Underway
<1> QED
  BY <1>2, <1>3, <1>4

LEMMA LoadKeeps ==
  ASSUME ReleaseInv, NEW t \in Tasks, Load(t)
  PROVE  ReleaseInv'
<1>1. PICK T : T = task[t]
  OBVIOUS
<1>2. /\ T \in Frames /\ Fits(T) /\ (~mixed => Stage(T, reg, alias)) /\ T.pc = "load"
      /\ UNCHANGED <<reg, alias, todo, mixed>>
  BY <1>1, HereLemma DEF Load
<1>3. CASE To(t, "read") /\ UNCHANGED <<faults, putBack>>
  <2>1. PICK N \in Frames : task' = [task EXCEPT ![t] = N] /\ N = [T EXCEPT !.pc = "read"]
    BY <1>1, <1>3, HereLemma, ToLemma DEF Underway
  <2>2. N.pc = "read" /\ N.call = T.call /\ N.reg = T.reg /\ N.alias = T.alias /\ N.cur = T.cur
    BY <1>2, <2>1 DEF Frames
  <2>3. Fits(N)
    BY <1>2, <2>2 DEF Fits, Underway
  <2>4. ~mixed => Stage(N, reg, alias)
    BY <1>2, <2>2 DEF Stage, Underway, Pending
  <2> QED
    BY <1>1, <1>2, <1>3, <2>1, <2>2, <2>3, <2>4, HereLemma, MoveLemma DEF Underway
<1>4. CASE Fault /\ To(t, "undo") /\ putBack' = TRUE
  BY <1>1, <1>2, <1>4, HereLemma, FaultLemma, UndoLemma DEF Underway
<1> QED
  BY <1>3, <1>4 DEF Load

LEMMA ReadKeeps ==
  ASSUME ReleaseInv, NEW t \in Tasks, Read(t)
  PROVE  ReleaseInv'
<1>1. PICK T : T = task[t]
  OBVIOUS
<1>2. /\ T \in Frames /\ Fits(T) /\ (~mixed => Stage(T, reg, alias)) /\ T.pc \in {"read", "read2"}
      /\ T.call \in Request /\ T.call.op \in Actions /\ T.cur \in Versions \cup {Nothing}
      /\ UNCHANGED <<reg, alias, todo, faults, mixed>>
  BY <1>1, HereLemma DEF Read, Fits, Underway, Frames
<1>3. CASE ReadFails(t)
  <2>1. To(t, "undo") /\ putBack' = TRUE
    BY <1>3 DEF Read
  <2> QED
    BY <1>1, <1>2, <2>1, HereLemma, UndoLemma DEF Underway
<1>4. CASE ~ReadFails(t)
  <2>1. PICK d : d = NewDoc(t)
    OBVIOUS
  <2>2. /\ d \in Aliases
        /\ T.pc = "read" => SameTargets(d, alias)
        /\ T.pc = "read2" => T.call.op \in {"canary", "activate", "rollback"} /\ Served(d) = Reached(T)
                             /\ (T.call.op = "canary" => T.cur # Nothing)
    <3>1. CASE T.pc = "read"
      <4>1. d = Shadowed(alias, IF T.call.op = "shadow" THEN T.call.v ELSE Nothing)
        BY <1>1, <2>1, <3>1 DEF NewDoc, Second, Op, V
      <4>2. T.call.v \in Versions
        BY <1>2 DEF Request
      <4> QED
        BY <3>1, <4>1, <4>2, HereLemma, AliasLemma
    <3>2. CASE T.pc = "read2" /\ T.call.op = "canary"
      <4>1. d = Weighted(alias, T.cur, T.call.v, T.call.share)
        BY <1>1, <2>1, <3>2 DEF NewDoc, Second, Op, V
      <4>2. T.cur # Nothing
        BY <1>1, <1>4, <3>2 DEF ReadFails, Second, Op
      <4>3. T.call.v \in Versions /\ T.call.share \in {5, 60} /\ T.cur \in Versions
        BY <1>2, <4>2 DEF Request
      <4>4. alias \in Aliases
        BY HereLemma
      <4>5. PICK x, y, z : x = T.cur /\ y = T.call.v /\ z = T.call.share
        OBVIOUS
      <4>6. Weighted(alias, x, y, z) \in Aliases /\ Served(Weighted(alias, x, y, z)) = {x, y}
        BY <4>3, <4>4, <4>5, WeightedLemma
      <4> QED
        BY <3>2, <4>1, <4>2, <4>5, <4>6 DEF Reached
    <3>3. CASE T.pc = "read2" /\ T.call.op # "canary"
      <4>1. d = Switched(alias, T.call.v)
        BY <1>1, <2>1, <3>3 DEF NewDoc, Second, Op, V
      <4>2. T.call.v \in Versions /\ T.call.op \in {"activate", "rollback"}
        BY <1>2, <3>3 DEF Request, Fits
      <4>3. d \in Aliases /\ Served(d) = {T.call.v}
        BY <4>1, <4>2, HereLemma, AliasLemma
      <4> QED
        BY <3>3, <4>2, <4>3 DEF Reached
    <3> QED
      BY <1>2, <3>1, <3>2, <3>3
  <2>3. PICK p : p = IF T.pc = "read2" THEN "write2" ELSE "write"
    OBVIOUS
  <2>4. PICK N : N = [T EXCEPT !.doc = d, !.old = alias, !.pc = p]
    OBVIOUS
  <2>5. task' = [task EXCEPT ![t] = N] /\ putBack' = putBack
    <3>1. task' = [task EXCEPT ![t].doc = NewDoc(t), ![t].old = alias, ![t].pc = IF Second(t) THEN "write2" ELSE "write"]
          /\ putBack' = putBack
      BY <1>4 DEF Read
    <3>2. p = IF Second(t) THEN "write2" ELSE "write"
      BY <1>1, <2>3 DEF Second
    <3> QED
      BY <1>1, <2>1, <2>4, <3>1, <3>2, HereLemma
  <2>6. p \in {"write", "write2"} /\ (p = "write" <=> T.pc = "read") /\ (p = "write2" <=> T.pc = "read2")
    BY <1>2, <2>3
  <2>7. /\ N \in Frames /\ N.pc = p /\ N.reg = T.reg /\ N.call = T.call /\ N.cur = T.cur /\ N.alias = T.alias
        /\ N.doc = d /\ N.old = alias
    BY <1>2, <2>2, <2>4, <2>6, HereLemma DEF Frames, Underway
  <2>8. Fits(N)
    BY <1>2, <2>2, <2>6, <2>7, HereLemma DEF Fits, Underway
  <2>9. Reached(N) = Reached(T)
    BY <2>7 DEF Reached
  <2>10. ~mixed => Stage(N, reg, alias)
    BY <1>2, <2>2, <2>6, <2>7, <2>9 DEF Stage, Underway, Pending
  <2> QED
    BY <1>1, <1>2, <2>5, <2>6, <2>7, <2>8, <2>10, HereLemma, MoveLemma DEF Underway
<1> QED
  BY <1>3, <1>4

LEMMA WriteKeeps ==
  ASSUME ReleaseInv, NEW t \in Tasks, WriteAlias(t)
  PROVE  ReleaseInv'
<1>1. PICK T : T = task[t]
  OBVIOUS
<1>2. /\ T \in Frames /\ Fits(T) /\ (~mixed => Stage(T, reg, alias)) /\ T.pc \in {"write", "write2"}
      /\ T.call \in Request /\ T.call.op \in Actions /\ T.doc \in Aliases /\ T.old \in Aliases
      /\ UNCHANGED <<reg, todo, mixed>>
  BY <1>1, HereLemma DEF WriteAlias, Fits, Underway
<1>3. PICK p : p = IF T.pc = "write2" \/ T.call.op \in {"shadow", "pause", "deprecate"} THEN "record" ELSE "read2"
  OBVIOUS
<1>4. CASE alias' = T.doc /\ To(t, p) /\ UNCHANGED <<faults, putBack>>
  <2>1. p \in {"record", "read2"}
    BY <1>3
  <2>2. PICK N \in Frames : task' = [task EXCEPT ![t] = N] /\ N = [T EXCEPT !.pc = p]
    BY <1>1, <1>4, <2>1, HereLemma, ToLemma DEF Underway
  <2>3. N.pc = p /\ N.call = T.call /\ N.reg = T.reg /\ N.alias = T.alias /\ N.cur = T.cur
    BY <1>2, <2>2 DEF Frames
  <2>4. Fits(N)
    BY <1>2, <1>3, <2>1, <2>3 DEF Fits, Underway, Actions
  <2>5. Reached(N) = Reached(T)
    BY <2>3 DEF Reached
  <2>6. ASSUME ~mixed PROVE Stage(N, reg, alias')
    <3>1. /\ T.reg = reg /\ T.cur = T.alias.target /\ InStep(T.reg, T.alias)
          /\ T.pc = "write" => SameTargets(T.doc, T.alias)
          /\ T.pc = "write2" => Served(T.doc) = Reached(T)
      BY <1>2, <2>6 DEF Stage, Underway
    <3>2. CASE p = "read2"
      <4>1. T.pc = "write"
        BY <1>2, <1>3, <3>2
      <4> QED
        BY <1>4, <2>3, <3>1, <3>2, <4>1 DEF Stage, Underway, Pending
    <3>3. CASE p = "record"
      <4>1. Served(alias') = Reached(N) /\ (N.call.op = "canary" => N.cur # Nothing)
        <5>1. CASE T.pc = "write2"
          <6>1. T.call.op = "canary" => T.cur # Nothing
            BY <1>2, <2>6, <5>1 DEF Stage
          <6> QED
            BY <1>4, <2>3, <2>5, <3>1, <5>1, <6>1
        <5>2. CASE T.pc = "write"
          <6>1. T.call.op \in {"shadow", "pause", "deprecate"}
            BY <1>3, <3>3, <5>2
          <6>2. Served(T.doc) = Served(T.alias)
            BY <3>1, <5>2 DEF SameTargets, Served
          <6> QED
            BY <1>4, <2>3, <2>5, <6>1, <6>2 DEF Reached
        <5> QED
          BY <1>2, <5>1, <5>2
      <4> QED
        BY <1>4, <2>3, <3>1, <3>3, <4>1 DEF Stage, Underway, Pending
    <3> QED
      BY <2>1, <3>2, <3>3
  <2> QED
    BY <1>1, <1>2, <1>4, <2>1, <2>2, <2>3, <2>4, <2>6, HereLemma, MoveLemma DEF Underway
<1>5. CASE Fault /\ To(t, "undo") /\ putBack' = TRUE /\ alias' \in {alias, T.old}
  BY <1>1, <1>2, <1>5, HereLemma, FaultLemma, UndoLemma DEF Underway
<1> QED
  BY <1>1, <1>3, <1>4, <1>5 DEF WriteAlias, Op

LEMMA RecordKeeps ==
  ASSUME ReleaseInv, NEW t \in Tasks, Record(t)
  PROVE  ReleaseInv'
<1>1. PICK T : T = task[t]
  OBVIOUS
<1>2. PICK c : c = T.call
  OBVIOUS
<1>3. /\ T \in Frames /\ Fits(T) /\ (~mixed => Stage(T, reg, alias)) /\ T.pc = "record"
      /\ c \in Request /\ c.op \in Actions /\ UNCHANGED <<alias, todo, faults, mixed>>
  BY <1>1, <1>2, HereLemma DEF Record, Fits, Underway
<1>4. CASE MayBecome(reg, c)
  <2>1. reg' = Released(reg, c) /\ To(t, "relaudit") /\ putBack' = putBack
    BY <1>1, <1>2, <1>4 DEF Record
  <2>2. reg \in Registries
    BY HereLemma
  <2>3. /\ reg' \in Registries /\ reg'.passed = reg.passed /\ reg'.approved = reg.approved
        /\ reg'.last = [reg.last EXCEPT ![c.v] = [by |-> c.by, needs |-> c.risk]]
        /\ \A v \in Versions : reg'.status[v] = "active" =>
             IF c.op \in {"activate", "rollback"} THEN v = c.v ELSE reg.status[v] = "active"
    BY <1>3, <2>1, <2>2, ReleasedLemma
  <2>4. PICK N \in Frames : task' = [task EXCEPT ![t] = N] /\ N = [T EXCEPT !.pc = "relaudit"]
    BY <1>1, <2>1, HereLemma, ToLemma DEF Underway
  <2>5. N.pc = "relaudit" /\ N.call = c /\ N.reg = T.reg /\ N.alias = T.alias
    BY <1>2, <1>3, <2>4 DEF Frames
  <2>6. Fits(N)
    BY <1>2, <1>3, <2>5 DEF Fits, Underway
  <2>7. ASSUME ~putBack PROVE AllBacked(reg')
    <3> SUFFICES ASSUME NEW v \in Versions, reg'.last[v] # Nothing
                 PROVE  Backed(reg, v, reg'.last[v].by, reg'.last[v].needs)
      BY <2>3 DEF AllBacked, Backed
    <3>1. reg.last \in [Versions -> {Nothing} \cup [by : Actors, needs : {1, 2}]]
      BY <2>2 DEF Registries
    <3>2. CASE v = c.v
      <4>1. reg'.last[v].by = c.by /\ reg'.last[v].needs = c.risk
        BY <2>3, <3>1, <3>2
      <4>2. Backed(reg, c.v, c.by, c.risk)
        BY <1>1, <1>2, <1>3, <2>7, HereLemma DEF Counted, Underway
      <4> QED
        BY <3>2, <4>1, <4>2
    <3>3. CASE v # c.v
      <4>1. reg'.last[v] = reg.last[v]
        BY <2>3, <3>1, <3>3
      <4> QED
        BY <2>7, <4>1, HereLemma DEF AllBacked
    <3> QED
      BY <3>2, <3>3
  <2>8. ASSUME ~mixed PROVE Stage(N, reg', alias)
    <3>1. /\ T.reg = reg /\ T.cur = T.alias.target /\ InStep(T.reg, T.alias) /\ Served(alias) = Reached(T)
          /\ c.op = "canary" => T.cur # Nothing
      BY <1>2, <1>3, <2>8 DEF Stage, Underway
    <3>2. InStep(reg', alias)
      <4> SUFFICES ASSUME NEW v \in Versions, reg'.status[v] = "active" PROVE v \in Reached(T)
        BY <3>1 DEF InStep
      <4>1. CASE c.op \in {"activate", "rollback"}
        BY <1>2, <2>3, <4>1 DEF Reached
      <4>2. CASE c.op \notin {"activate", "rollback"}
        <5>1. v \in Served(T.alias)
          BY <2>3, <3>1, <4>2 DEF InStep
        <5>2. CASE c.op = "canary"
          BY <1>2, <3>1, <5>1, <5>2 DEF Served, Reached
        <5>3. CASE c.op # "canary"
          BY <1>2, <4>2, <5>1, <5>3 DEF Reached
        <5> QED
          BY <5>2, <5>3
      <4> QED
        BY <4>1, <4>2
    <3> QED
      BY <2>5, <3>1, <3>2 DEF Stage, Underway, Pending
  <2> QED
    BY <1>1, <1>2, <1>3, <2>1, <2>3, <2>4, <2>5, <2>6, <2>7, <2>8, HereLemma, MoveLemma DEF Underway
<1>5. CASE ~MayBecome(reg, c)
  <2>1. reg' = Succeeded(reg, c) /\ To(t, "undo") /\ putBack' = TRUE
    BY <1>1, <1>2, <1>5 DEF Record
  <2>2. reg' \in Registries
    BY <1>3, <2>1, HereLemma, ReleasedLemma
  <2> QED
    BY <1>1, <1>3, <2>1, <2>2, HereLemma, UndoLemma DEF Underway
<1> QED
  BY <1>4, <1>5

LEMMA AuditKeeps ==
  ASSUME ReleaseInv, NEW t \in Tasks, AuditRelease(t)
  PROVE  ReleaseInv'
<1>1. PICK T : T = task[t]
  OBVIOUS
<1>2. /\ T \in Frames /\ Fits(T) /\ (~mixed => Stage(T, reg, alias)) /\ T.pc \in {"audit", "relaudit"}
      /\ UNCHANGED <<reg, alias, todo, mixed>>
  BY <1>1, HereLemma DEF AuditRelease
<1>3. CASE task' = [task EXCEPT ![t] = Idle] /\ UNCHANGED <<faults, putBack>>
  <2>1. Settled(t, Idle, reg, reg', alias, alias')
    <3> SUFFICES ASSUME ~mixed, \A u \in Tasks \ {t} : ~Releasing(u) PROVE InStep(reg, alias)
      BY <1>2, IdleLemma DEF Settled, Underway
    <3>1. CASE T.pc = "audit"
      BY <1>1, <3>1, HereLemma DEF Releasing
    <3>2. CASE T.pc = "relaudit"
      BY <1>2, <3>2 DEF Stage
    <3> QED
      BY <1>2, <3>1, <3>2
  <2> QED
    BY <1>2, <1>3, <2>1, IdleLemma, HereLemma, FrameLemma
<1>4. CASE Fault /\ putBack' = TRUE /\ T.pc = "audit" /\ To(t, "restore")
  <2>1. PICK N \in Frames : task' = [task EXCEPT ![t] = N] /\ N = [T EXCEPT !.pc = "restore"]
    BY <1>1, <1>4, HereLemma, ToLemma
  <2>2. N.pc = "restore" /\ N.call = T.call /\ N.reg = T.reg
    BY <1>2, <2>1 DEF Frames
  <2>3. Fits(N)
    BY <1>2, <1>4, <2>2 DEF Fits, Underway
  <2>4. ~mixed => Stage(N, reg, alias)
    BY <1>2, <1>4, <2>2 DEF Stage, Underway, Pending
  <2>5. Settled(t, N, reg, reg', alias, alias')
    BY <1>1, <1>2, <1>4, <2>2, <2>4, HereLemma DEF Settled, Underway, Pending
  <2> QED
    BY <1>2, <1>4, <2>1, <2>3, <2>5, HereLemma, FaultLemma, FrameLemma
<1>5. CASE Fault /\ putBack' = TRUE /\ T.pc = "relaudit" /\ To(t, "undo")
  BY <1>1, <1>2, <1>5, HereLemma, FaultLemma, UndoLemma DEF Underway
<1> QED
  BY <1>1, <1>2, <1>3, <1>4, <1>5 DEF AuditRelease

LEMMA UndoKeeps ==
  ASSUME ReleaseInv, NEW t \in Tasks, Undo(t)
  PROVE  ReleaseInv'
<1>1. PICK T : T = task[t]
  OBVIOUS
<1>2. /\ T \in Frames /\ Fits(T) /\ (~mixed => Stage(T, reg, alias)) /\ T.pc = "undo" /\ T.alias \in Aliases
      /\ alias' = T.alias /\ To(t, "restore") /\ UNCHANGED <<reg, todo, faults, putBack, mixed>> /\ putBack
  BY <1>1, HereLemma DEF Undo, Fits, Counted, Underway
<1>3. PICK N \in Frames : task' = [task EXCEPT ![t] = N] /\ N = [T EXCEPT !.pc = "restore"]
  BY <1>1, <1>2, HereLemma, ToLemma
<1>4. N.pc = "restore" /\ N.call = T.call /\ N.reg = T.reg
  BY <1>2, <1>3 DEF Frames
<1>5. Fits(N)
  BY <1>2, <1>4 DEF Fits, Underway
<1>6. ~mixed => Stage(N, reg, alias')
  BY <1>2, <1>4 DEF Stage, Underway, Pending
<1>7. Settled(t, N, reg, reg', alias, alias')
  BY <1>1, <1>2, <1>4, <1>6, HereLemma DEF Settled, Underway, Pending
<1> QED
  BY <1>2, <1>3, <1>5, <1>7, HereLemma, FrameLemma

LEMMA RestoreKeeps ==
  ASSUME ReleaseInv, NEW t \in Tasks, RestoreRegistry(t)
  PROVE  ReleaseInv'
<1>1. PICK T : T = task[t]
  OBVIOUS
<1>2. /\ Fits(T) /\ (~mixed => Stage(T, reg, alias)) /\ T.pc = "restore" /\ T.reg \in Registries
      /\ reg' = T.reg /\ task' = [task EXCEPT ![t] = Idle]
      /\ UNCHANGED <<alias, todo, faults, putBack, mixed>> /\ putBack
  BY <1>1, HereLemma DEF RestoreRegistry, Fits, Counted
<1>3. Settled(t, Idle, reg, reg', alias, alias')
  <2>1. ~mixed => InStep(reg', alias)
    BY <1>2 DEF Stage
  <2>2. ~mixed => \A u \in Tasks \ {t} : task[u].pc \notin Underway
    BY <1>1, <1>2, HereLemma
  <2> QED
    BY <1>2, <2>1, <2>2, IdleLemma DEF Settled, Underway
<1> QED
  BY <1>2, <1>3, IdleLemma, HereLemma, FrameLemma

LEMMA DirectKeeps ==
  ASSUME ReleaseInv, NEW t \in Tasks, Direct(t)
  PROVE  ReleaseInv'
<1>1. PICK c : c = Head(todo[t])
  OBVIOUS
<1>2. /\ task[t].pc = "idle" /\ Pops(t) /\ todo[t] # <<>> /\ mixed' = TRUE
      /\ alias' = IF c.op = "switch" /\ c.expect \in {Nothing, Resolved(alias)} THEN Switched(alias, c.v)
                  ELSE IF c.op = "undo" /\ MayRollBack(alias) THEN RolledBack(alias) ELSE alias
      /\ UNCHANGED <<reg, task, faults, putBack>>
  BY <1>1 DEF Direct
<1>3. c \in Request /\ todo' \in [Tasks -> Seq(Request)]
  BY <1>1, <1>2, HereLemma, TodoLemma
<1>4. c.v \in Versions /\ alias \in Aliases
  BY <1>3, HereLemma DEF Request
<1>5. alias' \in Aliases
  <2>1. Switched(alias, c.v) \in Aliases /\ (MayRollBack(alias) => RolledBack(alias) \in Aliases)
    BY <1>4, AliasLemma
  <2> QED
    BY <1>2, <1>4, <2>1
<1>6. task' = [task EXCEPT ![t] = task[t]]
  BY <1>2, HereLemma
<1>7. Settled(t, task[t], reg, reg', alias, alias')
  BY <1>2 DEF Settled
<1> QED
  BY <1>2, <1>3, <1>5, <1>6, <1>7, HereLemma, FrameLemma

LEMMA ReleaseInitLemma == ReleaseInit => ReleaseInv
<1> SUFFICES ASSUME ReleaseInit PROVE ReleaseInv
  OBVIOUS
<1>1. /\ reg.status = [v \in Versions |-> IF v = Stable THEN "active" ELSE "none"] /\ reg.passed = {Stable}
      /\ reg.approved = {} /\ reg.last = [v \in Versions |-> Nothing]
      /\ reg \in [status : [Versions -> Statuses], rollback : [Versions -> BOOLEAN], passed : SUBSET Versions,
          approved : SUBSET (Versions \X Actors), last : [Versions -> {Nothing} \cup [by : Actors, needs : {1, 2}]]]
  BY VersionsAssumption, StatusLemma DEF ReleaseInit
<1>2. reg \in Registries
  BY <1>1 DEF Registries, OneActiveIn
<1>3. alias \in Entries /\ alias.target = Stable /\ Stable # Nothing
  BY VersionsAssumption DEF ReleaseInit, Entries
<1>4. alias \in Aliases
  BY <1>3, VersionsAssumption DEF Aliases, Resolved
<1>5. \A t \in Tasks : task[t] = Idle
  BY DEF ReleaseInit
<1>6. todo \in [Tasks -> Seq(Request)] /\ faults \in 0..MaxFailures /\ task \in [Tasks -> Frames]
  BY CallsAssumption, IdleLemma DEF ReleaseInit
<1>7. ReleaseTypes
  BY <1>2, <1>4, <1>5, <1>6, IdleLemma DEF ReleaseTypes, ReleaseInit
<1>8. Policy
  BY <1>1, <1>5, IdleLemma DEF Policy, AllBacked
<1>9. InStep(reg, alias)
  BY <1>1, <1>3 DEF InStep, Served
<1>10. Together
  BY <1>5, <1>9, IdleLemma DEF Together, Underway
<1> QED
  BY <1>7, <1>8, <1>10 DEF ReleaseInv

LEMMA ReleaseInvariance == ReleaseSpec => []ReleaseInv
<1>1. ASSUME ReleaseInv, [ReleaseNext]_rlVars PROVE ReleaseInv'
  <2>1. CASE ReleaseNext
    BY <1>1, <2>1, BeginKeeps, ChangeKeeps, PreflightKeeps, SnapKeeps, LoadKeeps, ReadKeeps, WriteKeeps,
       RecordKeeps, AuditKeeps, UndoKeeps, RestoreKeeps, DirectKeeps DEF ReleaseNext
  <2>2. CASE UNCHANGED rlVars
    BY <1>1, <2>2 DEF rlVars, ReleaseInv, ReleaseTypes, Policy, Together, Releasing
  <2> QED
    BY <1>1, <2>1, <2>2
<1> QED
  BY <1>1, ReleaseInitLemma, PTL DEF ReleaseSpec

\* Through every interleaving of v1_model_release_apply with the other routes and
\* every failure and roll back, one version is active at most; until something is put
\* back, what was released had its evaluation and its approvals; and as long as no
\* release meets another call, the alias serves the active version whenever nothing
\* is under way.
THEOREM ReleasesInStep == ReleaseSpec => []ReleaseIsSound
<1>1. ASSUME ReleaseInv PROVE ReleaseIsSound
  <2>0. ReleaseTypes /\ Policy /\ Together
    BY <1>1 DEF ReleaseInv
  <2>1. ReleaseTypeOK
    BY <2>0 DEF ReleaseTypes, ReleaseTypeOK, Registries, Aliases, Entries
  <2>2. OneActive
    BY <2>0 DEF ReleaseTypes, Registries, OneActiveIn, OneActive
  <2>3. ReleasedWasApproved
    BY <2>0 DEF Policy, AllBacked, Backed, ReleasedWasApproved
  <2>4. ActiveIsServed
    BY <2>0 DEF Together, Releasing, InStep, ActiveIsServed
  <2> QED
    BY <2>1, <2>2, <2>3, <2>4 DEF ReleaseIsSound
<1> QED
  BY <1>1, ReleaseInvariance, PTL
=============================================================================
