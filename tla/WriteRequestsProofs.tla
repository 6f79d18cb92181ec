------------------------ MODULE WriteRequestsProofs ------------------------
(***************************************************************************)
(* Proofs about WriteRequests, for any requests and inputs, any capacity,  *)
(* concurrency limit and quota of faults, with redis and without it.       *)
(*                                                                         *)
(* What makes the middleware idempotent is what a record stands for: one   *)
(* that is completed is the answer of its owner, who is past its handler,  *)
(* and an effect whose record was not dropped still has its record unless  *)
(* the answer was a failure or too large.  With one record for a key, two  *)
(* such effects are one.                                                   *)
(*                                                                         *)
(* The second half is about Delivery, for any processes, tasks, webhooks    *)
(* and failures: a record on its way is in the hands of one sender, who     *)
(* knows how many attempts it has and how they ended, and every yes of the   *)
(* receiver was heard by one process, which does not ask again.             *)
(***************************************************************************)
EXTENDS WriteRequests, Delivery, SequenceTheorems, FiniteSetTheorems, TLAPS

Codes == {"ok", "refused", "error", "large", "busy", "conflict"}

\* The record of request r, and what a record can be.
Rec(r, s) == [key |-> Key(r), hash |-> Hash(r), owner |-> r, state |-> s]
Entries   == {Rec(r, s) : r \in Requests, s \in {"in_progress", "completed"}}

UniqueKeys(s)   == \A i, j \in DOMAIN s : s[i].key = s[j].key => i = j
OneRecordPerKey == UniqueKeys(recs)

\* The owner of a completed record has got its own answer, and got it for good.
Settled(q) == /\ pc[q] \in {"done", "dead"}
              /\ out[q] \in [by : {q}, code : {"ok", "refused"}]

\* What the middleware finalizes is the answer of the handler.
HandlerAnswered ==
  \A r \in Requests : pc[r] = "finalize" =>
    out[r] \in [by : {r}, code : {"ok", "refused", "error", "large"}]

CompletedIsSettled ==
  \A i \in DOMAIN recs : recs[i].state = "completed" => Settled(recs[i].owner)

RecordIsOfRunner ==
  \A i \in DOMAIN recs : pc[recs[i].owner] \in {"run", "finalize", "done", "dead"}

\* A replayed answer comes from a settled request with the same input.
ReplayOfSettled ==
  \A r \in Requests : out[r] # Nil /\ out[r].by # r =>
    /\ Key(out[r].by) = Key(r) /\ Hash(out[r].by) = Hash(r)
    /\ Settled(out[r].by) /\ out[out[r].by] = out[r]

Held(r) == \E i \in DOMAIN recs : recs[i].owner = r

\* An effect has its record, or the record was dropped, or none was kept.
EffectIsHeld ==
  \A r \in effect : /\ pc[r] \in {"finalize", "done", "dead"}
                    /\ r \in lost \/ out[r].code \in {"error", "large"} \/ Held(r)

RunnerHolds == \A r \in Requests \ lost : pc[r] \in {"run", "finalize"} => Held(r)

\* Slots: within a lease the holders are counted, and no more than the limit is.
Counted ==
  /\ IsFiniteSet(slots) /\ Cardinality(slots) <= Limit
  /\ left["lease"] <= Quota["lease"]
  /\ left["lease"] = Quota["lease"] => holds \subseteq slots
  /\ \A r \in holds : pc[r] \in {"reserve", "run", "finalize", "done"}

Typed ==
  /\ redis \in BOOLEAN /\ sent \in Inputs /\ recs \in Seq(Entries)
  /\ slots \subseteq Requests /\ holds \subseteq Requests
  /\ pc \in [Requests -> {"new", "reserve", "run", "finalize", "done", "dead"}]
  /\ out \in [Requests -> [by : Requests, code : Codes] \cup {Nil}]
  /\ effect \subseteq Requests /\ lost \subseteq Requests
  /\ left \in [Kinds -> Nat]

Inv == /\ Typed /\ OneRecordPerKey
       /\ RecordIsOfRunner /\ CompletedIsSettled /\ ReplayOfSettled
       /\ HandlerAnswered /\ EffectIsHeld /\ RunnerHolds /\ Counted

-----------------------------------------------------------------------------
(* Records.                                                                *)

LEMMA RecsLemma ==
  ASSUME Typed
  PROVE  /\ DOMAIN recs = 1..Len(recs) /\ Len(recs) \in Nat
         /\ \A i \in DOMAIN recs :
              /\ recs[i] \in Entries /\ recs[i].owner \in Requests
              /\ recs[i] = Rec(recs[i].owner, recs[i].state)
              /\ recs[i].key = Key(recs[i].owner) /\ recs[i].hash = Hash(recs[i].owner)
              /\ recs[i].state \in {"in_progress", "completed"}
<1>1. DOMAIN recs = 1..Len(recs) /\ Len(recs) \in Nat /\ \A i \in DOMAIN recs : recs[i] \in Entries
  BY LenProperties, ElementOfSeq DEF Typed
<1> QED
  BY <1>1 DEF Entries, Rec

\* What the order of the records cannot change: t has records of s, one of each
\* at most.
Thinned(s, t) ==
  /\ t \in Seq(Entries)
  /\ \E f \in [DOMAIN t -> DOMAIN s] :
       /\ \A i \in DOMAIN t : t[i] = s[f[i]]
       /\ \A i, j \in DOMAIN t : f[i] = f[j] => i = j

LEMMA RemoveLemma ==
  ASSUME NEW s \in Seq(Entries), NEW i \in DOMAIN s
  PROVE  /\ Thinned(s, RemoveAt(s, i))
         /\ \A j \in DOMAIN s : j # i => \E k \in DOMAIN RemoveAt(s, i) : RemoveAt(s, i)[k] = s[j]
         /\ (\A j \in DOMAIN s : s[j].key = s[i].key => j = i) =>
              \A k \in DOMAIN RemoveAt(s, i) : RemoveAt(s, i)[k].key # s[i].key
<1> DEFINE n == Len(s)
           a == SubSeq(s, 1, i - 1)
           b == SubSeq(s, i + 1, n)
           t == RemoveAt(s, i)
           f == [k \in 1..n - 1 |-> IF k < i THEN k ELSE k + 1]
<1>1. n \in Nat /\ DOMAIN s = 1..n /\ i \in 1..n /\ \A j \in 1..n : s[j] \in Entries
  BY LenProperties, ElementOfSeq
<1>2. /\ a \in Seq(Entries) /\ Len(a) = i - 1 /\ \A k \in 1..i - 1 : a[k] = s[k]
  <2>1. 1 \in Int /\ i - 1 \in Int /\ \A j \in 1..i - 1 : s[j] \in Entries
    BY <1>1
  <2> HIDE DEF n
  <2>2. /\ a \in Seq(Entries) /\ Len(a) = (IF 1 <= i - 1 THEN i - 1 - 1 + 1 ELSE 0)
        /\ \A k \in 1..i - 1 - 1 + 1 : a[k] = s[1 + k - 1]
    BY <2>1, SubSeqProperties
  <2> HIDE DEF a
  <2> QED
    BY <1>1, <2>2
<1>3. /\ b \in Seq(Entries) /\ Len(b) = n - i /\ \A k \in 1..n - i : b[k] = s[i + k]
  <2>1. i + 1 \in Int /\ n \in Int /\ \A j \in i + 1..n : s[j] \in Entries
    BY <1>1
  <2> HIDE DEF n
  <2>2. /\ b \in Seq(Entries) /\ Len(b) = (IF i + 1 <= n THEN n - (i + 1) + 1 ELSE 0)
        /\ \A k \in 1..n - (i + 1) + 1 : b[k] = s[i + 1 + k - 1]
    BY <2>1, SubSeqProperties
  <2> HIDE DEF b
  <2>3. /\ n - (i + 1) + 1 = n - i /\ (i + 1 <= n \/ n - i = 0)
        /\ \A k \in 1..n - i : i + 1 + k - 1 = i + k
    BY <1>1
  <2> QED
    BY <2>2, <2>3
<1>4. t = a \o b
  BY DEF RemoveAt
<1> HIDE DEF a, b, t, n
<1>5. /\ t \in Seq(Entries) /\ Len(t) = n - 1
      /\ \A k \in 1..n - 1 : t[k] = IF k <= i - 1 THEN a[k] ELSE b[k - (i - 1)]
  <2>1. /\ t \in Seq(Entries) /\ Len(t) = Len(a) + Len(b)
        /\ \A k \in 1..Len(a) + Len(b) : t[k] = IF k <= Len(a) THEN a[k] ELSE b[k - Len(a)]
    BY <1>2, <1>3, <1>4, ConcatProperties
  <2>2. Len(a) + Len(b) = n - 1 /\ Len(a) = i - 1
    BY <1>1, <1>2, <1>3
  <2> QED
    BY <2>1, <2>2
<1>6. DOMAIN t = 1..n - 1
  BY <1>5, LenProperties
<1>7. \A k \in 1..n - 1 : t[k] = s[f[k]] /\ f[k] \in 1..n /\ f[k] # i
  <2> TAKE k \in 1..n - 1
  <2>1. CASE k < i
    BY <1>1, <1>2, <1>5, <2>1
  <2>2. CASE ~(k < i)
    <3>1. k - (i - 1) \in 1..n - i /\ i + (k - (i - 1)) = k + 1
      BY <1>1, <2>2
    <3> QED
      BY <1>1, <1>3, <1>5, <2>2, <3>1
  <2> QED
    BY <2>1, <2>2
<1>8. \A k, l \in 1..n - 1 : f[k] = f[l] => k = l
  BY <1>1
<1>9. \A j \in 1..n : j # i => \E k \in 1..n - 1 : f[k] = j
  <2> SUFFICES ASSUME NEW j \in 1..n, j # i PROVE \E k \in 1..n - 1 : f[k] = j
    OBVIOUS
  <2>1. CASE j < i
    BY <1>1, <2>1
  <2>2. CASE i < j
    <3>1. j - 1 \in 1..n - 1 /\ ~(j - 1 < i) /\ j - 1 + 1 = j
      BY <1>1, <2>2
    <3> QED
      BY <3>1
  <2> QED
    BY <1>1, <2>1, <2>2
<1>10. f \in [DOMAIN t -> DOMAIN s]
  BY <1>1, <1>6, <1>7
<1> HIDE DEF f
<1>11. Thinned(s, t)
  <2>1. \E g \in [DOMAIN t -> DOMAIN s] :
          /\ \A k \in DOMAIN t : t[k] = s[g[k]]
          /\ \A k, l \in DOMAIN t : g[k] = g[l] => k = l
    <3> WITNESS f \in [DOMAIN t -> DOMAIN s]
    <3> QED
      BY <1>6, <1>7, <1>8
  <2> QED
    BY <1>5, <2>1 DEF Thinned
<1>12. \A j \in DOMAIN s : j # i => \E k \in DOMAIN t : t[k] = s[j]
  <2> SUFFICES ASSUME NEW j \in DOMAIN s, j # i PROVE \E k \in DOMAIN t : t[k] = s[j]
    OBVIOUS
  <2>1. j \in 1..n
    BY <1>1
  <2>2. PICK k \in 1..n - 1 : f[k] = j
    BY <1>9, <2>1
  <2>3. t[k] = s[j]
    BY <1>7, <2>2
  <2> QED
    BY <1>6, <2>2, <2>3
<1>13. ASSUME \A j \in DOMAIN s : s[j].key = s[i].key => j = i, NEW k \in DOMAIN t
       PROVE  t[k].key # s[i].key
  BY <1>1, <1>6, <1>7, <1>13
<1> QED
  BY <1>11, <1>12, <1>13 DEF t

-----------------------------------------------------------------------------
(* Steps.                                                                  *)

\* What a step may do to a request: it goes on and not back, an answer that it
\* has got for good stays, a new answer is its own or a settled one's, and it
\* loses its record only to what the properties except.
Goes(r) ==
  /\ pc[r] \in {"done", "dead"} => pc'[r] \in {"done", "dead"} /\ out'[r] = out[r]
  /\ pc[r] = "run" => pc'[r] \in {"run", "finalize", "dead"}
  /\ pc[r] = "finalize" =>
       /\ pc'[r] \in {"finalize", "done", "dead"}
       /\ out'[r] = out[r] \/ (pc'[r] = "done" /\ out'[r].code \in {"error", "large"})
  /\ pc'[r] \in {"run", "finalize"} => pc[r] \in {"run", "finalize"} \/ Held(r)'
  /\ pc'[r] = "finalize" /\ pc[r] # "finalize" =>
       out'[r] \in [by : {r}, code : {"ok", "refused", "error", "large"}]
  /\ \/ out'[r] = out[r] \/ out'[r].by = r
     \/ /\ Key(out'[r].by) = Key(r) /\ Hash(out'[r].by) = Hash(r)
        /\ Settled(out'[r].by) /\ out'[r] = out[out'[r].by]
  /\ Held(r) => Held(r)' \/ r \in lost' \/ (pc'[r] = "done" /\ out'[r].code \in {"error", "large"})
  /\ r \in effect' => r \in effect \/ pc'[r] = "finalize"

LEMMA CoreLemma ==
  ASSUME Inv, Typed', sent' = sent, lost \subseteq lost', effect \subseteq effect',
         \A r \in Requests : Goes(r),
         OneRecordPerKey',
         \A i \in DOMAIN recs' :
           \/ \E j \in DOMAIN recs : recs'[i] = recs[j]
           \/ /\ recs'[i].state = "in_progress"
              /\ pc'[recs'[i].owner] \in {"run", "finalize", "done", "dead"}
           \/ Settled(recs[i].owner)',
         Counted'
  PROVE  Inv'
<1>1. \A r : Key(r)' = Key(r) /\ Hash(r)' = Hash(r)
  BY DEF Key, Hash
<1>2. ASSUME NEW q \in Requests, Settled(q) PROVE Settled(q)' /\ out'[q] = out[q]
  BY <1>2 DEF Settled, Goes
<1>3. RecordIsOfRunner' /\ CompletedIsSettled'
  <2> SUFFICES ASSUME NEW i \in DOMAIN recs'
               PROVE  /\ pc'[recs'[i].owner] \in {"run", "finalize", "done", "dead"}
                      /\ recs'[i].state = "completed" => Settled(recs[i].owner)'
    BY DEF RecordIsOfRunner, CompletedIsSettled
  <2>1. CASE \E j \in DOMAIN recs : recs'[i] = recs[j]
    <3>1. PICK j \in DOMAIN recs : recs'[i] = recs[j]
      BY <2>1
    <3>2. recs[j].owner \in Requests /\ pc[recs[j].owner] \in {"run", "finalize", "done", "dead"}
          /\ (recs[j].state = "completed" => Settled(recs[j].owner))
      BY RecsLemma DEF Inv, RecordIsOfRunner, CompletedIsSettled
    <3>3. pc'[recs[j].owner] \in {"run", "finalize", "done", "dead"}
      BY <3>2 DEF Goes
    <3> QED
      BY <1>2, <3>1, <3>2, <3>3
  <2>2. CASE /\ recs'[i].state = "in_progress"
             /\ pc'[recs'[i].owner] \in {"run", "finalize", "done", "dead"}
    BY <2>2
  <2>3. CASE Settled(recs[i].owner)'
    BY <2>3 DEF Settled
  <2> QED
    BY <2>1, <2>2, <2>3
<1>4. ReplayOfSettled'
  <2> SUFFICES ASSUME NEW r \in Requests, out'[r] # Nil, out'[r].by # r
               PROVE  /\ Key(out'[r].by) = Key(r) /\ Hash(out'[r].by) = Hash(r)
                      /\ Settled(out[r].by)' /\ out'[out'[r].by] = out'[r]
    BY <1>1 DEF ReplayOfSettled
  <2>1. out'[r].by \in Requests
    BY DEF Typed
  <2>2. CASE out'[r] = out[r]
    BY <1>2, <2>1, <2>2 DEF Inv, ReplayOfSettled
  <2>3. CASE out'[r] # out[r]
    BY <1>2, <2>1, <2>3 DEF Goes
  <2> QED
    BY <2>2, <2>3
<1>5. HandlerAnswered'
  BY DEF Inv, HandlerAnswered, Goes
<1>6. RunnerHolds'
  BY DEF Inv, RunnerHolds, Goes
<1>7. EffectIsHeld'
  <2> SUFFICES ASSUME NEW r \in effect'
               PROVE  /\ pc'[r] \in {"finalize", "done", "dead"}
                      /\ r \in lost' \/ out'[r].code \in {"error", "large"} \/ Held(r)'
    BY DEF EffectIsHeld
  <2>0. r \in Requests /\ Goes(r)
    BY DEF Typed
  <2>1. CASE r \in effect
    <3>1. /\ pc[r] \in {"finalize", "done", "dead"}
          /\ r \in lost \/ out[r].code \in {"error", "large"} \/ Held(r)
      BY <2>1 DEF Inv, EffectIsHeld
    <3>2. out'[r] = out[r] \/ out'[r].code \in {"error", "large"}
      BY <2>0, <3>1 DEF Goes
    <3> QED
      BY <2>0, <3>1, <3>2 DEF Goes
  <2>2. CASE r \notin effect
    <3>1. pc'[r] = "finalize"
      BY <2>0, <2>2 DEF Goes
    <3> QED
      BY <1>6, <2>0, <3>1 DEF RunnerHolds
  <2> QED
    BY <2>1, <2>2
<1> QED
  BY <1>3, <1>4, <1>5, <1>6, <1>7 DEF Inv

\* A request that a step does not concern.
LEMMA StillLemma ==
  ASSUME Inv, NEW r \in Requests,
         pc'[r] = pc[r] \/ (pc'[r] = "dead" /\ pc[r] # "new"), out'[r] = out[r],
         Held(r) => Held(r)' \/ r \in lost',
         r \in effect' => r \in effect
  PROVE  Goes(r)
<1>1. pc[r] \in {"run", "finalize"} \/ pc'[r] \notin {"run", "finalize"}
  OBVIOUS
<1> QED
  BY <1>1 DEF Goes

\* Steps that leave the records alone.
LEMMA SameRecords ==
  ASSUME Inv, recs' = recs, sent' = sent
  PROVE  /\ OneRecordPerKey' /\ \A r \in Requests : Held(r)' <=> Held(r)
         /\ \A i \in DOMAIN recs' : \E j \in DOMAIN recs : recs'[i] = recs[j]
BY DEF Inv, OneRecordPerKey, UniqueKeys, Held

LEMMA EntriesAreSame == sent' = sent => Entries' = Entries
BY DEF Entries, Rec, Key, Hash

LEMMA SpendLemma ==
  ASSUME Typed, Counted, NEW k \in Kinds, Spend(k)
  PROVE  /\ left' \in [Kinds -> Nat] /\ left'["lease"] <= Quota["lease"]
         /\ left'["lease"] = Quota["lease"] => left["lease"] = Quota["lease"] /\ k # "lease"
<1>1. left \in [Kinds -> Nat] /\ left' = [left EXCEPT ![k] = @ - 1] /\ left[k] > 0
  BY DEF Typed, Spend
<1>2. "lease" \in Kinds /\ Quota["lease"] \in Nat /\ left["lease"] <= Quota["lease"]
  BY BoundsAssumption DEF Counted, Kinds
<1>3. left' \in [Kinds -> Nat]
  BY <1>1
<1>4. left'["lease"] = IF k = "lease" THEN left["lease"] - 1 ELSE left["lease"]
  BY <1>1, <1>2
<1> QED
  BY <1>1, <1>2, <1>3, <1>4

LEMMA BackendLemma ==
  ASSUME Typed, Counted, BackendFails
  PROVE  /\ left' \in [Kinds -> Nat] /\ left'["lease"] <= Quota["lease"]
         /\ left'["lease"] = Quota["lease"] => left["lease"] = Quota["lease"]
         /\ redis
BY SpendLemma DEF BackendFails, Kinds

\* Slots that are given back, and one that is taken below the limit.
LEMMA FewerSlots ==
  ASSUME Counted, NEW S, S \subseteq slots
  PROVE  IsFiniteSet(S) /\ Cardinality(S) <= Limit
<1>1. IsFiniteSet(S) /\ Cardinality(S) <= Cardinality(slots)
  BY FS_Subset DEF Counted
<1>2. Cardinality(S) \in Nat /\ Cardinality(slots) \in Nat
  BY <1>1, FS_CardinalityType DEF Counted
<1> QED
  BY <1>1, <1>2, BoundsAssumption DEF Counted

LEMMA OneMoreSlot ==
  ASSUME Counted, NEW r, Cardinality(slots) < Limit
  PROVE  IsFiniteSet(slots \cup {r}) /\ Cardinality(slots \cup {r}) <= Limit
<1>1. /\ IsFiniteSet(slots \cup {r})
      /\ Cardinality(slots \cup {r}) = IF r \in slots THEN Cardinality(slots) ELSE Cardinality(slots) + 1
  BY FS_AddElement DEF Counted
<1>2. Cardinality(slots) \in Nat
  BY FS_CardinalityType DEF Counted
<1> QED
  BY <1>1, <1>2, BoundsAssumption

\* A request moves on to p, and nothing else becomes of the others.
LEMMA MoveLemma ==
  ASSUME Typed, NEW r \in Requests, NEW p, Go(r, p)
  PROVE  /\ pc'[r] = p /\ \A q \in Requests : q # r => pc'[q] = pc[q]
         /\ p \in {"new", "reserve", "run", "finalize", "done", "dead"} =>
              pc' \in [Requests -> {"new", "reserve", "run", "finalize", "done", "dead"}]
BY DEF Typed, Go

LEMMA AnswerLemma ==
  ASSUME Typed, NEW r \in Requests, NEW q \in Requests, NEW c \in Codes, Answer(r, q, c)
  PROVE  /\ out' \in [Requests -> [by : Requests, code : Codes] \cup {Nil}]
         /\ out'[r] = [by |-> q, code |-> c] /\ out'[r].by = q /\ out'[r].code = c
         /\ \A s \in Requests : s # r => out'[s] = out[s]
BY DEF Typed, Answer

LEMMA AcquireStep ==
  ASSUME Inv, NEW r \in Requests, Acquire(r)
  PROVE  Inv'
<1> USE DEF Inv
<1>1. UNCHANGED <<redis, sent, recs, effect, lost>> /\ pc[r] = "new"
  BY DEF Acquire
<1>2. \/ Go(r, "reserve") /\ out' = out
      \/ Go(r, "done") /\ Answer(r, r, "busy")
  BY DEF Acquire
<1>3. /\ pc' \in [Requests -> {"new", "reserve", "run", "finalize", "done", "dead"}]
      /\ out' \in [Requests -> [by : Requests, code : Codes] \cup {Nil}]
      /\ \A q \in Requests : q # r => pc'[q] = pc[q] /\ out'[q] = out[q]
      /\ \/ pc'[r] = "reserve" /\ out'[r] = out[r]
         \/ pc'[r] = "done" /\ out'[r].by = r
  <2>1. CASE Go(r, "reserve") /\ out' = out
    BY <2>1, MoveLemma DEF Typed
  <2>2. CASE Go(r, "done") /\ Answer(r, r, "busy")
    <3>1. "busy" \in Codes
      BY DEF Codes
    <3>2. /\ out' \in [Requests -> [by : Requests, code : Codes] \cup {Nil}]
          /\ out'[r].by = r /\ \A q \in Requests : q # r => out'[q] = out[q]
      BY <2>2, <3>1, AnswerLemma
    <3> QED
      BY <2>2, <3>2, MoveLemma
  <2> QED
    BY <1>2, <2>1, <2>2
<1>4. /\ left' \in [Kinds -> Nat] /\ left'["lease"] <= Quota["lease"]
      /\ left'["lease"] = Quota["lease"] => left["lease"] = Quota["lease"]
  BY BackendLemma DEF Acquire, Typed, Counted
<1>5. /\ \/ slots' = slots
         \/ Cardinality(slots) < Limit /\ slots' = slots \cup {r}
      /\ \/ holds' = holds
         \/ holds' = holds \cup {r} /\ slots' = slots \cup {r} /\ Go(r, "reserve")
  BY DEF Acquire
<1>6. Typed'
  BY <1>1, <1>3, <1>4, <1>5, EntriesAreSame DEF Typed
<1>7. Counted'
  <2>1. IsFiniteSet(slots') /\ Cardinality(slots') <= Limit
    BY <1>5, OneMoreSlot DEF Counted
  <2>2. left'["lease"] = Quota["lease"] => holds' \subseteq slots'
    BY <1>4, <1>5 DEF Counted
  <2>3. \A q \in holds' : pc'[q] \in {"reserve", "run", "finalize", "done"}
    BY <1>3, <1>5, MoveLemma DEF Counted, Typed
  <2> QED
    BY <1>4, <2>1, <2>2, <2>3 DEF Counted
<1>8. \A q \in Requests : Held(q)' <=> Held(q)
  BY <1>1, SameRecords
<1>9. ~Held(r) /\ r \notin effect
  BY <1>1 DEF Held, RecordIsOfRunner, EffectIsHeld
<1>10. Goes(r)
  BY <1>1, <1>3, <1>8, <1>9 DEF Goes
<1>11. \A q \in Requests : q # r => Goes(q)
  BY <1>1, <1>3, <1>8, StillLemma
<1> QED
  BY <1>1, <1>6, <1>7, <1>10, <1>11, SameRecords, CoreLemma

\* Counted, for the steps that leave the slots alone.
LEMMA SlotsStay ==
  ASSUME Inv, UNCHANGED <<slots, holds>>, left'["lease"] <= Quota["lease"],
         left'["lease"] = Quota["lease"] => left["lease"] = Quota["lease"],
         \A r \in Requests : pc[r] \in {"reserve", "run", "finalize", "done"} =>
                             pc'[r] \in {"reserve", "run", "finalize", "done"}
  PROVE  Counted'
BY DEF Inv, Typed, Counted

LEMMA FoundStep ==
  ASSUME Inv, NEW r \in Requests, Reserve(r), Found(r)
  PROVE  Inv'
<1> USE DEF Inv
<1>1. UNCHANGED <<redis, sent, recs, slots, holds, effect, lost, left>> /\ pc[r] = "reserve"
  BY DEF Reserve, Found
<1>2. PICK i \in Of(Key(r)) :
        /\ Go(r, "done")
        /\ IF recs[i].hash = Hash(r) /\ recs[i].state = "completed"
           THEN Answer(r, recs[i].owner, out[recs[i].owner].code)
           ELSE Answer(r, r, "conflict")
  BY DEF Found
<1>3. /\ i \in DOMAIN recs /\ recs[i].owner \in Requests
      /\ Key(recs[i].owner) = Key(r) /\ recs[i].hash = Hash(recs[i].owner)
  BY <1>2, RecsLemma DEF Of
<1>4. /\ pc'[r] = "done" /\ \A q \in Requests : q # r => pc'[q] = pc[q]
      /\ pc' \in [Requests -> {"new", "reserve", "run", "finalize", "done", "dead"}]
  BY <1>2, MoveLemma
<1>5. /\ out' \in [Requests -> [by : Requests, code : Codes] \cup {Nil}]
      /\ \A q \in Requests : q # r => out'[q] = out[q]
      /\ \/ out'[r].by = r
         \/ /\ out'[r].by = recs[i].owner /\ Hash(recs[i].owner) = Hash(r)
            /\ Settled(recs[i].owner) /\ out'[r] = out[recs[i].owner]
  <2>1. CASE recs[i].hash = Hash(r) /\ recs[i].state = "completed"
    <3> DEFINE q == recs[i].owner
    <3>1. Settled(q) /\ q \in Requests
      BY <1>3, <2>1 DEF CompletedIsSettled
    <3>2. out[q].code \in Codes /\ out[q] = [by |-> q, code |-> out[q].code]
      BY <3>1 DEF Settled, Codes
    <3>3. Answer(r, q, out[q].code)
      BY <1>2, <2>1
    <3>4. out'[r] = out[q]
      BY <3>1, <3>2, <3>3, AnswerLemma
    <3> QED
      BY <1>3, <2>1, <3>1, <3>2, <3>3, <3>4, AnswerLemma
  <2>2. CASE ~(recs[i].hash = Hash(r) /\ recs[i].state = "completed")
    <3>1. Answer(r, r, "conflict") /\ "conflict" \in Codes
      BY <1>2, <2>2 DEF Codes
    <3>2. Typed
      OBVIOUS
    <3> QED
      BY ONLY <3>1, <3>2, r \in Requests, AnswerLemma
  <2> QED
    BY <2>1, <2>2
<1>6. Typed'
  BY <1>1, <1>4, <1>5, EntriesAreSame DEF Typed
<1>7. Counted'
  BY <1>1, <1>4, SlotsStay DEF Counted
<1>8. \A q \in Requests : Held(q)' <=> Held(q)
  BY <1>1, SameRecords
<1>9. Goes(r)
  BY <1>1, <1>3, <1>4, <1>5, <1>8 DEF Goes
<1>10. \A q \in Requests : q # r => Goes(q)
  BY <1>1, <1>4, <1>5, <1>8, StillLemma
<1> QED
  BY <1>1, <1>6, <1>7, <1>9, <1>10, SameRecords, CoreLemma

LEMMA ThinLemma ==
  ASSUME NEW s, UniqueKeys(s), NEW t, Thinned(s, t)
  PROVE  UniqueKeys(t) /\ \A i \in DOMAIN t : \E j \in DOMAIN s : t[i] = s[j]
<1>1. PICK f \in [DOMAIN t -> DOMAIN s] :
        /\ \A i \in DOMAIN t : t[i] = s[f[i]]
        /\ \A i, j \in DOMAIN t : f[i] = f[j] => i = j
  BY DEF Thinned
<1> QED
  BY <1>1 DEF UniqueKeys

LEMMA AppendLemma ==
  ASSUME NEW s \in Seq(Entries), UniqueKeys(s), NEW r \in Requests,
         \A i \in DOMAIN s : s[i].key # Key(r)
  PROVE  /\ Append(s, Record(r)) \in Seq(Entries) /\ UniqueKeys(Append(s, Record(r)))
         /\ \A i \in DOMAIN Append(s, Record(r)) :
              \/ \E j \in DOMAIN s : Append(s, Record(r))[i] = s[j]
              \/ Append(s, Record(r))[i] = Record(r)
         /\ \A j \in DOMAIN s : j \in DOMAIN Append(s, Record(r)) /\ Append(s, Record(r))[j] = s[j]
         /\ \E i \in DOMAIN Append(s, Record(r)) : Append(s, Record(r))[i] = Record(r)
<1> DEFINE t == Append(s, Record(r))
           n == Len(s)
<1>1. Record(r) \in Entries /\ Record(r).key = Key(r)
  BY DEF Record, Entries, Rec
<1>2. /\ t \in Seq(Entries) /\ Len(t) = n + 1 /\ t[n + 1] = Record(r)
      /\ \A i \in 1..n : t[i] = s[i]
  BY <1>1, AppendProperties
<1>3. DOMAIN s = 1..n /\ n \in Nat
  BY LenProperties
<1>4. DOMAIN t = 1..n + 1
  BY <1>2, LenProperties
<1> HIDE DEF t, n
<1>5. \A i \in 1..n + 1 : i \in 1..n \/ i = n + 1
  BY <1>3
<1>6. UniqueKeys(t)
  <2> SUFFICES ASSUME NEW i \in 1..n + 1, NEW j \in 1..n + 1, t[i].key = t[j].key PROVE i = j
    BY <1>4 DEF UniqueKeys
  <2> QED
    BY <1>1, <1>2, <1>3, <1>5 DEF UniqueKeys
<1>7. n + 1 \in 1..n + 1 /\ \A i \in 1..n : i \in 1..n + 1
  BY <1>3
<1> QED
  BY <1>2, <1>3, <1>4, <1>5, <1>6, <1>7 DEF t

\* A request that has reserved its key.
LEMMA ReservedLemma ==
  ASSUME Inv, NEW r \in Requests, pc[r] = "reserve", NEW s \in Seq(Entries), UniqueKeys(s),
         \A i \in DOMAIN s : s[i].key # Key(r),
         \A i \in DOMAIN s : \E j \in DOMAIN recs : s[i] = recs[j],
         \A j \in DOMAIN recs : (\E i \in DOMAIN s : s[i] = recs[j]) \/ recs[j].owner \in lost',
         recs' = Append(s, Record(r)), lost \subseteq lost', lost' \subseteq Requests,
         UNCHANGED <<redis, sent, slots, holds, effect>>,
         left' \in [Kinds -> Nat], left'["lease"] <= Quota["lease"],
         left'["lease"] = Quota["lease"] => left["lease"] = Quota["lease"],
         out' \in [Requests -> [by : Requests, code : Codes] \cup {Nil}],
         \A q \in Requests : q # r => out'[q] = out[q],
         \/ Go(r, "run") /\ out'[r] = out[r]
         \/ Go(r, "done") /\ out'[r].by = r
  PROVE  Inv'
<1> USE DEF Inv
<1>1. /\ recs' \in Seq(Entries) /\ UniqueKeys(recs')
      /\ \A i \in DOMAIN recs' : (\E j \in DOMAIN s : recs'[i] = s[j]) \/ recs'[i] = Record(r)
      /\ \A j \in DOMAIN s : \E i \in DOMAIN recs' : recs'[i] = s[j]
      /\ \E i \in DOMAIN recs' : recs'[i] = Record(r)
  BY AppendLemma
<1>2. /\ pc'[r] \in {"run", "done"} /\ \A q \in Requests : q # r => pc'[q] = pc[q]
      /\ pc' \in [Requests -> {"new", "reserve", "run", "finalize", "done", "dead"}]
      /\ pc'[r] = "run" => out'[r] = out[r]
      /\ out'[r] = out[r] \/ out'[r].by = r
  BY MoveLemma
<1>3. Record(r).owner = r /\ Record(r).state = "in_progress"
  BY DEF Record
<1>4. Typed'
  BY <1>1, <1>2, EntriesAreSame DEF Typed
<1>5. Counted'
  BY <1>2, SlotsStay
<1>6. Held(r)' /\ \A q \in Requests : Held(q) => Held(q)' \/ q \in lost'
  <2>1. Held(r)'
    BY <1>1, <1>3 DEF Held
  <2>2. ASSUME NEW q \in Requests, Held(q), q \notin lost' PROVE Held(q)'
    <3>1. PICK j \in DOMAIN recs : recs[j].owner = q
      BY <2>2 DEF Held
    <3>2. PICK i \in DOMAIN s : s[i] = recs[j]
      BY <2>2, <3>1
    <3>3. PICK k \in DOMAIN recs' : recs'[k] = s[i]
      BY <1>1
    <3> QED
      BY <3>1, <3>2, <3>3 DEF Held
  <2> QED
    BY <2>1, <2>2
<1>7. r \notin effect
  BY DEF EffectIsHeld
<1>8. Goes(r)
  BY <1>2, <1>6, <1>7 DEF Goes
<1>9. \A q \in Requests : q # r => Goes(q)
  BY <1>2, <1>6, StillLemma
<1>10. \A i \in DOMAIN recs' :
         \/ \E j \in DOMAIN recs : recs'[i] = recs[j]
         \/ /\ recs'[i].state = "in_progress"
            /\ pc'[recs'[i].owner] \in {"run", "finalize", "done", "dead"}
  BY <1>1, <1>2, <1>3
<1>11. OneRecordPerKey'
  BY <1>1 DEF OneRecordPerKey
<1> QED
  BY <1>4, <1>5, <1>8, <1>9, <1>10, <1>11, CoreLemma

LEMMA UnusedStep ==
  ASSUME Inv, NEW r \in Requests, Reserve(r), Unused(r)
  PROVE  Inv'
<1> USE DEF Inv
<1>1. /\ pc[r] = "reserve" /\ UNCHANGED <<redis, sent, slots, holds, effect, out, left>>
      /\ Go(r, "run") /\ \A i \in DOMAIN recs : recs[i].key # Key(r)
  BY DEF Reserve, Unused, Of
<1>2. /\ out' \in [Requests -> [by : Requests, code : Codes] \cup {Nil}]
      /\ left' \in [Kinds -> Nat] /\ left'["lease"] <= Quota["lease"]
      /\ recs \in Seq(Entries) /\ UniqueKeys(recs) /\ lost \subseteq Requests
  BY <1>1 DEF Typed, Counted, OneRecordPerKey
<1>3. CASE recs' = Append(recs, Record(r)) /\ UNCHANGED lost
  BY <1>1, <1>2, <1>3, ReservedLemma
<1>4. CASE \E oldest \in Completed :
             /\ recs' = Append(RemoveAt(recs, oldest), Record(r))
             /\ lost' = lost \cup {recs[oldest].owner}
  <2>1. PICK oldest \in DOMAIN recs :
             /\ recs' = Append(RemoveAt(recs, oldest), Record(r))
             /\ lost' = lost \cup {recs[oldest].owner}
    BY <1>4 DEF Completed
  <2> DEFINE s == RemoveAt(recs, oldest)
  <2>2. /\ Thinned(recs, s)
        /\ \A j \in DOMAIN recs : j # oldest => \E k \in DOMAIN s : s[k] = recs[j]
    BY <1>2, RemoveLemma
  <2> HIDE DEF s
  <2>3. /\ s \in Seq(Entries) /\ UniqueKeys(s)
        /\ \A i \in DOMAIN s : \E j \in DOMAIN recs : s[i] = recs[j]
    <3>1. s \in Seq(Entries)
      BY <2>2 DEF Thinned
    <3>2. UniqueKeys(s) /\ \A i \in DOMAIN s : \E j \in DOMAIN recs : s[i] = recs[j]
      BY <1>2, <2>2, ThinLemma
    <3> QED
      BY <3>1, <3>2
  <2>4. \A i \in DOMAIN s : s[i].key # Key(r)
    BY <1>1, <2>3
  <2>5. \A j \in DOMAIN recs : (\E i \in DOMAIN s : s[i] = recs[j]) \/ recs[j].owner \in lost'
    BY <2>1, <2>2
  <2>6. recs' = Append(s, Record(r)) /\ lost \subseteq lost' /\ lost' \subseteq Requests
    BY <1>2, <2>1, RecsLemma DEF s
  <2> QED
    BY <1>1, <1>2, <2>3, <2>4, <2>5, <2>6, ReservedLemma
<1> QED
  BY <1>3, <1>4 DEF Unused

LEMMA UnavailableStep ==
  ASSUME Inv, NEW r \in Requests, Reserve(r), Unavailable(r)
  PROVE  Inv'
<1> USE DEF Inv
<1>1. /\ pc[r] = "reserve" /\ UNCHANGED <<redis, sent, slots, holds, effect, lost>>
      /\ Go(r, "done") /\ Answer(r, r, "error") /\ "error" \in Codes
  BY DEF Reserve, Unavailable, Codes
<1>2. /\ out' \in [Requests -> [by : Requests, code : Codes] \cup {Nil}]
      /\ out'[r].by = r /\ \A q \in Requests : q # r => out'[q] = out[q]
  BY <1>1, AnswerLemma
<1>3. /\ left' \in [Kinds -> Nat] /\ left'["lease"] <= Quota["lease"]
      /\ left'["lease"] = Quota["lease"] => left["lease"] = Quota["lease"]
  BY BackendLemma DEF Unavailable, Typed, Counted
<1>4. CASE recs' = recs
  <2>1. /\ pc'[r] = "done" /\ \A q \in Requests : q # r => pc'[q] = pc[q]
        /\ pc' \in [Requests -> {"new", "reserve", "run", "finalize", "done", "dead"}]
    BY <1>1, MoveLemma
  <2>2. Typed'
    BY <1>1, <1>2, <1>3, <1>4, <2>1, EntriesAreSame DEF Typed
  <2>3. Counted'
    BY <1>1, <1>3, <2>1, SlotsStay
  <2>4. \A q \in Requests : Held(q)' <=> Held(q)
    BY <1>1, <1>4, SameRecords
  <2>5. Goes(r)
    BY <1>1, <1>2, <2>1, <2>4 DEF Goes
  <2>6. \A q \in Requests : q # r => Goes(q)
    BY <1>1, <1>2, <2>1, <2>4, StillLemma
  <2> QED
    BY <1>1, <1>4, <2>2, <2>3, <2>5, <2>6, SameRecords, CoreLemma
<1>5. CASE Of(Key(r)) = {} /\ recs' = Append(recs, Record(r))
  <2>1. \A i \in DOMAIN recs : recs[i].key # Key(r)
    BY <1>5 DEF Of
  <2>2. recs \in Seq(Entries) /\ UniqueKeys(recs) /\ lost' \subseteq Requests
    BY <1>1 DEF Typed, OneRecordPerKey
  <2> QED
    BY <1>1, <1>2, <1>3, <1>5, <2>1, <2>2, ReservedLemma
<1> QED
  BY <1>4, <1>5 DEF Unavailable

\* A handler has answered.
LEMMA HandleStep ==
  ASSUME Inv, NEW r \in Requests, Handle(r)
  PROVE  Inv'
<1> USE DEF Inv
<1>1. /\ pc[r] = "run" /\ Go(r, "finalize")
      /\ UNCHANGED <<redis, sent, recs, slots, holds, lost>>
  BY DEF Handle
<1>2. \E c \in {"ok", "refused", "error", "large"} : Answer(r, r, c)
  BY DEF Handle
<1>3. PICK c \in {"ok", "refused", "error", "large"} : Answer(r, r, c)
  BY <1>2
<1>4. c \in Codes
  BY DEF Codes
<1>5. /\ out' \in [Requests -> [by : Requests, code : Codes] \cup {Nil}]
      /\ out'[r] = [by |-> r, code |-> c] /\ \A q \in Requests : q # r => out'[q] = out[q]
  BY <1>3, <1>4, AnswerLemma
<1>6. /\ pc'[r] = "finalize" /\ \A q \in Requests : q # r => pc'[q] = pc[q]
      /\ pc' \in [Requests -> {"new", "reserve", "run", "finalize", "done", "dead"}]
  BY <1>1, MoveLemma
<1>7. effect \subseteq effect' /\ effect' \subseteq effect \cup {r}
  BY DEF Handle
<1>8. /\ left' \in [Kinds -> Nat] /\ left'["lease"] <= Quota["lease"]
      /\ left'["lease"] = Quota["lease"] => left["lease"] = Quota["lease"]
  <2>1. "error" \in Kinds /\ "large" \in Kinds
    BY DEF Kinds
  <2>2. left' = left \/ Spend("error") \/ Spend("large")
    BY DEF Handle
  <2> QED
    BY <2>1, <2>2, SpendLemma DEF Typed, Counted
<1>9. Typed'
  BY <1>1, <1>5, <1>6, <1>7, <1>8, EntriesAreSame DEF Typed
<1>10. Counted'
  BY <1>1, <1>6, <1>8, SlotsStay
<1>11. \A q \in Requests : Held(q)' <=> Held(q)
  BY <1>1, SameRecords
<1>12. Goes(r)
  BY <1>1, <1>5, <1>6, <1>11 DEF Goes
<1>13. \A q \in Requests : q # r => Goes(q)
  BY <1>1, <1>5, <1>6, <1>7, <1>11, StillLemma
<1> QED
  BY <1>1, <1>7, <1>9, <1>10, <1>12, <1>13, SameRecords, CoreLemma

\* What the records are after a reservation is finalized: those of the others,
\* and its own if the answer can be replayed.
Kept(r) == out[r].code \notin {"error", "large"}

LEMMA FinalizedLemma ==
  ASSUME Inv, NEW r \in Requests, recs' \in {recs, Finalized(r)}
  PROVE  /\ recs' \in Seq(Entries) /\ UniqueKeys(recs')
         /\ \A i \in DOMAIN recs' : \/ \E j \in DOMAIN recs : recs'[i] = recs[j]
                                    \/ recs'[i].owner = r /\ Kept(r)
         /\ \A j \in DOMAIN recs : recs[j].owner # r \/ Kept(r) =>
              \E i \in DOMAIN recs' : recs'[i].owner = recs[j].owner
<1> USE DEF Inv
<1>1. recs \in Seq(Entries) /\ UniqueKeys(recs)
  BY DEF Typed, OneRecordPerKey
<1>2. CASE recs' = recs
  BY <1>1, <1>2
<1>3. CASE Kept(r) /\ recs' = CompletedAt(Mine(r))
  <2>1. /\ DOMAIN recs = 1..Len(recs) /\ Len(recs) \in Nat
        /\ \A i \in DOMAIN recs :
             /\ recs[i] \in Entries /\ recs[i].owner \in Requests
             /\ recs[i] = Rec(recs[i].owner, recs[i].state)
    BY RecsLemma
  <2>2. /\ DOMAIN recs' = DOMAIN recs
        /\ \A i \in DOMAIN recs :
             recs'[i] = IF i \in Mine(r) THEN [recs[i] EXCEPT !.state = "completed"] ELSE recs[i]
    BY <1>3 DEF CompletedAt
  <2>3. \A i \in Mine(r) : i \in DOMAIN recs /\ recs[i].owner = r
    BY DEF Mine, Of
  <2>4. ASSUME NEW i \in DOMAIN recs
        PROVE  /\ recs'[i] \in Entries /\ recs'[i].owner = recs[i].owner /\ recs'[i].key = recs[i].key
               /\ recs'[i] = recs[i] \/ recs'[i].owner = r
    <3>1. CASE i \in Mine(r)
      <4>1. recs'[i] = Rec(recs[i].owner, "completed")
        BY <2>1, <2>2, <3>1 DEF Rec
      <4>2. recs[i].owner \in Requests /\ recs[i] = Rec(recs[i].owner, recs[i].state)
        BY <2>1
      <4>3. recs'[i] \in Entries
        BY <4>1, <4>2 DEF Entries
      <4>4. recs'[i].owner = recs[i].owner /\ recs'[i].key = recs[i].key
        BY <4>1, <4>2 DEF Rec
      <4> QED
        BY <2>3, <3>1, <4>3, <4>4
    <3>2. CASE i \notin Mine(r)
      BY <2>1, <2>2, <3>2
    <3> QED
      BY <3>1, <3>2
  <2>5. recs' \in Seq(Entries)
    <3>1. recs' = [i \in 1..Len(recs) |-> recs'[i]]
      BY <2>1, <2>2, <1>3 DEF CompletedAt
    <3>2. recs' \in [1..Len(recs) -> Entries]
      BY <2>1, <2>4, <3>1
    <3> QED
      BY <2>1, <3>2, IsASeq
  <2>6. UniqueKeys(recs')
    BY <1>1, <2>2, <2>4 DEF UniqueKeys
  <2> QED
    BY <1>3, <2>2, <2>4, <2>5, <2>6
<1>4. CASE ~Kept(r) /\ recs' = Dropped(Mine(r)) /\ Mine(r) # {}
  <2> DEFINE i == CHOOSE k \in Mine(r) : TRUE
  <2>1. i \in Mine(r) /\ recs' = RemoveAt(recs, i)
    BY <1>4 DEF Dropped
  <2> HIDE DEF i
  <2>2. i \in DOMAIN recs /\ recs[i].owner = r
    BY <2>1 DEF Mine, Of
  <2>3. /\ Thinned(recs, recs')
        /\ \A j \in DOMAIN recs : j # i => \E k \in DOMAIN recs' : recs'[k] = recs[j]
    BY <1>1, <2>1, <2>2, RemoveLemma
  <2>4. recs' \in Seq(Entries) /\ UniqueKeys(recs') /\ \A k \in DOMAIN recs' : \E j \in DOMAIN recs : recs'[k] = recs[j]
    BY <1>1, <2>3, ThinLemma DEF Thinned
  <2>5. ASSUME NEW j \in DOMAIN recs, recs[j].owner # r
        PROVE  \E k \in DOMAIN recs' : recs'[k].owner = recs[j].owner
    BY <2>2, <2>3, <2>5
  <2> QED
    BY <1>4, <2>4, <2>5
<1>5. recs' = recs \/ (Kept(r) /\ recs' = CompletedAt(Mine(r)))
      \/ (~Kept(r) /\ recs' = Dropped(Mine(r)) /\ Mine(r) # {})
  BY DEF Finalized, Kept, Dropped
<1> QED
  BY <1>2, <1>3, <1>4, <1>5

\* The middleware has finalized a reservation, or failed to.
LEMMA FinalizeStep ==
  ASSUME Inv, NEW r \in Requests, Finalize(r)
  PROVE  Inv'
<1> USE DEF Inv
<1>1. /\ pc[r] = "finalize" /\ Go(r, "done")
      /\ UNCHANGED <<redis, sent, slots, holds, effect, lost>>
  BY DEF Finalize
<1>2. /\ recs' \in {recs, Finalized(r)}
      /\ out' = out \/ (Answer(r, r, "error") /\ recs' = recs)
  BY DEF Finalize
<1>3. out[r] \in [by : {r}, code : {"ok", "refused", "error", "large"}]
  BY <1>1 DEF HandlerAnswered
<1>4. /\ out' \in [Requests -> [by : Requests, code : Codes] \cup {Nil}]
      /\ \A q \in Requests : q # r => out'[q] = out[q]
      /\ out'[r] = out[r] \/ (out'[r] = [by |-> r, code |-> "error"] /\ recs' = recs)
  <2>1. CASE out' = out
    BY <2>1 DEF Typed
  <2>2. CASE Answer(r, r, "error") /\ recs' = recs
    <3>1. "error" \in Codes
      BY DEF Codes
    <3> QED
      BY <2>2, <3>1, AnswerLemma
  <2> QED
    BY <1>2, <2>1, <2>2
<1>5. /\ pc'[r] = "done" /\ \A q \in Requests : q # r => pc'[q] = pc[q]
      /\ pc' \in [Requests -> {"new", "reserve", "run", "finalize", "done", "dead"}]
  BY <1>1, MoveLemma
<1>6. /\ left' \in [Kinds -> Nat] /\ left'["lease"] <= Quota["lease"]
      /\ left'["lease"] = Quota["lease"] => left["lease"] = Quota["lease"]
  <2>1. "lookup" \in Kinds
    BY DEF Kinds
  <2>2. left' = left \/ BackendFails \/ Spend("lookup")
    BY DEF Finalize
  <2> QED
    BY <2>1, <2>2, SpendLemma, BackendLemma DEF Typed, Counted
<1>7. /\ recs' \in Seq(Entries) /\ UniqueKeys(recs')
      /\ \A i \in DOMAIN recs' : \/ \E j \in DOMAIN recs : recs'[i] = recs[j]
                                 \/ recs'[i].owner = r /\ Kept(r)
      /\ \A j \in DOMAIN recs : recs[j].owner # r \/ Kept(r) =>
           \E i \in DOMAIN recs' : recs'[i].owner = recs[j].owner
  BY <1>2, FinalizedLemma
<1>8. Typed'
  BY <1>1, <1>4, <1>5, <1>6, <1>7, EntriesAreSame DEF Typed
<1>9. Counted'
  BY <1>1, <1>5, <1>6, SlotsStay
<1>10. \A q \in Requests : (q # r \/ Kept(r)) /\ Held(q) => Held(q)'
  BY <1>7 DEF Held
<1>11. Goes(r)
  BY <1>1, <1>3, <1>4, <1>5, <1>10 DEF Goes, Kept
<1>12. \A q \in Requests : q # r => Goes(q)
  BY <1>1, <1>4, <1>5, <1>10, StillLemma
<1>13. ASSUME NEW i \in DOMAIN recs', recs'[i].owner = r, Kept(r), recs' # recs PROVE Settled(recs[i].owner)'
  BY <1>3, <1>4, <1>5, <1>13 DEF Settled, Kept
<1>14. \A i \in DOMAIN recs' : \/ \E j \in DOMAIN recs : recs'[i] = recs[j]
                               \/ Settled(recs[i].owner)'
  BY <1>7, <1>13
<1>15. OneRecordPerKey'
  BY <1>7 DEF OneRecordPerKey
<1> QED
  BY <1>1, <1>8, <1>9, <1>11, <1>12, <1>14, <1>15, CoreLemma

\* A slot is given back, or its lease ends.
LEMMA SlotStep ==
  ASSUME Inv, NEW r \in Requests, ReleaseSlot(r) \/ ExpireLease(r)
  PROVE  Inv'
<1> USE DEF Inv
<1>1. /\ UNCHANGED <<redis, sent, recs, pc, out, effect, lost>>
      /\ slots' \in {slots, slots \ {r}} /\ holds' \in {holds, holds \ {r}}
  BY DEF ReleaseSlot, ExpireLease
<1>2. /\ left' \in [Kinds -> Nat] /\ left'["lease"] <= Quota["lease"]
      /\ left'["lease"] = Quota["lease"] =>
           left["lease"] = Quota["lease"] /\ (r \in holds' => slots' = slots)
  <2>1. CASE left' = left /\ ~(r \in holds')
    BY <2>1 DEF Typed, Counted
  <2>2. CASE BackendFails /\ ~(r \in holds')
    BY <2>2, BackendLemma
  <2>3. CASE Spend("lease")
    <3>1. "lease" \in Kinds
      BY DEF Kinds
    <3> QED
      BY <2>3, <3>1, SpendLemma
  <2> QED
    BY <2>1, <2>2, <2>3 DEF ReleaseSlot, ExpireLease
<1>3. slots' \subseteq slots /\ IsFiniteSet(slots') /\ Cardinality(slots') <= Limit
  BY <1>1, FewerSlots
<1>4. Counted'
  <2>1. left'["lease"] = Quota["lease"] => holds' \subseteq slots'
    BY <1>1, <1>2 DEF Counted
  <2>2. \A q \in holds' : pc'[q] \in {"reserve", "run", "finalize", "done"}
    BY <1>1 DEF Counted
  <2> QED
    BY <1>2, <1>3, <2>1, <2>2 DEF Counted
<1>5. Typed'
  BY <1>1, <1>2, EntriesAreSame DEF Typed
<1>6. \A q \in Requests : Held(q)' <=> Held(q)
  BY <1>1, SameRecords
<1>7. \A q \in Requests : Goes(q)
  BY <1>1, <1>6, StillLemma
<1> QED
  BY <1>1, <1>4, <1>5, <1>7, SameRecords, CoreLemma

\* The oldest record reaches the end of its window.
LEMMA ExpireRecordStep ==
  ASSUME Inv, ExpireRecord
  PROVE  Inv'
<1> USE DEF Inv
<1>1. /\ recs # <<>> /\ recs' = Tail(recs) /\ lost' = lost \cup {Head(recs).owner}
      /\ UNCHANGED <<redis, sent, slots, holds, pc, out, effect>> /\ Spend("expire")
  BY DEF ExpireRecord
<1>2. recs \in Seq(Entries) /\ UniqueKeys(recs) /\ DOMAIN recs = 1..Len(recs) /\ Len(recs) \in Nat
  BY RecsLemma DEF Typed, OneRecordPerKey
<1>3. /\ recs' \in Seq(Entries) /\ Len(recs') = Len(recs) - 1
      /\ \A i \in 1..Len(recs') : recs'[i] = recs[i + 1]
      /\ Head(recs) = recs[1]
  BY <1>1, <1>2, HeadTailProperties
<1>4. DOMAIN recs' = 1..Len(recs') /\ 1 \in DOMAIN recs
  <2>1. DOMAIN recs' = 1..Len(recs')
    BY <1>3, LenProperties
  <2>2. Len(recs) # 0
    BY <1>1, <1>2, EmptySeq
  <2> QED
    BY <1>2, <2>1, <2>2
<1>5. \A i \in 1..Len(recs') : i + 1 \in DOMAIN recs
  BY <1>2, <1>3
<1>6. \A j \in DOMAIN recs : j = 1 \/ (j - 1 \in 1..Len(recs') /\ recs'[j - 1] = recs[j])
  BY <1>2, <1>3
<1>7. UniqueKeys(recs')
  <2> SUFFICES ASSUME NEW i \in 1..Len(recs'), NEW j \in 1..Len(recs'), recs'[i].key = recs'[j].key
               PROVE  i = j
    BY <1>4 DEF UniqueKeys
  <2>1. i + 1 = j + 1
    BY <1>2, <1>3, <1>5 DEF UniqueKeys
  <2> QED
    BY <2>1
<1>8. Head(recs).owner \in Requests
  BY <1>3, <1>4, RecsLemma
<1>9. /\ left' \in [Kinds -> Nat] /\ left'["lease"] <= Quota["lease"]
      /\ left'["lease"] = Quota["lease"] => left["lease"] = Quota["lease"]
  <2>1. "expire" \in Kinds
    BY DEF Kinds
  <2> QED
    BY <1>1, <2>1, SpendLemma
<1>10. Typed'
  BY <1>1, <1>3, <1>8, <1>9, EntriesAreSame DEF Typed
<1>11. Counted'
  BY <1>1, <1>9, SlotsStay
<1>12. ASSUME NEW q \in Requests, Held(q), q \notin lost' PROVE Held(q)'
  <2>1. PICK j \in DOMAIN recs : recs[j].owner = q
    BY <1>12 DEF Held
  <2>2. j # 1
    BY <1>1, <1>3, <1>12, <2>1
  <2> QED
    BY <1>4, <1>6, <2>1, <2>2 DEF Held
<1>13. \A q \in Requests : Goes(q)
  BY <1>1, <1>12, StillLemma
<1>14. \A i \in DOMAIN recs' : \E j \in DOMAIN recs : recs'[i] = recs[j]
  BY <1>3, <1>4, <1>5
<1>15. OneRecordPerKey'
  BY <1>7 DEF OneRecordPerKey
<1> QED
  BY <1>1, <1>10, <1>11, <1>13, <1>14, <1>15, CoreLemma

\* A process dies.
LEMMA CrashStep ==
  ASSUME Inv, Crash
  PROVE  Inv'
<1> USE DEF Inv
<1>1. UNCHANGED <<redis, sent, out, effect>> /\ Spend("crash")
  BY DEF Crash
<1>2. PICK D \in SUBSET Running :
        /\ (~redis => D = Running)
        /\ pc' = [r \in Requests |-> IF r \in D THEN "dead" ELSE pc[r]]
        /\ holds' = holds \ D
  BY DEF Crash
<1>3. /\ \A r \in Requests : pc'[r] = IF r \in D THEN "dead" ELSE pc[r]
      /\ \A r \in D : r \in Requests /\ pc[r] # "new"
      /\ pc' \in [Requests -> {"new", "reserve", "run", "finalize", "done", "dead"}]
  BY <1>2 DEF Running, Typed
<1>4. /\ left' \in [Kinds -> Nat] /\ left'["lease"] <= Quota["lease"]
      /\ left'["lease"] = Quota["lease"] => left["lease"] = Quota["lease"]
  <2>1. "crash" \in Kinds
    BY DEF Kinds
  <2> QED
    BY <1>1, <2>1, SpendLemma
<1>5. \/ redis /\ UNCHANGED <<recs, slots, lost>>
      \/ /\ ~redis /\ recs' = <<>> /\ slots' = {}
         /\ lost' = lost \cup {recs[i].owner : i \in DOMAIN recs}
  BY DEF Crash
<1>6. /\ recs' \in Seq(Entries) /\ slots' \subseteq Requests
      /\ lost \subseteq lost' /\ lost' \subseteq Requests
  <2>1. {recs[i].owner : i \in DOMAIN recs} \subseteq Requests
    BY RecsLemma
  <2>2. recs \in Seq(Entries) /\ slots \subseteq Requests /\ lost \subseteq Requests
    BY DEF Typed
  <2>3. <<>> \in Seq(Entries)
    OBVIOUS
  <2>4. recs' \in {recs, <<>>} /\ slots' \in {slots, {}}
        /\ lost' \in {lost, lost \cup {recs[i].owner : i \in DOMAIN recs}}
    BY <1>5
  <2> QED
    BY ONLY <2>1, <2>2, <2>3, <2>4
<1>7. Typed'
  BY <1>1, <1>2, <1>3, <1>4, <1>6, EntriesAreSame DEF Typed
<1>8. Counted'
  <2>1. IsFiniteSet(slots') /\ Cardinality(slots') <= Limit
    <3>1. slots' \subseteq slots
      BY <1>5
    <3> QED
      BY <3>1, FewerSlots
  <2>2. \A r \in holds' : pc'[r] \in {"reserve", "run", "finalize", "done"}
    BY <1>2, <1>3 DEF Counted, Typed
  <2>3. ~redis => holds' = {}
    BY <1>2 DEF Counted, Running, Typed
  <2>4. left'["lease"] = Quota["lease"] => holds' \subseteq slots'
    BY <1>2, <1>4, <1>5, <2>3 DEF Counted
  <2> QED
    BY <1>4, <2>1, <2>2, <2>4 DEF Counted
<1>9. /\ OneRecordPerKey'
      /\ \A i \in DOMAIN recs' : \E j \in DOMAIN recs : recs'[i] = recs[j]
      /\ \A q \in Requests : Held(q) => Held(q)' \/ q \in lost'
  <2>1. CASE recs' = recs
    BY <1>1, <2>1, SameRecords
  <2>2. CASE recs' = <<>> /\ lost' = lost \cup {recs[i].owner : i \in DOMAIN recs}
    <3>1. DOMAIN recs' = {}
      BY <2>2
    <3> QED
      BY <2>2, <3>1 DEF OneRecordPerKey, UniqueKeys, Held
  <2> QED
    BY <1>5, <2>1, <2>2
<1>10. \A q \in Requests : Goes(q)
  BY <1>1, <1>3, <1>9, StillLemma
<1> QED
  BY <1>1, <1>6, <1>7, <1>8, <1>9, <1>10, CoreLemma

-----------------------------------------------------------------------------
(* The theorems.                                                           *)

LEMMA InitLemma == Init => Inv
<1> SUFFICES ASSUME Init PROVE Inv
  OBVIOUS
<1>1. /\ redis \in BOOLEAN /\ sent \in Inputs /\ recs = <<>> /\ slots = {} /\ holds = {}
      /\ pc = [r \in Requests |-> "new"] /\ out = [r \in Requests |-> Nil]
      /\ effect = {} /\ lost = {} /\ left = Quota
  BY BackendsAssumption DEF Init
<1>2. DOMAIN recs = {} /\ recs \in Seq(Entries)
  BY <1>1
<1>3. Typed
  BY <1>1, <1>2, BoundsAssumption DEF Typed
<1>4. Counted
  <2>1. IsFiniteSet({}) /\ Cardinality({}) = 0
    BY FS_EmptySet
  <2>2. Quota["lease"] \in Nat /\ Limit \in Nat
    BY BoundsAssumption DEF Kinds
  <2> QED
    BY <1>1, <2>1, <2>2 DEF Counted
<1>5. OneRecordPerKey /\ RecordIsOfRunner /\ CompletedIsSettled
  BY <1>2 DEF OneRecordPerKey, UniqueKeys, RecordIsOfRunner, CompletedIsSettled
<1>6. ReplayOfSettled /\ HandlerAnswered /\ EffectIsHeld /\ RunnerHolds
  BY <1>1 DEF ReplayOfSettled, HandlerAnswered, EffectIsHeld, RunnerHolds
<1> QED
  BY <1>3, <1>4, <1>5, <1>6 DEF Inv

LEMMA NextLemma == Inv /\ [Next]_vars => Inv'
<1> SUFFICES ASSUME Inv, [Next]_vars PROVE Inv'
  OBVIOUS
<1>1. ASSUME NEW r \in Requests, Acquire(r) PROVE Inv'
  BY <1>1, AcquireStep
<1>2. ASSUME NEW r \in Requests, Reserve(r) PROVE Inv'
  BY <1>2, FoundStep, UnusedStep, UnavailableStep DEF Reserve
<1>3. ASSUME NEW r \in Requests, Handle(r) PROVE Inv'
  BY <1>3, HandleStep
<1>4. ASSUME NEW r \in Requests, Finalize(r) PROVE Inv'
  BY <1>4, FinalizeStep
<1>5. ASSUME NEW r \in Requests, ReleaseSlot(r) \/ ExpireLease(r) PROVE Inv'
  BY <1>5, SlotStep
<1>6. CASE UNCHANGED vars
  <2> USE DEF Inv
  <2>1. Typed' /\ Counted'
    BY <1>6, EntriesAreSame DEF vars, Typed, Counted
  <2>2. \A q \in Requests : Goes(q)
    BY <1>6, StillLemma, SameRecords DEF vars
  <2> QED
    BY <1>6, <2>1, <2>2, SameRecords, CoreLemma DEF vars
<1> QED
  BY <1>1, <1>2, <1>3, <1>4, <1>5, <1>6, ExpireRecordStep, CrashStep DEF Next, Step

LEMMA Invariance == Spec => []Inv
BY InitLemma, NextLemma, PTL DEF Spec

\* The request of a record is found under its own key.
LEMMA HeldIsMine ==
  ASSUME Inv, NEW r \in Requests, Held(r)
  PROVE  Mine(r) # {}
BY RecsLemma DEF Inv, Held, Mine, Of

LEMMA TypeLemma == Inv => TypeOK
<1> SUFFICES ASSUME Inv PROVE TypeOK
  OBVIOUS
<1>1. ASSUME NEW i \in DOMAIN recs
      PROVE  /\ recs[i].owner \in Requests /\ recs[i].state \in {"in_progress", "completed"}
             /\ Of(recs[i].key) = {i}
  BY RecsLemma DEF Inv, OneRecordPerKey, UniqueKeys, Of
<1>2. ASSUME NEW r \in Requests, out[r] # Nil
      PROVE  /\ out[r].by \in Requests
             /\ out[r].code \in {"ok", "refused", "error", "large", "busy", "conflict"}
  BY <1>2 DEF Inv, Typed, Codes
<1> QED
  BY <1>1, <1>2 DEF Inv, Typed, TypeOK

\* A repeated request writes once: of the requests with one key whose record
\* was not dropped, at most one has written, but for the documented
\* exceptions, and every replayed answer is that of a request with the same key
\* and fingerprint that the handler completed (require_idempotent_write,
\* finalize_idempotent_response).
THEOREM ExactlyOnce == Spec => []Idempotent
<1>1. Inv => AtMostOnce
  <2> SUFFICES ASSUME Inv, NEW r \in effect \ lost, NEW q \in effect \ lost, Key(r) = Key(q),
                      \A s \in {r, q} : out[s].code \notin {"error", "large"}
               PROVE  r = q
    BY DEF AtMostOnce
  <2>1. Held(r) /\ Held(q)
    BY DEF Inv, EffectIsHeld
  <2>2. PICK i \in DOMAIN recs, j \in DOMAIN recs : recs[i].owner = r /\ recs[j].owner = q
    BY <2>1 DEF Held
  <2>3. recs[i].key = recs[j].key
    BY <2>2, RecsLemma DEF Inv
  <2> QED
    BY <2>2, <2>3 DEF Inv, OneRecordPerKey, UniqueKeys
<1>2. Inv => ReplayIsFaithful
  <2> SUFFICES ASSUME Inv, NEW r \in Requests, out[r] # Nil, out[r].by # r
               PROVE  /\ Key(out[r].by) = Key(r) /\ Hash(out[r].by) = Hash(r)
                      /\ out[out[r].by] = out[r] /\ out[r].code \in {"ok", "refused"}
    BY DEF ReplayIsFaithful
  <2>1. /\ Key(out[r].by) = Key(r) /\ Hash(out[r].by) = Hash(r)
        /\ Settled(out[r].by) /\ out[out[r].by] = out[r]
    BY DEF Inv, ReplayOfSettled
  <2> QED
    BY <2>1 DEF Settled
<1> QED
  BY <1>1, <1>2, TypeLemma, Invariance, PTL DEF Idempotent

\* What a request has taken is its own until it gives it back: its key, unless
\* the record was dropped, and its slot, so that no more requests are inside
\* than the entitlement allows as long as none outlasts its lease
\* (_complete, _release, acquire_commercial_slot).
THEOREM Reservation == Spec => []KeepsWhatItTook
<1>1. Inv => KeepsReservation
  BY HeldIsMine DEF Inv, RunnerHolds, KeepsReservation
<1>2. Inv => SlotBound
  <2> SUFFICES ASSUME Inv, left["lease"] = Quota["lease"] PROVE Cardinality(holds) <= Limit
    BY DEF SlotBound
  <2>1. holds \subseteq slots
    BY DEF Inv, Counted
  <2> QED
    BY <2>1, FewerSlots DEF Inv
<1> QED
  BY <1>1, <1>2, Invariance, PTL DEF KeepsWhatItTook

-----------------------------------------------------------------------------
(* Deliveries.                                                             *)

\* Where a task can be, and where it is on its way to send.
Places  == {"idle", "take", "sign", "send", "record", "settle", "check", "mark", "deliver", "undo"}
OnWire  == {"sign", "send", "record", "settle"}
Position    == [pc : Places, tries : Nat, base : Nat, success : BOOLEAN]
Records == [Resources -> DeliveryRecord \cup {Absent}]

\* Every variable has its type, and a task that works has something to do.
OnDuty ==
  /\ home \in [Tasks -> Processes] /\ todo \in [Tasks -> Seq(Duty)] /\ task \in [Tasks -> Position]
  /\ mem \in [Processes -> Records] /\ disk \in Records
  /\ accepted \in [Resources -> Nat] /\ spared \subseteq Resources
  /\ \A t \in Tasks : task[t].pc # "idle" => todo[t] # <<>>
  /\ \A t \in Tasks : task[t].pc \in {"sign", "send", "record"} => task[t].tries > 0

\* A task that sends, or retries, has a record, which is not as a restart found it.
HasRecord ==
  \A t \in Tasks :
    \/ task[t].pc \in OnWire \cup {"deliver", "undo"}
    \/ task[t].pc = "take" /\ Manual(t)
    => RecordOf(t) # Absent /\ ~AsFound(home[t], Subject(t))

Senders(p, r) == {t \in Tasks : Sending(t, p, r)}

Numbered(rec)  == \A i \in 1..Len(rec.attempts) : rec.attempts[i].number = i
Failed(rec, n) == \A i \in 1..n : ~rec.attempts[i].success

\* What a sender knows about its record.
Ahead(step, rec) ==
  LET n == Len(rec.attempts) IN
  /\ step.base = n
  /\ step.pc # "settle" => Failed(rec, n)
  /\ step.pc = "settle" => n > 0 /\ Failed(rec, n - 1) /\ rec.attempts[n].success = step.success
  /\ step.pc # "sign" => rec.status = "delivering"
  /\ rec.status = "retrying" => n > 0

\* What is known about a record that is not on its way.
AtRest(rec) ==
  LET n == Len(rec.attempts) IN
  /\ n > 0
  /\ rec.status = "delivered" => rec.attempts[n].success /\ Failed(rec, n - 1)
  /\ rec.status # "delivered" => Failed(rec, n)

Waiting(t, p, r) ==
  todo[t] # <<>> /\ home[t] = p /\ Subject(t) = r /\ task[t].pc \in {"deliver", "take", "undo"}

\* What every record says of its attempts, also the one that a restart found on its way.
Told(rec) ==
  LET n == Len(rec.attempts) IN
  /\ Numbered(rec)
  /\ rec.status \in OnItsWay => Failed(rec, n - 1)
  /\ rec.status = "retrying" => n > 0 /\ Failed(rec, n)
  /\ rec.status \notin OnItsWay => AtRest(rec)

\* A record on its way has one sender, and any other has none.
Carried(p, r) ==
  mem[p][r] # Absent /\ Sound(r) =>
    LET rec == mem[p][r] IN
    /\ Numbered(rec)
    /\ rec.status \in OnItsWay /\ ~AsFound(p, r) => \E t \in Tasks : Senders(p, r) = {t} /\ Ahead(task[t], rec)
    /\ rec.status \in OnItsWay /\ AsFound(p, r) => Senders(p, r) = {} /\ Told(rec)
    /\ rec.status \notin OnItsWay => Senders(p, r) = {} /\ AtRest(rec)
    /\ rec.status = "pending" => AsFound(p, r) \/ \E t \in Tasks : Waiting(t, p, r)

\* The file says what some process knew.
OnFile(r) == disk[r] # Absent /\ Sound(r) => Told(disk[r])

\* The process has heard the receiver say yes, or was restarted when it may have, and each
\* yes was heard by one process.
Heard(p, r) ==
  /\ mem[p][r] # Absent
  /\ \/ mem[p][r].status = "delivered"
     \/ mem[p][r].status \in OnItsWay /\ AsFound(p, r)
     \/ \E t \in Tasks : Sending(t, p, r) /\ task[t].pc \in {"record", "settle"} /\ task[t].success
Hearers(r) == {p \in {home[t] : t \in Tasks} : Heard(p, r)}

DeliveryInv ==
  /\ OnDuty /\ HasRecord
  /\ \A p \in Processes, r \in Resources : Carried(p, r)
  /\ \A r \in Resources : OnFile(r) /\ (Sound(r) => accepted[r] <= Cardinality(Hearers(r)))

\* The invariant says what was promised.
LEMMA DeliveryEnough == DeliveryInv => DeliveriesAreSound
<1> SUFFICES ASSUME DeliveryInv PROVE DeliveriesAreSound
  OBVIOUS
<1> USE DEF DeliveryInv
<1>1. DeliveryTypeOK
  BY DEF DeliveryTypeOK, OnDuty, Records
<1>2. OneSender
  <2> SUFFICES ASSUME NEW p \in Processes, NEW r \in Resources, mem[p][r] # Absent, Sound(r)
               PROVE  LET senders == Cardinality(Senders(p, r))
                      IN /\ mem[p][r].status \in OnItsWay => senders = IF AsFound(p, r) THEN 0 ELSE 1
                         /\ mem[p][r].status \notin OnItsWay => senders = 0
                         /\ mem[p][r].status = "pending" => AsFound(p, r) \/ \E t \in Tasks : Waiting(t, p, r)
    BY DEF OneSender, Senders, Waiting
  <2>1. /\ mem[p][r].status \in OnItsWay /\ ~AsFound(p, r) => \E t \in Tasks : Senders(p, r) = {t}
        /\ mem[p][r].status \in OnItsWay /\ AsFound(p, r) => Senders(p, r) = {}
        /\ mem[p][r].status \notin OnItsWay => Senders(p, r) = {}
        /\ mem[p][r].status = "pending" => AsFound(p, r) \/ \E t \in Tasks : Waiting(t, p, r)
    BY DEF Carried
  <2> QED  BY <2>1, FS_Singleton, FS_EmptySet
<1>3. HistoryIsTrue
  <2> SUFFICES ASSUME NEW p \in Processes, NEW r \in Resources, mem[p][r] # Absent, Sound(r)
               PROVE  LET rec == mem[p][r]
                          n   == Len(rec.attempts)
                      IN /\ \A i \in 1..n : rec.attempts[i].number = i /\ (rec.attempts[i].success => i = n)
                         /\ rec.status = "delivered" => n > 0 /\ rec.attempts[n].success
                         /\ rec.status \in {"retrying", "dead_letter"} => n > 0 /\ ~rec.attempts[n].success
    BY DEF HistoryIsTrue
  <2> DEFINE rec == mem[p][r]
             n == Len(rec.attempts)
  <2>1. rec \in DeliveryRecord /\ n \in Nat
    BY DEF OnDuty, Records, DeliveryRecord
  <2>2. Carried(p, r) /\ Numbered(rec)
    BY DEF Carried
  <2>3. CASE rec.status \in OnItsWay /\ ~AsFound(p, r)
    <3> PICK t \in Tasks : Senders(p, r) = {t} /\ Ahead(task[t], rec)
      BY <2>2, <2>3 DEF Carried
    <3>1. Sending(t, p, r)
      BY DEF Senders
    <3>2. task[t].pc = "settle" => rec.status = "delivering"
      BY DEF Ahead
    <3>3. \A i \in 1..n : rec.attempts[i].success => i = n
      BY <2>1, <3>1 DEF Ahead, Failed
    <3>4. rec.status = "retrying" => n > 0 /\ ~rec.attempts[n].success
      BY <2>1, <3>2 DEF Ahead, Failed
    <3> QED  BY <2>2, <2>3, <3>3, <3>4 DEF Numbered, OnItsWay
  <2>4. CASE rec.status \notin OnItsWay
    <3>1. AtRest(rec)
      BY <2>2, <2>4 DEF Carried
    <3>2. \A i \in 1..n : rec.attempts[i].success => i = n
      BY <2>1, <3>1 DEF AtRest, Failed
    <3>3. rec.status = "delivered" => n > 0 /\ rec.attempts[n].success
      BY <3>1 DEF AtRest
    <3>4. rec.status = "dead_letter" => n > 0 /\ ~rec.attempts[n].success
      BY <2>1, <3>1 DEF AtRest, Failed
    <3> QED  BY <2>2, <2>4, <3>2, <3>3, <3>4 DEF Numbered, OnItsWay
  <2>5. CASE rec.status \in OnItsWay /\ AsFound(p, r)
    <3>1. Failed(rec, n - 1) /\ (rec.status = "retrying" => n > 0 /\ Failed(rec, n))
      BY <2>2, <2>5 DEF Carried, Told
    <3>2. \A i \in 1..n : rec.attempts[i].success => i = n
      BY <2>1, <3>1 DEF Failed
    <3>3. rec.status = "retrying" => n > 0 /\ ~rec.attempts[n].success
      BY <2>1, <3>1 DEF Failed
    <3> QED  BY <2>2, <2>5, <3>2, <3>3 DEF Numbered, OnItsWay
  <2> QED  BY <2>3, <2>4, <2>5
<1>4. AcceptedOnce
  <2> SUFFICES ASSUME NEW r \in Resources, Sound(r)
               PROVE  accepted[r] <= Cardinality({home[t] : t \in Tasks})
    BY DEF AcceptedOnce
  <2>1. {home[t] : t \in Tasks} \subseteq Processes
    BY DEF OnDuty
  <2>2. IsFiniteSet({home[t] : t \in Tasks})
    BY <2>1, FS_Subset, DeliveryAssumption
  <2>3. Hearers(r) \subseteq {home[t] : t \in Tasks}
    BY DEF Hearers
  <2>4. /\ Cardinality(Hearers(r)) <= Cardinality({home[t] : t \in Tasks})
        /\ Cardinality(Hearers(r)) \in Nat /\ Cardinality({home[t] : t \in Tasks}) \in Nat
    BY <2>2, <2>3, FS_Subset, FS_CardinalityType
  <2>5. accepted[r] \in Nat /\ accepted[r] <= Cardinality(Hearers(r))
    BY DEF OnDuty
  <2> QED  BY <2>4, <2>5
<1> QED  BY <1>1, <1>2, <1>3, <1>4 DEF DeliveriesAreSound
-----------------------------------------------------------------------------
\* What a step of one task is made of: where the task goes, and what becomes of its record.
Moved(t) ==
  /\ home' = home /\ todo[t] # <<>>
  /\ \/ Returns(t)
     \/ \E step \in Position : Continues(t, step) /\ (step.pc \in {"sign", "send", "record"} => step.tries > 0)

Stored(t, rec) ==
  /\ Remember(t, rec)
  /\ \/ disk' \in {disk, mem'[home[t]]}
     \/ disk' = [mem[home[t]] EXCEPT ![Subject(t)] = New] /\ Subject(t) \in spared'

SameRecord == UNCHANGED <<mem, disk, found>>

\* The others stay where they are.
Others(t) ==
  /\ home' = home /\ todo[t] # <<>>
  /\ \A o \in Tasks \ {t} : task'[o] = task[o] /\ todo'[o] = todo[o]
  /\ todo'[t] = todo[t] \/ task'[t].pc = "idle"

LEMMA SubjectType ==
  ASSUME OnDuty, NEW t \in Tasks, todo[t] # <<>>
  PROVE  /\ Subject(t) \in Resources /\ home[t] \in Processes
         /\ RecordOf(t) \in DeliveryRecord \cup {Absent}
<1>1. todo[t] \in Seq(Duty) /\ Head(todo[t]) \in Duty
  BY DEF OnDuty
<1> QED  BY <1>1 DEF OnDuty, Duty, Subject, RecordOf, Records

LEMMA MovedType ==
  ASSUME OnDuty, NEW t \in Tasks, Moved(t)
  PROVE  /\ home' \in [Tasks -> Processes] /\ todo' \in [Tasks -> Seq(Duty)] /\ task' \in [Tasks -> Position]
         /\ \A o \in Tasks : task'[o].pc # "idle" => todo'[o] # <<>>
         /\ \A o \in Tasks : task'[o].pc \in {"sign", "send", "record"} => task'[o].tries > 0
         /\ Others(t)
<1>1. Idle \in Position
  BY DEF Idle, Position, Places
<1>2. todo[t] \in Seq(Duty) /\ Tail(todo[t]) \in Seq(Duty)
  BY DEF OnDuty, Moved
<1>3. CASE Returns(t)
  BY <1>1, <1>2, <1>3 DEF OnDuty, Moved, Returns, Others, Idle
<1>4. CASE \E step \in Position : Continues(t, step) /\ (step.pc \in {"sign", "send", "record"} => step.tries > 0)
  BY <1>2, <1>4 DEF OnDuty, Moved, Continues, Others
<1> QED  BY <1>3, <1>4 DEF Moved

LEMMA StoredType ==
  ASSUME OnDuty, NEW t \in Tasks, todo[t] # <<>>,
         NEW p \in Processes, NEW r \in Resources, p = home[t], r = Subject(t),
         SameRecord \/ \E rec \in DeliveryRecord : Stored(t, rec)
  PROVE  /\ mem' \in [Processes -> Records] /\ disk' \in Records
         /\ \A q \in Processes, s \in Resources : ~(q = p /\ s = r) => mem'[q][s] = mem[q][s]
         /\ \A rec \in DeliveryRecord : Stored(t, rec) => mem'[p][r] = rec
         /\ \A q \in Processes, s \in Resources : mem[q][s] # Absent => mem'[q][s] # Absent
         /\ \A q \in Processes, s \in Resources : ~(q = p /\ s = r) => (AsFound(q, s)' <=> AsFound(q, s))
         /\ \A rec \in DeliveryRecord : Stored(t, rec) => ~AsFound(p, r)'
         /\ \A q \in Processes, s \in Resources : AsFound(q, s)' => AsFound(q, s)
         /\ \A s \in Resources : disk'[s] \in {disk[s], mem'[p][s]} \/ ~Sound(s)'
<1>0. New \in DeliveryRecord
  <2>1. <<>> \in Seq([number : Nat, success : BOOLEAN])
    OBVIOUS
  <2> QED  BY <2>1 DEF New, DeliveryRecord, Statuses
<1>7. /\ \A q \in Processes, s \in Resources : ~(q = p /\ s = r) => (AsFound(q, s)' <=> AsFound(q, s))
      /\ \A rec \in DeliveryRecord : Stored(t, rec) => ~AsFound(p, r)'
      /\ \A q \in Processes, s \in Resources : AsFound(q, s)' => AsFound(q, s)
  <2>1. CASE SameRecord
    BY <2>1 DEF SameRecord, AsFound, Stored, Remember
  <2>2. ASSUME NEW rec \in DeliveryRecord, Stored(t, rec)
        PROVE  found' = found \ {<<p, r>>}
    BY <2>2 DEF Stored, Remember
  <2> QED  BY <2>1, <2>2 DEF AsFound
<1>1. CASE SameRecord
  <2>1. \A rec \in DeliveryRecord : Stored(t, rec) => mem'[p][r] = rec
    BY DEF OnDuty, Records, Stored, Remember
  <2> QED  BY <1>1, <1>7, <2>1 DEF OnDuty, SameRecord
<1>2. ASSUME NEW rec \in DeliveryRecord, Stored(t, rec)
      PROVE  /\ mem' \in [Processes -> Records] /\ disk' \in Records
             /\ \A q \in Processes, s \in Resources : ~(q = p /\ s = r) => mem'[q][s] = mem[q][s]
             /\ mem'[p][r] = rec
  <2>1. /\ mem' \in [Processes -> Records]
        /\ \A q \in Processes, s \in Resources : ~(q = p /\ s = r) => mem'[q][s] = mem[q][s]
        /\ mem'[p][r] = rec
    BY <1>2 DEF OnDuty, Records, Stored, Remember
  <2>2. disk' \in Records
    <3>1. disk \in Records /\ mem[p] \in Records /\ mem'[p] \in Records
      BY <2>1 DEF OnDuty
    <3>2. [mem[p] EXCEPT ![r] = New] \in Records
      BY <1>0, <3>1 DEF Records
    <3> QED  BY <1>2, <3>1, <3>2 DEF Stored
  <2> QED  BY <2>1, <2>2
<1>8. \A s \in Resources : disk'[s] \in {disk[s], mem'[p][s]} \/ ~Sound(s)'
  <2>1. CASE SameRecord
    BY <2>1 DEF SameRecord
  <2>2. ASSUME NEW rec \in DeliveryRecord, Stored(t, rec), NEW s \in Resources
        PROVE  disk'[s] \in {disk[s], mem'[p][s]} \/ ~Sound(s)'
    <3>1. CASE disk' \in {disk, mem'[p]}
      BY <3>1
    <3>2. CASE disk' = [mem[p] EXCEPT ![r] = New] /\ r \in spared'
      <4>1. s # r => disk'[s] = mem[p][s] /\ mem'[p][s] = mem[p][s]
        BY <1>2, <2>2, <3>2 DEF OnDuty, Records
      <4> QED  BY <3>2, <4>1 DEF Sound
    <3> QED  BY <2>2, <3>1, <3>2 DEF Stored
  <2> QED  BY <2>1, <2>2
<1>3. Absent \notin DeliveryRecord
  BY DeliveryAssumption
<1>4. \A rec \in DeliveryRecord : Stored(t, rec) => mem'[p][r] = rec
  BY <1>2
<1>5. /\ mem' \in [Processes -> Records] /\ disk' \in Records
      /\ \A q \in Processes, s \in Resources : ~(q = p /\ s = r) => mem'[q][s] = mem[q][s]
  BY <1>1, <1>2
<1>6. \A q \in Processes, s \in Resources : mem[q][s] # Absent => mem'[q][s] # Absent
  <2>1. CASE SameRecord
    BY <2>1 DEF SameRecord
  <2>2. ASSUME NEW rec \in DeliveryRecord, Stored(t, rec)
        PROVE  \A q \in Processes, s \in Resources : mem[q][s] # Absent => mem'[q][s] # Absent
    BY <1>3, <1>4, <1>5, <2>2
  <2> QED  BY <2>1, <2>2
<1> QED  BY <1>4, <1>5, <1>6, <1>7, <1>8

\* What a step of one task needs to keep what is typed, and that its record is there.
LEMMA StepTyped ==
  ASSUME OnDuty, HasRecord, NEW t \in Tasks, Moved(t),
         NEW p \in Processes, NEW r \in Resources, p = home[t], r = Subject(t),
         SameRecord \/ \E rec \in DeliveryRecord : Stored(t, rec),
         spared' \subseteq Resources, accepted' \in [Resources -> Nat],
         \/ task'[t].pc \notin OnWire \cup {"deliver", "undo", "take"}
         \/ mem'[p][r] # Absent /\ ~AsFound(p, r)'
         \/ task'[t].pc = "take" /\ ~Manual(t)
  PROVE  OnDuty' /\ HasRecord'
<1>0. todo[t] # <<>>
  BY DEF Moved
<1>1. OnDuty' /\ Others(t)
  <2>1. mem' \in [Processes -> Records] /\ disk' \in Records
    BY <1>0, StoredType
  <2>2. /\ home' \in [Tasks -> Processes] /\ todo' \in [Tasks -> Seq(Duty)] /\ task' \in [Tasks -> Position]
        /\ \A o \in Tasks : task'[o].pc # "idle" => todo'[o] # <<>>
        /\ \A o \in Tasks : task'[o].pc \in {"sign", "send", "record"} => task'[o].tries > 0
        /\ Others(t)
    BY MovedType
  <2> QED  BY <2>1, <2>2 DEF OnDuty
<1>2. /\ \A q \in Processes, s \in Resources : mem[q][s] # Absent => mem'[q][s] # Absent
      /\ \A q \in Processes, s \in Resources : AsFound(q, s)' => AsFound(q, s)
  BY <1>0, StoredType
<1>3. ASSUME NEW o \in Tasks,
             \/ task'[o].pc \in OnWire \cup {"deliver", "undo"}
             \/ task'[o].pc = "take" /\ Manual(o)'
      PROVE  RecordOf(o)' # Absent /\ ~AsFound(home[o], Subject(o))'
  <2>1. task'[o].pc # "idle" /\ todo'[o] # <<>>
    BY <1>3, <1>1 DEF OnWire, OnDuty
  <2>2. CASE o # t
    <3>1. task'[o] = task[o] /\ todo'[o] = todo[o] /\ home' = home
      BY <1>1, <2>2 DEF Others
    <3>2. Subject(o)' = Subject(o) /\ Manual(o)' = Manual(o)
      BY <3>1 DEF Subject, Manual
    <3>3. RecordOf(o) # Absent /\ ~AsFound(home[o], Subject(o))
      BY <1>3, <3>1, <3>2 DEF HasRecord
    <3>4. Subject(o) \in Resources /\ home[o] \in Processes
      BY <2>1, <3>1, SubjectType
    <3>5. AsFound(home[o], Subject(o))' => AsFound(home[o], Subject(o))
      BY <1>2, <3>1, <3>2, <3>4 DEF AsFound
    <3> QED  BY <1>2, <3>1, <3>2, <3>3, <3>4, <3>5 DEF RecordOf
  <2>3. CASE o = t
    <3>1. todo'[t] = todo[t] /\ home' = home
      BY <1>1, <2>1, <2>3 DEF Others
    <3>2. Subject(t)' = r /\ Manual(t)' = Manual(t) /\ home'[t] = p
      BY <3>1 DEF Subject, Manual
    <3>3. mem'[p][r] # Absent /\ ~AsFound(p, r)'
      BY <1>3, <2>3, <3>2 DEF OnWire
    <3> QED  BY <2>3, <3>2, <3>3 DEF RecordOf, AsFound
  <2> QED  BY <2>2, <2>3
<1> QED  BY <1>1, <1>3 DEF HasRecord

-----------------------------------------------------------------------------
\* A task disturbs only the record it is about.
LEMMA Elsewhere ==
  ASSUME OnDuty, NEW t \in Tasks, Others(t),
         NEW p \in Processes, NEW r \in Resources, ~(p = home[t] /\ r = Subject(t)),
         mem'[p][r] = mem[p][r], AsFound(p, r)' <=> AsFound(p, r)
  PROVE  /\ Heard(p, r)' <=> Heard(p, r)
         /\ spared \subseteq spared' /\ Carried(p, r) => Carried(p, r)'
<1>1. \A o \in Tasks \ {t} : /\ Sending(o, p, r)' <=> Sending(o, p, r)
                             /\ Waiting(o, p, r)' <=> Waiting(o, p, r)
                             /\ task'[o] = task[o]
  BY DEF Others, Sending, Waiting, Subject
<1>2. ~Sending(t, p, r) /\ ~Waiting(t, p, r)
  BY DEF Sending, Waiting
<1>3. ~Sending(t, p, r)' /\ ~Waiting(t, p, r)'
  BY DEF Others, Sending, Waiting, Subject
<1>4. Senders(p, r)' = Senders(p, r)
  BY <1>1, <1>2, <1>3 DEF Senders
<1>5. Heard(p, r)' <=> Heard(p, r)
  BY <1>1, <1>2, <1>3 DEF Heard
<1>6. ASSUME spared \subseteq spared', Carried(p, r) PROVE Carried(p, r)'
  <2> SUFFICES ASSUME mem[p][r] # Absent, r \notin spared'
               PROVE  LET rec == mem[p][r] IN
                      /\ Numbered(rec)
                      /\ rec.status \in OnItsWay /\ ~AsFound(p, r) =>
                           \E o \in Tasks : Senders(p, r)' = {o} /\ Ahead(task'[o], rec)
                      /\ rec.status \in OnItsWay /\ AsFound(p, r) => Senders(p, r)' = {} /\ Told(rec)
                      /\ rec.status \notin OnItsWay => Senders(p, r)' = {} /\ AtRest(rec)
                      /\ rec.status = "pending" => AsFound(p, r) \/ \E o \in Tasks : Waiting(o, p, r)'
    BY DEF Carried, Sound, Ahead
  <2> DEFINE rec == mem[p][r]
  <2>1. /\ Numbered(rec)
        /\ rec.status \in OnItsWay /\ ~AsFound(p, r) =>
             \E o \in Tasks : Senders(p, r) = {o} /\ Ahead(task[o], rec)
        /\ rec.status \in OnItsWay /\ AsFound(p, r) => Senders(p, r) = {} /\ Told(rec)
        /\ rec.status \notin OnItsWay => Senders(p, r) = {} /\ AtRest(rec)
        /\ rec.status = "pending" => AsFound(p, r) \/ \E o \in Tasks : Waiting(o, p, r)
    BY <1>6 DEF Carried, Sound
  <2>2. ASSUME NEW o \in Tasks, Senders(p, r) = {o}, Ahead(task[o], rec)
        PROVE  Senders(p, r)' = {o} /\ Ahead(task'[o], rec)
    <3>1. o # t
      BY <1>2, <2>2 DEF Senders
    <3>2. task'[o] = task[o]
      BY <1>1, <3>1
    <3> QED  BY <1>4, <2>2, <3>2 DEF Ahead
  <2>3. ASSUME NEW o \in Tasks, Waiting(o, p, r) PROVE Waiting(o, p, r)'
    BY <1>1, <1>2, <2>3
  <2> QED  BY <1>4, <2>1, <2>2, <2>3
<1> QED  BY <1>5, <1>6

\* A record that its sender knows says what Told asks of it.
LEMMA AheadTells ==
  ASSUME NEW rec \in DeliveryRecord, NEW step, Ahead(step, rec), Numbered(rec), rec.status \in OnItsWay
  PROVE  Told(rec)
<1>1. Len(rec.attempts) \in Nat
  <2>1. rec.attempts \in Seq([number : Nat, success : BOOLEAN])
    BY DEF DeliveryRecord
  <2> QED  BY <2>1
<1>2. Failed(rec, Len(rec.attempts) - 1)
  BY <1>1 DEF Ahead, Failed
<1>3. rec.status = "retrying" => Len(rec.attempts) > 0 /\ Failed(rec, Len(rec.attempts))
  BY DEF Ahead
<1> QED  BY <1>2, <1>3 DEF Told

\* What is left to show of a step is what becomes of the record it is about.
LEMMA StepKeeps ==
  ASSUME DeliveryInv, NEW t \in Tasks, Moved(t),
         NEW p \in Processes, NEW r \in Resources, p = home[t], r = Subject(t),
         SameRecord \/ \E rec \in DeliveryRecord : Stored(t, rec),
         spared \subseteq spared', spared' \subseteq Resources,
         \/ task'[t].pc \notin OnWire \cup {"deliver", "undo", "take"}
         \/ mem'[p][r] # Absent /\ ~AsFound(p, r)'
         \/ task'[t].pc = "take" /\ ~Manual(t),
         Carried(p, r)',
         \/ accepted' = accepted /\ (Sound(r)' => (Heard(p, r)' <=> Heard(p, r)))
         \/ accepted' = [accepted EXCEPT ![r] = @ + 1] /\ (Sound(r)' => Heard(p, r)' /\ ~Heard(p, r))
  PROVE  DeliveryInv'
<1> USE DEF DeliveryInv
<1>0. todo[t] # <<>> /\ Others(t)
  BY MovedType DEF Moved
<1>1. OnDuty' /\ HasRecord'
  <2>1. accepted' \in [Resources -> Nat]
    <3>1. accepted \in [Resources -> Nat] /\ accepted[r] + 1 \in Nat
      BY DEF OnDuty
    <3> QED  BY <3>1
  <2> QED  BY <2>1, StepTyped
<1>2. /\ \A q \in Processes, s \in Resources : ~(q = p /\ s = r) => mem'[q][s] = mem[q][s]
      /\ \A q \in Processes, s \in Resources : ~(q = p /\ s = r) => (AsFound(q, s)' <=> AsFound(q, s))
      /\ \A s \in Resources : disk'[s] \in {disk[s], mem'[p][s]} \/ ~Sound(s)'
  BY <1>0, StoredType
<1>3. ASSUME NEW q \in Processes, NEW s \in Resources, ~(q = p /\ s = r)
      PROVE  Carried(q, s)' /\ (Heard(q, s)' <=> Heard(q, s))
  BY <1>0, <1>2, <1>3, Elsewhere
<1>4. ASSUME NEW s \in Resources, Sound(s)'
      PROVE  accepted'[s] <= Cardinality(Hearers(s)')
  <2>1. Sound(s) /\ accepted[s] <= Cardinality(Hearers(s)) /\ accepted[s] \in Nat
    BY <1>4 DEF Sound, OnDuty
  <2>2. \A q \in Processes : ~(q = p /\ s = r) => (Heard(q, s)' <=> Heard(q, s))
    BY <1>3
  <2>3. {home[o] : o \in Tasks}' = {home[o] : o \in Tasks}
    BY <1>0 DEF Others
  <2>4. /\ {home[o] : o \in Tasks} \subseteq Processes
        /\ p \in {home[o] : o \in Tasks}
    BY DEF OnDuty
  <2>5. IsFiniteSet(Hearers(s)) /\ Cardinality(Hearers(s)) \in Nat
    <3>1. Hearers(s) \subseteq Processes
      BY <2>4 DEF Hearers
    <3>2. IsFiniteSet(Hearers(s))
      BY <3>1, FS_Subset, DeliveryAssumption
    <3> QED  BY <3>2, FS_CardinalityType
  <2>6. CASE s # r
    <3>1. accepted'[s] = accepted[s]
      BY <2>6 DEF OnDuty
    <3>2. Hearers(s)' = Hearers(s)
      BY <2>2, <2>3, <2>4, <2>6 DEF Hearers
    <3> QED  BY <2>1, <3>1, <3>2
  <2>7. CASE s = r /\ accepted' = accepted /\ (Heard(p, r)' <=> Heard(p, r))
    <3>1. Hearers(s)' = Hearers(s)
      BY <2>2, <2>3, <2>4, <2>7 DEF Hearers
    <3> QED  BY <2>1, <2>7, <3>1
  <2>8. CASE s = r /\ accepted' = [accepted EXCEPT ![r] = @ + 1] /\ Heard(p, r)' /\ ~Heard(p, r)
    <3>1. Hearers(s)' = Hearers(s) \cup {p} /\ p \notin Hearers(s)
      BY <2>2, <2>3, <2>4, <2>8 DEF Hearers
    <3>2. Cardinality(Hearers(s)') = Cardinality(Hearers(s)) + 1
      BY <2>5, <3>1, FS_AddElement
    <3>3. accepted'[s] = accepted[s] + 1
      BY <2>8 DEF OnDuty
    <3> QED  BY <2>1, <2>5, <3>2, <3>3
  <2> QED  BY <1>4, <2>6, <2>7, <2>8
<1>5. \A q \in Processes, s \in Resources : Carried(q, s)'
  BY <1>3
<1>6. ASSUME NEW s \in Resources, disk'[s] # Absent, Sound(s)' PROVE Told(disk'[s])
  <2>1. CASE disk'[s] = disk[s]
    <3>1. Sound(s) /\ OnFile(s)
      BY <1>6 DEF Sound
    <3> QED  BY <1>6, <2>1, <3>1 DEF OnFile
  <2>2. CASE disk'[s] = mem'[p][s]
    <3>1. mem'[p][s] \in DeliveryRecord /\ mem'[p][s] # Absent
      BY <1>1, <1>6, <2>2 DEF OnDuty, Records
    <3>2. PICK rec \in DeliveryRecord : rec = mem'[p][s]
      BY <3>1
    <3>3. Carried(p, s)'
      BY <1>5
    <3>4. /\ Numbered(rec)
          /\ rec.status \in OnItsWay => Told(rec) \/ \E o \in Tasks : Ahead(task'[o], rec)
          /\ rec.status \notin OnItsWay => AtRest(rec)
      BY <1>6, <3>1, <3>2, <3>3 DEF Carried, Ahead
    <3>5. CASE rec.status \in OnItsWay
      BY <2>2, <3>2, <3>4, <3>5, AheadTells
    <3>6. CASE rec.status \notin OnItsWay
      BY <2>2, <3>2, <3>4, <3>6 DEF Told, OnItsWay
    <3> QED  BY <3>5, <3>6
  <2> QED  BY <1>2, <1>6, <2>1, <2>2
<1> QED  BY <1>1, <1>4, <1>5, <1>6 DEF OnFile
-----------------------------------------------------------------------------
\* The record of a task that sends, of one that has nothing to send, and one that stays as it was.
LEMMA SenderKeeps ==
  ASSUME NEW t \in Tasks, Others(t), todo'[t] = todo[t], task'[t].pc \in OnWire,
         NEW p, NEW r, p = home[t], r = Subject(t), Senders(p, r) \subseteq {t},
         NEW rec \in DeliveryRecord, mem'[p][r] = rec, ~AsFound(p, r)',
         Numbered(rec), rec.status \in OnItsWay, Ahead(task'[t], rec)
  PROVE  /\ Carried(p, r)'
         /\ Heard(p, r)' <=> task'[t].pc \in {"record", "settle"} /\ task'[t].success
<1>1. Sending(t, p, r)'
  BY DEF Sending, Subject, OnWire, Others
<1>2. \A o \in Tasks \ {t} : ~Sending(o, p, r)'
  BY DEF Others, Senders, Sending, Subject
<1>3. Senders(p, r)' = {t}
  BY <1>1, <1>2 DEF Senders
<1>4. Heard(p, r)' <=> task'[t].pc \in {"record", "settle"} /\ task'[t].success
  <2>1. rec # Absent /\ rec.status # "delivered"
    BY DeliveryAssumption DEF OnItsWay
  <2> QED  BY <1>1, <1>2, <2>1 DEF Heard
<1>5. Carried(p, r)'
  <2>1. rec.status # "pending"
    BY DEF OnItsWay
  <2>2. \E o \in Tasks : Senders(p, r)' = {o} /\ Ahead(task'[o], rec)
    BY <1>3
  <2> QED  BY <2>1, <2>2 DEF Carried, Ahead
<1> QED  BY <1>4, <1>5

LEMMA RestKeeps ==
  ASSUME NEW t \in Tasks, Others(t), task'[t].pc \notin OnWire,
         NEW p, NEW r, p = home[t], r = Subject(t), Senders(p, r) \subseteq {t},
         NEW rec \in DeliveryRecord, mem'[p][r] = rec,
         Numbered(rec), rec.status \notin OnItsWay, AtRest(rec),
         rec.status = "pending" => \E o \in Tasks : Waiting(o, p, r)'
  PROVE  /\ Carried(p, r)'
         /\ Heard(p, r)' <=> rec.status = "delivered"
<1>1. ~Sending(t, p, r)'
  BY DEF Sending, OnWire
<1>2. \A o \in Tasks \ {t} : ~Sending(o, p, r)'
  BY DEF Others, Senders, Sending, Subject
<1>3. Senders(p, r)' = {}
  BY <1>1, <1>2 DEF Senders
<1>4. Heard(p, r)' <=> rec.status = "delivered"
  <2>1. rec # Absent
    BY DeliveryAssumption
  <2> QED  BY <1>1, <1>2, <2>1 DEF Heard, OnItsWay
<1> QED  BY <1>3, <1>4 DEF Carried, OnItsWay

LEMMA AsideKeeps ==
  ASSUME NEW t \in Tasks, Others(t), task[t].pc \notin OnWire, task'[t].pc \notin OnWire,
         NEW p, NEW r, p = home[t], r = Subject(t), mem'[p][r] = mem[p][r], AsFound(p, r)' <=> AsFound(p, r),
         spared \subseteq spared', Carried(p, r),
         \/ mem[p][r] = Absent
         \/ mem[p][r].status # "pending"
         \/ Waiting(t, p, r) => todo'[t] = todo[t] /\ task'[t].pc \in {"deliver", "take", "undo"}
  PROVE  /\ Carried(p, r)'
         /\ Heard(p, r)' <=> Heard(p, r)
<1>1. \A o \in Tasks \ {t} : /\ Sending(o, p, r)' <=> Sending(o, p, r)
                             /\ Waiting(o, p, r)' <=> Waiting(o, p, r)
                             /\ task'[o] = task[o]
  BY DEF Others, Sending, Waiting, Subject
<1>2. ~Sending(t, p, r) /\ ~Sending(t, p, r)'
  BY DEF Sending, OnWire
<1>3. Senders(p, r)' = Senders(p, r)
  BY <1>1, <1>2 DEF Senders
<1>4. Heard(p, r)' <=> Heard(p, r)
  BY <1>1, <1>2 DEF Heard
<1>5. Carried(p, r)'
  <2> SUFFICES ASSUME mem[p][r] # Absent, r \notin spared'
               PROVE  LET rec == mem[p][r] IN
                      /\ Numbered(rec)
                      /\ rec.status \in OnItsWay /\ ~AsFound(p, r) =>
                           \E o \in Tasks : Senders(p, r)' = {o} /\ Ahead(task'[o], rec)
                      /\ rec.status \in OnItsWay /\ AsFound(p, r) => Senders(p, r)' = {} /\ Told(rec)
                      /\ rec.status \notin OnItsWay => Senders(p, r)' = {} /\ AtRest(rec)
                      /\ rec.status = "pending" => AsFound(p, r) \/ \E o \in Tasks : Waiting(o, p, r)'
    BY DEF Carried, Sound, Ahead
  <2> DEFINE rec == mem[p][r]
  <2>1. /\ Numbered(rec)
        /\ rec.status \in OnItsWay /\ ~AsFound(p, r) =>
             \E o \in Tasks : Senders(p, r) = {o} /\ Ahead(task[o], rec)
        /\ rec.status \in OnItsWay /\ AsFound(p, r) => Senders(p, r) = {} /\ Told(rec)
        /\ rec.status \notin OnItsWay => Senders(p, r) = {} /\ AtRest(rec)
        /\ rec.status = "pending" => AsFound(p, r) \/ \E o \in Tasks : Waiting(o, p, r)
    BY DEF Carried, Sound
  <2>2. ASSUME NEW o \in Tasks, Senders(p, r) = {o}, Ahead(task[o], rec)
        PROVE  Senders(p, r)' = {o} /\ Ahead(task'[o], rec)
    <3>1. o # t
      BY <1>2, <2>2 DEF Senders
    <3>2. task'[o] = task[o]
      BY <1>1, <3>1
    <3> QED  BY <1>3, <2>2, <3>2 DEF Ahead
  <2>3. ASSUME NEW o \in Tasks, Waiting(o, p, r), rec.status = "pending" PROVE Waiting(o, p, r)'
    BY <1>1, <2>3 DEF Waiting, Others, Subject
  <2> QED  BY <1>3, <2>1, <2>2, <2>3
<1> QED  BY <1>4, <1>5

\* A task that fails.
LEMMA FailKeeps ==
  ASSUME DeliveryInv, NEW t \in Tasks, todo[t] # <<>>, home' = home, accepted' = accepted,
         Returns(t) \/ Raises(t), spared' = spared \cup {Subject(t)},
         \/ SameRecord /\ RecordOf(t) # Absent /\ ~AsFound(home[t], Subject(t))
         \/ \E rec \in DeliveryRecord : Stored(t, rec)
  PROVE  DeliveryInv'
<1>0. OnDuty
  BY DEF DeliveryInv
<1> PICK p \in Processes, r \in Resources : p = home[t] /\ r = Subject(t)
  BY <1>0, SubjectType
<1>1. [task[t] EXCEPT !.pc = "undo"] \in Position
  BY <1>0 DEF OnDuty, Position, Places
<1>2. Moved(t) /\ task'[t].pc \in {"idle", "undo"}
  <2>1. CASE Returns(t)
    BY <1>0, <2>1 DEF Moved, Returns, OnDuty, Idle
  <2>2. CASE GoesTo(t, "undo")
    <3>1. task'[t] = [task[t] EXCEPT !.pc = "undo"] /\ task'[t].pc = "undo"
      BY <1>0, <1>1, <2>2 DEF GoesTo, Continues, OnDuty, Position
    <3>2. Moved(t)
      BY <1>1, <2>2, <3>1 DEF Moved, GoesTo
    <3> QED  BY <3>1, <3>2
  <2> QED  BY <2>1, <2>2 DEF Raises
<1>3. mem'[p][r] # Absent /\ ~AsFound(p, r)'
  <2>1. CASE SameRecord /\ RecordOf(t) # Absent /\ ~AsFound(home[t], Subject(t))
    BY <2>1 DEF SameRecord, RecordOf, AsFound
  <2>2. ASSUME NEW rec \in DeliveryRecord, Stored(t, rec) PROVE mem'[p][r] # Absent /\ ~AsFound(p, r)'
    <3>1. mem'[p][r] = rec /\ ~AsFound(p, r)'
      BY <1>0, <2>2, StoredType
    <3> QED  BY <3>1, DeliveryAssumption
  <2> QED  BY <2>1, <2>2
<1>4. Carried(p, r)' /\ ~Sound(r)'
  BY DEF Carried, Sound
<1>5. spared \subseteq spared' /\ spared' \subseteq Resources
  BY <1>0 DEF OnDuty
<1>6. SameRecord \/ \E rec \in DeliveryRecord : Stored(t, rec)
  OBVIOUS
<1> QED  BY <1>2, <1>3, <1>4, <1>5, <1>6, StepKeeps
\* A task that leaves its record alone, and does not send.
LEMMA LeaveKeeps ==
  ASSUME DeliveryInv, NEW t \in Tasks, Moved(t), UNCHANGED <<mem, disk, found, accepted, spared>>,
         task[t].pc \notin OnWire, task'[t].pc \notin OnWire,
         \/ task'[t].pc \notin {"deliver", "undo", "take"}
         \/ RecordOf(t) # Absent /\ ~AsFound(home[t], Subject(t))
         \/ task'[t].pc = "take" /\ ~Manual(t),
         \/ RecordOf(t) = Absent
         \/ RecordOf(t).status # "pending"
         \/ task[t].pc \in {"deliver", "take", "undo"} =>
              todo'[t] = todo[t] /\ task'[t].pc \in {"deliver", "take", "undo"}
  PROVE  DeliveryInv'
<1>0. OnDuty /\ todo[t] # <<>> /\ spared \subseteq Resources
  BY DEF DeliveryInv, Moved, OnDuty
<1> PICK p \in Processes, r \in Resources : p = home[t] /\ r = Subject(t)
  BY <1>0, SubjectType
<1>1. Others(t)
  BY <1>0, MovedType
<1>2. /\ RecordOf(t) = mem[p][r] /\ mem'[p][r] = mem[p][r] /\ Carried(p, r)
      /\ AsFound(p, r)' <=> AsFound(p, r)
  BY DEF RecordOf, DeliveryInv, AsFound
<1>3. Carried(p, r)' /\ (Heard(p, r)' <=> Heard(p, r))
  BY <1>1, <1>2, AsideKeeps DEF Waiting
<1>4. SameRecord /\ accepted' = accepted /\ spared' = spared
  BY DEF SameRecord
<1>5. \/ task'[t].pc \notin OnWire \cup {"deliver", "undo", "take"}
      \/ mem'[p][r] # Absent /\ ~AsFound(p, r)'
      \/ task'[t].pc = "take" /\ ~Manual(t)
  BY <1>2
<1> QED  BY <1>0, <1>3, <1>4, <1>5, StepKeeps

\* Where a task goes when it goes on.
LEMMA GoesLemma ==
  ASSUME OnDuty, NEW t \in Tasks, NEW q \in Places, GoesTo(t, q), home' = home, todo[t] # <<>>,
         q \notin {"sign", "send", "record"} \/ task[t].tries > 0
  PROVE  Moved(t) /\ todo' = todo /\ task'[t] = [task[t] EXCEPT !.pc = q]
<1>1. [task[t] EXCEPT !.pc = q] \in Position /\ [task[t] EXCEPT !.pc = q].tries = task[t].tries
  BY DEF OnDuty, Position
<1>2. [task[t] EXCEPT !.pc = q].pc = q
  BY DEF OnDuty, Position
<1> QED  BY <1>1, <1>2 DEF Moved, GoesTo, Continues, OnDuty

LEMMA ReturnLemma ==
  ASSUME OnDuty, NEW t \in Tasks, Returns(t), home' = home, todo[t] # <<>>
  PROVE  Moved(t) /\ task'[t].pc = "idle"
BY DEF Moved, Returns, OnDuty, Idle

LEMMA BeginKeeps == ASSUME DeliveryInv, NEW t \in Tasks, Begin(t) PROVE DeliveryInv'
<1>0. OnDuty /\ HasRecord /\ todo[t] # <<>> /\ task[t].pc \in {"idle", "deliver"}
  BY DEF DeliveryInv, Begin, At
<1>1. UNCHANGED <<home, mem, disk, found, accepted, spared>> /\ task[t].pc \notin OnWire
  BY <1>0 DEF Begin, OnWire
<1>2. task[t].pc = "deliver" => RecordOf(t) # Absent /\ ~AsFound(home[t], Subject(t))
  BY <1>0 DEF HasRecord
<1>3. CASE GoesTo(t, "take")
  <2>1. Moved(t) /\ todo' = todo /\ task'[t] = [task[t] EXCEPT !.pc = "take"]
    BY <1>0, <1>1, <1>3, GoesLemma DEF Places
  <2>2. task'[t].pc = "take"
    BY <1>0, <2>1 DEF OnDuty, Position
  <2>3. \/ RecordOf(t) # Absent /\ ~AsFound(home[t], Subject(t))
        \/ ~Manual(t)
    BY <1>2 DEF Begin
  <2> QED  BY <1>1, <2>1, <2>2, <2>3, LeaveKeeps DEF OnWire
<1>4. CASE GoesTo(t, "undo") /\ Manual(t)
  <2>1. Moved(t) /\ todo' = todo /\ task'[t] = [task[t] EXCEPT !.pc = "undo"]
    BY <1>0, <1>1, <1>4, GoesLemma DEF Places
  <2>2. task'[t].pc = "undo"
    BY <1>0, <2>1 DEF OnDuty, Position
  <2>3. RecordOf(t) # Absent /\ ~AsFound(home[t], Subject(t))
    BY <1>2, <1>4 DEF Begin
  <2> QED  BY <1>1, <2>1, <2>2, <2>3, LeaveKeeps DEF OnWire
<1>5. CASE Returns(t) /\ ~Manual(t)
  <2>1. Moved(t) /\ task'[t].pc = "idle"
    BY <1>0, <1>1, <1>5, ReturnLemma
  <2>2. task[t].pc \notin {"deliver", "take", "undo"}
    BY <1>0, <1>5 DEF Begin
  <2> QED  BY <1>1, <2>1, <2>2, LeaveKeeps DEF OnWire
<1> QED  BY <1>3, <1>4, <1>5 DEF Begin, Raises

LEMMA RetryLookKeeps == ASSUME DeliveryInv, NEW t \in Tasks, RetryLook(t) \/ RetryCheck(t) PROVE DeliveryInv'
<1>0. OnDuty /\ HasRecord /\ todo[t] # <<>> /\ task[t].pc \in {"idle", "check"}
  BY DEF DeliveryInv, RetryLook, RetryCheck, At
<1>1. UNCHANGED <<home, mem, disk, found, accepted, spared>> /\ task[t].pc \notin OnWire
  BY <1>0 DEF RetryLook, RetryCheck, OnWire
<1>2. CASE Returns(t)
  BY <1>0, <1>1, <1>2, ReturnLemma, LeaveKeeps DEF OnWire
<1>3. ASSUME NEW q \in {"check", "mark"}, GoesTo(t, q) PROVE DeliveryInv'
  <2>1. Moved(t) /\ task'[t] = [task[t] EXCEPT !.pc = q]
    BY <1>0, <1>1, <1>3, GoesLemma DEF Places
  <2>2. task'[t].pc = q
    BY <1>0, <2>1 DEF OnDuty, Position
  <2> QED  BY <1>0, <1>1, <2>1, <2>2, LeaveKeeps DEF OnWire
<1> QED  BY <1>2, <1>3 DEF RetryLook, RetryCheck

-----------------------------------------------------------------------------
\* A sender works alone, and knows its record.
LEMMA SenderKnows ==
  ASSUME DeliveryInv, NEW t \in Tasks, todo[t] # <<>>, task[t].pc \in OnWire,
         NEW p \in Processes, NEW r \in Resources, p = home[t], r = Subject(t), Sound(r)
  PROVE  /\ Senders(p, r) = {t} /\ RecordOf(t) = mem[p][r] /\ mem[p][r] # Absent /\ ~AsFound(p, r)
         /\ Numbered(mem[p][r]) /\ mem[p][r].status \in OnItsWay /\ Ahead(task[t], mem[p][r])
         /\ Heard(p, r) <=> task[t].pc \in {"record", "settle"} /\ task[t].success
<1>1. RecordOf(t) = mem[p][r] /\ mem[p][r] # Absent /\ ~AsFound(p, r)
  BY DEF RecordOf, DeliveryInv, HasRecord
<1>2. t \in Senders(p, r)
  BY DEF Senders, Sending, OnWire
<1>3. Carried(p, r)
  BY DEF DeliveryInv
<1>4. mem[p][r].status \in OnItsWay /\ Numbered(mem[p][r])
  BY <1>1, <1>2, <1>3 DEF Carried
<1>5. Senders(p, r) = {t} /\ Ahead(task[t], mem[p][r])
  BY <1>1, <1>2, <1>3, <1>4 DEF Carried
<1>6. Heard(p, r) <=> task[t].pc \in {"record", "settle"} /\ task[t].success
  <2>1. mem[p][r].status # "delivered"
    BY <1>4 DEF OnItsWay
  <2>2. \A o \in Tasks : Sending(o, p, r) <=> o = t
    BY <1>5 DEF Senders
  <2> QED  BY <1>1, <2>1, <2>2 DEF Heard
<1> QED  BY <1>1, <1>4, <1>5, <1>6


Tells(step) == step.pc \in {"record", "settle"} /\ step.success

\* A step of a sender, or one that makes a sender of a task.
LEMMA SendingKeeps ==
  ASSUME DeliveryInv, NEW t \in Tasks, todo[t] # <<>>, home' = home,
         NEW p \in Processes, NEW r \in Resources, p = home[t], r = Subject(t),
         NEW rec \in DeliveryRecord, Stored(t, rec) \/ (SameRecord /\ mem[p][r] = rec /\ ~AsFound(p, r)),
         NEW step \in Position, Continues(t, step), step.pc \in OnWire,
         step.pc \in {"sign", "send", "record"} => step.tries > 0, spared' = spared,
         Sound(r) => /\ Senders(p, r) \subseteq {t} /\ Numbered(rec)
                     /\ rec.status \in OnItsWay /\ Ahead(step, rec),
         \/ accepted' = accepted /\ (Sound(r) => (Tells(step) <=> Heard(p, r)))
         \/ accepted' = [accepted EXCEPT ![r] = @ + 1] /\ (Sound(r) => Tells(step) /\ ~Heard(p, r))
  PROVE  DeliveryInv'
<1>0. OnDuty /\ spared' \subseteq Resources
  BY DEF DeliveryInv, OnDuty
<1>1. Moved(t) /\ task'[t] = step /\ todo'[t] = todo[t]
  BY <1>0 DEF Moved, Continues, OnDuty
<1>2. mem'[p][r] = rec /\ rec # Absent /\ ~AsFound(p, r)'
  <2>1. CASE Stored(t, rec)
    BY <1>0, <2>1, StoredType, DeliveryAssumption
  <2>2. CASE SameRecord /\ mem[p][r] = rec /\ ~AsFound(p, r)
    BY <2>2, DeliveryAssumption DEF SameRecord, AsFound
  <2> QED  BY <2>1, <2>2
<1>3. Others(t)
  BY <1>0, <1>1, MovedType
<1>4. ASSUME Sound(r)
      PROVE  Carried(p, r)' /\ (Heard(p, r)' <=> Tells(step))
  <2>1. task'[t].pc \in OnWire /\ Ahead(task'[t], rec)
    BY <1>1, <1>4
  <2> QED  BY <1>1, <1>2, <1>3, <1>4, <2>1, SenderKeeps DEF Tells
<1>5. ASSUME ~Sound(r) PROVE Carried(p, r)'
  BY <1>5 DEF Carried, Sound
<1>6. SameRecord \/ \E n \in DeliveryRecord : Stored(t, n)
  OBVIOUS
<1>7. \/ accepted' = accepted /\ (Sound(r)' => (Heard(p, r)' <=> Heard(p, r)))
      \/ accepted' = [accepted EXCEPT ![r] = @ + 1] /\ (Sound(r)' => Heard(p, r)' /\ ~Heard(p, r))
  BY <1>4 DEF Sound
<1>8. Carried(p, r)' /\ mem'[p][r] # Absent /\ ~AsFound(p, r)' /\ spared \subseteq spared'
  BY <1>2, <1>4, <1>5
<1> QED  BY <1>0, <1>1, <1>6, <1>7, <1>8, StepKeeps

LEMMA SignKeeps == ASSUME DeliveryInv, NEW t \in Tasks, Sign(t) PROVE DeliveryInv'
<1>0. OnDuty /\ HasRecord /\ todo[t] # <<>> /\ task[t].pc = "sign" /\ home' = home /\ accepted' = accepted
  BY DEF DeliveryInv, Sign, At
<1> PICK p \in Processes, r \in Resources : p = home[t] /\ r = Subject(t)
  BY <1>0, SubjectType
<1>1. RecordOf(t) = mem[p][r] /\ mem[p][r] \in DeliveryRecord
  BY <1>0, SubjectType DEF RecordOf, HasRecord, OnWire
<1> PICK rec \in DeliveryRecord : rec = [mem[p][r] EXCEPT !.status = "delivering"]
  BY <1>1 DEF DeliveryRecord, Statuses
<1> PICK step \in Position : step = [task[t] EXCEPT !.pc = "send"]
  BY <1>0 DEF OnDuty, Position, Places
<1>2. rec.attempts = mem[p][r].attempts /\ rec.status = "delivering"
  BY <1>1 DEF DeliveryRecord
<1>3. CASE Unsaved(t, rec) /\ Raises(t)
  <2>1. Stored(t, rec) /\ spared' = spared \cup {Subject(t)}
    BY <1>3 DEF Unsaved, Fails, Stored
  <2> QED  BY <1>0, <1>3, <2>1, FailKeeps
<1>4. CASE Saved(t, rec) /\ Continues(t, step)
  <2>1. step.pc = "send" /\ step.tries > 0 /\ step.base = task[t].base
    BY <1>0 DEF OnDuty, Position
  <2>2. Stored(t, rec) /\ spared' = spared
    BY <1>4 DEF Saved, Stored
  <2>3. ASSUME Sound(r)
        PROVE  /\ Senders(p, r) \subseteq {t} /\ Numbered(rec) /\ rec.status \in OnItsWay
               /\ Ahead(step, rec) /\ ~Heard(p, r)
    <3>1. /\ Senders(p, r) = {t} /\ Numbered(mem[p][r]) /\ Ahead(task[t], mem[p][r])
          /\ Heard(p, r) <=> task[t].pc \in {"record", "settle"} /\ task[t].success
      BY <1>0, <2>3, SenderKnows DEF OnWire
    <3>2. Numbered(rec) /\ rec.status \in OnItsWay
      BY <1>2, <3>1 DEF Numbered, OnItsWay
    <3>3. Ahead(step, rec)
      BY <1>0, <1>2, <2>1, <3>1 DEF Ahead, Failed
    <3> QED  BY <1>0, <3>1, <3>2, <3>3
  <2>4. accepted' = accepted /\ (Sound(r) => (Tells(step) <=> Heard(p, r)))
    BY <1>0, <2>1, <2>3 DEF Tells
  <2>5. step.pc \in OnWire /\ (step.pc \in {"sign", "send", "record"} => step.tries > 0)
    BY <2>1 DEF OnWire
  <2>6. Sound(r) => /\ Senders(p, r) \subseteq {t} /\ Numbered(rec)
                    /\ rec.status \in OnItsWay /\ Ahead(step, rec)
    BY <2>3
  <2>7. Continues(t, step)
    BY <1>4
  <2> QED  BY <1>0, <2>2, <2>4, <2>5, <2>6, <2>7, SendingKeeps
<1> QED  BY <1>1, <1>3, <1>4 DEF Sign, Change

LEMMA SendKeeps == ASSUME DeliveryInv, NEW t \in Tasks, Send(t) PROVE DeliveryInv'
<1>0. OnDuty /\ HasRecord /\ todo[t] # <<>> /\ task[t].pc = "send" /\ home' = home /\ SameRecord
  <2>1. UNCHANGED <<home, mem, disk, found>>
    BY DEF Send
  <2> QED  BY <2>1 DEF DeliveryInv, Send, At, SameRecord
<1> PICK p \in Processes, r \in Resources : p = home[t] /\ r = Subject(t)
  BY <1>0, SubjectType
<1>1. RecordOf(t) = mem[p][r] /\ mem[p][r] \in DeliveryRecord /\ RecordOf(t) # Absent /\ ~AsFound(p, r)
  BY <1>0, SubjectType DEF RecordOf, HasRecord, OnWire
<1>2. CASE Raises(t) /\ spared' = spared \cup {Subject(t)} /\ accepted' = accepted
  BY <1>0, <1>1, <1>2, FailKeeps
<1>3. ASSUME NEW yes \in BOOLEAN, spared' = spared,
             accepted' = IF yes THEN [accepted EXCEPT ![Subject(t)] = @ + 1] ELSE accepted,
             Continues(t, [task[t] EXCEPT !.pc = "record", !.success = yes])
      PROVE  DeliveryInv'
  <2> PICK step \in Position : step = [task[t] EXCEPT !.pc = "record", !.success = yes]
    BY <1>0 DEF OnDuty, Position, Places
  <2>1. step.pc = "record" /\ step.tries > 0 /\ step.base = task[t].base /\ step.success = yes
    BY <1>0 DEF OnDuty, Position
  <2>2. ASSUME Sound(r)
        PROVE  /\ Senders(p, r) \subseteq {t} /\ Numbered(mem[p][r]) /\ mem[p][r].status \in OnItsWay
               /\ Ahead(step, mem[p][r]) /\ ~Heard(p, r)
    <3>1. /\ Senders(p, r) = {t} /\ Numbered(mem[p][r]) /\ Ahead(task[t], mem[p][r])
          /\ mem[p][r].status \in OnItsWay
          /\ Heard(p, r) <=> task[t].pc \in {"record", "settle"} /\ task[t].success
      BY <1>0, <2>2, SenderKnows DEF OnWire
    <3>2. Ahead(step, mem[p][r])
      BY <1>0, <2>1, <3>1 DEF Ahead, Failed
    <3> QED  BY <1>0, <3>1, <3>2
  <2>3. Continues(t, step)
    BY <1>3
  <2>4. \/ accepted' = accepted /\ (Sound(r) => (Tells(step) <=> Heard(p, r)))
        \/ accepted' = [accepted EXCEPT ![r] = @ + 1] /\ (Sound(r) => Tells(step) /\ ~Heard(p, r))
    BY <1>3, <2>1, <2>2 DEF Tells
  <2> PICK rec \in DeliveryRecord : rec = mem[p][r]
    BY <1>1
  <2>5. /\ Stored(t, rec) \/ (SameRecord /\ mem[p][r] = rec /\ ~AsFound(p, r))
        /\ step.pc \in OnWire /\ (step.pc \in {"sign", "send", "record"} => step.tries > 0)
        /\ Sound(r) => /\ Senders(p, r) \subseteq {t} /\ Numbered(rec)
                       /\ rec.status \in OnItsWay /\ Ahead(step, rec)
    BY <1>0, <1>1, <2>1, <2>2 DEF OnWire
  <2> QED  BY <1>0, <1>3, <2>3, <2>4, <2>5, SendingKeeps
<1> QED  BY <1>2, <1>3 DEF Send

\* What a sequence holds once an element is put behind the others.
LEMMA AppendHolds ==
  ASSUME NEW S, NEW s \in Seq(S), NEW e \in S
  PROVE  /\ Len(s) \in Nat /\ Len(Append(s, e)) = Len(s) + 1 /\ Append(s, e)[Len(s) + 1] = e
         /\ \A i \in 1..Len(s) : Append(s, e)[i] = s[i]
<1>1. Len(s) \in Nat
  OBVIOUS
<1> QED
  BY <1>1, AppendProperties

LEMMA RecordAttemptKeeps == ASSUME DeliveryInv, NEW t \in Tasks, RecordAttempt(t) PROVE DeliveryInv'
<1>0. OnDuty /\ HasRecord /\ todo[t] # <<>> /\ task[t].pc = "record" /\ home' = home /\ accepted' = accepted
  BY DEF DeliveryInv, RecordAttempt, At
<1> PICK p \in Processes, r \in Resources : p = home[t] /\ r = Subject(t)
  BY <1>0, SubjectType
<1>1. RecordOf(t) = mem[p][r] /\ mem[p][r] \in DeliveryRecord
  BY <1>0, SubjectType DEF RecordOf, HasRecord, OnWire
<1>2. PICK done : done = [number |-> task[t].base + 1, success |-> task[t].success]
  OBVIOUS
<1>3. done \in [number : Nat, success : BOOLEAN] /\ done.number = task[t].base + 1 /\ done.success = task[t].success
  BY <1>0, <1>2 DEF OnDuty, Position
<1>4. mem[p][r].attempts \in Seq([number : Nat, success : BOOLEAN])
  BY <1>1 DEF DeliveryRecord
<1>5. Append(mem[p][r].attempts, done) \in Seq([number : Nat, success : BOOLEAN])
  BY <1>3, <1>4
<1>6. PICK rec \in DeliveryRecord : rec = [mem[p][r] EXCEPT !.attempts = Append(@, done)]
  BY <1>1, <1>5 DEF DeliveryRecord
<1>7. task[t] \in Position /\ task[t].tries - 1 \in Nat /\ task[t].base + 1 \in Nat
  BY <1>0 DEF OnDuty, Position
<1>8. PICK step \in Position : step = [task[t] EXCEPT !.pc = "settle", !.tries = @ - 1, !.base = @ + 1]
  BY <1>7 DEF Position, Places
<1>9. rec.attempts = Append(mem[p][r].attempts, done) /\ rec.status = mem[p][r].status
  BY <1>1, <1>6 DEF DeliveryRecord
<1>10. CASE Unsaved(t, rec) /\ Raises(t)
  <2>1. Stored(t, rec) /\ spared' = spared \cup {Subject(t)}
    BY <1>10 DEF Unsaved, Fails, Stored
  <2> QED  BY <1>0, <1>10, <2>1, FailKeeps
<1>11. CASE Saved(t, rec) /\ Continues(t, step)
  <2>1. step.pc = "settle" /\ step.base = task[t].base + 1 /\ step.success = task[t].success
    BY <1>0, <1>8 DEF OnDuty, Position
  <2>2. Stored(t, rec) /\ spared' = spared
    BY <1>11 DEF Saved, Stored
  <2>3. ASSUME Sound(r)
        PROVE  /\ Senders(p, r) \subseteq {t} /\ Numbered(rec) /\ rec.status \in OnItsWay
               /\ Ahead(step, rec) /\ (Heard(p, r) <=> step.success)
    <3>1. /\ Senders(p, r) = {t} /\ Numbered(mem[p][r]) /\ Ahead(task[t], mem[p][r])
          /\ mem[p][r].status \in OnItsWay
          /\ Heard(p, r) <=> task[t].pc \in {"record", "settle"} /\ task[t].success
      <4>1. task[t].pc \in OnWire /\ todo[t] # <<>>
        BY <1>0 DEF OnWire
      <4> QED  BY <2>3, <4>1, SenderKnows
    <3> DEFINE n == Len(mem[p][r].attempts)
               q == mem[p][r].attempts
               R == [number : Nat, success : BOOLEAN]
    <3>2. q \in Seq(R) /\ done \in R /\ rec.attempts = Append(q, done)
      BY <1>3, <1>4, <1>9
    <3>3. /\ Len(q) \in Nat /\ Len(Append(q, done)) = Len(q) + 1 /\ Append(q, done)[Len(q) + 1] = done
          /\ \A i \in 1..Len(q) : Append(q, done)[i] = q[i]
      <4> HIDE DEF q, R
      <4> QED  BY <3>2, AppendHolds
    <3>4. n \in Nat /\ Len(rec.attempts) = n + 1
      BY <3>2, <3>3
    <3>5. /\ \A i \in 1..n : rec.attempts[i] = mem[p][r].attempts[i]
          /\ rec.attempts[n + 1] = done
      BY <3>2, <3>3
    <3>6. task[t].base = n /\ Failed(mem[p][r], n) /\ mem[p][r].status = "delivering"
      BY <1>0, <3>1 DEF Ahead
    <3>7. Numbered(rec)
      <4>1. done.number = n + 1 /\ \A i \in 1..n : mem[p][r].attempts[i].number = i
        BY <1>3, <3>1, <3>6 DEF Numbered
      <4> HIDE DEF n
      <4>2. ASSUME NEW i \in 1..n + 1 PROVE rec.attempts[i].number = i
        <5>1. CASE i = n + 1
          BY <3>5, <4>1, <5>1
        <5>2. CASE i # n + 1
          <6>1. i \in 1..n
            BY <3>4, <5>2
          <6> QED  BY <3>5, <4>1, <6>1
        <5> QED  BY <5>1, <5>2
      <4> QED  BY <3>4, <4>2 DEF Numbered
    <3>8. Failed(rec, n) /\ rec.attempts[n + 1].success = task[t].success
      BY <1>3, <3>4, <3>5, <3>6 DEF Failed
    <3>9. Ahead(step, rec)
      <4>1. n + 1 > 0 /\ (n + 1) - 1 = n /\ rec.status = "delivering"
        BY <1>9, <3>4, <3>6
      <4>2. step.base = n + 1 /\ step.success = task[t].success /\ step.pc = "settle"
        BY <2>1, <3>6
      <4> HIDE DEF n
      <4> QED  BY <3>4, <3>8, <4>1, <4>2 DEF Ahead
    <3> QED  BY <1>0, <1>9, <2>1, <3>1, <3>7, <3>9
  <2>4. accepted' = accepted /\ (Sound(r) => (Tells(step) <=> Heard(p, r)))
    BY <1>0, <2>1, <2>3 DEF Tells
  <2>5. step.pc \in OnWire /\ (step.pc \in {"sign", "send", "record"} => step.tries > 0)
    BY <2>1 DEF OnWire
  <2>6. Sound(r) => /\ Senders(p, r) \subseteq {t} /\ Numbered(rec)
                    /\ rec.status \in OnItsWay /\ Ahead(step, rec)
    BY <2>3
  <2>7. Continues(t, step)
    BY <1>11
  <2> QED  BY <1>0, <2>2, <2>4, <2>5, <2>6, <2>7, SendingKeeps
<1> QED  BY <1>1, <1>2, <1>6, <1>8, <1>10, <1>11 DEF RecordAttempt, Change

Rests(t, p, r, rec) ==
  /\ Senders(p, r) \subseteq {t} /\ Numbered(rec)
  /\ rec.status \notin OnItsWay /\ AtRest(rec)
  /\ rec.status = "pending" => todo'[t] = todo[t] /\ task'[t].pc = "deliver"
  /\ rec.status = "delivered" <=> Heard(p, r)

\* A step after which a record is not on its way.
LEMMA RestingKeeps ==
  ASSUME DeliveryInv, NEW t \in Tasks, Moved(t),
         NEW p \in Processes, NEW r \in Resources, p = home[t], r = Subject(t),
         NEW rec \in DeliveryRecord, Stored(t, rec), task'[t].pc \notin OnWire,
         accepted' = accepted, spared' = spared,
         Sound(r) => Rests(t, p, r, rec)
  PROVE  DeliveryInv'
<1>0. OnDuty /\ spared' \subseteq Resources /\ todo[t] # <<>>
  BY DEF DeliveryInv, OnDuty, Moved
<1>1. mem'[p][r] = rec /\ rec # Absent /\ ~AsFound(p, r)'
  BY <1>0, StoredType, DeliveryAssumption
<1>2. Others(t)
  BY <1>0, MovedType
<1>3. ASSUME Sound(r) PROVE Carried(p, r)' /\ (Heard(p, r)' <=> Heard(p, r))
  <2>1. rec.status = "pending" => \E o \in Tasks : Waiting(o, p, r)'
    BY <1>0, <1>2, <1>3 DEF Waiting, Subject, Others, Rests
  <2> QED  BY <1>1, <1>2, <1>3, <2>1, RestKeeps DEF Rests
<1>4. ASSUME ~Sound(r) PROVE Carried(p, r)'
  BY <1>4 DEF Carried, Sound
<1>5. Carried(p, r)' /\ (Sound(r)' => (Heard(p, r)' <=> Heard(p, r))) /\ spared \subseteq spared'
  BY <1>3, <1>4 DEF Sound
<1> QED  BY <1>0, <1>1, <1>5, StepKeeps

LEMMA SettleKeeps == ASSUME DeliveryInv, NEW t \in Tasks, Settle(t) PROVE DeliveryInv'
<1>0. OnDuty /\ HasRecord /\ todo[t] # <<>> /\ task[t].pc = "settle" /\ home' = home /\ accepted' = accepted
  BY DEF DeliveryInv, Settle, At
<1> PICK p \in Processes, r \in Resources : p = home[t] /\ r = Subject(t)
  BY <1>0, SubjectType
<1>1. RecordOf(t) = mem[p][r] /\ mem[p][r] \in DeliveryRecord
  BY <1>0, SubjectType DEF RecordOf, HasRecord, OnWire
<1> DEFINE again == ~task[t].success /\ task[t].tries > 0
<1>2. PICK rec \in DeliveryRecord :
       rec = IF task[t].success THEN [mem[p][r] EXCEPT !.status = "delivered", !.reason = Absent]
             ELSE IF again THEN [mem[p][r] EXCEPT !.status = "retrying"]
             ELSE [mem[p][r] EXCEPT !.status = "dead_letter", !.reason = "retry_exhausted"]
  BY <1>1 DEF DeliveryRecord, Statuses
<1>3. /\ rec.attempts = mem[p][r].attempts
      /\ rec.status = IF task[t].success THEN "delivered" ELSE IF again THEN "retrying" ELSE "dead_letter"
  BY <1>1, <1>2 DEF DeliveryRecord
<1>4. mem[p][r].attempts \in Seq([number : Nat, success : BOOLEAN]) /\ task[t].success \in BOOLEAN
  BY <1>0, <1>1 DEF DeliveryRecord, OnDuty, Position
<1>5. ASSUME Sound(r)
      PROVE  /\ Senders(p, r) \subseteq {t} /\ Numbered(rec) /\ (Heard(p, r) <=> task[t].success)
             /\ task[t].base = Len(rec.attempts) /\ Len(rec.attempts) > 0 /\ Len(rec.attempts) \in Nat
             /\ Failed(rec, Len(rec.attempts) - 1)
             /\ rec.attempts[Len(rec.attempts)].success = task[t].success
             /\ ~task[t].success => Failed(rec, Len(rec.attempts))
  <2>1. /\ Senders(p, r) = {t} /\ Numbered(mem[p][r]) /\ Ahead(task[t], mem[p][r])
        /\ Heard(p, r) <=> task[t].pc \in {"record", "settle"} /\ task[t].success
    BY <1>0, <1>5, SenderKnows DEF OnWire
  <2>2. /\ task[t].base = Len(rec.attempts) /\ Len(rec.attempts) > 0
        /\ Failed(rec, Len(rec.attempts) - 1)
        /\ rec.attempts[Len(rec.attempts)].success = task[t].success
    BY <1>0, <1>3, <2>1 DEF Ahead, Failed
  <2>3. Len(rec.attempts) \in Nat
    BY <1>3, <1>4
  <2>4. ~task[t].success => Failed(rec, Len(rec.attempts))
    BY <2>2, <2>3 DEF Failed
  <2> QED  BY <1>0, <1>3, <2>1, <2>2, <2>3, <2>4 DEF Numbered
<1>6. CASE Unsaved(t, rec) /\ Raises(t)
  <2>1. Stored(t, rec) /\ spared' = spared \cup {Subject(t)}
    BY <1>6 DEF Unsaved, Fails, Stored
  <2> QED  BY <1>0, <1>6, <2>1, FailKeeps
<1>7. CASE Saved(t, rec) /\ again /\ GoesTo(t, "sign")
  <2> PICK step \in Position : step = [task[t] EXCEPT !.pc = "sign"]
    BY <1>0 DEF OnDuty, Position, Places
  <2>1. step.pc = "sign" /\ step.tries > 0 /\ step.base = task[t].base
    BY <1>0, <1>7 DEF OnDuty, Position
  <2>2. Stored(t, rec) /\ spared' = spared
    BY <1>7 DEF Saved, Stored
  <2>3. Sound(r) => /\ Senders(p, r) \subseteq {t} /\ Numbered(rec)
                    /\ rec.status \in OnItsWay /\ Ahead(step, rec)
    BY <1>3, <1>5, <1>7, <2>1 DEF Ahead, OnItsWay
  <2>4. accepted' = accepted /\ (Sound(r) => (Tells(step) <=> Heard(p, r)))
    BY <1>0, <1>5, <1>7, <2>1 DEF Tells
  <2>5. step.pc \in OnWire /\ (step.pc \in {"sign", "send", "record"} => step.tries > 0)
    BY <2>1 DEF OnWire
  <2>6. Continues(t, step)
    BY <1>7 DEF GoesTo
  <2> QED  BY <1>0, <2>2, <2>3, <2>4, <2>5, <2>6, SendingKeeps
<1>8. CASE Saved(t, rec) /\ ~again /\ Returns(t)
  <2>1. Moved(t) /\ task'[t].pc \notin OnWire
    BY <1>0, <1>8, ReturnLemma DEF OnWire
  <2>2. Stored(t, rec) /\ spared' = spared
    BY <1>8 DEF Saved, Stored
  <2>3. rec.status = (IF task[t].success THEN "delivered" ELSE "dead_letter")
    BY <1>3, <1>8
  <2>4. Sound(r) => AtRest(rec)
    BY <1>5, <2>3 DEF AtRest
  <2>5. Sound(r) => Rests(t, p, r, rec)
    BY <1>4, <1>5, <2>3, <2>4 DEF OnItsWay, Rests
  <2> QED  BY <1>0, <2>1, <2>2, <2>5, RestingKeeps
<1>9. \/ Saved(t, rec) /\ IF again THEN GoesTo(t, "sign") ELSE Returns(t)
      \/ Unsaved(t, rec) /\ Raises(t)
  BY <1>1, <1>2 DEF Settle
<1> QED  BY <1>6, <1>7, <1>8, <1>9

\* A record that is not on its way has no sender, and says who has heard a yes.
LEMMA RestKnows ==
  ASSUME DeliveryInv, NEW p \in Processes, NEW r \in Resources, Sound(r),
         mem[p][r] = Absent \/ mem[p][r].status \notin OnItsWay
  PROVE  /\ Senders(p, r) = {}
         /\ Heard(p, r) <=> mem[p][r] # Absent /\ mem[p][r].status = "delivered"
         /\ mem[p][r] # Absent => Numbered(mem[p][r]) /\ AtRest(mem[p][r])
<1>1. CASE mem[p][r] = Absent
  <2>1. ASSUME NEW t \in Tasks, Sending(t, p, r) PROVE FALSE
    BY <1>1, <2>1 DEF DeliveryInv, HasRecord, Sending, OnWire, RecordOf
  <2> QED  BY <1>1, <2>1 DEF Senders, Heard
<1>2. CASE mem[p][r] # Absent
  <2>1. Carried(p, r)
    BY DEF DeliveryInv
  <2>2. Senders(p, r) = {} /\ Numbered(mem[p][r]) /\ AtRest(mem[p][r])
    BY <1>2, <2>1 DEF Carried
  <2> QED  BY <1>2, <2>2 DEF Senders, Heard, OnItsWay
<1> QED  BY <1>1, <1>2

LEMMA TakeKeeps == ASSUME DeliveryInv, NEW t \in Tasks, Take(t) PROVE DeliveryInv'
<1>0. OnDuty /\ HasRecord /\ todo[t] # <<>> /\ task[t].pc = "take" /\ home' = home /\ accepted' = accepted
  BY DEF DeliveryInv, Take, At
<1> PICK p \in Processes, r \in Resources : p = home[t] /\ r = Subject(t)
  BY <1>0, SubjectType
<1>1. RecordOf(t) = mem[p][r] /\ mem[p][r] \in DeliveryRecord \cup {Absent}
  BY <1>0, SubjectType DEF RecordOf
<1>2. CASE RecordOf(t) # Absent /\ RecordOf(t).status \in OnItsWay \cup Finished
  <2>1. Returns(t) /\ UNCHANGED <<mem, disk, found, accepted, spared>>
    BY <1>0, <1>2 DEF Take
  <2>2. RecordOf(t).status # "pending"
    BY <1>2 DEF OnItsWay, Finished
  <2>3. Moved(t) /\ task'[t].pc = "idle"
    BY <1>0, <2>1, ReturnLemma
  <2> QED  BY <1>0, <2>1, <2>2, <2>3, LeaveKeeps DEF OnWire
<1>3. CASE ~(RecordOf(t) # Absent /\ RecordOf(t).status \in OnItsWay \cup Finished)
  <2>1. New \in DeliveryRecord /\ New.attempts = <<>>
    <3>1. <<>> \in Seq([number : Nat, success : BOOLEAN])
      OBVIOUS
    <3> QED  BY <3>1 DEF New, DeliveryRecord, Statuses
  <2> PICK old \in DeliveryRecord : old = IF RecordOf(t) = Absent THEN New ELSE RecordOf(t)
    BY <1>1, <2>1
  <2> PICK rec \in DeliveryRecord : rec = [old EXCEPT !.status = "delivering", !.reason = Absent]
    BY DEF DeliveryRecord, Statuses
  <2>2. rec.attempts = old.attempts /\ rec.status = "delivering" /\ Len(old.attempts) \in Nat
    BY DEF DeliveryRecord
  <2>3. task[t] \in Position /\ RetryLimit \in Nat
    BY <1>0, DeliveryAssumption DEF OnDuty
  <2>4. (IF Manual(t) THEN 1 ELSE RetryLimit + 1) \in Nat \ {0}
    BY <2>3
  <2> PICK tries \in Nat \ {0} : tries = IF Manual(t) THEN 1 ELSE RetryLimit + 1
    BY <2>4
  <2> PICK step \in Position : step = [task[t] EXCEPT !.pc = "sign", !.tries = tries, !.base = Len(old.attempts)]
    BY <2>2, <2>3 DEF Position, Places
  <2>5. step.pc = "sign" /\ step.tries > 0 /\ step.base = Len(old.attempts)
    BY <2>3 DEF Position
  <2> PICK file : file = IF RecordOf(t) = Absent THEN [mem[p] EXCEPT ![r] = New] ELSE disk
    OBVIOUS
  <2>6. \/ RecordOf(t) = Absent /\ Unsaved(t, old) /\ Raises(t)
        \/ Fails(t, rec, file) /\ Raises(t)
        \/ Saved(t, rec) /\ Continues(t, step)
    BY <1>3 DEF Take
  <2>7. ASSUME Unsaved(t, old), Raises(t) PROVE DeliveryInv'
    <3>1. Stored(t, old) /\ spared' = spared \cup {Subject(t)}
      BY <2>7 DEF Unsaved, Fails, Stored
    <3> QED  BY <1>0, <2>7, <3>1, FailKeeps
  <2>9. ASSUME Fails(t, rec, file), Raises(t) PROVE DeliveryInv'
    <3>1. Remember(t, rec) /\ disk' = file /\ spared' = spared \cup {Subject(t)}
      BY <2>9 DEF Fails
    <3>2. disk' = disk \/ (disk' = [mem[home[t]] EXCEPT ![Subject(t)] = New] /\ Subject(t) \in spared')
      BY <3>1
    <3>3. Stored(t, rec)
      BY <3>1, <3>2 DEF Stored
    <3> QED  BY <1>0, <2>9, <3>1, <3>3, FailKeeps
  <2>8. CASE Saved(t, rec) /\ Continues(t, step)
    <3>1. Stored(t, rec) /\ spared' = spared
      BY <2>8 DEF Saved, Stored
    <3>2. ASSUME Sound(r)
          PROVE  Senders(p, r) = {} /\ ~Heard(p, r) /\ Numbered(rec) /\ Failed(rec, Len(rec.attempts))
      <4>1. mem[p][r] = Absent \/ mem[p][r].status \notin OnItsWay
        BY <1>1, <1>3
      <4>2. /\ Senders(p, r) = {}
            /\ Heard(p, r) <=> mem[p][r] # Absent /\ mem[p][r].status = "delivered"
            /\ mem[p][r] # Absent => Numbered(mem[p][r]) /\ AtRest(mem[p][r])
        BY <3>2, <4>1, RestKnows
      <4>3. mem[p][r] = Absent \/ mem[p][r].status # "delivered"
        BY <1>1, <1>3 DEF Finished
      <4>4. CASE mem[p][r] = Absent
        BY <1>1, <2>1, <2>2, <4>2, <4>4 DEF Numbered, Failed
      <4>5. CASE mem[p][r] # Absent
        <5>1. old = mem[p][r] /\ Numbered(old) /\ AtRest(old) /\ old.status # "delivered"
          BY <1>1, <4>2, <4>3, <4>5
        <5> QED  BY <2>2, <4>2, <4>3, <5>1 DEF Numbered, Failed, AtRest
      <4> QED  BY <4>4, <4>5
    <3>3. Sound(r) => /\ Senders(p, r) \subseteq {t} /\ Numbered(rec)
                      /\ rec.status \in OnItsWay /\ Ahead(step, rec)
      BY <2>2, <2>5, <3>2 DEF Ahead, OnItsWay
    <3>4. accepted' = accepted /\ (Sound(r) => (Tells(step) <=> Heard(p, r)))
      BY <1>0, <2>5, <3>2 DEF Tells
    <3>5. step.pc \in OnWire /\ (step.pc \in {"sign", "send", "record"} => step.tries > 0)
      BY <2>5 DEF OnWire
    <3>6. Continues(t, step)
      BY <2>8
    <3> QED  BY <1>0, <3>1, <3>3, <3>4, <3>5, <3>6, SendingKeeps
  <2> QED  BY <2>6, <2>7, <2>8, <2>9
<1> QED  BY <1>2, <1>3

LEMMA RetryMarkKeeps == ASSUME DeliveryInv, NEW t \in Tasks, RetryMark(t) PROVE DeliveryInv'
<1>0. OnDuty /\ HasRecord /\ todo[t] # <<>> /\ task[t].pc = "mark" /\ home' = home /\ accepted' = accepted
  BY DEF DeliveryInv, RetryMark, At
<1> PICK p \in Processes, r \in Resources : p = home[t] /\ r = Subject(t)
  BY <1>0, SubjectType
<1>1. RecordOf(t) = mem[p][r] /\ mem[p][r] \in DeliveryRecord \cup {Absent}
  BY <1>0, SubjectType DEF RecordOf
<1>2. CASE ~Retriable(t)
  <2>1. Returns(t) /\ UNCHANGED <<mem, disk, found, accepted, spared>>
    BY <1>0, <1>2 DEF RetryMark
  <2>2. Moved(t) /\ task'[t].pc = "idle"
    BY <1>0, <2>1, ReturnLemma
  <2> QED  BY <1>0, <2>1, <2>2, LeaveKeeps DEF OnWire
<1>3. CASE Retriable(t)
  <2>1. mem[p][r] \in DeliveryRecord /\ mem[p][r] # Absent /\ mem[p][r].status = "dead_letter"
    BY <1>1, <1>3 DEF Retriable
  <2>2. mem[p][r].manual + 1 \in Nat
    BY <2>1 DEF DeliveryRecord
  <2> PICK rec \in DeliveryRecord : rec = [mem[p][r] EXCEPT !.status = "pending", !.reason = Absent, !.manual = @ + 1]
    BY <2>1, <2>2 DEF DeliveryRecord, Statuses
  <2>3. rec.attempts = mem[p][r].attempts /\ rec.status = "pending"
    BY <2>1 DEF DeliveryRecord
  <2>4. CASE Unsaved(t, rec) /\ Returns(t)
    <3>1. Stored(t, rec) /\ spared' = spared \cup {Subject(t)}
      BY <2>4 DEF Unsaved, Fails, Stored
    <3> QED  BY <1>0, <2>4, <3>1, FailKeeps
  <2>5. CASE Saved(t, rec) /\ GoesTo(t, "deliver")
    <3>1. Moved(t) /\ todo' = todo /\ task'[t] = [task[t] EXCEPT !.pc = "deliver"]
      BY <1>0, <2>5, GoesLemma DEF Places
    <3>2. task'[t].pc = "deliver"
      BY <1>0, <3>1 DEF OnDuty, Position
    <3>3. todo'[t] = todo[t] /\ task'[t].pc = "deliver"
      BY <3>1, <3>2
    <3>4. Stored(t, rec) /\ spared' = spared
      BY <2>5 DEF Saved, Stored
    <3>5. ASSUME Sound(r)
          PROVE  Senders(p, r) = {} /\ ~Heard(p, r) /\ Numbered(rec) /\ AtRest(rec)
      <4>1. mem[p][r].status \notin OnItsWay
        BY <2>1 DEF OnItsWay
      <4>2. /\ Senders(p, r) = {}
            /\ Heard(p, r) <=> mem[p][r] # Absent /\ mem[p][r].status = "delivered"
            /\ mem[p][r] # Absent => Numbered(mem[p][r]) /\ AtRest(mem[p][r])
        BY <3>5, <4>1, RestKnows
      <4> QED  BY <2>1, <2>3, <4>2 DEF Numbered, AtRest, Failed
    <3>6. Sound(r) => Rests(t, p, r, rec)
      BY <2>3, <3>3, <3>5 DEF OnItsWay, Rests
    <3>7. task'[t].pc \notin OnWire
      BY <3>2 DEF OnWire
    <3> QED  BY <1>0, <3>1, <3>4, <3>6, <3>7, RestingKeeps
  <2> QED  BY <1>1, <1>3, <2>4, <2>5 DEF RetryMark
<1> QED  BY <1>2, <1>3

LEMMA RetryUndoKeeps == ASSUME DeliveryInv, NEW t \in Tasks, RetryUndo(t) PROVE DeliveryInv'
<1>0. /\ OnDuty /\ HasRecord /\ todo[t] # <<>> /\ task[t].pc = "undo" /\ home' = home /\ accepted' = accepted
      /\ Returns(t) /\ RecordOf(t) # Absent /\ ~AsFound(home[t], Subject(t))
  BY DEF DeliveryInv, RetryUndo, At, HasRecord
<1> PICK p \in Processes, r \in Resources : p = home[t] /\ r = Subject(t)
  BY <1>0, SubjectType
<1>1. RecordOf(t) = mem[p][r] /\ mem[p][r] \in DeliveryRecord
  BY <1>0, SubjectType DEF RecordOf
<1>2. Moved(t) /\ task'[t].pc = "idle"
  BY <1>0, ReturnLemma
<1>3. CASE RecordOf(t).status \notin OnItsWay \cup {"pending"}
  <2>1. UNCHANGED <<mem, disk, found, accepted, spared>>
    BY <1>0, <1>3 DEF RetryUndo
  <2> QED  BY <1>0, <1>2, <1>3, <2>1, LeaveKeeps DEF OnWire
<1>4. CASE RecordOf(t).status \in OnItsWay \cup {"pending"}
  <2> PICK rec \in DeliveryRecord : rec = [mem[p][r] EXCEPT !.status = "dead_letter", !.reason = "manual_retry_setup_failed"]
    BY <1>1 DEF DeliveryRecord, Statuses
  <2>1. rec.attempts = mem[p][r].attempts /\ rec.status = "dead_letter"
    BY <1>1 DEF DeliveryRecord
  <2> DEFINE beside == {s \in {r} : \E o \in Tasks : Sending(o, p, s)}
  <2>2. \/ Remember(t, rec) /\ disk' = mem'[p] /\ spared' = spared \cup beside
        \/ Unsaved(t, rec)
    BY <1>1, <1>4 DEF RetryUndo
  <2>3. Stored(t, rec)
    BY <2>2 DEF Stored, Unsaved, Fails
  <2>4. CASE spared' = spared \cup {r}
    BY <1>0, <2>3, <2>4, FailKeeps
  <2>5. CASE spared' = spared /\ beside = {}
    <3>1. ASSUME Sound(r)
          PROVE  Senders(p, r) = {} /\ ~Heard(p, r) /\ Numbered(rec) /\ AtRest(rec)
      <4>1. Senders(p, r) = {}
        BY <2>5 DEF Senders
      <4>2. Carried(p, r)
        BY DEF DeliveryInv
      <4>3. mem[p][r].status \notin OnItsWay
        BY <1>0, <1>1, <3>1, <4>1, <4>2 DEF Carried
      <4>4. mem[p][r].status = "pending"
        BY <1>1, <1>4, <4>3
      <4>5. /\ Heard(p, r) <=> mem[p][r] # Absent /\ mem[p][r].status = "delivered"
            /\ mem[p][r] # Absent => Numbered(mem[p][r]) /\ AtRest(mem[p][r])
        BY <3>1, <4>3, RestKnows
      <4> QED  BY <1>0, <1>1, <2>1, <4>1, <4>4, <4>5 DEF Numbered, AtRest, Failed
    <3>2. Sound(r) => Rests(t, p, r, rec)
      BY <2>1, <3>1 DEF OnItsWay, Rests
    <3> QED  BY <1>0, <1>2, <2>3, <2>5, <3>2, RestingKeeps DEF OnWire
  <2>6. beside = {} \/ beside = {r}
    OBVIOUS
  <2> QED  BY <2>2, <2>4, <2>5, <2>6 DEF Unsaved, Fails
<1> QED  BY <1>3, <1>4

-----------------------------------------------------------------------------
LEMMA RestartKeeps == ASSUME DeliveryInv, NEW p \in Processes, Restart(p) PROVE DeliveryInv'
<1> USE DEF DeliveryInv
<1>0. /\ home' = home /\ disk' = disk /\ accepted' = accepted
      /\ mem' = [mem EXCEPT ![p] = disk]
      /\ found' = {x \in found : x[1] # p} \cup {<<p, r>> : r \in {r \in Resources : disk[r] # Absent}}
      /\ spared' = spared \cup {r \in Resources : mem[p][r] \notin {Absent, disk[r]}}
      /\ task' = [t \in Tasks |-> IF home[t] = p THEN Idle ELSE task[t]]
      /\ todo' = [t \in Tasks |-> IF home[t] = p /\ todo[t] # <<>> /\ Manual(t) THEN Tail(todo[t]) ELSE todo[t]]
  BY DEF Restart
<1>1. Idle \in Position /\ Idle.pc = "idle"
  BY DEF Idle, Position, Places
<1>2. OnDuty'
  <2>1. task' \in [Tasks -> Position]
    BY <1>0, <1>1 DEF OnDuty
  <2>2. todo' \in [Tasks -> Seq(Duty)]
    <3>1. \A t \in Tasks : todo[t] # <<>> => Tail(todo[t]) \in Seq(Duty)
      BY DEF OnDuty
    <3> QED  BY <1>0, <3>1 DEF OnDuty
  <2>3. mem' \in [Processes -> Records] /\ disk' \in Records
    BY <1>0 DEF OnDuty, Records
  <2>4. spared' \subseteq Resources /\ home' \in [Tasks -> Processes] /\ accepted' \in [Resources -> Nat]
    BY <1>0 DEF OnDuty
  <2>5. \A t \in Tasks : /\ task'[t].pc # "idle" => todo'[t] # <<>>
                         /\ task'[t].pc \in {"sign", "send", "record"} => task'[t].tries > 0
    BY <1>0, <1>1 DEF OnDuty
  <2> QED  BY <2>1, <2>2, <2>3, <2>4, <2>5 DEF OnDuty
<1>3. \A t \in Tasks : home[t] = p => task'[t].pc = "idle"
  BY <1>0, <1>1
<1>4. \A t \in Tasks : home[t] # p => task'[t] = task[t] /\ todo'[t] = todo[t]
  BY <1>0
<1>5. \A q \in Processes, r \in Resources : q # p => mem'[q][r] = mem[q][r]
  BY <1>0 DEF OnDuty
<1>6. \A r \in Resources : /\ mem'[p][r] = disk[r]
                           /\ disk[r] # Absent => AsFound(p, r)'
  BY <1>0 DEF OnDuty, AsFound
<1>11. \A q \in Processes, r \in Resources : q # p => (AsFound(q, r)' <=> AsFound(q, r))
  BY <1>0 DEF AsFound
<1>12. \A r \in Resources : Senders(p, r)' = {}
  BY <1>0, <1>3 DEF Senders, Sending
<1>7. HasRecord'
  <2> SUFFICES ASSUME NEW t \in Tasks,
                      \/ task'[t].pc \in OnWire \cup {"deliver", "undo"}
                      \/ task'[t].pc = "take" /\ Manual(t)'
               PROVE  RecordOf(t)' # Absent /\ ~AsFound(home[t], Subject(t))'
    BY DEF HasRecord
  <2>1. home[t] # p
    BY <1>3 DEF OnWire
  <2>2. task'[t] = task[t] /\ todo'[t] = todo[t] /\ home'[t] = home[t]
    BY <1>0, <1>4, <2>1
  <2>3. Manual(t)' = Manual(t) /\ Subject(t)' = Subject(t)
    BY <2>2 DEF Manual, Subject
  <2>4. task[t].pc # "idle" /\ RecordOf(t) # Absent /\ ~AsFound(home[t], Subject(t))
    BY <2>2, <2>3 DEF HasRecord, OnWire
  <2>5. Subject(t) \in Resources /\ home[t] \in Processes
    BY <2>4, SubjectType DEF OnDuty
  <2>6. AsFound(home[t], Subject(t))' <=> AsFound(home[t], Subject(t))
    BY <1>11, <2>1, <2>2, <2>3, <2>5 DEF AsFound
  <2> QED  BY <1>5, <2>1, <2>2, <2>3, <2>4, <2>5, <2>6 DEF RecordOf
<1>8. ASSUME NEW q \in Processes, NEW r \in Resources, q # p
      PROVE  Carried(q, r)' /\ (Heard(q, r)' <=> Heard(q, r))
  <2>1. \A t \in Tasks : /\ Sending(t, q, r)' <=> Sending(t, q, r)
                         /\ Waiting(t, q, r)' <=> Waiting(t, q, r)
                         /\ Sending(t, q, r) => task'[t] = task[t]
    BY <1>0, <1>4, <1>8 DEF Sending, Waiting, Subject
  <2>2. /\ Senders(q, r)' = Senders(q, r) /\ mem'[q][r] = mem[q][r]
        /\ AsFound(q, r)' <=> AsFound(q, r)
    BY <1>5, <1>8, <1>11, <2>1 DEF Senders
  <2>3. Heard(q, r)' <=> Heard(q, r)
    BY <2>1, <2>2 DEF Heard
  <2>4. Carried(q, r)'
    <3> SUFFICES ASSUME mem[q][r] # Absent, r \notin spared'
                 PROVE  LET rec == mem[q][r] IN
                        /\ Numbered(rec)
                        /\ rec.status \in OnItsWay /\ ~AsFound(q, r) =>
                             \E o \in Tasks : Senders(q, r)' = {o} /\ Ahead(task'[o], rec)
                        /\ rec.status \in OnItsWay /\ AsFound(q, r) => Senders(q, r)' = {} /\ Told(rec)
                        /\ rec.status \notin OnItsWay => Senders(q, r)' = {} /\ AtRest(rec)
                        /\ rec.status = "pending" => AsFound(q, r) \/ \E o \in Tasks : Waiting(o, q, r)'
      BY <2>2 DEF Carried, Sound, Ahead
    <3> DEFINE rec == mem[q][r]
    <3>1. Carried(q, r) /\ r \notin spared
      BY <1>0
    <3>2. /\ Numbered(rec)
          /\ rec.status \in OnItsWay /\ ~AsFound(q, r) =>
               \E o \in Tasks : Senders(q, r) = {o} /\ Ahead(task[o], rec)
          /\ rec.status \in OnItsWay /\ AsFound(q, r) => Senders(q, r) = {} /\ Told(rec)
          /\ rec.status \notin OnItsWay => Senders(q, r) = {} /\ AtRest(rec)
          /\ rec.status = "pending" => AsFound(q, r) \/ \E o \in Tasks : Waiting(o, q, r)
      BY <3>1 DEF Carried, Sound
    <3>3. ASSUME NEW o \in Tasks, Senders(q, r) = {o}, Ahead(task[o], rec)
          PROVE  Senders(q, r)' = {o} /\ Ahead(task'[o], rec)
      BY <2>1, <2>2, <3>3 DEF Senders
    <3> QED  BY <2>1, <2>2, <3>2, <3>3
  <2> QED  BY <2>3, <2>4
<1>9. \A q \in Processes, r \in Resources : Carried(q, r)'
  <2>1. ASSUME NEW r \in Resources, disk[r] # Absent, Sound(r)'
        PROVE  Told(disk[r])
    <3>1. Sound(r) /\ OnFile(r)
      BY <1>0, <2>1 DEF Sound
    <3> QED  BY <2>1, <3>1 DEF OnFile
  <2>2. ASSUME NEW r \in Resources PROVE Carried(p, r)'
    <3> SUFFICES ASSUME disk[r] # Absent, Sound(r)'
                 PROVE  LET rec == disk[r] IN
                        /\ Numbered(rec)
                        /\ rec.status \in OnItsWay => Senders(p, r)' = {} /\ Told(rec)
                        /\ rec.status \notin OnItsWay => Senders(p, r)' = {} /\ AtRest(rec)
      BY <1>6 DEF Carried
    <3> QED  BY <1>12, <2>1 DEF Told
  <2> QED  BY <1>8, <2>2
<1>10. ASSUME NEW r \in Resources, Sound(r)' PROVE accepted'[r] <= Cardinality(Hearers(r)')
  <2>1. Sound(r) /\ (mem[p][r] = Absent \/ mem[p][r] = disk[r])
    BY <1>0, <1>10 DEF Sound
  <2>2. ASSUME Heard(p, r) PROVE Heard(p, r)'
    <3>1. mem[p][r] # Absent /\ mem'[p][r] = mem[p][r] /\ AsFound(p, r)'
      BY <1>6, <2>1, <2>2 DEF Heard
    <3>2. CASE mem[p][r].status \in OnItsWay \/ mem[p][r].status = "delivered"
      BY <3>1, <3>2 DEF Heard
    <3>3. CASE \E t \in Tasks : Sending(t, p, r)
      <4>1. Carried(p, r) /\ Senders(p, r) # {}
        BY <3>3 DEF Senders
      <4>2. mem[p][r].status \in OnItsWay
        BY <2>1, <3>1, <4>1 DEF Carried
      <4> QED  BY <3>2, <4>2
    <3> QED  BY <2>2, <3>2, <3>3 DEF Heard
  <2>3. {home[o] : o \in Tasks}' = {home[o] : o \in Tasks} /\ {home[o] : o \in Tasks} \subseteq Processes
    BY <1>0 DEF OnDuty
  <2>4. Hearers(r) \subseteq Hearers(r)'
    BY <1>8, <2>2, <2>3 DEF Hearers
  <2>5. Hearers(r)' \subseteq Processes
    BY <2>3 DEF Hearers
  <2>6. /\ IsFiniteSet(Hearers(r)') /\ IsFiniteSet(Hearers(r))
        /\ Cardinality(Hearers(r)) <= Cardinality(Hearers(r)')
    BY <2>4, <2>5, FS_Subset, DeliveryAssumption
  <2>7. Cardinality(Hearers(r)) \in Nat /\ Cardinality(Hearers(r)') \in Nat /\ accepted[r] \in Nat
    BY <2>6, FS_CardinalityType DEF OnDuty
  <2>8. accepted'[r] = accepted[r] /\ accepted[r] <= Cardinality(Hearers(r))
    BY <1>0, <2>1
  <2> QED  BY <2>6, <2>7, <2>8
<1>13. \A r \in Resources : OnFile(r)'
  BY <1>0 DEF OnFile, Sound
<1> QED  BY <1>2, <1>7, <1>9, <1>10, <1>13

LEMMA DeliveryStutters ==
  ASSUME DeliveryInv, UNCHANGED <<home, mem, disk, found, todo, task, accepted, spared>>
  PROVE  DeliveryInv'
<1> USE DEF DeliveryInv
<1>1. OnDuty' /\ HasRecord'
  BY DEF OnDuty, HasRecord, RecordOf, Subject, Manual, AsFound
<1>2. ASSUME NEW p \in Processes, NEW r \in Resources
      PROVE  Carried(p, r)' /\ (Heard(p, r)' <=> Heard(p, r))
  <2>1. \A t \in Tasks : /\ Sending(t, p, r)' <=> Sending(t, p, r)
                         /\ Waiting(t, p, r)' <=> Waiting(t, p, r)
    BY DEF Sending, Waiting, Subject
  <2>2. Senders(p, r)' = Senders(p, r) /\ (Sound(r)' <=> Sound(r))
    BY <2>1 DEF Senders, Sound
  <2>3. Heard(p, r)' <=> Heard(p, r)
    BY <2>1 DEF Heard, AsFound
  <2>4. Carried(p, r)
    OBVIOUS
  <2>5. Carried(p, r)'
    BY <2>1, <2>2, <2>4 DEF Carried, AsFound, Ahead, Told
  <2> QED  BY <2>3, <2>5
<1>3. ASSUME NEW r \in Resources, Sound(r)' PROVE accepted'[r] <= Cardinality(Hearers(r)')
  <2>1. {home[o] : o \in Tasks} \subseteq Processes
    BY DEF OnDuty
  <2>2. Hearers(r)' = Hearers(r)
    BY <1>2, <2>1 DEF Hearers
  <2> QED  BY <1>3, <2>2 DEF Sound
<1>4. \A r \in Resources : OnFile(r)'
  BY DEF OnFile, Sound
<1> QED  BY <1>1, <1>2, <1>3, <1>4

LEMMA DeliveryStarts == DeliveryInit => DeliveryInv
<1> SUFFICES ASSUME DeliveryInit PROVE DeliveryInv
  OBVIOUS
<1>1. Idle \in Position /\ Idle.pc = "idle"
  BY DEF Idle, Position, Places
<1>2. PICK s \in Scenes : home = s.home /\ todo = s.todo
  BY DEF DeliveryInit
<1>3. OnDuty
  BY <1>1, <1>2, DeliveryAssumption DEF DeliveryInit, OnDuty, Records
<1>4. HasRecord
  BY <1>1 DEF DeliveryInit, HasRecord, OnWire
<1>5. \A p \in Processes, r \in Resources : mem[p][r] = Absent
  BY DEF DeliveryInit
<1>6. \A r \in Resources : accepted[r] <= Cardinality(Hearers(r))
  <2>1. \A r \in Resources : Hearers(r) = {}
    BY <1>3, <1>5 DEF Hearers, Heard, OnDuty
  <2>2. Cardinality({}) = 0 /\ \A r \in Resources : accepted[r] = 0
    BY FS_EmptySet DEF DeliveryInit
  <2> QED  BY <2>1, <2>2
<1>7. \A r \in Resources : OnFile(r)
  BY DEF DeliveryInit, OnFile
<1> QED  BY <1>3, <1>4, <1>5, <1>6, <1>7 DEF DeliveryInv, Carried

\* A delivery has one sender, its record tells what happened, and a receiver that has
\* accepted it is not asked again, for any number of processes, tasks, jobs, retries by hand
\* and failures (deliver_webhook_event, retry_webhook_delivery).
THEOREM Announced == DeliverySpec => []DeliveriesAreSound
<1>1. DeliveryInit => DeliveryInv
  BY DeliveryStarts
<1>2. DeliveryInv /\ [DeliveryNext]_deliveryVars => DeliveryInv'
  <2> SUFFICES ASSUME DeliveryInv, [DeliveryNext]_deliveryVars PROVE DeliveryInv'
    OBVIOUS
  <2>1. CASE UNCHANGED deliveryVars \/ HookChanges
    BY <2>1, DeliveryStutters DEF deliveryVars, HookChanges
  <2>2. CASE \E p \in Processes : Restart(p)
    BY <2>2, RestartKeeps
  <2>3. ASSUME NEW t \in Tasks,
               \/ Begin(t) \/ Take(t) \/ Sign(t) \/ Send(t) \/ RecordAttempt(t) \/ Settle(t)
               \/ RetryLook(t) \/ RetryCheck(t) \/ RetryMark(t) \/ RetryUndo(t)
        PROVE  DeliveryInv'
    BY <2>3, BeginKeeps, TakeKeeps, SignKeeps, SendKeeps, RecordAttemptKeeps, SettleKeeps,
       RetryLookKeeps, RetryMarkKeeps, RetryUndoKeeps
  <2> QED  BY <2>1, <2>2, <2>3 DEF DeliveryNext
<1>3. DeliveryInv => DeliveriesAreSound
  BY DeliveryEnough
<1> QED  BY <1>1, <1>2, <1>3, PTL DEF DeliverySpec
=============================================================================
