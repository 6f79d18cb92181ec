------------------------- MODULE EntitlementsProofs -------------------------
(***************************************************************************)
(* Proofs about Entitlements, for any terms, dates, statuses and bounds.   *)
(*                                                                         *)
(* Every operation is a chain of changes of a book, so the invariant is    *)
(* stated of a book: the active entitlement is the current one, and a      *)
(* roll-back target is older than what would be rolled back to it.  Between *)
(* marking the current entitlement and restoring its target a book has no  *)
(* active one (Restore starts there), and what an operation hands on keeps *)
(* what had ended (Keeps).  The copies that calls hold are of earlier books *)
(* and profiles, so that what holds of these holds of what a roll back      *)
(* leaves, and what had ended in all of them has ended in the next one.     *)
(***************************************************************************)
EXTENDS Entitlements, SequenceTheorems, WellFoundedInduction, TLAPS

Typed(b) ==
  /\ b \in [ents : Seq(Entitlement), cur : Nat]
  /\ \A i \in DOMAIN b.ents : b.ents[i].target < i
  /\ b.cur \in 0..Len(b.ents)

Actives(b) == {i \in DOMAIN b.ents : b.ents[i].status = "active"}

Sound(b) == Typed(b) /\ Actives(b) = {b.cur} \ {0}

\* What had ended in b has ended in the same way in c.
Keeps(b, c) ==
  /\ DOMAIN b.ents \subseteq DOMAIN c.ents
  /\ \A i \in DOMAIN b.ents :
       b.ents[i].status \in {"revoked", "expired"} => c.ents[i].status = b.ents[i].status

EntStatuses == {"pending", "active", "superseded", "revoked", "expired"}

-----------------------------------------------------------------------------
(* The least element of a set of numbers, without which the choice of the  *)
(* winner could be of anything.                                            *)

Less == {p \in Nat \X Nat : p[1] < p[2]}

LEMMA LessIsWellFounded == IsWellFoundedOn(Less, Nat)
BY NatLessThanWellFounded DEF OpToRel, Less

LEMMA LeastNatural ==
  ASSUME NEW T, T \subseteq Nat, T # {}
  PROVE  \E n \in T : \A m \in T : n <= m
<1>1. PICK n \in T : \A m \in T : ~ (<<m, n>> \in Less)
  BY LessIsWellFounded, WFMin
<1>2. ASSUME NEW m \in T PROVE n <= m
  <2>1. m \in Nat /\ n \in Nat
    OBVIOUS
  <2>2. ~(m < n)
    BY <1>1, <2>1 DEF Less
  <2> QED
    BY <2>1, <2>2
<1> QED
  BY <1>2

\* Of the entitlements that are ready one starts last, and of those one is the
\* newest: the winner is one of them.
LEMMA WinnerLemma ==
  ASSUME NEW b, Typed(b), now \in Nat, Ready(b) # {}
  PROVE  Winner(b) \in Ready(b)
<1>1. ASSUME NEW i \in Ready(b)
      PROVE  /\ i \in Nat /\ i <= Len(b.ents) /\ Len(b.ents) \in Nat
             /\ b.ents[i].starts \in Int /\ b.ents[i].starts <= now
  <2>1. b.ents \in Seq(Entitlement) /\ i \in DOMAIN b.ents /\ b.ents[i].starts <= now
    BY DEF Typed, Ready, Due
  <2>2. DOMAIN b.ents = 1..Len(b.ents) /\ Len(b.ents) \in Nat /\ b.ents[i] \in Entitlement
    BY <2>1, LenProperties, ElementOfSeq
  <2>3. i \in Nat /\ i <= Len(b.ents)
    BY <2>1, <2>2
  <2>4. b.ents[i].starts \in Int
    BY <2>2 DEF Entitlement
  <2> QED
    BY <2>1, <2>2, <2>3, <2>4
<1>2. PICK i \in Ready(b) : \A j \in Ready(b) : b.ents[j].starts <= b.ents[i].starts
  <2> DEFINE T == {now - b.ents[i].starts : i \in Ready(b)}
  <2>1. T \subseteq Nat /\ T # {}
    BY <1>1
  <2>2. PICK n \in T : \A m \in T : n <= m
    BY <2>1, LeastNatural
  <2>3. PICK i \in Ready(b) : n = now - b.ents[i].starts
    OBVIOUS
  <2>4. ASSUME NEW j \in Ready(b) PROVE b.ents[j].starts <= b.ents[i].starts
    <3>1. n <= now - b.ents[j].starts
      BY <2>2
    <3>2. b.ents[i].starts \in Int /\ b.ents[j].starts \in Int /\ now \in Nat
      BY <1>1
    <3> HIDE DEF T
    <3> QED
      BY <2>3, <3>1, <3>2
  <2> QED
    BY <2>4
<1>3. PICK w \in Ready(b) :
        /\ b.ents[w].starts = b.ents[i].starts
        /\ \A j \in Ready(b) : b.ents[j].starts = b.ents[i].starts => j <= w
  <2> DEFINE L == {j \in Ready(b) : b.ents[j].starts = b.ents[i].starts}
             T == {Len(b.ents) - j : j \in L}
  <2>1. T \subseteq Nat /\ T # {}
    BY <1>1
  <2>2. PICK n \in T : \A m \in T : n <= m
    BY <2>1, LeastNatural
  <2>3. PICK w \in L : n = Len(b.ents) - w
    OBVIOUS
  <2>4. ASSUME NEW j \in L PROVE j <= w
    <3>1. n <= Len(b.ents) - j
      BY <2>2
    <3> QED
      BY <1>1, <2>3, <3>1
  <2> QED
    BY <2>4
<1>4. \A j \in Ready(b) : \/ b.ents[j].starts < b.ents[w].starts
                          \/ b.ents[j].starts = b.ents[w].starts /\ j <= w
  BY <1>1, <1>2, <1>3
<1> QED
  BY <1>4 DEF Winner

-----------------------------------------------------------------------------
(* The changes of a book.                                                  *)

LEMMA KeepsLemma ==
  ASSUME NEW b, NEW c, NEW d, Keeps(b, c), Keeps(c, d)
  PROVE  Keeps(b, d)
BY DEF Keeps

LEMMA BookLemma ==
  ASSUME NEW b, Typed(b)
  PROVE  /\ Len(b.ents) \in Nat /\ DOMAIN b.ents = 1..Len(b.ents)
         /\ b = [ents |-> b.ents, cur |-> b.cur]
         /\ \A i \in DOMAIN b.ents :
              /\ b.ents[i] \in Entitlement /\ i \in Nat
              /\ b.ents[i].target \in 0..(i - 1)
              /\ b.ents[i].target # 0 => b.ents[i].target \in DOMAIN b.ents
<1>1. /\ Len(b.ents) \in Nat /\ DOMAIN b.ents = 1..Len(b.ents)
      /\ \A i \in DOMAIN b.ents : b.ents[i] \in Entitlement /\ b.ents[i].target < i
  BY LenProperties, ElementOfSeq DEF Typed
<1>2. \A i \in DOMAIN b.ents : i \in Nat /\ b.ents[i].target \in Nat
  BY <1>1 DEF Entitlement
<1> QED
  BY <1>1, <1>2 DEF Typed

LEMMA MarkLemma ==
  ASSUME NEW b, Typed(b), NEW i \in DOMAIN b.ents, NEW s \in EntStatuses
  PROVE  /\ Typed(Mark(b, i, s)) /\ Mark(b, i, s).cur = b.cur
         /\ DOMAIN Mark(b, i, s).ents = DOMAIN b.ents
         /\ Mark(b, i, s).ents[i].status = s
         /\ \A j \in DOMAIN b.ents :
              /\ j # i => Mark(b, i, s).ents[j] = b.ents[j]
              /\ Mark(b, i, s).ents[j].target = b.ents[j].target
<1> DEFINE e == [b.ents[i] EXCEPT !.status = s]
           es == [b.ents EXCEPT ![i] = e]
<1>1. Mark(b, i, s) = [b EXCEPT !.ents = es]
  BY DEF Mark
<1>2. e \in Entitlement /\ e.status = s /\ e.target = b.ents[i].target
  BY BookLemma DEF Entitlement, EntStatuses
<1>3. /\ es \in Seq(Entitlement) /\ Len(es) = Len(b.ents) /\ DOMAIN es = DOMAIN b.ents
      /\ \A j \in DOMAIN b.ents : es[j] = IF j = i THEN e ELSE b.ents[j]
  BY <1>2, BookLemma, ExceptSeq DEF Typed
<1> HIDE DEF e, es
<1>4. Mark(b, i, s).ents = es /\ Mark(b, i, s).cur = b.cur
      /\ Mark(b, i, s) \in [ents : Seq(Entitlement), cur : Nat]
  BY <1>1, <1>3 DEF Typed
<1> QED
  BY <1>2, <1>3, <1>4 DEF Typed

\* The roll-back target is activated only when nothing else is active.
LEMMA RestoreLemma ==
  ASSUME NEW b, Typed(b), Actives(b) = {}, NEW i \in DOMAIN b.ents
  PROVE  Sound(Restore(b, i)) /\ Keeps(b, Restore(b, i))
<1> DEFINE t == b.ents[i].target
<1>1. CASE Usable(b, t)
  <2>1. t # 0 /\ t \in DOMAIN b.ents /\ t \in 1..Len(b.ents) /\ t \in Nat
    BY <1>1, BookLemma DEF Usable
  <2>2. b.ents[t].status \notin {"revoked", "expired"}
    BY <1>1 DEF Usable
  <2> DEFINE m == Mark(b, t, "active")
  <2>3. /\ Typed(m) /\ DOMAIN m.ents = DOMAIN b.ents /\ m.ents[t].status = "active"
        /\ \A j \in DOMAIN b.ents : j # t => m.ents[j] = b.ents[j]
    BY <2>1, MarkLemma DEF EntStatuses
  <2>4. Restore(b, i) = [m EXCEPT !.cur = t]
    BY <1>1 DEF Restore
  <2> HIDE DEF m, t
  <2>5. /\ Restore(b, i) \in [ents : Seq(Entitlement), cur : Nat]
        /\ Restore(b, i).ents = m.ents /\ Restore(b, i).cur = t
    BY <2>1, <2>3, <2>4 DEF Typed
  <2>6. Len(m.ents) = Len(b.ents)
    BY <2>3, BookLemma
  <2>7. Typed(Restore(b, i))
    BY <2>1, <2>3, <2>5, <2>6 DEF Typed
  <2>8. Actives(Restore(b, i)) = {t}
    BY <2>1, <2>3, <2>5 DEF Actives
  <2> QED
    BY <2>1, <2>2, <2>3, <2>5, <2>7, <2>8 DEF Sound, Keeps
<1>2. CASE ~Usable(b, t)
  <2>1. Restore(b, i) = [b EXCEPT !.cur = 0]
    BY <1>2 DEF Restore
  <2>2. /\ Restore(b, i) \in [ents : Seq(Entitlement), cur : Nat]
        /\ Restore(b, i).ents = b.ents /\ Restore(b, i).cur = 0
    BY <2>1 DEF Typed
  <2> QED
    BY <2>2, BookLemma DEF Typed, Sound, Actives, Keeps
<1> QED
  BY <1>1, <1>2

LEMMA ExpireLemma ==
  ASSUME NEW b, Sound(b)
  PROVE  Sound(Expire(b)) /\ Keeps(b, Expire(b))
<1>1. CASE b.cur # 0 /\ Lapsed(b.ents[b.cur])
  <2> DEFINE m == Mark(b, b.cur, "expired")
  <2>1. b.cur \in DOMAIN b.ents /\ b.ents[b.cur].status = "active"
    BY <1>1, BookLemma DEF Sound, Typed, Lapsed
  <2>2. /\ Typed(m) /\ DOMAIN m.ents = DOMAIN b.ents /\ m.ents[b.cur].status = "expired"
        /\ \A j \in DOMAIN b.ents : j # b.cur => m.ents[j] = b.ents[j]
    BY <2>1, MarkLemma DEF EntStatuses, Sound
  <2>3. Expire(b) = Restore(m, b.cur)
    BY <1>1 DEF Expire
  <2> HIDE DEF m
  <2>4. Actives(m) = {}
    BY <2>1, <2>2 DEF Actives, Sound
  <2>5. Sound(Expire(b)) /\ Keeps(m, Expire(b))
    BY <2>1, <2>2, <2>3, <2>4, RestoreLemma
  <2>6. Keeps(b, m)
    BY <2>1, <2>2 DEF Keeps
  <2> QED
    BY <2>5, <2>6, KeepsLemma
<1>2. CASE ~(b.cur # 0 /\ Lapsed(b.ents[b.cur]))
  BY <1>2 DEF Expire, Keeps
<1> QED
  BY <1>1, <1>2

LEMMA ActivateLemma ==
  ASSUME NEW b, Sound(b), now \in Nat
  PROVE  Sound(Activate(b)) /\ Keeps(b, Activate(b))
<1> DEFINE new(i) == IF i \in Missed(b) THEN "expired"
                     ELSE IF Ready(b) # {} /\ i = Winner(b) THEN "active"
                     ELSE IF Passed(b, i) THEN "superseded" ELSE b.ents[i].status
           es == [i \in DOMAIN b.ents |-> [b.ents[i] EXCEPT !.status = new(i)]]
           c == IF Ready(b) = {} THEN b.cur ELSE Winner(b)
<1>1. Activate(b) = [ents |-> es, cur |-> c]
  BY DEF Activate
<1>2. \A i \in DOMAIN b.ents :
        /\ [b.ents[i] EXCEPT !.status = new(i)] \in Entitlement
        /\ [b.ents[i] EXCEPT !.status = new(i)].status = new(i)
        /\ [b.ents[i] EXCEPT !.status = new(i)].target = b.ents[i].target
  <2> TAKE i \in DOMAIN b.ents
  <2>1. b.ents[i] \in Entitlement
    BY BookLemma DEF Sound
  <2>2. new(i) \in EntStatuses
    BY <2>1 DEF Entitlement, EntStatuses
  <2> HIDE DEF new
  <2> QED
    BY <2>1, <2>2 DEF Entitlement, EntStatuses
<1>3. /\ Ready(b) \subseteq DOMAIN b.ents
      /\ \A i \in Ready(b) \cup Missed(b) : b.ents[i].status = "pending" /\ i \in DOMAIN b.ents
      /\ Ready(b) \cap Missed(b) = {}
  BY DEF Ready, Missed, Due
<1>4. Ready(b) # {} => Winner(b) \in Ready(b)
  BY WinnerLemma DEF Sound
<1>5. DOMAIN es = DOMAIN b.ents /\ \A i \in DOMAIN b.ents :
        es[i] \in Entitlement /\ es[i].status = new(i) /\ es[i].target = b.ents[i].target
  BY <1>2
<1>6. es \in Seq(Entitlement) /\ Len(es) = Len(b.ents)
  <2>1. DOMAIN b.ents = 1..Len(b.ents) /\ Len(b.ents) \in Nat
    BY BookLemma DEF Sound
  <2>2. es \in [1..Len(b.ents) -> Entitlement]
    BY <1>2, <2>1
  <2>3. es \in Seq(Entitlement)
    BY <2>1, <2>2, SeqDef
  <2>4. DOMAIN es = 1..Len(es) /\ Len(es) \in Nat
    BY <2>3, LenProperties
  <2> HIDE DEF es
  <2> QED
    BY <1>5, <2>1, <2>3, <2>4
<1>7. c \in 0..Len(b.ents)
  BY <1>3, <1>4, BookLemma DEF Sound, Typed
<1> HIDE DEF es, c
<1>8. Activate(b).ents = es /\ Activate(b).cur = c /\ c \in Nat
  BY <1>1, <1>7, BookLemma DEF Sound
<1>9. Typed(Activate(b))
  BY <1>1, <1>5, <1>6, <1>7, <1>8, BookLemma DEF Sound, Typed
<1>10. \A i \in DOMAIN b.ents : b.ents[i].status = "active" <=> i = b.cur
  BY BookLemma DEF Sound, Typed, Actives
<1>11. Actives(Activate(b)) = {c} \ {0}
  <2>0. Actives(Activate(b)) = {i \in DOMAIN b.ents : new(i) = "active"}
    BY <1>5, <1>8 DEF Actives
  <2>1. CASE Ready(b) = {}
    <3>1. \A i \in DOMAIN b.ents : ~Passed(b, i)
      BY <2>1 DEF Passed
    <3>2. \A i \in DOMAIN b.ents : new(i) = "active" <=> b.ents[i].status = "active"
      BY <1>3, <2>1, <3>1
    <3>3. c = b.cur
      BY <2>1 DEF c
    <3> HIDE DEF new
    <3> QED
      BY <2>0, <3>2, <3>3 DEF Sound, Actives
  <2>2. CASE Ready(b) # {}
    <3>1. Winner(b) \in DOMAIN b.ents /\ Winner(b) \notin Missed(b) /\ Winner(b) # 0
      BY <1>3, <1>4, <2>2, BookLemma DEF Sound
    <3>2. new(Winner(b)) = "active"
      BY <2>2, <3>1
    <3>3. \A i \in DOMAIN b.ents : i # Winner(b) => new(i) # "active"
      BY <1>10, <2>2 DEF Passed
    <3>4. c = Winner(b)
      BY <2>2 DEF c
    <3> HIDE DEF new
    <3> QED
      BY <2>0, <3>1, <3>2, <3>3, <3>4
  <2> QED
    BY <2>1, <2>2
<1>12. \A i \in DOMAIN b.ents :
         b.ents[i].status \in {"revoked", "expired"} => new(i) = b.ents[i].status
  BY <1>3, <1>4 DEF Passed
<1> QED
  BY <1>5, <1>8, <1>9, <1>11, <1>12 DEF Sound, Keeps

LEMMA ReconciledLemma ==
  ASSUME NEW b, Sound(b), now \in Nat
  PROVE  Sound(Reconciled(b)) /\ Keeps(b, Reconciled(b))
<1>1. Sound(Expire(b)) /\ Keeps(b, Expire(b))
  BY ExpireLemma
<1>2. Sound(Activate(Expire(b))) /\ Keeps(Expire(b), Activate(Expire(b)))
  BY <1>1, ActivateLemma
<1> QED
  BY <1>1, <1>2, KeepsLemma DEF Reconciled

\* Marking an entitlement that is not the current one, with anything but
\* active; a status that had ended may not be the one that is replaced.
LEMMA MarkOther ==
  ASSUME NEW b, Sound(b), NEW i \in DOMAIN b.ents, i # b.cur,
         b.ents[i].status \notin {"revoked", "expired"},
         NEW s \in EntStatuses \ {"active"}
  PROVE  Sound(Mark(b, i, s)) /\ Keeps(b, Mark(b, i, s))
<1>1. /\ Typed(Mark(b, i, s)) /\ Mark(b, i, s).cur = b.cur
      /\ DOMAIN Mark(b, i, s).ents = DOMAIN b.ents
      /\ Mark(b, i, s).ents[i].status = s
      /\ \A j \in DOMAIN b.ents : j # i => Mark(b, i, s).ents[j] = b.ents[j]
  BY MarkLemma DEF Sound
<1>2. Actives(Mark(b, i, s)) = Actives(b)
  BY <1>1 DEF Actives, Sound
<1> QED
  BY <1>1, <1>2 DEF Sound, Keeps

\* Ending the current entitlement, and restoring its target.
LEMMA EndCurrent ==
  ASSUME NEW b, Sound(b), b.cur # 0, NEW s \in EntStatuses \ {"active"}
  PROVE  LET r == Restore(Mark(b, b.cur, s), b.cur)
         IN  Sound(r) /\ Keeps(b, r)
<1> DEFINE m == Mark(b, b.cur, s)
<1>1. b.cur \in DOMAIN b.ents /\ b.ents[b.cur].status = "active"
  BY BookLemma DEF Sound, Typed, Actives
<1>2. /\ Typed(m) /\ DOMAIN m.ents = DOMAIN b.ents /\ m.ents[b.cur].status = s
      /\ \A j \in DOMAIN b.ents : j # b.cur => m.ents[j] = b.ents[j]
  BY <1>1, MarkLemma DEF Sound
<1> HIDE DEF m
<1>3. Actives(m) = {}
  BY <1>1, <1>2 DEF Actives, Sound
<1>4. Keeps(b, m)
  BY <1>1, <1>2 DEF Keeps
<1>5. Sound(Restore(m, b.cur)) /\ Keeps(m, Restore(m, b.cur))
  BY <1>1, <1>2, <1>3, RestoreLemma
<1> QED
  BY <1>4, <1>5, KeepsLemma DEF m

LEMMA ChangedLemma ==
  ASSUME NEW b, Sound(b), NEW i \in DOMAIN b.ents,
         NEW action \in {"cancel", "revoke", "rollback"}, MayChange(b, i, action)
  PROVE  Sound(Changed(b, i, action)) /\ Keeps(b, Changed(b, i, action))
<1>0. b.ents[i].status = "active" <=> i = b.cur
  BY BookLemma DEF Sound, Typed, Actives
<1>1. CASE action = "cancel"
  <2>1. b.ents[i].status = "pending" /\ Changed(b, i, action) = Mark(b, i, "revoked")
    BY <1>1 DEF MayChange, Changed, Cancelled
  <2> QED
    BY <1>0, <2>1, MarkOther DEF EntStatuses
<1>2. CASE action = "revoke"
  <2>1. b.ents[i].status \in {"pending", "active"} /\ Changed(b, i, action) = Revoked(b, i)
    BY <1>2 DEF MayChange, Changed
  <2>2. CASE b.cur = i
    <3>1. i # 0
      BY BookLemma DEF Sound
    <3>2. Revoked(b, i) = Restore(Mark(b, b.cur, "revoked"), b.cur)
      BY <2>2 DEF Revoked
    <3> QED
      BY <2>1, <2>2, <3>1, <3>2, EndCurrent DEF EntStatuses
  <2>3. CASE b.cur # i
    <3>1. Revoked(b, i) = Mark(b, i, "revoked")
      BY <2>3 DEF Revoked
    <3> QED
      BY <1>0, <2>1, <2>3, <3>1, MarkOther DEF EntStatuses
  <2> QED
    BY <2>2, <2>3
<1>3. CASE action = "rollback"
  <2>1. b.cur = i /\ i # 0
    BY <1>3, BookLemma DEF MayChange, Sound
  <2>2. Changed(b, i, action) = Restore(Mark(b, b.cur, "superseded"), b.cur)
    BY <1>3, <2>1 DEF Changed, RolledBack
  <2> QED
    BY <2>1, <2>2, EndCurrent DEF EntStatuses
<1> QED
  BY <1>1, <1>2, <1>3

LEMMA TakeOverLemma ==
  ASSUME NEW b, Sound(b), NEW e \in Entitlement, e.status \in {"pending", "active"},
         e.target \in 0..Len(b.ents)
  PROVE  Sound(TakeOver(b, e)) /\ Keeps(b, TakeOver(b, e))
<1> DEFINE over == e.status = "active" /\ b.cur # 0 /\ b.ents[b.cur].status = "active"
           c == IF over THEN Mark(b, b.cur, "superseded") ELSE b
           n == IF e.status = "active" THEN Len(b.ents) + 1 ELSE b.cur
<1>1. TakeOver(b, e) = [ents |-> Append(c.ents, e), cur |-> n]
  BY DEF TakeOver
<1>2. /\ Typed(c) /\ Len(c.ents) = Len(b.ents) /\ Keeps(b, c)
      /\ DOMAIN c.ents = DOMAIN b.ents
      /\ e.status = "active" => Actives(c) = {}
      /\ e.status = "pending" => c = b
  <2>1. CASE over
    <3>1. b.cur \in DOMAIN b.ents
      BY <2>1, BookLemma DEF Sound, Typed
    <3>2. /\ Typed(c) /\ DOMAIN c.ents = DOMAIN b.ents /\ c.ents[b.cur].status = "superseded"
          /\ \A j \in DOMAIN b.ents : j # b.cur => c.ents[j] = b.ents[j]
      BY <2>1, <3>1, MarkLemma DEF Sound, EntStatuses
    <3>3. e.status = "active" /\ b.ents[b.cur].status = "active"
      BY <2>1
    <3> HIDE DEF c
    <3>4. Len(c.ents) = Len(b.ents)
      BY <3>2, BookLemma DEF Sound
    <3> QED
      BY <3>2, <3>3, <3>4 DEF Actives, Sound, Keeps
  <2>2. CASE ~over
    <3>1. c = b
      BY <2>2
    <3>2. e.status = "active" => Actives(b) = {}
      BY <2>2, BookLemma DEF Sound, Typed, Actives
    <3> QED
      BY <3>1, <3>2 DEF Sound, Keeps
  <2> QED
    BY <2>1, <2>2
<1> HIDE DEF c
<1>3. /\ Len(b.ents) \in Nat /\ DOMAIN b.ents = 1..Len(b.ents) /\ b.cur \in 0..Len(b.ents)
  BY BookLemma DEF Sound, Typed
<1> DEFINE es == Append(c.ents, e)
<1>4. /\ es \in Seq(Entitlement) /\ Len(es) = Len(b.ents) + 1
      /\ DOMAIN es = 1..Len(b.ents) + 1
      /\ \A i \in DOMAIN b.ents : es[i] = c.ents[i]
      /\ es[Len(b.ents) + 1] = e
  <2>1. es \in Seq(Entitlement) /\ Len(es) = Len(c.ents) + 1
        /\ \A i \in 1..Len(c.ents) : es[i] = c.ents[i]
        /\ es[Len(c.ents) + 1] = e
    BY <1>2, AppendProperties DEF Typed
  <2>2. DOMAIN es = 1..Len(es)
    BY <2>1, LenProperties
  <2> QED
    BY <1>2, <1>3, <2>1, <2>2
<1>5. n \in 0..Len(b.ents) + 1 /\ n \in Nat
  BY <1>3
<1> HIDE DEF es, n
<1>6. TakeOver(b, e).ents = es /\ TakeOver(b, e).cur = n
      /\ TakeOver(b, e) \in [ents : Seq(Entitlement), cur : Nat]
  BY <1>1, <1>4, <1>5 DEF es
<1>7. \A i \in DOMAIN es : es[i].target < i
  <2>1. \A i \in DOMAIN b.ents : c.ents[i].target < i
    BY <1>2 DEF Typed
  <2>2. e.target < Len(b.ents) + 1
    BY <1>3
  <2> QED
    BY <1>3, <1>4, <2>1, <2>2
<1>8. Typed(TakeOver(b, e))
  BY <1>4, <1>5, <1>6, <1>7 DEF Typed
<1>9. Actives(TakeOver(b, e)) = {n} \ {0}
  <2>1. CASE e.status = "active"
    <3>1. \A i \in DOMAIN b.ents : es[i].status # "active"
      BY <1>2, <1>4, <2>1 DEF Actives
    <3>2. n = Len(b.ents) + 1
      BY <2>1 DEF n
    <3> QED
      BY <1>3, <1>4, <1>6, <2>1, <3>1, <3>2 DEF Actives
  <2>2. CASE e.status = "pending"
    <3>1. n = b.cur /\ c = b
      BY <1>2, <2>2 DEF n
    <3>2. Actives(TakeOver(b, e)) = Actives(b)
      BY <1>3, <1>4, <1>6, <2>2, <3>1 DEF Actives
    <3> QED
      BY <3>1, <3>2 DEF Sound
  <2> QED
    BY <2>1, <2>2
<1>10. Keeps(b, TakeOver(b, e))
  BY <1>2, <1>3, <1>4, <1>6 DEF Keeps
<1> QED
  BY <1>8, <1>9, <1>6, <1>10 DEF Sound

-----------------------------------------------------------------------------
(* The changes of the profile.                                             *)

ProfileOK(p) == p \in [status : Statuses, sched : Seq(Transition)] /\ Len(p.sched) <= 1

\* A closed project stays closed, and one is closed only if it may be.
SafeChange(s, t) == /\ s = "closed" => t = "closed"
                    /\ s # "closed" /\ t = "closed" => closable

LEMMA AllowedLemma ==
  ASSUME NEW s \in Statuses, NEW t \in Statuses, Allowed(s, t), Closing(s, t) => closable
  PROVE  SafeChange(s, t)
<1>1. Transitions["closed"] = {}
  BY DEF Transitions
<1>2. "closed" \in Transitions[s] => s = "offboarding"
  BY DEF Transitions, Statuses
<1> QED
  BY <1>1, <1>2 DEF Allowed, Closing, SafeChange

LEMMA TransitionedLemma ==
  ASSUME NEW p, ProfileOK(p)
  PROVE  ProfileOK(Transitioned(p)) /\ SafeChange(p.status, Transitioned(p).status)
<1> DEFINE t == p.sched[1]
<1>1. CASE p.sched = <<>>
  BY <1>1 DEF Transitioned, SafeChange
<1>2. CASE p.sched # <<>>
  <2>1. Len(p.sched) = 1 /\ p.sched \in Seq(Transition) /\ t \in Transition /\ p.status \in Statuses
    <3>1. p.sched \in Seq(Transition) /\ Len(p.sched) <= 1 /\ p.status \in Statuses
      BY DEF ProfileOK
    <3>2. Len(p.sched) \in Nat \ {0}
      BY <1>2, <3>1, EmptySeq
    <3> DEFINE n == Len(p.sched)
    <3>3. n \in Nat \ {0} /\ n <= 1
      BY <3>1, <3>2
    <3> HIDE DEF n
    <3>4. n = 1 /\ 1 \in 1..n
      BY <3>3
    <3> QED
      BY <3>1, <3>4, ElementOfSeq DEF n
  <2>2. ASSUME NEW s \in {"conflicted", "blocked"}, Transitioned(p) = [p EXCEPT !.sched[1].state = s]
        PROVE  ProfileOK(Transitioned(p)) /\ Transitioned(p).status = p.status
    <3> DEFINE e == [t EXCEPT !.state = s]
               es == [p.sched EXCEPT ![1] = e]
    <3>1. e \in Transition
      BY <2>1 DEF Transition
    <3>2. es \in Seq(Transition) /\ Len(es) = 1
      BY <2>1, <3>1, ExceptSeq
    <3>3. Transitioned(p) = [p EXCEPT !.sched = es]
      BY <2>2
    <3> HIDE DEF es, e
    <3>4. /\ Transitioned(p) \in [status : Statuses, sched : Seq(Transition)]
          /\ Transitioned(p).sched = es /\ Transitioned(p).status = p.status
      BY <3>2, <3>3 DEF ProfileOK
    <3>5. Len(Transitioned(p).sched) = 1
      BY <3>2, <3>4, Zenon
    <3>6. Len(Transitioned(p).sched) <= 1
      BY <3>5
    <3> QED
      BY <3>4, <3>6 DEF ProfileOK
  <2>3. CASE Transitioned(p) = [status |-> t.to, sched |-> <<>>] /\ Allowed(p.status, t.to)
             /\ (Closing(p.status, t.to) => closable)
    <3>1. t.to \in Statuses
      BY <2>1 DEF Transition
    <3>2. SafeChange(p.status, t.to)
      BY <2>1, <2>3, <3>1, AllowedLemma
    <3>3. ProfileOK([status |-> t.to, sched |-> <<>>])
      BY <3>1, EmptySeq DEF ProfileOK
    <3> QED
      BY <2>3, <3>2, <3>3
  <2>4. \/ Transitioned(p) = p
        \/ \E s \in {"conflicted", "blocked"} : Transitioned(p) = [p EXCEPT !.sched[1].state = s]
        \/ /\ Transitioned(p) = [status |-> t.to, sched |-> <<>>]
           /\ Allowed(p.status, t.to) /\ (Closing(p.status, t.to) => closable)
    BY DEF Transitioned
  <2> QED
    BY <2>2, <2>3, <2>4 DEF SafeChange
<1> QED
  BY <1>1, <1>2

-----------------------------------------------------------------------------
(* The invariant.                                                          *)

CopyType ==
  [book : [ents : Seq(Entitlement), cur : Nat],
   profile : [status : Statuses, sched : Seq(Transition)], done : BOOLEAN]
CopyOK(h) == h \in CopyType /\ Sound(h.book) /\ ProfileOK(h.profile)

Inv == /\ Sound(Book) /\ ProfileOK(Profile)
       /\ \A h \in held : CopyOK(h)
       /\ closable \in BOOLEAN /\ now \in 0..Horizon
       /\ grant \in 0..Len(ents)
       /\ GrantInForce

\* A copy of the next state is one of this state, or was already held.
Same(g, h) == g.book = h.book /\ g.profile = h.profile
Follows ==
  \A g \in held' : g \in CopyType /\ (Same(g, [book |-> Book, profile |-> Profile]) \/ \E h \in held : Same(g, h))

\* The books and profiles that an operation leaves keep what had ended.
Kept == Follows /\ Keeps(Book, Book') /\ SafeChange(status, status')

LEMMA InvIsMeant == Inv => GrantsAreCurrent
<1>1. Book \in [ents : Seq(Entitlement), cur : Nat] <=> ents \in Seq(Entitlement) /\ cur \in Nat
  BY DEF Book
<1>2. ents \in Seq(Entitlement) => Len(ents) \in Nat
  BY LenProperties
<1>3. Book.ents = ents /\ Book.cur = cur /\ Profile.status = status /\ Profile.sched = sched
  BY DEF Book, Profile
<1>4. Sound(Book) <=> /\ ents \in Seq(Entitlement) /\ \A i \in DOMAIN ents : ents[i].target < i
                      /\ cur \in 0..Len(ents)
                      /\ {i \in DOMAIN ents : ents[i].status = "active"} = {cur} \ {0}
  BY <1>1, <1>2, <1>3 DEF Sound, Typed, Actives
<1>5. ProfileOK(Profile) <=> status \in Statuses /\ sched \in Seq(Transition) /\ Len(sched) <= 1
  BY <1>3 DEF ProfileOK, Profile
<1> QED
  BY <1>4, <1>5 DEF Inv, CopyOK, CopyType, GrantsAreCurrent, ActiveIsCurrent, TypeOK

LEMMA InitLemma == Init => Inv
<1> SUFFICES ASSUME Init PROVE Inv
  OBVIOUS
<1>1. ents = <<>> /\ cur = 0 /\ grant = 0 /\ sched = <<>> /\ DOMAIN ents = {} /\ Len(ents) = 0
  BY DEF Init
<1>2. ents \in Seq(Entitlement) /\ sched \in Seq(Transition) /\ Len(sched) <= 1
  BY <1>1, EmptySeq
<1>3. Book = [ents |-> ents, cur |-> 0] /\ Book.ents = ents /\ Book.cur = 0
  BY <1>1 DEF Book
<1>4. Sound(Book)
  BY <1>1, <1>2, <1>3 DEF Sound, Typed, Actives
<1>5. status \in Statuses /\ closable \in BOOLEAN
  BY DEF Init, Statuses
<1>6. ProfileOK(Profile)
  BY <1>2, <1>5 DEF ProfileOK, Profile
<1>7. now \in 0..Horizon /\ held = {}
  BY BoundsAssumption DEF Init
<1> QED
  BY <1>1, <1>4, <1>5, <1>6, <1>7 DEF Inv, GrantInForce

LEMMA CopyLemma ==
  ASSUME Inv, Follows
  PROVE  \A g \in held' : CopyOK(g)
<1> SUFFICES ASSUME NEW g \in held' PROVE CopyOK(g)
  OBVIOUS
<1>1. g \in CopyType /\ Sound(g.book) /\ ProfileOK(g.profile)
  BY DEF Follows, Same, Inv, CopyOK
<1> QED
  BY <1>1 DEF CopyOK

LEMMA ThisIsCopy ==
  ASSUME Inv, NEW d \in BOOLEAN
  PROVE  [book |-> Book, profile |-> Profile, done |-> d] \in CopyType
BY DEF Inv, Sound, Typed, ProfileOK, CopyType

LEMMA CallLemma ==
  ASSUME Inv, ByCall
  PROVE  Follows
<1>1. CASE UNCHANGED held
  BY <1>1 DEF Follows, Same, Inv, CopyOK
<1>2. ASSUME NEW h \in held, held' = (held \ {h}) \cup {[h EXCEPT !.done = TRUE]}
      PROVE  Follows
  <2>1. h \in CopyType
    BY DEF Inv, CopyOK
  <2>2. [h EXCEPT !.done = TRUE] \in CopyType /\ Same([h EXCEPT !.done = TRUE], h)
    BY <2>1 DEF CopyType, Same
  <2> DEFINE k == [h EXCEPT !.done = TRUE]
  <2> HIDE DEF k
  <2>3. ASSUME NEW g \in held'
        PROVE  g \in CopyType /\ \E f \in held : Same(g, f)
    <3>1. g = k \/ g \in held
      BY <1>2 DEF k
    <3>2. CASE g = k
      BY <2>2, <3>2 DEF k
    <3>3. CASE g \in held
      BY <3>3 DEF Inv, CopyOK, Same
    <3> QED
      BY <3>1, <3>2, <3>3
  <2> QED
    BY <2>3 DEF Follows
<1> QED
  BY <1>1, <1>2 DEF ByCall

\* A step that leaves a sound book and a fitting profile, does not move the
\* clock and grants nothing, or something under the current entitlement within
\* its term, keeps the invariant.
LEMMA StepLemma ==
  ASSUME Inv, NEW b, Sound(b), Keeps(Book, b), SetBook(b),
         NEW p, ProfileOK(p), SafeChange(status, p.status), SetProfile(p),
         closable' \in BOOLEAN, now' = now, Follows,
         \/ grant' = 0
         \/ /\ grant' = b.cur /\ grant' # 0
            /\ b.ents[grant'].starts <= now /\ now <= Until(b.ents[grant'])
  PROVE  Inv' /\ Kept
<1>1. b = [ents |-> b.ents, cur |-> b.cur] /\ p = [status |-> p.status, sched |-> p.sched]
  BY DEF Sound, Typed, ProfileOK
<1>2. Book' = b /\ Profile' = p
  BY <1>1 DEF SetBook, SetProfile, Book, Profile
<1>3. ents' = b.ents /\ cur' = b.cur /\ status' = p.status
  BY DEF SetBook, SetProfile
<1>4. /\ Len(b.ents) \in Nat /\ b.cur \in 0..Len(b.ents)
      /\ b.cur # 0 => b.ents[b.cur].status = "active"
  BY BookLemma DEF Sound, Typed, Actives
<1>5. grant' \in 0..Len(ents') /\ GrantInForce'
  BY <1>3, <1>4 DEF GrantInForce, Until
<1> QED
  BY <1>2, <1>3, <1>5, CopyLemma DEF Inv, Kept

\* Read, and every operation of the operator on the profile.
LEMMA AnswerLemma ==
  ASSUME Inv, NEW p, ProfileOK(p), SafeChange(status, p.status), Answer(p), Follows
  PROVE  Inv' /\ Kept
<1>1. now \in Nat
  BY BoundsAssumption DEF Inv
<1>2. Sound(Reconciled(Book)) /\ Keeps(Book, Reconciled(Book))
  BY <1>1, ReconciledLemma DEF Inv
<1>3. ProfileOK(Transitioned(p)) /\ SafeChange(status, Transitioned(p).status)
  BY TransitionedLemma DEF SafeChange
<1> QED
  BY <1>2, <1>3, StepLemma DEF Answer, Inv

LEMMA CreateLemma ==
  ASSUME Inv, NEW term \in Terms, NEW named \in 0..Len(ents), CreateEntitlement(term, named)
  PROVE  Inv' /\ Kept
<1> DEFINE b == Reconciled(Book)
           target == IF named # 0 THEN named ELSE b.cur
           e == NewEntitlement(b, term, target)
<1>1. now \in Nat
  BY BoundsAssumption DEF Inv
<1>2. Sound(b) /\ Keeps(Book, b)
  BY <1>1, ReconciledLemma DEF Inv
<1>3. ProfileOK(Transitioned(Profile)) /\ SafeChange(status, Transitioned(Profile).status)
  BY TransitionedLemma DEF Inv, Profile
<1>4. SetBook(TakeOver(b, e)) /\ SetProfile(Transitioned(Profile)) /\ grant' = 0
      /\ UNCHANGED <<closable, now>> /\ ByCall
  BY DEF CreateEntitlement
<1>5. target \in 0..Len(b.ents) /\ target \in Nat
  <2>1. /\ Len(ents) \in Nat /\ DOMAIN ents = 1..Len(ents)
        /\ DOMAIN ents \subseteq DOMAIN b.ents
    BY <1>2, BookLemma DEF Inv, Sound, Keeps, Book
  <2>2. /\ Len(b.ents) \in Nat /\ DOMAIN b.ents = 1..Len(b.ents) /\ b.cur \in 0..Len(b.ents)
    BY <1>2, BookLemma DEF Sound, Typed
  <2> HIDE DEF b
  <2>3. named # 0 => named \in DOMAIN b.ents
    BY <2>1
  <2> QED
    BY <2>2, <2>3
<1>6. /\ e \in Entitlement /\ e.status \in {"pending", "active"} /\ e.target = target
  <2>1. /\ term.delay \in Int /\ term.length \in Nat /\ term.grace \in Nat /\ term.temp \in BOOLEAN
    BY TermsAssumption
  <2> HIDE DEF target, b
  <2> QED
    BY <1>1, <1>5, <2>1 DEF NewEntitlement, Entitlement
<1> HIDE DEF e, target, b
<1>7. Sound(TakeOver(b, e)) /\ Keeps(b, TakeOver(b, e))
  BY <1>2, <1>5, <1>6, TakeOverLemma
<1>8. Keeps(Book, TakeOver(b, e))
  BY <1>2, <1>7, KeepsLemma
<1> QED
  BY <1>3, <1>4, <1>7, <1>8, CallLemma, StepLemma DEF Inv

LEMMA ChangeLemma ==
  ASSUME Inv, NEW i \in DOMAIN ents, NEW action \in {"cancel", "revoke", "rollback"},
         ChangeEntitlement(i, action)
  PROVE  Inv' /\ Kept
<1> DEFINE b == Reconciled(Book)
           c == Changed(b, i, action)
           p == Transitioned(Profile)
<1>1. now \in Nat
  BY BoundsAssumption DEF Inv
<1>2. Sound(b) /\ Keeps(Book, b) /\ i \in DOMAIN b.ents
  <2>1. Sound(b) /\ Keeps(Book, b)
    BY <1>1, ReconciledLemma DEF Inv
  <2> QED
    BY <2>1 DEF Keeps, Book
<1>3. ProfileOK(p) /\ SafeChange(status, p.status)
  BY TransitionedLemma DEF Inv, Profile
<1>4. ProfileOK(Transitioned(p)) /\ SafeChange(status, Transitioned(p).status)
  BY <1>3, TransitionedLemma DEF SafeChange
<1>5. /\ MayChange(b, i, action) /\ SetProfile(Transitioned(p)) /\ SetBook(Reconciled(c))
      /\ grant' = 0 /\ UNCHANGED <<closable, now>> /\ ByCall
  BY DEF ChangeEntitlement
<1> HIDE DEF b, p
<1>6. Sound(c) /\ Keeps(b, c)
  BY <1>2, <1>5, ChangedLemma
<1> HIDE DEF c
<1>7. Sound(Reconciled(c)) /\ Keeps(c, Reconciled(c))
  BY <1>1, <1>6, ReconciledLemma
<1>8. Keeps(Book, Reconciled(c))
  BY <1>2, <1>6, <1>7, KeepsLemma
<1> QED
  BY <1>4, <1>5, <1>7, <1>8, CallLemma, StepLemma DEF Inv

\* What entitlement_runtime_status calls active or in its grace period is
\* within its term.
LEMMA TermLemma ==
  ASSUME NEW b, Sound(b), b.cur # 0, now \in Nat,
         RuntimeStatus(b.ents[b.cur]) \in {"active", "grace"}
  PROVE  b.ents[b.cur].starts <= now /\ now <= Until(b.ents[b.cur])
<1> DEFINE e == b.ents[b.cur]
<1>1. e \in Entitlement
  BY BookLemma DEF Sound, Typed
<1>2. e.starts \in Int /\ e.expires \in Int /\ e.grace \in Nat
  BY <1>1 DEF Entitlement
<1> HIDE DEF e
<1>3. RuntimeStatus(e) \in {"active", "grace"}
  BY DEF e
<1>4. ~(now < e.starts)
  BY <1>2, <1>3 DEF RuntimeStatus
<1>5. now <= e.expires \/ now <= Until(e)
  BY <1>2, <1>3, <1>4 DEF RuntimeStatus
<1> QED
  BY <1>2, <1>4, <1>5 DEF Until, e

LEMMA RequireLemma ==
  ASSUME Inv, RequireCapability \/ RequireAllocation
  PROVE  Inv' /\ Kept
<1> DEFINE b == Reconciled(Book)
<1>1. now \in Nat
  BY BoundsAssumption DEF Inv
<1>2. Sound(b) /\ Keeps(Book, b)
  BY <1>1, ReconciledLemma DEF Inv
<1>3. ProfileOK(Transitioned(Profile)) /\ SafeChange(status, Transitioned(Profile).status)
  BY TransitionedLemma DEF Inv, Profile
<1>4. ProfileOK(Profile) /\ SafeChange(status, Profile.status)
  BY DEF Inv, SafeChange, Profile
<1>5. /\ SetBook(b) /\ UNCHANGED <<closable, held, now>>
      /\ SetProfile(Profile) \/ SetProfile(Transitioned(Profile))
      /\ \/ grant' = 0
         \/ /\ grant' = b.cur /\ grant' # 0
            /\ RuntimeStatus(b.ents[b.cur]) \in {"active", "grace"}
  BY DEF RequireCapability, RequireAllocation, SetProfile, Profile
<1> HIDE DEF b
<1>6. \/ grant' = 0
      \/ /\ grant' = b.cur /\ grant' # 0
         /\ b.ents[grant'].starts <= now /\ now <= Until(b.ents[grant'])
  BY <1>1, <1>2, <1>5, TermLemma
<1>7. closable' \in BOOLEAN /\ now' = now
  BY <1>5 DEF Inv
<1>8. Follows
  BY <1>5, CallLemma DEF ByCall
<1> QED
  BY <1>2, <1>3, <1>4, <1>5, <1>6, <1>7, <1>8, StepLemma

LEMMA CopyStep ==
  ASSUME Inv, Copy
  PROVE  Inv' /\ Kept
<1>1. ents' = ents /\ cur' = cur /\ status' = status /\ sched' = sched /\ closable' = closable /\ now' = now /\ grant' = 0
  BY DEF Copy
<1>2. Book' = Book /\ Profile' = Profile
  BY <1>1 DEF Book, Profile
<1>3. held' = held \cup {[book |-> Book, profile |-> Profile, done |-> FALSE]}
  BY DEF Copy
<1>4. Follows
  <2> DEFINE k == [book |-> Book, profile |-> Profile, done |-> FALSE]
  <2>1. k \in CopyType /\ k.book = Book /\ k.profile = Profile
    BY ThisIsCopy
  <2> HIDE DEF k
  <2>2. ASSUME NEW g \in held'
        PROVE  g \in CopyType /\ (Same(g, [book |-> Book, profile |-> Profile]) \/ \E h \in held : Same(g, h))
    <3>1. g = k \/ g \in held
      BY <1>3 DEF k
    <3>2. CASE g = k
      BY <2>1, <3>2 DEF Same
    <3>3. CASE g \in held
      BY <3>3 DEF Inv, CopyOK, Same
    <3> QED
      BY <3>1, <3>2, <3>3
  <2> QED
    BY <2>2 DEF Follows
<1>5. Keeps(Book, Book') /\ SafeChange(status, status')
  BY <1>1, <1>2 DEF Keeps, SafeChange
<1>6. grant' \in 0..Len(ents') /\ GrantInForce'
  BY <1>1, BookLemma DEF Inv, Sound, Book, GrantInForce
<1> QED
  BY <1>1, <1>2, <1>4, <1>5, <1>6, CopyLemma DEF Inv, Kept

LEMMA RollBackStep ==
  ASSUME Inv, NEW h \in held, RollBack(h)
  PROVE  Inv' /\ Follows /\ Book' = h.book /\ status' = h.profile.status
<1>1. CopyOK(h)
  BY DEF Inv
<1>2. /\ ents' = h.book.ents /\ cur' = h.book.cur /\ status' = h.profile.status /\ sched' = h.profile.sched
      /\ closable' \in BOOLEAN /\ now' = now /\ grant' = 0 /\ held' = held \ {h}
  BY DEF RollBack, SetBook, SetProfile
<1>3. /\ h.book = [ents |-> h.book.ents, cur |-> h.book.cur]
      /\ h.profile = [status |-> h.profile.status, sched |-> h.profile.sched]
  BY <1>1 DEF CopyOK, CopyType
<1>4. Book' = h.book /\ Profile' = h.profile
  BY <1>2, <1>3 DEF Book, Profile
<1>5. Follows
  BY <1>2 DEF Follows, Same, Inv, CopyOK
<1>6. grant' \in 0..Len(ents') /\ GrantInForce'
  BY <1>1, <1>2, BookLemma DEF CopyOK, Sound, GrantInForce
<1> QED
  BY <1>1, <1>2, <1>4, <1>5, <1>6, CopyLemma DEF Inv, CopyOK

\* What had ended everywhere has ended everywhere after a step.
LEMMA SettledLemma ==
  ASSUME Inv, Follows,
         \/ Keeps(Book, Book') /\ SafeChange(status, status')
         \/ \E h \in held : Book' = h.book /\ status' = h.profile.status
  PROVE  SettledIsFinal
<1>1. ASSUME NEW i \in DOMAIN ents, \A b \in Books : Ended(b, i)
      PROVE  \A b \in Books' : Ended(b, i)
  <2>1. Ended(Book, i) /\ \A h \in held : Ended(h.book, i)
    BY <1>1 DEF Books
  <2>2. Ended(Book', i)
    <3>1. CASE Keeps(Book, Book')
      BY <2>1, <3>1 DEF Keeps, Ended
    <3> QED
      BY <2>1, <3>1
  <2>3. \A g \in held' : Ended(g.book, i)
    BY <2>1 DEF Follows, Same
  <2>4. Books' = {Book'} \cup {g.book : g \in held'}
    BY DEF Books
  <2> QED
    BY <2>2, <2>3, <2>4
<1>2. ASSUME Closed PROVE Closed'
  <2>1. status = "closed" /\ \A h \in held : h.profile.status = "closed"
    BY <1>2 DEF Closed
  <2>2. status' = "closed"
    BY <2>1 DEF SafeChange
  <2>3. Profile.status = status
    BY DEF Profile
  <2>4. \A g \in held' : g.profile.status = "closed"
    BY <2>1, <2>3 DEF Follows, Same
  <2> QED
    BY <2>2, <2>4 DEF Closed
<1> QED
  BY <1>1, <1>2 DEF SettledIsFinal

\* A step is an operation that keeps what had ended, or puts a copy back.
Stepped == SettledIsFinal /\ (Kept \/ \E h \in held : RollBack(h))

LEMMA KeptLemma == Inv /\ Kept => Stepped
BY SettledLemma DEF Kept, Stepped

LEMMA NextLemma == Inv /\ [Next]_vars => Inv' /\ [Stepped]_vars
<1> SUFFICES ASSUME Inv, [Next]_vars PROVE Inv' /\ [Stepped]_vars
  OBVIOUS
<1>k. Kept => [Stepped]_vars
  BY KeptLemma
<1>0. ProfileOK(Profile) /\ SafeChange(status, status) /\ Profile.status = status
  BY DEF Inv, SafeChange, Profile
<1>s. status \in Statuses /\ sched \in Seq(Transition) /\ Len(sched) <= 1
  BY <1>0 DEF ProfileOK, Profile
<1>1. CASE Read
  BY <1>1, <1>0, <1>k, CallLemma, AnswerLemma DEF Read, ByCall
<1>2. CASE CancelSchedule
  <2>1. ProfileOK([status |-> status, sched |-> <<>>])
    BY <1>s, EmptySeq DEF ProfileOK
  <2> QED
    BY <1>2, <1>0, <1>k, <2>1, CallLemma, AnswerLemma DEF CancelSchedule
<1>3. ASSUME NEW to \in Asked, ChangeStatus(to) PROVE Inv' /\ [Stepped]_vars
  <2>1. ProfileOK([status |-> to, sched |-> sched])
    BY <1>s, AskedAssumption DEF ProfileOK
  <2>2. SafeChange(status, to)
    BY <1>3, <1>s, AskedAssumption, AllowedLemma DEF ChangeStatus
  <2> QED
    BY <1>3, <1>k, <2>1, <2>2, CallLemma, AnswerLemma DEF ChangeStatus
<1>4. ASSUME NEW to \in Asked, NEW at \in Dates, Schedule(to, at) PROVE Inv' /\ [Stepped]_vars
  <2> DEFINE t == [state |-> "pending", from |-> status, to |-> to, at |-> at]
  <2>1. t \in Transition
    BY <1>s, AskedAssumption DEF Transition
  <2> HIDE DEF t
  <2>2. <<t>> \in Seq(Transition) /\ Len(<<t>>) = 1
    BY <2>1
  <2>3. ProfileOK([status |-> status, sched |-> <<t>>])
    BY <1>s, <2>2 DEF ProfileOK
  <2>4. Answer([status |-> status, sched |-> <<t>>]) /\ ByCall
    BY <1>4 DEF Schedule, t
  <2> QED
    BY <1>0, <1>k, <2>3, <2>4, CallLemma, AnswerLemma
<1>5. ASSUME NEW term \in Terms, NEW named \in 0..Len(ents), CreateEntitlement(term, named)
      PROVE  Inv' /\ [Stepped]_vars
  BY <1>5, <1>k, CreateLemma
<1>6. ASSUME NEW i \in DOMAIN ents, NEW action \in {"cancel", "revoke", "rollback"},
             ChangeEntitlement(i, action)
      PROVE  Inv' /\ [Stepped]_vars
  BY <1>6, <1>k, ChangeLemma
<1>7. CASE RequireCapability \/ RequireAllocation
  BY <1>7, <1>k, RequireLemma
<1>8. CASE Prepare \/ Tick
  <2>1. Book' = Book /\ Profile' = Profile /\ grant' = 0 /\ ents' = ents /\ status' = status
    BY <1>8 DEF Prepare, Tick, Book, Profile
  <2>2. now' \in 0..Horizon /\ closable' \in BOOLEAN
    <3>1. now \in 0..Horizon /\ closable \in BOOLEAN /\ Horizon \in Nat
      BY BoundsAssumption DEF Inv
    <3>2. CASE Prepare
      BY <3>1, <3>2 DEF Prepare
    <3>3. CASE Tick
      BY <3>1, <3>3 DEF Tick
    <3> QED
      BY <1>8, <3>2, <3>3
  <2>0. Follows
    BY <1>8, CallLemma DEF Prepare, Tick, ByCall
  <2>3. Sound(Book)' /\ ProfileOK(Profile)' /\ Kept
    BY <1>0, <2>0, <2>1 DEF Inv, Kept, Keeps, Sound, Typed, Actives, ProfileOK
  <2>4. grant' \in 0..Len(ents') /\ GrantInForce'
    BY <2>1, BookLemma DEF Inv, Sound, Book, GrantInForce
  <2> QED
    BY <1>k, <2>0, <2>2, <2>3, <2>4, CopyLemma DEF Inv
<1>9. CASE UNCHANGED vars
  BY <1>9 DEF vars, Inv, CopyOK, CopyType, Book, Profile, Sound, Typed, Actives, ProfileOK, GrantInForce, Until
<1>10. CASE Copy
  BY <1>10, <1>k, CopyStep
<1>11. ASSUME NEW h \in held, RollBack(h) PROVE Inv' /\ [Stepped]_vars
  <2>1. Inv' /\ Follows /\ Book' = h.book /\ status' = h.profile.status
    BY <1>11, RollBackStep
  <2>2. SettledIsFinal
    BY <2>1, SettledLemma
  <2> QED
    BY <1>11, <2>1, <2>2 DEF Stepped
<1> QED
  BY <1>1, <1>2, <1>3, <1>4, <1>5, <1>6, <1>7, <1>8, <1>9, <1>10, <1>11 DEF Next

-----------------------------------------------------------------------------
\* Whatever is created, expires, is activated, revoked or rolled back, and in
\* whatever order, the active entitlement is the current one, and calls and
\* allocations are let through under it alone and within its term.
THEOREM Grants == Spec => []GrantsAreCurrent
<1>1. Inv /\ [Next]_vars => Inv'
  BY NextLemma
<1> QED
  BY <1>1, InitLemma, InvIsMeant, PTL DEF Spec

\* No operation, _restore_entitlement_rollback_target and the activations among them, brings
\* back what was revoked or has expired; a closed project stays closed, and none is closed
\* without the evidence that _require_offboarding_closure asks for.  A call that fails its
\* audit puts an older state back (restore_commercial_state), where that is lost which ended
\* after it had begun, but nothing that had ended before.
THEOREM Endings == Spec => EndingsAreFinal
<1>1. Inv /\ [Next]_vars => Inv'
  BY NextLemma
<1>2. Inv /\ [Next]_vars =>
        [SettledIsFinal /\ ((EndedIsFinal /\ ClosureIsSound) \/ \E h \in held : RollBack(h))]_vars
  <2>1. Kept => EndedIsFinal /\ ClosureIsSound
    BY DEF Kept, Keeps, Book, SafeChange, EndedIsFinal, ClosureIsSound, Ended
  <2> QED
    BY <2>1, NextLemma DEF Stepped
<1> QED
  BY <1>1, <1>2, InitLemma, PTL DEF Spec, EndingsAreFinal
=============================================================================
