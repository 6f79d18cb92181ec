---------------------------- MODULE AccessProofs ----------------------------
(***************************************************************************)
(* Proofs about Access: whatever replicas, tasks, calls and faults there   *)
(* are, a replica at the revision of the row has what the row has, members *)
(* never share a phone or a subject in any copy of the document, no more   *)
(* requests are admitted in a day than a quota allows, and a save changes  *)
(* nothing but what its call is about and cuts off no key.                 *)
(***************************************************************************)
EXTENDS Access, WellFoundedInduction, TLAPS

Spec == AccessInit /\ [][AccessNext]_accessVars

Ops   == {"newTenant", "tenant", "newProject", "project", "newApp", "app", "rotate", "newHook", "hook",
          "rotateHook", "newMember", "member", "dropMember", "bind", "use"}
Calls == {c \in Call : /\ c.op \in Ops /\ (c.op = "tenant" => c.status # None)
                       /\ c.op \in {"newMember", "member", "dropMember"} => c.x \in Members
                       /\ c.op \in {"newTenant", "newApp", "app", "rotate", "use"} => c.x \in Apps}

\* Keys: that of an application is itself at first, and then from the task that made it.
AccessKeys == Apps \cup (Tasks \X Nat)
Replaced   == [key : AccessKeys, until : Nat]

\* What a document is made of.
AppOK(v) ==
  v = None \/ /\ v = [project |-> v.project, status |-> v.status, key |-> v.key, prev |-> v.prev,
                      quota |-> v.quota, day |-> v.day, used |-> v.used]
              /\ v.key \in AccessKeys /\ v.prev \in Seq(Replaced) /\ {v.quota, v.day, v.used} \subseteq Nat
Member(m)  == m = None \/ m = [phone |-> m.phone, subject |-> m.subject]
Shape(s) ==
  /\ s = [tenant |-> s.tenant, projects |-> s.projects, apps |-> s.apps, hooks |-> s.hooks, members |-> s.members]
  /\ s.tenant \in {"none", "active", "disabled"}
  /\ s.projects = [q \in Projects |-> s.projects[q]] /\ s.apps = [a \in Apps |-> s.apps[a]]
  /\ s.hooks = [h \in Hooks |-> s.hooks[h]] /\ s.members = [m \in Members |-> s.members[m]]
  /\ (\A m \in Members : Member(s.members[m])) /\ \A a \in Apps : AppOK(s.apps[a])
Good(s) == Shape(s) /\ MembersDiffer(s)

\* What is assumed of the constants: the tenant's document is one, each task has a replica
\* and calls, and the mark of what is not there is no task.
AccessAssumption ==
  /\ \A d \in Documents : Good(d) /\ \A a \in Apps : d.apps[a] # None => d.apps[a].day = 0
  /\ Homes \subseteq [Tasks -> Nodes] /\ Workloads \subseteq [Tasks -> Seq(Calls)]
  /\ None \notin Tasks /\ None \notin {"none", "active", "disabled"} /\ MaxFaults \in Nat /\ MaxTime \in Nat
  /\ Default \in Projects /\ Grace \in Nat /\ KeptKeys \in Nat /\ DayLength \in Nat \ {0}
  /\ (\A x, y : None # [phone |-> x, subject |-> y]) /\ \A t, n : <<t, n>> \notin Apps
  /\ \A p, t, k, o, q, d, n :
       None # [project |-> p, status |-> t, key |-> k, prev |-> o, quota |-> q, day |-> d, used |-> n]

-----------------------------------------------------------------------------
(* Numbers and recursive functions.                                         *)

\* < on numbers, as a relation.
Less == {ss \in Nat \X Nat : ss[1] < ss[2]}

\* A set of numbers that holds 0, and with a number the next one, holds all of them.
LEMMA Induction ==
  ASSUME NEW T, T \subseteq Nat, 0 \in T, \A n \in T : n + 1 \in T
  PROVE  T = Nat
<1>1. ASSUME Nat \ T # {} PROVE FALSE
  <2>1. IsWellFoundedOn(Less, Nat)
    BY NatLessThanWellFounded DEF OpToRel, Less
  <2>2. PICK x \in Nat \ T : \A y \in Nat \ T : ~(<<y, x>> \in Less)
    BY <1>1, <2>1, WFMin
  <2>3. x # 0 /\ x - 1 \in Nat
    OBVIOUS
  <2>4. <<x - 1, x>> \in Less
    BY <2>3 DEF Less
  <2> QED  BY <2>2, <2>3, <2>4
<1> QED  BY <1>1

\* The same for the numbers up to N.
LEMMA UpTo ==
  ASSUME NEW N \in Nat, NEW T, 0 \in T, \A n \in 1..N : n - 1 \in T => n \in T
  PROVE  \A n \in 0..N : n \in T
<1> DEFINE U == {n \in Nat : n \in T \/ n > N}
<1>1. \A n \in U : n + 1 \in U
  <2> SUFFICES ASSUME NEW n \in U, n + 1 <= N PROVE n + 1 \in T
    OBVIOUS
  <2> QED  OBVIOUS
<1>2. U = Nat
  <2> HIDE DEF U
  <2>1. 0 \in U /\ U \subseteq Nat
    BY DEF U
  <2> QED  BY <1>1, <2>1, Induction
<1> QED  BY <1>2

\* What is defined from a first value and a step exists.
Defined(S, b, N, F) == \E f \in [0..N -> S] : f[0] = b /\ \A n \in 1..N : f[n] = F[n][f[n - 1]]

\* A first value and a step for every number up to N define a function on 0..N.
LEMMA Recursion ==
  ASSUME NEW S, NEW b \in S, NEW N \in Nat, NEW F \in [1..N -> [S -> S]]
  PROVE  Defined(S, b, N, F)
<1> DEFINE Fits(n, f) == f[0] = b /\ \A m \in 1..n : f[m] = F[m][f[m - 1]]
           T == {n \in 0..N : \E f \in [0..n -> S] : Fits(n, f)}
<1>1. 0 \in T
  <2>1. [n \in 0..0 |-> b] \in [0..0 -> S] /\ Fits(0, [n \in 0..0 |-> b])
    OBVIOUS
  <2> HIDE DEF Fits
  <2>2. \E f \in [0..0 -> S] : Fits(0, f)
    BY <2>1
  <2> QED  BY <2>2
<1>2. ASSUME NEW n \in 1..N, n - 1 \in T PROVE n \in T
  <2>1. PICK f \in [0..(n - 1) -> S] : Fits(n - 1, f)
    BY <1>2
  <2> DEFINE g == [m \in 0..n |-> IF m = n THEN F[n][f[n - 1]] ELSE f[m]]
  <2>2. g \in [0..n -> S]
    <3>1. f[n - 1] \in S
      BY <2>1
    <3>2. F[n][f[n - 1]] \in S
      BY <3>1
    <3> QED  BY <3>2
  <2>3. g[0] = b
    BY <2>1
  <2>4. ASSUME NEW m \in 1..n PROVE g[m] = F[m][g[m - 1]]
    <3>1. CASE m = n
      <4>1. g[m] = F[n][f[n - 1]]
        BY <3>1
      <4>2. g[m - 1] = f[n - 1]
        BY <3>1
      <4> QED  BY <4>1, <4>2, <3>1
    <3>2. CASE m # n
      <4>1. m \in 1..(n - 1)
        BY <3>2
      <4>2. g[m] = f[m]
        BY <3>2
      <4>3. g[m - 1] = f[m - 1]
        BY <4>1
      <4> QED  BY <4>1, <4>2, <4>3, <2>1
    <3> QED  BY <3>1, <3>2
  <2>5. Fits(n, g)
    BY <2>3, <2>4
  <2>6. \E h \in [0..n -> S] : Fits(n, h)
    <3> HIDE DEF g, Fits
    <3> QED  BY <2>2, <2>5
  <2> HIDE DEF Fits
  <2> QED  BY <2>6
<1>3. \A n \in 0..N : n \in T
  <2> HIDE DEF T
  <2> QED  BY <1>1, <1>2, UpTo
<1>4. N \in T
  BY <1>3
<1> QED  BY <1>4 DEF Defined

-----------------------------------------------------------------------------
(* The keys of an application.                                             *)
Elements(q) == {q[i] : i \in 1..Len(q)}

LEMMA AppendLemma ==
  ASSUME NEW R, NEW q \in Seq(R), NEW x \in R
  PROVE  Append(q, x) \in Seq(R) /\ Len(Append(q, x)) = Len(q) + 1 /\ Elements(Append(q, x)) = Elements(q) \cup {x}
<1>1. /\ Append(q, x) \in Seq(R) /\ Len(Append(q, x)) = Len(q) + 1 /\ Len(q) \in Nat
      /\ \A i \in 1..Len(q) : Append(q, x)[i] = q[i]
      /\ Append(q, x)[Len(q) + 1] = x
  OBVIOUS
<1> DEFINE t == Append(q, x)
<1> HIDE DEF t
<1>2. Len(t) = Len(q) + 1 /\ Len(q) \in Nat /\ (\A i \in 1..Len(q) : t[i] = q[i]) /\ t[Len(q) + 1] = x
  BY <1>1 DEF t
<1>3. Elements(t) = Elements(q) \cup {x}
  BY <1>2 DEF Elements
<1> QED
  BY <1>1, <1>3 DEF t

\* The last n of a sequence: all of them when there are no more.
LEMMA LastLemma ==
  ASSUME NEW R, NEW q \in Seq(R), NEW n \in Nat
  PROVE  /\ LastOf(q, n) \in Seq(R) /\ Elements(LastOf(q, n)) \subseteq Elements(q)
         /\ Len(q) <= n => LastOf(q, n) = q
<1> DEFINE m == IF Len(q) > n THEN Len(q) - n + 1 ELSE 1
           u == SubSeq(q, m, Len(q))
<1>1. m \in Nat /\ m >= 1 /\ Len(q) \in Nat /\ m <= Len(q) + 1 /\ LastOf(q, n) = u
  BY DEF LastOf
<1> HIDE DEF m
<1>2. /\ u \in Seq(R) /\ Len(u) = Len(q) - m + 1
      /\ \A i \in 1..Len(u) : u[i] = q[i + m - 1] /\ i + m - 1 \in 1..Len(q)
  BY <1>1
<1> HIDE DEF u
<1>3. Elements(u) \subseteq Elements(q)
  BY <1>2 DEF Elements
<1>4. ASSUME Len(q) <= n PROVE u = q
  <2>1. m = 1
    BY <1>1, <1>4 DEF m
  <2> QED
    BY <1>2, <2>1
<1> QED
  BY <1>1, <1>2, <1>3, <1>4

LEMMA NumbersLemma ==
  ASSUME AccessAssumption, now \in 0..MaxTime
  PROVE  now \in Nat /\ Today \in Nat /\ MaxTime \in Nat
<1>1. now \in Nat /\ DayLength \in Nat /\ DayLength > 0
  BY DEF AccessAssumption
<1> QED
  BY <1>1 DEF Today, AccessAssumption

\* The replaced keys that are still in force, in their order.
LEMMA ActiveLemma ==
  ASSUME NEW v, v.prev \in Seq(Replaced), now \in Nat
  PROVE  /\ ActivePrev(v) \in Seq(Replaced) /\ Len(ActivePrev(v)) <= Len(v.prev)
         /\ Elements(ActivePrev(v)) = {o \in Elements(v.prev) : o.until > now}
<1> DEFINE s == v.prev
           N == Len(s)
           Step(n, t) == IF s[n].until > now THEN Append(t, s[n]) ELSE t
           Def(f) == f = [n \in 0..Len(v.prev) |-> IF n = 0 THEN <<>>
                            ELSE IF v.prev[n].until > now THEN Append(f[n - 1], v.prev[n]) ELSE f[n - 1]]
           g == CHOOSE f : Def(f)
<1>1. ActivePrev(v) = g[N]
  BY DEF ActivePrev
<1>2. N \in Nat /\ \A n \in 1..N : s[n] \in Replaced
  OBVIOUS
<1>3. Def(g)
  <2> DEFINE Q == Seq(Replaced)
             b == <<>>
             F == [n \in 1..N |-> [t \in Q |-> Step(n, t)]]
  <2>1. b \in Q
    OBVIOUS
  <2>2. \A n \in 1..N, t \in Q : Step(n, t) \in Q
    BY <1>2
  <2>3. F \in [1..N -> [Q -> Q]]
    <3> HIDE DEF N, Q, Step
    <3> QED  BY <2>2
  <2>4. Defined(Q, b, N, F)
    <3>1. N \in Nat
      BY <1>2
    <3> HIDE DEF N, Q, b, F
    <3> QED  BY <3>1, <2>1, <2>3, Recursion
  <2>5. PICK f \in [0..N -> Q] : f[0] = b /\ \A n \in 1..N : f[n] = F[n][f[n - 1]]
    BY <2>4 DEF Defined
  <2>6. \A n \in 1..N : f[n - 1] \in Q
    BY <2>5
  <2>7. \A n \in 1..N : f[n] = Step(n, f[n - 1])
    <3> HIDE DEF N, Q, Step, b
    <3> QED  BY <2>5, <2>6
  <2>8. Def(f)
    <3>1. f[0] = <<>> /\ f = [n \in 0..N |-> f[n]] /\ N \in Nat
      BY <1>2, <2>5
    <3>2. \A n \in 0..N : f[n] = IF n = 0 THEN <<>> ELSE IF s[n].until > now THEN Append(f[n - 1], s[n]) ELSE f[n - 1]
      <4>1. ASSUME NEW n \in 0..N, n # 0 PROVE f[n] = Step(n, f[n - 1])
        <5>1. n \in 1..N
          BY <3>1, <4>1
        <5> QED  BY <2>7, <5>1
      <4> HIDE DEF Q, F, N
      <4> QED  BY <3>1, <4>1
    <3> QED  BY <3>1, <3>2
  <2>9. \E h : Def(h)
    <3> HIDE DEF Def
    <3> QED  BY <2>8
  <2> HIDE DEF Def
  <2> QED  BY <2>9
<1> HIDE DEF g
<1>4. g[0] = <<>> /\ \A n \in 1..N : g[n] = Step(n, g[n - 1])
  <2>1. \A n \in 0..N : g[n] = IF n = 0 THEN <<>> ELSE Step(n, g[n - 1])
    BY <1>3
  <2>2. 0 \in 0..N /\ \A n \in 1..N : n \in 0..N /\ n # 0
    BY <1>2
  <2> HIDE DEF Step
  <2> QED  BY <2>1, <2>2
<1> DEFINE Seen(n) == {s[i] : i \in {i \in 1..n : s[i].until > now}}
           Right(n) == g[n] \in Seq(Replaced) /\ Len(g[n]) <= n /\ Elements(g[n]) = Seen(n)
           T == {n \in 0..N : Right(n)}
<1>5. Right(0)
  BY <1>4 DEF Elements
<1>6. ASSUME NEW n \in 1..N, Right(n - 1) PROVE Right(n)
  <2>1. g[n] = Step(n, g[n - 1]) /\ s[n] \in Replaced /\ g[n - 1] \in Seq(Replaced) /\ Len(g[n - 1]) <= n - 1
    BY <1>2, <1>4, <1>6
  <2>2. n \in Nat /\ n > 0
    BY <1>2
  <2>3. CASE s[n].until > now
    <3>1. g[n] = Append(g[n - 1], s[n])
      BY <2>1, <2>3
    <3>2. Seen(n) = Seen(n - 1) \cup {s[n]}
      BY <2>2, <2>3
    <3> HIDE DEF s, N, Step, Seen
    <3>3. Elements(g[n]) = Elements(g[n - 1]) \cup {s[n]}
      BY <2>1, <3>1, AppendLemma
    <3> QED
      BY <1>6, <2>1, <2>2, <3>1, <3>2, <3>3
  <2>4. CASE ~(s[n].until > now)
    <3>1. g[n] = g[n - 1]
      BY <2>1, <2>4
    <3>2. Seen(n) = Seen(n - 1)
      BY <2>2, <2>4
    <3> HIDE DEF s, N, Step, Seen
    <3> QED
      BY <1>6, <2>1, <2>2, <3>1, <3>2
  <2> QED
    BY <2>3, <2>4
<1>7. Right(N)
  <2>1. 0 \in T /\ \A n \in 1..N : n - 1 \in T => n \in T
    <3> HIDE DEF Right
    <3>1. 0 \in 0..N /\ \A n \in 1..N : n \in 0..N
      BY <1>2
    <3> HIDE DEF N
    <3> QED  BY <1>5, <1>6, <3>1
  <2>2. \A n \in 0..N : n \in T
    <3> HIDE DEF T, N
    <3> QED  BY <1>2, <2>1, UpTo
  <2> HIDE DEF Right
  <2> QED  BY <1>2, <2>2
<1>8. Seen(N) = {o \in Elements(v.prev) : o.until > now}
  BY <1>2 DEF Elements
<1> HIDE DEF Seen
<1> QED
  BY <1>1, <1>7, <1>8

-----------------------------------------------------------------------------
(* What the functions do to a document.                                    *)

\* The application a had the key that is a's at first.
Known(v, a) == v # None /\ (v.key = a \/ \E i \in 1..Len(v.prev) : v.prev[i].key = a)

\* The application a was v and is w: its quota is what it was unless the call sets it, only
\* a use counts, it has no key back, and keeps its keys as long as there is room for them.
GoesOn(v, w, a, c) ==
  /\ v # None => w # None
  /\ v # None /\ ~(c.op = "app" /\ c.quota > 0) =>
       w.quota = v.quota /\ (c.op # "use" => w.day = v.day /\ w.used = v.used)
  /\ v = None /\ w # None => w.day = Today /\ w.used = 0
  /\ Known(w, a) => Known(v, a)
  /\ v # None /\ Len(v.prev) < KeptKeys => InForce(v) \ (IF Grace > 0 THEN {} ELSE {v.key}) \subseteq InForce(w)

\* The document d of a call c on s, whether it is saved or stays half done.
Beside(s, d, c) ==
  /\ \A q \in Projects \ {c.x, Default} : d.projects[q] = s.projects[q]
  /\ \A a \in Apps \ {c.x} : d.apps[a] = s.apps[a]
  /\ \A h \in Hooks \ {c.x} : d.hooks[h] = s.hooks[h]
  /\ c.op # "bind" => \A m \in Members \ {c.x} : d.members[m] = s.members[m]
  /\ d.tenant = s.tenant \/ s.tenant = "none" \/ c.op = "tenant"
  /\ \A a \in Apps : GoesOn(s.apps[a], d.apps[a], a, c)

LEMMA Same == \A v, a, c : GoesOn(v, v, a, c)
BY DEF GoesOn

Keeps(s, r, c) == r = [st |-> r.st, saves |-> r.saves] /\ r.saves \in BOOLEAN /\ Good(r.st) /\ Beside(s, r.st, c)

\* One part of a document is changed at one place.
LEMMA SetTenant ==
  ASSUME NEW s, Good(s), NEW v \in {"none", "active", "disabled"}, NEW c,
         s.tenant = "none" \/ c.op = "tenant" \/ v = s.tenant
  PROVE  LET d == [s EXCEPT !.tenant = v] IN Good(d) /\ Beside(s, d, c) /\ d.apps = s.apps
<1> DEFINE d == [s EXCEPT !.tenant = v]
<1>1. d = [tenant |-> v, projects |-> s.projects, apps |-> s.apps, hooks |-> s.hooks, members |-> s.members]
  BY DEF Good, Shape
<1> HIDE DEF d
<1>2. Good(d)
  BY <1>1 DEF Good, Shape, MembersDiffer
<1>3. Beside(s, d, c)
  BY <1>1, Same DEF Beside
<1> QED
  BY <1>1, <1>2, <1>3 DEF d

LEMMA SetProject ==
  ASSUME NEW s, Good(s), NEW x, NEW v, NEW c, x \in {c.x, Default}
  PROVE  LET d == [s EXCEPT !.projects[x] = v] IN Good(d) /\ Beside(s, d, c) /\ d.apps = s.apps
<1> DEFINE d == [s EXCEPT !.projects[x] = v]
           f == [s.projects EXCEPT ![x] = v]
<1>1. d = [tenant |-> s.tenant, projects |-> f, apps |-> s.apps, hooks |-> s.hooks, members |-> s.members]
  BY DEF Good, Shape
<1>2. f = [q \in Projects |-> f[q]] /\ \A q \in Projects \ {x} : f[q] = s.projects[q]
  BY DEF Good, Shape
<1> HIDE DEF d, f
<1>3. Good(d)
  BY <1>1, <1>2 DEF Good, Shape, MembersDiffer
<1>4. Beside(s, d, c)
  BY <1>1, <1>2, Same DEF Beside
<1> QED
  BY <1>1, <1>3, <1>4 DEF d

LEMMA SetApp ==
  ASSUME NEW s, Good(s), NEW v, NEW c, AppOK(v), c.x \in Apps => GoesOn(s.apps[c.x], v, c.x, c)
  PROVE  LET d == [s EXCEPT !.apps[c.x] = v] IN Good(d) /\ Beside(s, d, c)
<1> DEFINE d == [s EXCEPT !.apps[c.x] = v]
           f == [s.apps EXCEPT ![c.x] = v]
<1>1. d = [tenant |-> s.tenant, projects |-> s.projects, apps |-> f, hooks |-> s.hooks, members |-> s.members]
  BY DEF Good, Shape
<1>2. /\ f = [a \in Apps |-> f[a]] /\ \A a \in Apps \ {c.x} : f[a] = s.apps[a]
      /\ c.x \in Apps => f[c.x] = v
  BY DEF Good, Shape
<1> HIDE DEF d, f
<1>3. Good(d)
  BY <1>1, <1>2 DEF Good, Shape, MembersDiffer
<1>4. \A a \in Apps : GoesOn(s.apps[a], d.apps[a], a, c)
  <2> TAKE a \in Apps
  <2>1. CASE a = c.x
    BY <1>1, <1>2, <2>1
  <2>2. CASE a # c.x
    BY <1>1, <1>2, <2>2, Same
  <2> QED
    BY <2>1, <2>2
<1>5. Beside(s, d, c)
  BY <1>1, <1>2, <1>4 DEF Beside
<1> QED
  BY <1>3, <1>5 DEF d

LEMMA SetHook ==
  ASSUME NEW s, Good(s), NEW v, NEW c
  PROVE  LET d == [s EXCEPT !.hooks[c.x] = v] IN Good(d) /\ Beside(s, d, c) /\ d.apps = s.apps
<1> DEFINE d == [s EXCEPT !.hooks[c.x] = v]
           f == [s.hooks EXCEPT ![c.x] = v]
<1>1. d = [tenant |-> s.tenant, projects |-> s.projects, apps |-> s.apps, hooks |-> f, members |-> s.members]
  BY DEF Good, Shape
<1>2. f = [a \in Hooks |-> f[a]] /\ \A a \in Hooks \ {c.x} : f[a] = s.hooks[a]
  BY DEF Good, Shape
<1> HIDE DEF d, f
<1>3. Good(d)
  BY <1>1, <1>2 DEF Good, Shape, MembersDiffer
<1>4. Beside(s, d, c)
  BY <1>1, <1>2, Same DEF Beside
<1> QED
  BY <1>1, <1>3, <1>4 DEF d

\* A member is set who has no phone and no subject of another one.
LEMMA SetMember ==
  ASSUME NEW s, Good(s), NEW x, NEW v, NEW c, x = c.x \/ c.op = "bind", Member(v),
         v # None => ~PhoneTaken(s, x, v.phone) /\ ~SubjectTaken(s, x, v.subject)
  PROVE  LET d == [s EXCEPT !.members[x] = v] IN Good(d) /\ Beside(s, d, c) /\ d.apps = s.apps
<1> DEFINE d == [s EXCEPT !.members[x] = v]
           f == [s.members EXCEPT ![x] = v]
<1>1. d = [tenant |-> s.tenant, projects |-> s.projects, apps |-> s.apps, hooks |-> s.hooks, members |-> f]
  BY DEF Good, Shape
<1>2. /\ f = [m \in Members |-> f[m]] /\ \A m \in Members \ {x} : f[m] = s.members[m]
      /\ x \in Members => f[x] = v
  BY DEF Good, Shape
<1> HIDE DEF d, f
<1>3. Shape(d)
  BY <1>1, <1>2 DEF Good, Shape
<1>4. MembersDiffer(d)
  <2> SUFFICES ASSUME NEW m \in Members, NEW n \in Members, m # n, f[m] # None, f[n] # None
               PROVE  f[m].phone # f[n].phone /\ (f[m].subject = None \/ f[m].subject # f[n].subject)
    BY <1>1 DEF MembersDiffer
  <2>1. CASE m # x /\ n # x
    BY <1>2, <2>1 DEF Good, MembersDiffer
  <2>2. CASE m = x
    BY <1>2, <2>2 DEF PhoneTaken, SubjectTaken, Others
  <2>3. CASE n = x
    BY <1>2, <2>3 DEF PhoneTaken, SubjectTaken, Others
  <2> QED
    BY <2>1, <2>2, <2>3
<1>5. Beside(s, d, c)
  BY <1>1, <1>2, Same DEF Beside
<1> QED
  BY <1>1, <1>3, <1>4, <1>5 DEF d, Good

LEMMA BesideTwice ==
  ASSUME NEW s, NEW d, NEW e, NEW c, Beside(s, d, c), Beside(d, e, c), s.apps = d.apps \/ d.apps = e.apps
  PROVE  Beside(s, e, c)
BY DEF Beside

LEMMA Ensured ==
  ASSUME AccessAssumption, NEW s, Good(s), NEW c
  PROVE  Good(EnsureTenant(s)) /\ Beside(s, EnsureTenant(s), c) /\ EnsureTenant(s).apps = s.apps
<1>1. CASE s.tenant # "none"
  BY <1>1, Same DEF EnsureTenant, Beside
<1>2. CASE s.tenant = "none"
  <2> DEFINE d == [s EXCEPT !.tenant = "active"]
             v == IF d.projects[Default] = "none" THEN "active" ELSE d.projects[Default]
  <2>1. Good(d) /\ Beside(s, d, c) /\ d.apps = s.apps
    BY <1>2, SetTenant
  <2>2. EnsureTenant(s) = [d EXCEPT !.projects[Default] = v]
    BY <1>2 DEF EnsureTenant
  <2> HIDE DEF d, v
  <2>3. /\ Good([d EXCEPT !.projects[Default] = v]) /\ Beside(d, [d EXCEPT !.projects[Default] = v], c)
        /\ [d EXCEPT !.projects[Default] = v].apps = d.apps
    BY <2>1, SetProject
  <2> QED
    BY <2>1, <2>2, <2>3, BesideTwice
<1> QED
  BY <1>1, <1>2

LEMMA SavesKeep ==
  ASSUME NEW s, NEW d, NEW c, Good(d), Beside(s, d, c)
  PROVE  Keeps(s, Saves(d), c) /\ Keeps(s, Refused(d), c)
BY DEF Keeps, Saves, Refused

LEMMA SameKept == ASSUME NEW s, NEW c, Good(s) PROVE Keeps(s, Refused(s), c)
BY SavesKeep, Same DEF Beside

LEMMA TenantKept ==
  ASSUME AccessAssumption, NEW s, Good(s), NEW c \in Calls
  PROVE  Keeps(s, CreateTenant(s), c) /\ (c.op = "tenant" => Keeps(s, UpdateTenant(s, c), c))
<1>1. Keeps(s, CreateTenant(s), c)
  BY Ensured, SavesKeep, SameKept DEF CreateTenant
<1>2. ASSUME c.op = "tenant" PROVE Keeps(s, UpdateTenant(s, c), c)
  <2>1. c.status \in {"none", "active", "disabled"}
    BY <1>2 DEF Calls, Call
  <2>2. Keeps(s, Saves([s EXCEPT !.tenant = c.status]), c)
    BY <1>2, <2>1, SetTenant, SavesKeep
  <2> QED
    BY <2>2, SameKept DEF UpdateTenant
<1> QED
  BY <1>1, <1>2

LEMMA ProjectKept ==
  ASSUME AccessAssumption, NEW s, Good(s), NEW c
  PROVE  Keeps(s, CreateProject(s, c), c) /\ Keeps(s, UpdateProject(s, c), c)
<1> DEFINE e == EnsureTenant(s)
<1>1. Good(e) /\ Beside(s, e, c) /\ e.apps = s.apps
  BY Ensured
<1>2. Keeps(s, Refused(e), c)
  BY <1>1, SavesKeep
<1>3. Keeps(s, Saves([e EXCEPT !.projects[c.x] = c.status]), c)
  <2> HIDE DEF e
  <2>1. Good([e EXCEPT !.projects[c.x] = c.status]) /\ Beside(e, [e EXCEPT !.projects[c.x] = c.status], c)
    BY <1>1, SetProject
  <2> QED
    BY <1>1, <2>1, BesideTwice, SavesKeep
<1>4. Keeps(s, Saves([s EXCEPT !.projects[c.x] = c.status]), c)
  BY SetProject, SavesKeep
<1> QED
  BY <1>2, <1>3, <1>4, SameKept DEF CreateProject, UpdateProject

\* An application is set twice.
SetTo(s, x, v) == [s EXCEPT !.apps[x] = v]

LEMMA SetTwice ==
  ASSUME NEW s, Good(s), NEW x \in Apps, NEW v, NEW w
  PROVE  SetTo(s, x, v).apps[x] = v /\ [SetTo(s, x, v) EXCEPT !.apps[x] = w] = SetTo(s, x, w)
<1> DEFINE d == SetTo(s, x, v)
           f == [s.apps EXCEPT ![x] = v]
<1>1. /\ s = [tenant |-> s.tenant, projects |-> s.projects, apps |-> s.apps, hooks |-> s.hooks, members |-> s.members]
      /\ s.apps = [a \in Apps |-> s.apps[a]]
  BY DEF Good, Shape
<1>2. d = [tenant |-> s.tenant, projects |-> s.projects, apps |-> f, hooks |-> s.hooks, members |-> s.members]
  BY <1>1 DEF SetTo
<1>3. f[x] = v /\ [f EXCEPT ![x] = w] = [s.apps EXCEPT ![x] = w]
  BY <1>1
<1> HIDE DEF d, f
<1>4. [d EXCEPT !.apps[x] = w] = [s EXCEPT !.apps[x] = w]
  BY <1>1, <1>2, <1>3
<1> QED
  BY <1>2, <1>3, <1>4 DEF d, SetTo

LEMMA AppKept ==
  ASSUME AccessAssumption, now \in 0..MaxTime, NEW s, Good(s), NEW c \in Calls, c.x \in Apps, NEW k \in Tasks \X Nat
  PROVE  Keeps(s, CreateApp(s, c, k), c) /\ (c.op = "app" => Keeps(s, UpdateApp(s, c), c)) /\ Keeps(s, RotateApp(s, c, k), c)
<1> DEFINE a == s.apps[c.x]
           e == EnsureTenant(s)
<1>1. Good(e) /\ Beside(s, e, c) /\ e.apps = s.apps
  BY Ensured
<1>2. /\ now \in Nat /\ Today \in Nat /\ c.quota \in Nat /\ k \in AccessKeys /\ k \notin Apps
      /\ Grace \in Nat /\ KeptKeys \in Nat
  BY NumbersLemma DEF Calls, Call, AccessKeys, AccessAssumption
<1>3. AppOK(a)
  BY DEF Good, Shape
<1>4. Keeps(s, CreateApp(s, c, k), c)
  <2> DEFINE v == [project |-> c.project, status |-> c.status, key |-> k, prev |-> <<>>,
                   quota |-> c.quota, day |-> Today, used |-> 0]
  <2>1. Keeps(s, Refused(e), c)
    BY <1>1, SavesKeep
  <2>2. ASSUME a = None PROVE Keeps(s, Saves([e EXCEPT !.apps[c.x] = v]), c)
    <3>1. AppOK(v)
      BY <1>2 DEF AppOK
    <3>2. GoesOn(a, v, c.x, c)
      BY <1>2, <2>2 DEF GoesOn, Known
    <3> HIDE DEF e, v
    <3>3. Good([e EXCEPT !.apps[c.x] = v]) /\ Beside(e, [e EXCEPT !.apps[c.x] = v], c)
      BY <1>1, <3>1, <3>2, SetApp
    <3> QED
      BY <1>1, <3>3, BesideTwice, SavesKeep
  <2> QED
    BY <2>1, <2>2, SameKept DEF CreateApp
<1>5. ASSUME c.op = "app" PROVE Keeps(s, UpdateApp(s, c), c)
  <2> DEFINE v == [project |-> Given(c.project, a.project), status |-> Given(c.status, a.status), key |-> a.key,
                   prev |-> a.prev, quota |-> a.quota, day |-> a.day, used |-> a.used]
             w == [project |-> Given(c.project, a.project), status |-> Given(c.status, a.status), key |-> a.key,
                   prev |-> a.prev, quota |-> c.quota, day |-> Today, used |-> 0]
             mm == [s EXCEPT !.apps[c.x].project = Given(c.project, @), !.apps[c.x].status = Given(c.status, @)]
             m  == [s EXCEPT !.apps[c.x] = v]
             n  == [s EXCEPT !.apps[c.x] = w]
  <2>1. ASSUME a # None PROVE mm = m /\ [m EXCEPT !.apps[c.x].quota = c.quota, !.apps[c.x].day = Today, !.apps[c.x].used = 0] = n
    <3>1. a = [project |-> a.project, status |-> a.status, key |-> a.key, prev |-> a.prev,
               quota |-> a.quota, day |-> a.day, used |-> a.used]
      BY <1>3, <2>1 DEF AppOK
    <3> DEFINE D(u) == SetTo(s, c.x, u)
               v1 == [a EXCEPT !.project = Given(c.project, a.project)]
               w1 == [v EXCEPT !.quota = c.quota]
               w2 == [w1 EXCEPT !.day = Today]
    <3>2. [v1 EXCEPT !.status = Given(c.status, v1.status)] = v /\ [w2 EXCEPT !.used = 0] = w
      <4> HIDE DEF a
      <4>1. v1 = [project |-> Given(c.project, a.project), status |-> a.status, key |-> a.key, prev |-> a.prev,
                  quota |-> a.quota, day |-> a.day, used |-> a.used]
        BY <3>1
      <4>2. w1 = [project |-> v.project, status |-> v.status, key |-> v.key, prev |-> v.prev,
                  quota |-> c.quota, day |-> v.day, used |-> v.used]
        OBVIOUS
      <4>3. w2 = [project |-> v.project, status |-> v.status, key |-> v.key, prev |-> v.prev,
                  quota |-> c.quota, day |-> Today, used |-> v.used]
        <5> HIDE DEF w1, v
        <5> QED
          BY <4>2
      <4>4. [v1 EXCEPT !.status = Given(c.status, v1.status)] = v
        <5> HIDE DEF v1
        <5> QED
          BY <4>1
      <4>5. [w2 EXCEPT !.used = 0] = w
        <5> HIDE DEF w2
        <5> QED
          BY <4>3
      <4> QED
        BY <4>4, <4>5
    <3>3. ASSUME NEW u, NEW z PROVE D(u).apps[c.x] = u /\ [D(u) EXCEPT !.apps[c.x] = z] = D(z)
      BY SetTwice
    <3>4. mm = [D(v1) EXCEPT !.apps[c.x].status = Given(c.status, @)]
      BY DEF SetTo
    <3>5. [m EXCEPT !.apps[c.x].quota = c.quota, !.apps[c.x].day = Today, !.apps[c.x].used = 0]
            = [[[D(v) EXCEPT !.apps[c.x].quota = c.quota] EXCEPT !.apps[c.x].day = Today] EXCEPT !.apps[c.x].used = 0]
      <4> HIDE DEF v
      <4> QED
        BY DEF SetTo
    <3> HIDE DEF D
    <3>6. [D(v1) EXCEPT !.apps[c.x].status = Given(c.status, @)] = D(v)
      <4> HIDE DEF v, v1
      <4> QED
        BY <3>2, <3>3
    <3>7. [[[D(v) EXCEPT !.apps[c.x].quota = c.quota] EXCEPT !.apps[c.x].day = Today] EXCEPT !.apps[c.x].used = 0] = D(w)
      <4>1. [D(v) EXCEPT !.apps[c.x].quota = c.quota] = D(w1)
        <5> HIDE DEF v
        <5> QED
          BY <3>3
      <4>2. [D(w1) EXCEPT !.apps[c.x].day = Today] = D(w2)
        <5> HIDE DEF w1
        <5> QED
          BY <3>3
      <4>3. [D(w2) EXCEPT !.apps[c.x].used = 0] = D(w)
        <5> HIDE DEF w2, w
        <5> QED
          BY <3>2, <3>3
      <4> HIDE DEF v, w1, w2, w
      <4> QED
        BY <4>1, <4>2, <4>3
    <3> QED
      BY <3>4, <3>5, <3>6, <3>7 DEF D, SetTo
  <2>2. \/ UpdateApp(s, c) = Refused(s)
        \/ a # None /\ UpdateApp(s, c) \in {Refused(m), Saves(m)}
        \/ a # None /\ c.quota # 0 /\ UpdateApp(s, c) = Saves(n)
    <3>1. \/ UpdateApp(s, c) = Refused(s)
          \/ a # None /\ UpdateApp(s, c) \in {Refused(mm), Saves(mm)}
          \/ /\ a # None /\ c.quota # 0
             /\ UpdateApp(s, c) = Saves([mm EXCEPT !.apps[c.x].quota = c.quota, !.apps[c.x].day = Today, !.apps[c.x].used = 0])
      BY DEF UpdateApp
    <3> HIDE DEF mm, m, n, a
    <3> QED
      BY <2>1, <3>1
  <2>3. ASSUME a # None PROVE Good(m) /\ Beside(s, m, c)
    <3>1. AppOK(v) /\ GoesOn(a, v, c.x, c)
      BY <1>2, <1>3, <2>3 DEF AppOK, GoesOn, Known, InForce, AccessAssumption
    <3> HIDE DEF v
    <3> QED
      BY <3>1, SetApp
  <2>4. ASSUME a # None, c.quota # 0 PROVE Good(n) /\ Beside(s, n, c)
    <3>1. AppOK(w)
      BY <1>2, <1>3, <2>4 DEF AppOK
    <3>2. w # None /\ w.key = a.key /\ w.prev = a.prev /\ c.quota > 0
      BY <1>2, <2>4 DEF AccessAssumption
    <3>3. GoesOn(a, w, c.x, c)
      <4> HIDE DEF a, w
      <4> QED
        BY <1>5, <2>4, <3>2 DEF GoesOn, Known, InForce
    <3> HIDE DEF w
    <3> QED
      BY <3>1, <3>3, SetApp
  <2> HIDE DEF m, n, a
  <2> QED
    BY <2>2, <2>3, <2>4, SavesKeep, SameKept
<1>6. Keeps(s, RotateApp(s, c, k), c)
  <2> DEFINE old == IF Grace > 0 THEN << [key |-> a.key, until |-> now + Grace] >> ELSE <<>>
             q == ActivePrev(a) \o old
             w == [project |-> a.project, status |-> a.status, key |-> k, prev |-> LastOf(q, KeptKeys),
                   quota |-> a.quota, day |-> a.day, used |-> a.used]
             d == [e EXCEPT !.apps[c.x] = w]
  <2>1. RotateApp(s, c, k) = Refused(s) \/ (a # None /\ RotateApp(s, c, k) = Saves(d))
    <3>1. ASSUME a # None PROVE [e EXCEPT !.apps[c.x].key = k, !.apps[c.x].prev = LastOf(q, KeptKeys)] = d
      <4>1. a = [project |-> a.project, status |-> a.status, key |-> a.key, prev |-> a.prev,
                 quota |-> a.quota, day |-> a.day, used |-> a.used]
        BY <1>3, <3>1 DEF AppOK
      <4> DEFINE D(u) == SetTo(e, c.x, u)
                 w1 == [a EXCEPT !.key = k]
                 p == LastOf(q, KeptKeys)
      <4>2. ASSUME NEW u, NEW z PROVE D(u).apps[c.x] = u /\ [D(u) EXCEPT !.apps[c.x] = z] = D(z)
        <5> HIDE DEF e
        <5> QED
          BY <1>1, SetTwice
      <4>3. [w1 EXCEPT !.prev = p] = w
        <5> HIDE DEF q, p, a
        <5>1. w1 = [project |-> a.project, status |-> a.status, key |-> k, prev |-> a.prev,
                    quota |-> a.quota, day |-> a.day, used |-> a.used]
          BY <4>1
        <5> HIDE DEF w1
        <5> QED
          BY <5>1 DEF p
      <4>4. [e EXCEPT !.apps[c.x].key = k, !.apps[c.x].prev = p] = [D(w1) EXCEPT !.apps[c.x].prev = p]
        <5>1. e.apps[c.x] = a
          BY <1>1
        <5> HIDE DEF e, q, a
        <5> QED
          BY <5>1 DEF SetTo
      <4>5. [D(w1) EXCEPT !.apps[c.x].prev = p] = D(w)
        <5> HIDE DEF w1, w, p, D
        <5> QED
          BY <4>2, <4>3
      <4> HIDE DEF q, e, w, w1
      <4> QED
        BY <4>4, <4>5 DEF SetTo
    <3> HIDE DEF d
    <3> QED
      BY <3>1 DEF RotateApp
  <2>2. ASSUME a # None PROVE AppOK(w) /\ GoesOn(a, w, c.x, c)
    <3>1. a.key \in AccessKeys /\ a.prev \in Seq(Replaced) /\ {a.quota, a.day, a.used} \subseteq Nat
      BY <1>3, <2>2 DEF AppOK
    <3> HIDE DEF a
    <3>2. /\ ActivePrev(a) \in Seq(Replaced) /\ Len(ActivePrev(a)) <= Len(a.prev)
          /\ Elements(ActivePrev(a)) = {o \in Elements(a.prev) : o.until > now}
      BY <1>2, <3>1, ActiveLemma
    <3> DEFINE act == ActivePrev(a)
    <3> HIDE DEF act
    <3>3. /\ q \in Seq(Replaced) /\ Len(q) <= Len(a.prev) + 1
          /\ Elements(q) = Elements(act) \cup IF Grace > 0 THEN {[key |-> a.key, until |-> now + Grace]} ELSE {}
      <4>1. CASE Grace > 0
        <5>1. [key |-> a.key, until |-> now + Grace] \in Replaced
          BY <1>2, <3>1 DEF Replaced
        <5>2. q = Append(act, [key |-> a.key, until |-> now + Grace])
          BY <3>2, <4>1, <5>1 DEF act
        <5> HIDE DEF q
        <5> QED
          BY <3>1, <3>2, <4>1, <5>1, <5>2, AppendLemma DEF act
      <4>2. CASE ~(Grace > 0)
        <5>1. q = act
          BY <3>2, <4>2 DEF act
        <5> HIDE DEF q
        <5> QED
          BY <3>1, <3>2, <4>2, <5>1 DEF act
      <4> QED
        BY <4>1, <4>2
    <3> HIDE DEF q
    <3>4. /\ LastOf(q, KeptKeys) \in Seq(Replaced) /\ Elements(LastOf(q, KeptKeys)) \subseteq Elements(q)
          /\ Len(q) <= KeptKeys => LastOf(q, KeptKeys) = q
      BY <1>2, <3>3, LastLemma
    <3> DEFINE p == LastOf(q, KeptKeys)
    <3> HIDE DEF p
    <3>5. AppOK(w)
      BY <1>2, <3>1, <3>4 DEF AppOK, p
    <3>6. ASSUME Known(w, c.x) PROVE Known(a, c.x)
      <4>1. PICK o \in Elements(p) : o.key = c.x
        BY <1>2, <3>6 DEF Known, Elements, p
      <4>2. o \in Elements(a.prev) \/ o = [key |-> a.key, until |-> now + Grace]
        BY <3>2, <3>3, <3>4, <4>1 DEF act, p
      <4> QED
        BY <2>2, <4>1, <4>2 DEF Known, Elements
    <3>7. ASSUME Len(a.prev) < KeptKeys PROVE InForce(a) \ (IF Grace > 0 THEN {} ELSE {a.key}) \subseteq InForce(w)
      <4>1. p = q /\ Len(a.prev) \in Nat /\ Len(q) \in Nat
        BY <1>2, <3>1, <3>3, <3>4, <3>7 DEF p
      <4>2. ASSUME NEW i \in 1..Len(a.prev), a.prev[i].until > now PROVE a.prev[i].key \in InForce(w)
        <5>1. PICK j \in 1..Len(p) : p[j] = a.prev[i]
          BY <3>2, <3>3, <4>1, <4>2 DEF Elements, act
        <5> QED
          BY <4>2, <5>1 DEF InForce, p
      <4>3. ASSUME Grace > 0 PROVE a.key \in InForce(w)
        <5>1. PICK j \in 1..Len(p) : p[j] = [key |-> a.key, until |-> now + Grace]
          BY <3>3, <4>1, <4>3 DEF Elements
        <5>2. p[j].key = a.key /\ p[j].until > now
          BY <1>2, <4>3, <5>1
        <5> QED
          BY <5>2 DEF InForce, p
      <4>4. ASSUME NEW x \in InForce(a) \ (IF Grace > 0 THEN {} ELSE {a.key}) PROVE x \in InForce(w)
        <5>1. x = a.key \/ \E i \in 1..Len(a.prev) : a.prev[i].until > now /\ x = a.prev[i].key
          BY <4>4 DEF InForce
        <5>2. CASE x = a.key
          BY <4>3, <4>4, <5>2
        <5>3. CASE \E i \in 1..Len(a.prev) : a.prev[i].until > now /\ x = a.prev[i].key
          BY <4>2, <5>3
        <5> QED
          BY <5>1, <5>2, <5>3
      <4> QED
        BY <4>4
    <3> QED
      BY <2>2, <3>5, <3>6, <3>7 DEF GoesOn, AppOK, AccessAssumption
  <2>3. ASSUME a # None PROVE Good(d) /\ Beside(s, d, c)
    <3> HIDE DEF e, w
    <3>1. Good(d) /\ Beside(e, d, c)
      BY <1>1, <2>2, <2>3, SetApp
    <3> QED
      BY <1>1, <3>1, BesideTwice
  <2> HIDE DEF d, a
  <2> QED
    BY <2>1, <2>3, SavesKeep, SameKept
<1> QED
  BY <1>4, <1>5, <1>6

LEMMA HookKept ==
  ASSUME NEW s, Good(s), NEW c, NEW k
  PROVE  Keeps(s, CreateHook(s, c, k), c) /\ Keeps(s, UpdateHook(s, c), c) /\ Keeps(s, RotateHook(s, c, k), c)
<1>1. Keeps(s, CreateHook(s, c, k), c)
  <2> DEFINE v == [app |-> c.app, project |-> c.in, status |-> c.status, url |-> c.url = TRUE, secret |-> k]
  <2>1. CreateHook(s, c, k) \in {Refused(s), Saves([s EXCEPT !.hooks[c.x] = v])}
    BY DEF CreateHook
  <2> HIDE DEF v
  <2>2. Good([s EXCEPT !.hooks[c.x] = v]) /\ Beside(s, [s EXCEPT !.hooks[c.x] = v], c)
    BY SetHook
  <2> QED
    BY <2>1, <2>2, SavesKeep, SameKept
<1>2. Keeps(s, UpdateHook(s, c), c)
  <2> DEFINE h    == s.hooks[c.x]
             next == IF h = None THEN None ELSE Given(c.status, h.status)
             h1   == [s EXCEPT !.hooks[c.x].app = Given(c.app, @)]
             h2   == [h1 EXCEPT !.hooks[c.x].url = Given(c.url, @)]
             h3   == [h2 EXCEPT !.hooks[c.x].status = next]
  <2>1. Good(h1) /\ Beside(s, h1, c) /\ h1.apps = s.apps
    BY SetHook
  <2>2. Good(h2) /\ Beside(h1, h2, c) /\ h2.apps = h1.apps
    <3> HIDE DEF h1
    <3> QED
      BY <2>1, SetHook
  <2>3. Good(h3) /\ Beside(h2, h3, c) /\ h3.apps = h2.apps
    <3> HIDE DEF h2, next
    <3> QED
      BY <2>2, SetHook
  <2>4. UpdateHook(s, c) \in {Refused(s), Refused(h1), Refused(h2), Refused(h3), Saves(h3)}
    BY DEF UpdateHook
  <2> HIDE DEF h1, h2, h3
  <2>5. Beside(s, h2, c) /\ Beside(s, h3, c)
    BY <2>1, <2>2, <2>3, BesideTwice
  <2> QED
    BY <2>1, <2>2, <2>3, <2>4, <2>5, SavesKeep, SameKept
<1>3. Keeps(s, RotateHook(s, c, k), c)
  <2>1. RotateHook(s, c, k) \in {Refused(s), Saves([s EXCEPT !.hooks[c.x].secret = k])}
    BY DEF RotateHook
  <2>2. Good([s EXCEPT !.hooks[c.x].secret = k]) /\ Beside(s, [s EXCEPT !.hooks[c.x].secret = k], c)
    BY SetHook
  <2> QED
    BY <2>1, <2>2, SavesKeep, SameKept
<1> QED
  BY <1>1, <1>2, <1>3

LEMMA MemberKept ==
  ASSUME AccessAssumption, NEW s, Good(s), NEW c \in Calls
  PROVE  /\ c.op = "newMember" => Keeps(s, CreateMember(s, c), c)
         /\ c.op = "member" => Keeps(s, UpdateMember(s, c), c)
         /\ c.op = "dropMember" => Keeps(s, DeleteMember(s, c), c)
         /\ c.op = "bind" => Keeps(s, ResolveMember(s, c), c)
<1>1. Keeps(s, CreateMember(s, c), c)
  <2> DEFINE v == [phone |-> c.phone, subject |-> c.subject]
  <2>1. \/ CreateMember(s, c) = Refused(s)
        \/ /\ CreateMember(s, c) = Saves([s EXCEPT !.members[c.x] = v])
           /\ ~PhoneTaken(s, c.x, v.phone) /\ ~SubjectTaken(s, c.x, v.subject)
    BY DEF CreateMember
  <2>2. Member(v)
    BY DEF Member
  <2> HIDE DEF v
  <2> QED
    BY <2>1, <2>2, SetMember, SavesKeep, SameKept
<1>2. ASSUME c.x \in Members PROVE Keeps(s, UpdateMember(s, c), c)
  <2> DEFINE r  == s.members[c.x]
             v1 == [r EXCEPT !.phone = Given(c.phone, r.phone)]
             m  == [s EXCEPT !.members[c.x] = v1]
             v2 == [m.members[c.x] EXCEPT !.subject = Given(c.subject, m.members[c.x].subject)]
             n  == [m EXCEPT !.members[c.x] = v2]
  <2>1. \/ UpdateMember(s, c) = Refused(s)
        \/ /\ UpdateMember(s, c) \in {Refused(m), Saves(n)}
           /\ r # None /\ (c.phone # None => ~PhoneTaken(s, c.x, c.phone))
           /\ UpdateMember(s, c) # Refused(m) => ~SubjectTaken(s, c.x, c.subject)
    BY DEF UpdateMember
  <2>2. ASSUME r # None, c.phone # None => ~PhoneTaken(s, c.x, c.phone)
        PROVE  Good(m) /\ Beside(s, m, c) /\ m.apps = s.apps
    <3>1. r = [phone |-> r.phone, subject |-> r.subject]
      BY <1>2, <2>2 DEF Good, Shape, Member
    <3>2. v1 = [phone |-> Given(c.phone, r.phone), subject |-> r.subject]
      BY <3>1
    <3>3. ~PhoneTaken(s, c.x, Given(c.phone, r.phone)) /\ ~SubjectTaken(s, c.x, r.subject)
      BY <1>2, <2>2 DEF Good, MembersDiffer, PhoneTaken, SubjectTaken, Others, Given
    <3> HIDE DEF r, v1
    <3>4. Member(v1) /\ ~PhoneTaken(s, c.x, v1.phone) /\ ~SubjectTaken(s, c.x, v1.subject)
      BY <3>2, <3>3 DEF Member
    <3> QED
      BY <3>4, SetMember
  <2>3. ASSUME Good(m), Beside(s, m, c), r # None, c.phone # None => ~PhoneTaken(s, c.x, c.phone),
               ~SubjectTaken(s, c.x, c.subject)
        PROVE  Good(n) /\ Beside(m, n, c)
    <3>1. m.members[c.x] # None /\ \A y \in Members \ {c.x} : m.members[y] = s.members[y]
      <4>1. m.members[c.x] = v1 /\ \A y \in Members \ {c.x} : m.members[y] = s.members[y]
        BY <1>2 DEF Good, Shape
      <4>2. r = [phone |-> r.phone, subject |-> r.subject]
        BY <1>2, <2>3 DEF Good, Shape, Member
      <4>3. v1 = [phone |-> Given(c.phone, r.phone), subject |-> r.subject]
        BY <4>2
      <4> QED
        BY <4>1, <4>3 DEF AccessAssumption
    <3> DEFINE q == m.members[c.x]
    <3> HIDE DEF m
    <3>2. q = [phone |-> q.phone, subject |-> q.subject]
      BY <1>2, <2>3, <3>1 DEF Good, Shape, Member
    <3>3. v2 = [phone |-> q.phone, subject |-> Given(c.subject, q.subject)]
      BY <3>2
    <3>4. ~PhoneTaken(m, c.x, q.phone) /\ ~SubjectTaken(m, c.x, Given(c.subject, q.subject))
      BY <1>2, <2>3, <3>1 DEF Good, MembersDiffer, PhoneTaken, SubjectTaken, Others, Given
    <3> HIDE DEF q, v2
    <3>5. Member(v2) /\ ~PhoneTaken(m, c.x, v2.phone) /\ ~SubjectTaken(m, c.x, v2.subject)
      BY <3>3, <3>4 DEF Member
    <3> QED
      BY <2>3, <3>5, SetMember
  <2> HIDE DEF m, n, r
  <2> QED
    BY <2>1, <2>2, <2>3, BesideTwice, SavesKeep, SameKept
<1>3. Keeps(s, DeleteMember(s, c), c)
  <2>1. DeleteMember(s, c) \in {Refused(s), Saves([s EXCEPT !.members[c.x] = None])}
    BY DEF DeleteMember
  <2>2. Member(None)
    BY DEF Member
  <2> QED
    BY <2>1, <2>2, SetMember, SavesKeep, SameKept
<1>4. ASSUME c.op = "bind" PROVE Keeps(s, ResolveMember(s, c), c)
  <2> DEFINE known == {m \in Members : s.members[m] # None /\ s.members[m].subject = c.subject}
             free  == {m \in Members : s.members[m] # None /\ s.members[m].phone = c.phone /\ s.members[m].subject = None}
             x == CHOOSE m \in free : TRUE
             v == [s.members[x] EXCEPT !.subject = c.subject]
             d == [s EXCEPT !.members[x] = v]
  <2>1. ResolveMember(s, c) = Refused(s) \/ (known = {} /\ free # {} /\ ResolveMember(s, c) = Saves(d))
    BY DEF ResolveMember
  <2>2. ASSUME known = {}, free # {} PROVE Good(d) /\ Beside(s, d, c)
    <3>1. x \in Members /\ s.members[x] # None
      BY <2>2
    <3> HIDE DEF x
    <3>2. s.members[x] = [phone |-> s.members[x].phone, subject |-> s.members[x].subject]
      BY <3>1 DEF Good, Shape, Member
    <3>3. v = [phone |-> s.members[x].phone, subject |-> c.subject]
      BY <3>2
    <3>4. ~PhoneTaken(s, x, s.members[x].phone) /\ ~SubjectTaken(s, x, c.subject)
      BY <2>2, <3>1 DEF Good, MembersDiffer, PhoneTaken, SubjectTaken, Others
    <3> HIDE DEF v
    <3>5. Member(v) /\ ~PhoneTaken(s, x, v.phone) /\ ~SubjectTaken(s, x, v.subject)
      BY <3>3, <3>4 DEF Member
    <3> QED
      BY <1>4, <3>5, SetMember
  <2> HIDE DEF d, known, free
  <2> QED
    BY <2>1, <2>2, SavesKeep, SameKept
<1> QED
  BY <1>1, <1>2, <1>3, <1>4 DEF Calls

\* Whatever the function does, the document stays sound, and changes only where it may.
LEMMA DoesKept ==
  ASSUME AccessAssumption, now \in 0..MaxTime, NEW s, Good(s), NEW c \in Calls, NEW k, c.op # "use",
         c.op \notin Unaudited => k \in Tasks \X Nat
  PROVE  Keeps(s, Does(s, c, k), c) /\ (c.op = "newTenant" => Keeps(s, CreateApp(s, c, k), c))
<1>1. c.op \in Ops
  BY DEF Calls
<1>2. ASSUME c.op \in {"newTenant", "newApp", "app", "rotate"}
      PROVE  /\ Keeps(s, CreateApp(s, c, k), c) /\ (c.op = "app" => Keeps(s, UpdateApp(s, c), c))
             /\ Keeps(s, RotateApp(s, c, k), c)
  <2>1. c.x \in Apps /\ k \in Tasks \X Nat
    BY <1>2 DEF Calls, Unaudited
  <2> QED
    BY <2>1, AppKept
<1> QED
  BY <1>1, <1>2, TenantKept, ProjectKept, HookKept, MemberKept DEF Does, Ops

-----------------------------------------------------------------------------
(* The invariant.                                                          *)
Busy == {"edit", "put"}

\* The row, the caches, and whether what a replica has in memory was ever saved.
Store ==
  /\ mode \in {"file", "postgres"} /\ home \in [Tasks -> Nodes]
  /\ mode = "file" => \A t, u \in Tasks : home[t] = home[u]
  /\ row = [rev |-> row.rev, st |-> row.st] /\ row.rev \in Nat /\ Good(row.st)
  /\ DOMAIN cache = Nodes
  /\ \A p \in Nodes : /\ cache[p] = [rev |-> cache[p].rev, st |-> cache[p].st]
                      /\ cache[p].rev \in 0..row.rev /\ Good(cache[p].st)
  /\ tainted \in [Nodes -> BOOLEAN] /\ dirty \in [Nodes -> BOOLEAN]
  /\ mode = "postgres" => \A p \in Nodes : ~dirty[p]
  /\ CachesAgree

\* A task that has audited calls has a sound copy to put back.
TaskOK(k) ==
  /\ k = [f \in {"pc", "call", "key", "second", "old", "quota"} |-> k[f]]
  /\ k.pc \in {"idle", "enter", "edit", "consume", "audit", "undo", "put"} /\ k.second \in BOOLEAN
  /\ k.pc # "idle" => k.call \in Calls /\ (k.call.op \notin Unaudited => Good(k.old) /\ k.key \in Tasks \X Nat)
  /\ k.pc \in {"undo", "put", "audit"} => k.call.op \notin Unaudited
  /\ k.second => k.call.op = "newTenant"

\* The lock of a replica is held by the one task that is at its document.
Locked ==
  /\ lock \in [Nodes -> Tasks \cup {None}]
  /\ \A t \in Tasks : task[t].pc \in Busy => lock[home[t]] = t
  /\ \A p \in Nodes : lock[p] # None => home[lock[p]] = p /\ task[lock[p]].pc \in Busy

Work ==
  /\ home \in [Tasks -> Nodes] /\ DOMAIN task = Tasks /\ \A t \in Tasks : TaskOK(task[t])
  /\ todo \in [Tasks -> Seq(Calls)]
  /\ faults \in 0..MaxFaults /\ now \in 0..MaxTime
  /\ Locked

Inv == Store /\ Work

LEMMA InvIsSound ==
  ASSUME AccessAssumption, Inv
  PROVE  DocumentsAgree
<1>1. ASSUME NEW p \in Nodes
      PROVE  lock[p] \in Tasks \cup {None} /\ (lock[p] # None <=> \E t \in Tasks : P(t) = p /\ task[t].pc \in {"edit", "put"})
  BY <1>1 DEF AccessAssumption, Inv, Work, Locked, P, Busy
<1>2. row.rev \in Nat /\ (\A p \in Nodes : cache[p].rev \in 0..row.rev) /\ row.st.tenant \in {"none", "active", "disabled"}
  BY DEF Inv, Store, Good, Shape
<1> QED
  BY <1>1, <1>2 DEF Inv, Store, Work, AccessTypeOK, Good, DocumentsAgree

LEMMA InvInit == ASSUME AccessAssumption, AccessInit PROVE Inv
<1>1. PICK d \in Documents : row = [rev |-> 0, st |-> d]
  BY DEF AccessInit
<1>2. Good(d)
  BY DEF AccessAssumption
<1>3. CachesAgree
  BY DEF AccessInit, CachesAgree, Replicas, AccessAssumption
<1>4. Store
  BY <1>1, <1>2, <1>3 DEF AccessInit, Store, AccessAssumption
<1>5. TaskOK(Idle) /\ Idle.pc = "idle"
  BY DEF TaskOK, Idle
<1>6. DOMAIN task = Tasks /\ \A t \in Tasks : task[t] = Idle
  BY DEF AccessInit
<1>7. Locked
  BY <1>5, <1>6 DEF AccessInit, Locked, Busy
<1>8. Work
  BY <1>5, <1>6, <1>7 DEF AccessInit, Work, AccessAssumption
<1> QED
  BY <1>4, <1>8 DEF Inv

-----------------------------------------------------------------------------
(* The steps.                                                              *)

\* What a save of s by task t does to the row and the caches.
Saved(t, s) ==
  LET p == home[t]
      Kept == /\ cache' = [cache EXCEPT ![p].st = s] /\ tainted' = [tainted EXCEPT ![p] = TRUE] /\ UNCHANGED dirty
  IN \/ /\ cache[p].rev = row.rev
        /\ row' = [rev |-> Next1, st |-> s] /\ cache' = [cache EXCEPT ![p] = row']
        /\ tainted' = [tainted EXCEPT ![p] = FALSE] /\ dirty' = [dirty EXCEPT ![p] = FALSE]
     \/ /\ cache[p].rev # row.rev /\ cache' = [cache EXCEPT ![p] = row]
        /\ tainted' = [tainted EXCEPT ![p] = FALSE] /\ UNCHANGED <<row, dirty>>
     \/ cache[p].rev # row.rev /\ Kept /\ UNCHANGED row
     \/ cache[p].rev = row.rev /\ Kept /\ row' \in {row, [rev |-> Next1, st |-> s]}

LEMMA SavedKept ==
  ASSUME AccessAssumption, Store, NEW t \in Tasks, NEW s, Good(s), Saved(t, s), UNCHANGED <<mode, home>>
  PROVE  Store'
<1> DEFINE p == home[t]
<1>1. p \in Nodes /\ p \in Replicas
  BY DEF Store, Replicas
<1>2. row' = [rev |-> row'.rev, st |-> row'.st] /\ row'.rev \in Nat /\ row'.rev >= row.rev /\ Good(row'.st)
  BY DEF Saved, Store, Next1
<1>3. /\ DOMAIN cache' = Nodes /\ \A q \in Nodes \ {p} : cache'[q] = cache[q] /\ tainted'[q] = tainted[q]
      /\ tainted' \in [Nodes -> BOOLEAN] /\ dirty' \in [Nodes -> BOOLEAN]
      /\ mode = "postgres" => \A q \in Nodes : ~dirty'[q]
  BY <1>1 DEF Saved, Store
<1>4. /\ cache'[p] = [rev |-> cache'[p].rev, st |-> cache'[p].st] /\ cache'[p].rev \in 0..row'.rev /\ Good(cache'[p].st)
      /\ ~tainted'[p] => cache'[p] = row'
  BY <1>1, <1>2 DEF Saved, Store, Next1
<1>5. \A q \in Nodes \ {p} : q \in Replicas /\ cache'[q].rev = row'.rev => row' = row
  <2> SUFFICES ASSUME NEW q \in Nodes \ {p}, q \in Replicas, cache'[q].rev = row'.rev PROVE row' = row
    OBVIOUS
  <2>1. mode = "postgres"
    BY DEF Store, Replicas
  <2> QED
    BY <1>3, <2>1 DEF Saved, Store, Next1
<1>6. CachesAgree'
  BY <1>1, <1>3, <1>4, <1>5 DEF CachesAgree, Store, Replicas
<1>7. \A q \in Nodes : /\ cache'[q] = [rev |-> cache'[q].rev, st |-> cache'[q].st]
                       /\ cache'[q].rev \in 0..row'.rev /\ Good(cache'[q].st)
  <2> TAKE q \in Nodes
  <2>1. CASE q = p
    BY <1>4, <2>1
  <2>2. CASE q # p
    BY <1>2, <1>3, <2>2 DEF Store
  <2> QED
    BY <2>1, <2>2
<1> QED
  BY <1>2, <1>3, <1>6, <1>7 DEF Store

\* An edit that is refused half way stays in memory.
LEMMA RefusedKept ==
  ASSUME AccessAssumption, Store, NEW t \in Tasks, NEW s, Good(s), UNCHANGED <<mode, home, row, dirty>>,
         cache' = [cache EXCEPT ![home[t]].st = s],
         tainted' = [tainted EXCEPT ![home[t]] = @ \/ s # cache[home[t]].st]
  PROVE  Store'
<1> DEFINE p == home[t]
<1>1. p \in Nodes
  BY DEF Store
<1>2. /\ DOMAIN cache' = Nodes /\ \A q \in Nodes \ {p} : cache'[q] = cache[q] /\ tainted'[q] = tainted[q]
      /\ cache'[p] = [rev |-> cache[p].rev, st |-> s] /\ tainted' \in [Nodes -> BOOLEAN]
      /\ ~tainted'[p] => ~tainted[p] /\ s = cache[p].st
  <2>1. /\ DOMAIN cache' = Nodes /\ \A q \in Nodes \ {p} : cache'[q] = cache[q]
        /\ cache'[p] = [rev |-> cache[p].rev, st |-> s]
    BY <1>1 DEF Store
  <2> DEFINE b == tainted[p] \/ s # cache[p].st
  <2>2. tainted' = [tainted EXCEPT ![p] = b] /\ b \in BOOLEAN /\ tainted \in [Nodes -> BOOLEAN]
    BY DEF Store
  <2>3. ~b => ~tainted[p] /\ s = cache[p].st
    OBVIOUS
  <2> HIDE DEF b
  <2>4. tainted' \in [Nodes -> BOOLEAN] /\ tainted'[p] = b /\ \A q \in Nodes \ {p} : tainted'[q] = tainted[q]
    BY <1>1, <2>2
  <2> QED
    BY <2>1, <2>3, <2>4
<1>3. CachesAgree'
  BY <1>2 DEF CachesAgree, Store, Replicas
<1>4. \A q \in Nodes : /\ cache'[q] = [rev |-> cache'[q].rev, st |-> cache'[q].st]
                       /\ cache'[q].rev \in 0..row'.rev /\ Good(cache'[q].st)
  <2> TAKE q \in Nodes
  <2> QED
    BY <1>2 DEF Store
<1> QED
  BY <1>2, <1>3, <1>4 DEF Store

LEMMA LoadsKept ==
  ASSUME Store, NEW p \in Nodes, Loads(p), UNCHANGED <<mode, home, row, dirty>>
  PROVE  Store' /\ Good(Newest(p).st)
<1>1. Newest(p) \in {row, cache[p]} /\ (Newest(p) # cache[p] => Newest(p) = row /\ row.rev > cache[p].rev)
  BY DEF Newest
<1>2. /\ DOMAIN cache' = Nodes /\ \A q \in Nodes \ {p} : cache'[q] = cache[q] /\ tainted'[q] = tainted[q]
      /\ cache'[p] = Newest(p) /\ tainted' \in [Nodes -> BOOLEAN]
      /\ cache'[p] = row \/ (cache'[p] = cache[p] /\ tainted'[p] = tainted[p])
  BY <1>1 DEF Loads, Newest, Store
<1>3. CachesAgree'
  BY <1>2 DEF CachesAgree, Store, Replicas
<1>4. \A q \in Nodes : /\ cache'[q] = [rev |-> cache'[q].rev, st |-> cache'[q].st]
                       /\ cache'[q].rev \in 0..row'.rev /\ Good(cache'[q].st)
  <2> TAKE q \in Nodes
  <2> QED
    BY <1>1, <1>2 DEF Store
<1> QED
  BY <1>1, <1>2, <1>3, <1>4 DEF Store

\* A task moves on, and takes or gives back the lock as it does.
LEMMA Moved ==
  ASSUME AccessAssumption, Work, NEW t \in Tasks, NEW k, TaskOK(k), task' = [task EXCEPT ![t] = k], home' = home,
         \/ lock' = lock /\ (task[t].pc \in Busy <=> k.pc \in Busy)
         \/ lock[home[t]] = None /\ lock' = [lock EXCEPT ![home[t]] = t] /\ k.pc \in Busy
         \/ task[t].pc \in Busy /\ lock' = [lock EXCEPT ![home[t]] = None] /\ k.pc \notin Busy
  PROVE  DOMAIN task' = Tasks /\ (\A u \in Tasks : TaskOK(task'[u])) /\ Locked'
<1>1. DOMAIN task' = Tasks /\ task'[t] = k /\ \A u \in Tasks \ {t} : task'[u] = task[u]
  BY DEF Work
<1>2. \A u \in Tasks : TaskOK(task'[u])
  BY <1>1 DEF Work
<1>3. lock' \in [Nodes -> Tasks \cup {None}] /\ \A p \in Nodes : p # home[t] => lock'[p] = lock[p]
  <2>1. home[t] \in Nodes /\ lock \in [Nodes -> Tasks \cup {None}]
    BY DEF Work, Locked
  <2>2. lock' = lock \/ lock' = [lock EXCEPT ![home[t]] = t] \/ lock' = [lock EXCEPT ![home[t]] = None]
    OBVIOUS
  <2> QED
    BY <2>1, <2>2
<1>4. \A u \in Tasks : task'[u].pc \in Busy => lock'[home[u]] = u
  BY <1>1, <1>3 DEF Work, Locked, AccessAssumption
<1>5. \A p \in Nodes : lock'[p] # None => home[lock'[p]] = p /\ task'[lock'[p]].pc \in Busy
  BY <1>1, <1>3 DEF Work, Locked, AccessAssumption
<1> QED
  BY <1>1, <1>2, <1>3, <1>4, <1>5 DEF Locked

\* The tasks that only begin, wait, or end.
LEMMA TaskForms ==
  ASSUME AccessAssumption, Work, NEW t \in Tasks
  PROVE  /\ TaskOK(Idle) /\ Idle.pc = "idle"
         /\ \A p \in {"enter", "edit", "consume", "audit", "undo", "put"} :
              task[t].pc # "idle" /\ (p \in {"undo", "put", "audit"} => task[t].call.op \notin Unaudited) =>
                TaskOK([task[t] EXCEPT !.pc = p]) /\ [task[t] EXCEPT !.pc = p].pc = p
<1>1. TaskOK(Idle) /\ Idle.pc = "idle"
  BY DEF TaskOK, Idle
<1>2. ASSUME NEW p \in {"enter", "edit", "consume", "audit", "undo", "put"}, task[t].pc # "idle",
             p \in {"undo", "put", "audit"} => task[t].call.op \notin Unaudited
      PROVE  TaskOK([task[t] EXCEPT !.pc = p]) /\ [task[t] EXCEPT !.pc = p].pc = p
  <2> DEFINE k == task[t]
             n == [k EXCEPT !.pc = p]
  <2>1. TaskOK(k)
    BY DEF Work
  <2>2. /\ n = [f \in {"pc", "call", "key", "second", "old", "quota"} |-> n[f]]
        /\ n.pc = p /\ n.call = k.call /\ n.second = k.second /\ n.old = k.old /\ n.key = k.key
    BY <2>1 DEF TaskOK
  <2> HIDE DEF n
  <2>3. TaskOK(n)
    BY <1>2, <2>1, <2>2 DEF TaskOK
  <2> QED
    BY <2>2, <2>3 DEF n
<1> QED
  BY <1>1, <1>2

\* A task goes to where it has no lock, or ends.
Leaves(t, ps) == (\E p \in ps : To(t, p)) \/ End(t)

LEMMA FailsTo == ASSUME NEW t, Fails(t) PROVE Leaves(t, {"undo"}) /\ (~End(t) => C(t).op = "newTenant")
BY DEF Fails, Leaves, Op

LEMMA LeftKept == ASSUME AccessAssumption, Work, Fault \/ UNCHANGED faults PROVE faults' \in 0..MaxFaults
BY DEF Fault, Work, AccessAssumption

LEMMA BeginKept == ASSUME AccessAssumption, Inv, NEW t \in Tasks, Begin(t) PROVE Inv'
<1>1. /\ task[t].pc = "idle" /\ todo[t] \in Seq(Calls) /\ todo[t] # <<>>
      /\ todo' \in [Tasks -> Seq(Calls)] /\ Head(todo[t]) \in Calls
  <2>1. task[t].pc = "idle" /\ todo[t] \in Seq(Calls) /\ todo[t] # <<>> /\ todo' = [todo EXCEPT ![t] = Tail(todo[t])]
    BY DEF Begin, Inv, Work
  <2>2. Tail(todo[t]) \in Seq(Calls) /\ Head(todo[t]) \in Calls
    BY <2>1
  <2> QED
    BY <2>1, <2>2 DEF Inv, Work
<1> DEFINE c == Head(todo[t])
<1>2. CASE c.op \in Unaudited
  <2> DEFINE k == [Idle EXCEPT !.pc = "enter", !.call = c]
  <2>1. task' = [task EXCEPT ![t] = k] /\ UNCHANGED <<cache, tainted, faults, lock, home, mode, row, dirty, now>>
    BY <1>2 DEF Begin
  <2>2. /\ k = [f \in {"pc", "call", "key", "second", "old", "quota"} |-> k[f]]
        /\ k.pc = "enter" /\ k.call = c /\ k.second = FALSE
    <3> HIDE DEF c
    <3> QED
      BY DEF Idle
  <2> HIDE DEF k
  <2>3. TaskOK(k) /\ k.pc = "enter"
    BY <1>1, <1>2, <2>2 DEF TaskOK
  <2>4. DOMAIN task' = Tasks /\ (\A u \in Tasks : TaskOK(task'[u])) /\ Locked'
    BY <1>1, <2>1, <2>3, Moved DEF Inv, Busy
  <2>5. Work'
    BY <1>1, <2>1, <2>4 DEF Inv, Work
  <2>6. Store'
    BY <2>1 DEF Inv, Store, CachesAgree, Replicas
  <2> QED
    BY <2>5, <2>6 DEF Inv
<1>3. CASE c.op \notin Unaudited /\ lock[P(t)] = None /\ Loads(P(t)) /\ UNCHANGED faults
           /\ task' = [task EXCEPT ![t] = [Idle EXCEPT !.pc = "enter", !.call = c, !.key = Key(t), !.old = Newest(P(t)).st]]
  <2> DEFINE o == Newest(P(t)).st
             k == [Idle EXCEPT !.pc = "enter", !.call = c, !.key = Key(t), !.old = o]
  <2>1. UNCHANGED <<lock, home, mode, row, dirty, now, faults>> /\ P(t) \in Nodes
    BY <1>3 DEF Begin, Inv, Store, P
  <2>2. Store' /\ Good(o)
    BY <1>3, <2>1, LoadsKept DEF Inv
  <2>3. /\ k = [f \in {"pc", "call", "key", "second", "old", "quota"} |-> k[f]]
        /\ k.pc = "enter" /\ k.call = c /\ k.second = FALSE /\ k.old = o /\ k.key = Key(t)
    <3> HIDE DEF c, o
    <3> QED
      BY DEF Idle
  <2>5. task' = [task EXCEPT ![t] = k]
    BY <1>3
  <2>8. Key(t) \in Tasks \X Nat
    BY <1>1 DEF Key
  <2> HIDE DEF k, o
  <2>4. TaskOK(k) /\ k.pc = "enter"
    BY <1>1, <1>3, <2>2, <2>3, <2>8 DEF TaskOK
  <2>6. DOMAIN task' = Tasks /\ (\A u \in Tasks : TaskOK(task'[u])) /\ Locked'
    BY <1>1, <2>1, <2>4, <2>5, Moved DEF Inv, Busy
  <2>7. Work'
    BY <1>1, <2>1, <2>6 DEF Inv, Work
  <2> QED
    BY <2>2, <2>7 DEF Inv
<1>4. CASE Fault /\ UNCHANGED <<task, cache, tainted>>
  <2>1. UNCHANGED <<lock, home, mode, row, dirty, now, task, cache, tainted>>
    BY <1>4 DEF Begin
  <2>2. Work'
    BY <1>1, <1>4, <2>1, LeftKept DEF Inv, Work, Locked
  <2>3. Store'
    BY <2>1 DEF Inv, Store, CachesAgree, Replicas
  <2> QED
    BY <2>2, <2>3 DEF Inv
<1> QED
  BY <1>2, <1>3, <1>4 DEF Begin

\* A task that moves on without the document.
LEMMA OnlyMoved ==
  ASSUME AccessAssumption, Inv, NEW t \in Tasks, NEW k, TaskOK(k), task' = [task EXCEPT ![t] = k],
         task[t].pc \notin Busy, k.pc \notin Busy, Fault \/ UNCHANGED faults,
         UNCHANGED <<mode, home, row, cache, lock, dirty, now, todo, tainted>>
  PROVE  Inv'
<1>1. DOMAIN task' = Tasks /\ (\A u \in Tasks : TaskOK(task'[u])) /\ Locked'
  BY Moved DEF Inv
<1>2. Work'
  BY <1>1, LeftKept DEF Inv, Work
<1>3. Store'
  BY DEF Inv, Store, CachesAgree, Replicas
<1> QED
  BY <1>2, <1>3 DEF Inv

LEMMA EnterKept == ASSUME AccessAssumption, Inv, NEW t \in Tasks, Enter(t) PROVE Inv'
<1>1. /\ task[t].pc \in {"enter", "undo"} /\ TaskOK(task[t]) /\ lock[home[t]] = None /\ home[t] \in Nodes
      /\ UNCHANGED <<mode, home, row, dirty, now, todo>>
  BY DEF Enter, Inv, Work, P
<1>2. CASE /\ Loads(P(t)) /\ lock' = [lock EXCEPT ![P(t)] = t]
           /\ To(t, IF task[t].pc = "enter" THEN "edit" ELSE "put") /\ UNCHANGED faults
  <2> DEFINE p == IF task[t].pc = "enter" THEN "edit" ELSE "put"
             k == [task[t] EXCEPT !.pc = p]
  <2>1. TaskOK(k) /\ k.pc = p /\ task' = [task EXCEPT ![t] = k]
    <3>1. p \in {"edit", "put"} /\ (p = "put" => task[t].pc = "undo") /\ task[t].pc # "idle"
      BY <1>1
    <3>2. p = "put" => task[t].call.op \notin Unaudited
      BY <1>1, <3>1 DEF TaskOK
    <3>3. task' = [task EXCEPT ![t].pc = p]
      BY <1>2 DEF To
    <3> HIDE DEF p
    <3> QED
      BY <3>1, <3>2, <3>3, TaskForms DEF Inv
  <2> HIDE DEF k
  <2>2. DOMAIN task' = Tasks /\ (\A u \in Tasks : TaskOK(task'[u])) /\ Locked'
    BY <1>1, <1>2, <2>1, Moved DEF Inv, Busy, P
  <2>3. Work'
    BY <1>1, <1>2, <2>2 DEF Inv, Work
  <2>4. Store'
    BY <1>1, <1>2, LoadsKept DEF Inv, P
  <2> QED
    BY <2>3, <2>4 DEF Inv
<1>3. CASE Fault /\ (IF task[t].pc = "enter" THEN Fails(t) ELSE End(t)) /\ UNCHANGED <<cache, tainted, lock>>
  <2>1. CASE End(t)
    BY <1>1, <1>3, <2>1, TaskForms, OnlyMoved DEF End, Inv, Busy
  <2>2. CASE ~End(t)
    <3>1. To(t, "undo") /\ task[t].call.op = "newTenant"
      BY <1>3, <2>2 DEF Fails, Op, C
    <3> DEFINE k == [task[t] EXCEPT !.pc = "undo"]
    <3>2. TaskOK(k) /\ k.pc = "undo"
      BY <1>1, <3>1, TaskForms DEF Inv, Unaudited
    <3>3. task' = [task EXCEPT ![t] = k]
      BY <3>1 DEF To
    <3> HIDE DEF k
    <3> QED
      BY <1>1, <1>3, <3>2, <3>3, OnlyMoved DEF Busy
  <2> QED
    BY <2>1, <2>2
<1> QED
  BY <1>2, <1>3 DEF Enter

\* A task that had the lock gives it back.
LEMMA GaveBack ==
  ASSUME AccessAssumption, Inv, NEW t \in Tasks, NEW k, TaskOK(k), task' = [task EXCEPT ![t] = k],
         task[t].pc \in Busy, k.pc \notin Busy, Fault \/ UNCHANGED faults, Unlock(t), UNCHANGED <<home, now, todo>>
  PROVE  Work'
<1>1. DOMAIN task' = Tasks /\ (\A u \in Tasks : TaskOK(task'[u])) /\ Locked'
  BY Moved DEF Inv, Unlock, P
<1> QED
  BY <1>1, LeftKept DEF Inv, Work

\* Where a task goes from its edit.
LEMMA Proceeded ==
  ASSUME AccessAssumption, Inv, NEW t \in Tasks, task[t].pc = "edit", Proceeds(t) \/ Fails(t)
  PROVE  \E k : TaskOK(k) /\ task' = [task EXCEPT ![t] = k] /\ k.pc \notin Busy \cup {"consume"}
<1>1. TaskOK(task[t]) /\ task[t].pc # "idle"
  BY DEF Inv, Work
<1>2. CASE End(t)
  BY <1>2, TaskForms DEF End, Inv, Busy
<1>3. CASE To(t, "undo") /\ Op(t) = "newTenant"
  <2> DEFINE k == [task[t] EXCEPT !.pc = "undo"]
  <2>1. TaskOK(k) /\ k.pc = "undo" /\ task' = [task EXCEPT ![t] = k]
    BY <1>1, <1>3, TaskForms DEF Inv, Unaudited, To, Op, C
  <2> HIDE DEF k
  <2> QED
    BY <2>1 DEF Busy
<1>4. CASE To(t, "audit") /\ Op(t) \notin Unaudited
  <2> DEFINE k == [task[t] EXCEPT !.pc = "audit"]
  <2>1. TaskOK(k) /\ k.pc = "audit" /\ task' = [task EXCEPT ![t] = k]
    BY <1>1, <1>4, TaskForms DEF Inv, To, Op, C
  <2> HIDE DEF k
  <2> QED
    BY <2>1 DEF Busy
<1>5. CASE Op(t) = "newTenant" /\ task' = [task EXCEPT ![t].pc = "enter", ![t].second = TRUE]
  <2> DEFINE k == [task[t] EXCEPT !.pc = "enter", !.second = TRUE]
  <2>1. task' = [task EXCEPT ![t] = k]
    BY <1>5 DEF Inv, Work
  <2>2. /\ k = [f \in {"pc", "call", "key", "second", "old", "quota"} |-> k[f]]
        /\ k.pc = "enter" /\ k.second = TRUE /\ k.call = task[t].call /\ k.old = task[t].old
        /\ k.key = task[t].key
    BY <1>1 DEF TaskOK
  <2> HIDE DEF k
  <2>3. TaskOK(k)
    BY <1>1, <1>5, <2>2 DEF TaskOK, Op, C
  <2> QED
    BY <2>1, <2>2, <2>3 DEF Busy
<1> QED
  BY <1>2, <1>3, <1>4, <1>5 DEF Proceeds, Fails

LEMMA EditKept == ASSUME AccessAssumption, Inv, NEW t \in Tasks, Edit(t) PROVE Inv'
<1> DEFINE p == home[t]
           d == IF task[t].second THEN CreateApp(cache[p].st, C(t), task[t].key) ELSE Does(cache[p].st, C(t), task[t].key)
<1>1. /\ task[t].pc = "edit" /\ Unlock(t) /\ p \in Nodes /\ C(t) \in Calls /\ C(t).op # "use" /\ Good(cache[p].st)
      /\ UNCHANGED <<mode, home, now, todo>> /\ now \in 0..MaxTime
      /\ C(t).op \notin Unaudited => task[t].key \in Tasks \X Nat
      /\ task[t].second => C(t).op = "newTenant"
  BY DEF Edit, Inv, Work, Store, TaskOK, C, Op
<1>2. Good(d.st)
  BY <1>1, DoesKept DEF Keeps
<1>3. \/ d.saves /\ Save(t, d.st, Proceeds(t), Fails(t))
      \/ /\ ~d.saves /\ cache' = [cache EXCEPT ![p].st = d.st] /\ Fails(t)
         /\ tainted' = [tainted EXCEPT ![p] = @ \/ d.st # cache[p].st]
         /\ UNCHANGED <<row, dirty, faults>>
  BY DEF Edit, P
<1> HIDE DEF d
<1>4. (Proceeds(t) \/ Fails(t)) /\ (Fault \/ UNCHANGED faults)
  BY <1>3 DEF Save
<1>5. PICK k : TaskOK(k) /\ task' = [task EXCEPT ![t] = k] /\ k.pc \notin Busy \cup {"consume"}
  BY <1>1, <1>4, Proceeded
<1>6. Work'
  BY <1>1, <1>4, <1>5, GaveBack DEF Busy
<1>7. CASE d.saves /\ Save(t, d.st, Proceeds(t), Fails(t))
  <2>1. Saved(t, d.st)
    BY <1>7 DEF Save, Saved, P
  <2> QED
    BY <1>1, <1>2, <1>6, <2>1, SavedKept DEF Inv
<1>8. CASE /\ cache' = [cache EXCEPT ![p].st = d.st]
           /\ tainted' = [tainted EXCEPT ![p] = @ \/ d.st # cache[p].st] /\ UNCHANGED <<row, dirty>>
  BY <1>1, <1>2, <1>6, <1>8, RefusedKept DEF Inv
<1> QED
  BY <1>3, <1>7, <1>8

\* The document of a request that is counted.
Used(s, c, d) ==
  /\ Good(d) /\ Beside(s, d, c) /\ d.apps[c.x] # None /\ d.apps[c.x].day = Today
  /\ d.apps[c.x].used = IF d = Counted(s, c.x) THEN IF s.apps[c.x].day = Today THEN s.apps[c.x].used + 1 ELSE 1
                                               ELSE IF s.apps[c.x].day = Today THEN s.apps[c.x].used ELSE 0

LEMMA UseDocument ==
  ASSUME AccessAssumption, now \in 0..MaxTime, NEW s, Good(s), NEW c, c.x \in Apps, c.op = "use", s.apps[c.x] # None
  PROVE  \A d \in {Counted(s, c.x), Fresh(s, c.x)} : Used(s, c, d)
<1> DEFINE a == s.apps[c.x]
           V(n) == [project |-> a.project, status |-> a.status, key |-> a.key, prev |-> a.prev,
                    quota |-> a.quota, day |-> Today, used |-> n]
           D(n) == [s EXCEPT !.apps[c.x] = V(n)]
           v == IF a.day = Today THEN a.used + 1 ELSE 1
           w == IF a.day = Today THEN a.used ELSE 0
<1>1. /\ a = [project |-> a.project, status |-> a.status, key |-> a.key, prev |-> a.prev,
              quota |-> a.quota, day |-> a.day, used |-> a.used]
      /\ a.key \in AccessKeys /\ a.prev \in Seq(Replaced) /\ {a.quota, a.day, a.used} \subseteq Nat
  BY DEF Good, Shape, AppOK
<1>2. Counted(s, c.x) = D(v) /\ Fresh(s, c.x) = D(w)
  <2> DEFINE E(u) == SetTo(s, c.x, u)
             a1 == [a EXCEPT !.day = Today]
  <2>1. ASSUME NEW u, NEW z PROVE E(u).apps[c.x] = u /\ [E(u) EXCEPT !.apps[c.x] = z] = E(z)
    BY SetTwice
  <2>2. /\ Counted(s, c.x) = [E(a1) EXCEPT !.apps[c.x].used = IF s.apps[c.x].day = Today THEN @ + 1 ELSE 1]
        /\ Fresh(s, c.x) = [E(a1) EXCEPT !.apps[c.x].used = IF s.apps[c.x].day = Today THEN @ ELSE 0]
    BY DEF Counted, Fresh, SetTo
  <2>3. a1.used = a.used /\ [a1 EXCEPT !.used = v] = V(v) /\ [a1 EXCEPT !.used = w] = V(w)
    <3> HIDE DEF a, v, w
    <3>1. a1 = [project |-> a.project, status |-> a.status, key |-> a.key, prev |-> a.prev,
                quota |-> a.quota, day |-> Today, used |-> a.used]
      BY <1>1
    <3> HIDE DEF a1
    <3> QED
      BY <3>1
  <2>4. D(v) = E(V(v)) /\ D(w) = E(V(w))
    BY DEF SetTo
  <2> HIDE DEF E, V, D, a1
  <2>5. E(a1).apps[c.x] = a1
    BY <2>1
  <2>6. Counted(s, c.x) = [E(a1) EXCEPT !.apps[c.x] = [a1 EXCEPT !.used = v]]
    BY <2>2, <2>3, <2>5
  <2>7. Fresh(s, c.x) = [E(a1) EXCEPT !.apps[c.x] = [a1 EXCEPT !.used = w]]
    BY <2>2, <2>3, <2>5
  <2> HIDE DEF v, w, a
  <2> QED
    BY <2>1, <2>3, <2>4, <2>6, <2>7
<1>3. v \in Nat /\ w \in Nat /\ v # w /\ Today \in Nat
  BY <1>1, NumbersLemma
<1> HIDE DEF v, w
<1>4. ASSUME NEW n \in Nat
      PROVE  /\ Good(D(n)) /\ Beside(s, D(n), c) /\ D(n).apps[c.x] # None /\ D(n).apps[c.x].day = Today
             /\ D(n).apps[c.x].used = n
  <2>1. AppOK(V(n)) /\ GoesOn(a, V(n), c.x, c) /\ V(n) # None
    BY <1>1, <1>3 DEF AppOK, GoesOn, Known, InForce, AccessAssumption
  <2>2. V(n).day = Today /\ V(n).used = n
    OBVIOUS
  <2>3. Good(D(n)) /\ Beside(s, D(n), c) /\ D(n).apps[c.x] = V(n)
    <3> HIDE DEF V
    <3>1. D(n).apps[c.x] = V(n)
      BY DEF Good, Shape
    <3> QED
      BY <2>1, <3>1, SetApp
  <2> HIDE DEF V, D
  <2> QED
    BY <2>1, <2>2, <2>3
<1>5. D(v) # D(w)
  <2>1. D(v).apps[c.x].used = v /\ D(w).apps[c.x].used = w
    BY <1>3, <1>4
  <2> HIDE DEF D
  <2> QED
    BY <1>3, <2>1
<1>6. Used(s, c, D(v)) /\ Used(s, c, D(w))
  <2>1. Good(D(v)) /\ Beside(s, D(v), c) /\ D(v).apps[c.x] # None /\ D(v).apps[c.x].day = Today /\ D(v).apps[c.x].used = v
    BY <1>3, <1>4
  <2>2. Good(D(w)) /\ Beside(s, D(w), c) /\ D(w).apps[c.x] # None /\ D(w).apps[c.x].day = Today /\ D(w).apps[c.x].used = w
    BY <1>3, <1>4
  <2> HIDE DEF D
  <2> QED
    BY <1>2, <1>5, <2>1, <2>2 DEF Used, v, w
<1> HIDE DEF D
<1> QED
  BY <1>2, <1>6

\* A use counts the request in the document, or leaves it alone.
LEMMA UseForms ==
  ASSUME AccessAssumption, Inv, NEW t \in Tasks, Use(t)
  PROVE  \/ UNCHANGED <<row, cache, tainted, dirty, faults>>
            /\ (End(t) \/ \E q : task' = [task EXCEPT ![t].pc = "consume", ![t].quota = q])
         \/ End(t) /\ (Fault \/ UNCHANGED faults) /\ C(t).x \in Apps /\ cache[home[t]].st.apps[C(t).x] # None
            /\ C(t).op = "use" /\ \E d \in {Counted(cache[home[t]].st, C(t).x), Fresh(cache[home[t]].st, C(t).x)} : Saved(t, d)
<1> DEFINE s == cache[home[t]].st
           a == C(t).x
<1>1. CASE UNCHANGED <<row, cache, tainted, dirty, faults>> /\ End(t)
  BY <1>1
<1>2. CASE UNCHANGED <<row, cache, tainted, dirty, faults>>
           /\ task' = [task EXCEPT ![t].pc = "consume", ![t].quota = s.apps[a].quota]
  BY <1>2
<1>5. C(t).op = "use"
  BY DEF Use, Op
<1>3. CASE a \in Apps /\ s.apps[a] # None /\ Save(t, Fresh(s, a), End(t), End(t))
  <2>1. End(t) /\ (Fault \/ UNCHANGED faults) /\ Saved(t, Fresh(s, a))
    BY <1>3 DEF Save, Saved, P
  <2> QED
    BY <1>3, <1>5, <2>1
<1>4. CASE /\ a \in Apps /\ s.apps[a] # None
           /\ Save(t, Counted(s, a), End(t) /\ admitted' = [admitted EXCEPT ![a] = @ + 1], End(t) /\ UNCHANGED admitted)
  <2>1. End(t) /\ (Fault \/ UNCHANGED faults) /\ Saved(t, Counted(s, a))
    BY <1>4 DEF Save, Saved, P
  <2> QED
    BY <1>4, <1>5, <2>1
<1> QED
  BY <1>1, <1>2, <1>3, <1>4 DEF Use, P, Opens, Op

LEMMA UseKept == ASSUME AccessAssumption, Inv, NEW t \in Tasks, Use(t) PROVE Inv'
<1> DEFINE p == home[t]
<1>1. /\ task[t].pc = "edit" /\ Unlock(t) /\ p \in Nodes /\ Good(cache[p].st) /\ TaskOK(task[t])
      /\ UNCHANGED <<mode, home, now, todo>>
  BY DEF Use, Inv, Work, Store
<1>2. ASSUME End(t), Fault \/ UNCHANGED faults PROVE Work'
  BY <1>1, <1>2, TaskForms, GaveBack DEF End, Busy, Inv
<1>3. ASSUME UNCHANGED <<row, cache, tainted, dirty>> PROVE Store'
  BY <1>1, <1>3 DEF Inv, Store, CachesAgree, Replicas
<1>4. CASE UNCHANGED <<row, cache, tainted, dirty, faults>> /\ End(t)
  BY <1>2, <1>3, <1>4 DEF Inv
<1>5. ASSUME NEW q, UNCHANGED <<row, cache, tainted, dirty, faults>>,
             task' = [task EXCEPT ![t].pc = "consume", ![t].quota = q]
      PROVE  Inv'
  <2> DEFINE k == [task[t] EXCEPT !.pc = "consume", !.quota = q]
  <2>1. task' = [task EXCEPT ![t] = k]
    BY <1>5 DEF Inv, Work
  <2>2. /\ k = [f \in {"pc", "call", "key", "second", "old", "quota"} |-> k[f]]
        /\ k.pc = "consume" /\ k.second = task[t].second /\ k.call = task[t].call /\ k.old = task[t].old
        /\ k.key = task[t].key
    BY <1>1 DEF TaskOK
  <2> HIDE DEF k
  <2>3. TaskOK(k)
    BY <1>1, <2>2 DEF TaskOK
  <2>4. Work'
    BY <1>1, <1>5, <2>1, <2>2, <2>3, GaveBack DEF Busy
  <2> QED
    BY <1>3, <1>5, <2>4 DEF Inv
<1>6. ASSUME End(t), Fault \/ UNCHANGED faults, C(t).x \in Apps, cache[p].st.apps[C(t).x] # None, C(t).op = "use",
             NEW d \in {Counted(cache[p].st, C(t).x), Fresh(cache[p].st, C(t).x)}, Saved(t, d)
      PROVE  Inv'
  <2>1. Good(d)
    <3>1. now \in 0..MaxTime /\ Good(cache[p].st)
      BY <1>1 DEF Inv, Work
    <3> QED
      BY <1>6, <3>1, UseDocument DEF Used
  <2> QED
    BY <1>1, <1>2, <1>6, <2>1, SavedKept DEF Inv
<1> QED
  BY <1>4, <1>5, <1>6, UseForms

LEMMA PutKept == ASSUME AccessAssumption, Inv, NEW t \in Tasks, Put(t) PROVE Inv'
<1>1. /\ task[t].pc = "put" /\ Unlock(t) /\ Good(task[t].old) /\ UNCHANGED <<mode, home, now, todo>>
  BY DEF Put, Inv, Work, TaskOK
<1>2. End(t) /\ (Fault \/ UNCHANGED faults) /\ Saved(t, task[t].old)
  BY DEF Put, Save, Saved, P
<1>3. Work'
  BY <1>1, <1>2, TaskForms, GaveBack DEF End, Busy, Inv
<1> QED
  BY <1>1, <1>2, <1>3, SavedKept DEF Inv

LEMMA RestKept ==
  ASSUME AccessAssumption, Inv, NEW t \in Tasks, Refuse(t) \/ Consume(t) \/ Audit(t) PROVE Inv'
<1>1. TaskOK(task[t])
  BY DEF Inv, Work
<1>2. ASSUME NEW p \in {"audit", "undo"}, To(t, p), task[t].pc \notin Busy \cup {"idle"}, task[t].call.op \notin Unaudited,
             Fault \/ UNCHANGED faults, UNCHANGED <<mode, home, row, cache, lock, dirty, now, todo, tainted>>
      PROVE  Inv'
  <2> DEFINE k == [task[t] EXCEPT !.pc = p]
  <2>1. TaskOK(k) /\ k.pc = p /\ task' = [task EXCEPT ![t] = k]
    BY <1>2, TaskForms DEF Inv, To
  <2> HIDE DEF k
  <2> QED
    BY <1>2, <2>1, OnlyMoved DEF Busy
<1>3. ASSUME End(t), task[t].pc \notin Busy,
             Fault \/ UNCHANGED faults, UNCHANGED <<mode, home, row, cache, lock, dirty, now, todo, tainted>>
      PROVE  Inv'
  BY <1>3, TaskForms, OnlyMoved DEF End, Inv, Busy
<1>4. CASE Refuse(t)
  <2>1. task[t].pc = "enter" /\ task[t].second /\ task[t].call.op \notin Unaudited
    BY <1>1, <1>4 DEF Refuse, TaskOK, Unaudited
  <2> QED
    BY <1>2, <1>4, <2>1 DEF Refuse, Busy
<1>5. CASE Consume(t)
  BY <1>3, <1>5 DEF Consume, Busy
<1>6. CASE Audit(t)
  <2>1. task[t].pc = "audit" /\ task[t].call.op \notin Unaudited
    BY <1>1, <1>6 DEF Audit, TaskOK
  <2> QED
    BY <1>2, <1>3, <1>6, <2>1 DEF Audit, Busy
<1> QED
  BY <1>4, <1>5, <1>6

LEMMA ReplicaKept ==
  ASSUME AccessAssumption, Inv, NEW p \in Replicas, CountCall(p) \/ Flush(p) \/ Restart(p) PROVE Inv'
<1>1. p \in Nodes
  BY DEF Inv, Store, Replicas
<1>2. CASE CountCall(p)
  <2>1. UNCHANGED <<mode, home, row, cache, tainted, task, lock, now, todo, faults>> /\ dirty' \in [Nodes -> BOOLEAN]
        /\ mode = "file"
    BY <1>2 DEF CountCall, Inv, Store
  <2>2. Store'
    BY <2>1 DEF Inv, Store, CachesAgree, Replicas
  <2> QED
    BY <2>1, <2>2 DEF Inv, Work, Locked
<1>3. CASE Flush(p)
  <2>1. /\ mode = "file" /\ UNCHANGED <<mode, home, cache, lock, now, todo, task, faults>>
        /\ row' = [row EXCEPT !.st = cache[p].st] /\ dirty' \in [Nodes -> BOOLEAN]
        /\ tainted' = [tainted EXCEPT ![p] = FALSE]
    BY <1>1, <1>3 DEF Flush, Inv, Store
  <2>2. row' = [rev |-> row.rev, st |-> cache[p].st]
    BY <2>1 DEF Inv, Store
  <2>3. \A q \in Replicas : q = p
    BY <1>1, <2>1 DEF Inv, Store, Replicas
  <2>4. CachesAgree'
    BY <2>1, <2>2, <2>3 DEF CachesAgree, Replicas
  <2>5. tainted' \in [Nodes -> BOOLEAN]
    BY <2>1 DEF Inv, Store
  <2>6. Store'
    BY <1>1, <2>1, <2>2, <2>4, <2>5 DEF Inv, Store
  <2> QED
    BY <2>1, <2>6 DEF Inv, Work, Locked
<1>4. CASE Restart(p)
  <2>1. /\ cache' = [cache EXCEPT ![p] = row] /\ tainted' = [tainted EXCEPT ![p] = FALSE]
        /\ lock' = [lock EXCEPT ![p] = None] /\ dirty' = [dirty EXCEPT ![p] = FALSE]
        /\ task' = [t \in Tasks |-> IF home[t] = p THEN Idle ELSE task[t]]
        /\ UNCHANGED <<mode, home, row, now, todo>> /\ Fault
    BY <1>4 DEF Restart, P
  <2>2. /\ DOMAIN cache' = Nodes /\ \A q \in Nodes \ {p} : cache'[q] = cache[q] /\ tainted'[q] = tainted[q]
        /\ cache'[p] = row /\ tainted' \in [Nodes -> BOOLEAN] /\ dirty' \in [Nodes -> BOOLEAN]
        /\ mode = "postgres" => \A q \in Nodes : ~dirty'[q]
    BY <1>1, <2>1 DEF Inv, Store
  <2>3. CachesAgree'
    BY <2>1, <2>2 DEF Inv, Store, CachesAgree, Replicas
  <2>4. \A q \in Nodes : /\ cache'[q] = [rev |-> cache'[q].rev, st |-> cache'[q].st]
                         /\ cache'[q].rev \in 0..row.rev /\ Good(cache'[q].st)
    BY <2>2 DEF Inv, Store
  <2>5. Store'
    BY <2>1, <2>2, <2>3, <2>4 DEF Inv, Store
  <2>6. \A t \in Tasks : TaskOK(task'[t]) /\ (task'[t].pc \in Busy => task'[t] = task[t] /\ home[t] # p)
    BY <2>1, TaskForms DEF Inv, Work, Busy
  <2>7. lock' \in [Nodes -> Tasks \cup {None}] /\ lock'[p] = None /\ \A q \in Nodes \ {p} : lock'[q] = lock[q]
    BY <1>1, <2>1 DEF Inv, Work, Locked
  <2>8. Locked'
    <3>1. \A t \in Tasks : task'[t].pc \in Busy => lock'[home[t]] = t
      BY <2>6, <2>7 DEF Inv, Work, Locked
    <3>2. \A q \in Nodes : lock'[q] # None => home[lock'[q]] = q /\ task'[lock'[q]].pc \in Busy
      BY <2>1, <2>7 DEF Inv, Work, Locked
    <3> QED
      BY <2>1, <2>7, <3>1, <3>2 DEF Locked
  <2>9. Work'
    BY <2>1, <2>6, <2>8, LeftKept DEF Inv, Work
  <2> QED
    BY <2>5, <2>9 DEF Inv
<1> QED
  BY <1>2, <1>3, <1>4

LEMMA InvNext == ASSUME AccessAssumption, Inv, [AccessNext]_accessVars PROVE Inv'
<1>1. CASE UNCHANGED accessVars
  <2>1. Store'
    BY <1>1 DEF accessVars, Inv, Store, CachesAgree, Replicas
  <2>2. Work'
    BY <1>1 DEF accessVars, Inv, Work, Locked
  <2> QED
    BY <2>1, <2>2 DEF Inv
<1>2. CASE Tick
  <2>1. UNCHANGED <<mode, home, row, cache, lock, dirty, todo, task, faults, tainted>> /\ now' \in 0..MaxTime
    BY <1>2 DEF Tick, Inv, Work, AccessAssumption
  <2>2. Store'
    BY <2>1 DEF Inv, Store, CachesAgree, Replicas
  <2> QED
    BY <2>1, <2>2 DEF Inv, Work, Locked
<1> QED
  BY <1>1, <1>2, BeginKept, EnterKept, EditKept, UseKept, PutKept, RestKept, ReplicaKept DEF AccessNext

-----------------------------------------------------------------------------
(* What a save changes.                                                    *)

LEMMA SavesBeside ==
  ASSUME Store, NEW t \in Tasks, NEW d, Saved(t, d), Beside(cache[home[t]].st, d, C(t)), row' # row, ~tainted[home[t]]
  PROVE  Beside(row.st, row'.st, C(t))
<1>1. cache[home[t]].rev = row.rev /\ row'.st = d
  BY DEF Saved, Store, Next1
<1>2. cache[home[t]].st = row.st
  BY <1>1 DEF Store, CachesAgree, Replicas
<1> QED
  BY <1>1, <1>2

LEMMA StepSaves ==
  ASSUME AccessAssumption, Inv, [AccessNext]_accessVars, NEW t \in Tasks,
         task[t].pc = "edit", task'[t].pc # "edit", row' # row, ~tainted[P(t)]
  PROVE  Edit(t) \/ Use(t)
<1>1. ASSUME NEW u \in Tasks, Edit(u) \/ Use(u) \/ Put(u) PROVE \A v \in Tasks : v # u => task'[v] = task[v]
  <2>1. CASE Edit(u)
    <3>1. task[u].pc = "edit" /\ (Proceeds(u) \/ Fails(u))
      BY <2>1 DEF Edit, Save
    <3>2. PICK k : task' = [task EXCEPT ![u] = k]
      BY <3>1, Proceeded
    <3> QED
      BY <3>2 DEF Inv, Work
  <2>2. CASE Use(u)
    <3>1. End(u) \/ \E q : task' = [task EXCEPT ![u].pc = "consume", ![u].quota = q]
      BY <2>2, UseForms
    <3> QED
      BY <3>1 DEF Inv, Work, End
  <2>3. CASE Put(u)
    BY <2>3 DEF Put, Save, End, Inv, Work
  <2> QED
    BY <1>1, <2>1, <2>2, <2>3
<1>2. ASSUME NEW u \in Tasks, Edit(u) \/ Use(u) \/ Put(u) PROVE u = t /\ ~Put(u)
  BY <1>1, <1>2 DEF Put
<1>3. ASSUME NEW u \in Tasks, Begin(u) \/ Enter(u) \/ Refuse(u) \/ Consume(u) \/ Audit(u) PROVE FALSE
  BY <1>3 DEF Begin, Enter, Refuse, Consume, Audit
<1>4. ASSUME NEW p \in Replicas, CountCall(p) \/ Flush(p) \/ Restart(p) PROVE FALSE
  BY <1>4 DEF CountCall, Flush, Restart
<1>5. ~Tick /\ ~UNCHANGED accessVars
  BY DEF Tick, accessVars
<1> QED
  BY <1>2, <1>3, <1>4, <1>5 DEF AccessNext

LEMMA StepKeepsOthers == ASSUME AccessAssumption, Inv, [AccessNext]_accessVars PROVE SavesItsOwn
<1>1. ASSUME NEW t \in Tasks, Saving(t) PROVE Beside(row.st, row'.st, C(t))
  <2> DEFINE s == cache[home[t]].st
  <2>1. /\ Good(s) /\ C(t) \in Calls /\ ~tainted[home[t]] /\ Store /\ now \in 0..MaxTime
        /\ C(t).op \notin Unaudited => task[t].key \in Tasks \X Nat
        /\ task[t].second => C(t).op = "newTenant"
    BY <1>1 DEF Inv, Store, Work, TaskOK, C, P, Saving
  <2>2. CASE Edit(t)
    <3> DEFINE d == IF task[t].second THEN CreateApp(s, C(t), task[t].key) ELSE Does(s, C(t), task[t].key)
    <3>1. Saved(t, d.st) /\ C(t).op # "use"
      BY <1>1, <2>2 DEF Edit, Save, Saved, P, Op, Saving
    <3>2. Beside(s, d.st, C(t))
      BY <2>1, <3>1, DoesKept DEF Keeps
    <3> HIDE DEF d
    <3> QED
      BY <1>1, <2>1, <3>1, <3>2, SavesBeside DEF Saving
  <2>3. CASE Use(t)
    <3>1. PICK d \in {Counted(s, C(t).x), Fresh(s, C(t).x)} :
               Saved(t, d) /\ C(t).x \in Apps /\ s.apps[C(t).x] # None /\ C(t).op = "use"
      BY <1>1, <2>3, UseForms DEF Saving
    <3>2. Beside(s, d, C(t))
      BY <2>1, <3>1, UseDocument DEF Used
    <3> QED
      BY <1>1, <2>1, <3>1, <3>2, SavesBeside DEF Saving
  <2> QED
    BY <1>1, <2>2, <2>3, StepSaves DEF Saving
<1>2. SavesOnlyItsOwn
  BY <1>1 DEF SavesOnlyItsOwn, Beside, Elsewhere, Op
<1>3. KeepsKeys
  <2> SUFFICES ASSUME NEW t \in Tasks, Saving(t), NEW a \in Apps, row.st.apps[a] # None, Len(row.st.apps[a].prev) < KeptKeys
               PROVE  InForce(row.st.apps[a]) \ (IF Grace > 0 THEN {} ELSE {row.st.apps[a].key}) \subseteq InForce(row'.st.apps[a])
    BY DEF KeepsKeys
  <2>1. GoesOn(row.st.apps[a], row'.st.apps[a], a, C(t))
    BY <1>1 DEF Beside
  <2> QED
    BY <2>1 DEF GoesOn
<1> QED
  BY <1>2, <1>3 DEF SavesItsOwn

-----------------------------------------------------------------------------
(* The quotas.                                                             *)

\* With the file store, an application's own count covers what was admitted today.
Covered(v, n) ==
  /\ v = None => n = 0
  /\ v # None => /\ v.day <= Today /\ (v.day # Today => n = 0)
                 /\ v.day = Today => n <= v.used /\ (v.quota = 0 \/ n <= v.quota)

Filed ==
  /\ \A t \in Tasks : task[t].pc # "consume"
  /\ \A a \in Apps : Covered(row.st.apps[a], admitted[a])
  /\ \A p \in Replicas, a \in Apps : Covered(cache[p].st.apps[a], admitted[a])

\* The row has the application v, with its quota.
InRow(v, a) == row.st.apps[a] # None /\ v.quota = row.st.apps[a].quota

\* With postgres, the table counts what was admitted; who has the first key of an application
\* has its quota, and so has a task that is about to count.
Table ==
  /\ admitted = usage
  /\ \A a \in Apps : row.st.apps[a] = None => usage[a] = 0
  /\ \A a \in Apps : row.st.apps[a] # None => row.st.apps[a].quota = 0 \/ usage[a] <= row.st.apps[a].quota
  /\ \A p \in Nodes, a \in Apps : Known(cache[p].st.apps[a], a) => InRow(cache[p].st.apps[a], a)
  /\ \A p \in Nodes, a \in Apps : cache[p].rev = row.rev /\ row.st.apps[a] # None =>
       cache[p].st.apps[a] # None /\ InRow(cache[p].st.apps[a], a)
  /\ \A t \in Tasks : task[t].pc = "consume" => C(t).x \in Apps /\ InRow(task[t], C(t).x) /\ task[t].quota # 0

Books ==
  /\ usage \in [Apps -> Nat] /\ admitted \in [Apps -> Nat] /\ reset \in BOOLEAN
  /\ ~reset /\ mode = "file" => Filed
  /\ ~reset /\ mode = "postgres" => Table

LEMMA BooksHold == ASSUME Inv, Books PROVE QuotaHolds
<1> SUFFICES ASSUME NEW a \in Apps, ~reset, row.st.apps[a] # None
             PROVE  row.st.apps[a].quota = 0 \/ admitted[a] <= row.st.apps[a].quota
  BY DEF QuotaHolds
<1>1. row.st.apps[a].quota \in Nat
  BY DEF Inv, Store, Good, Shape, AppOK
<1>2. CASE mode = "file"
  <2>1. Covered(row.st.apps[a], admitted[a]) /\ admitted[a] \in Nat
    BY <1>2 DEF Books, Filed
  <2> QED
    BY <1>1, <2>1 DEF Covered
<1>3. CASE mode = "postgres"
  BY <1>3 DEF Books, Table
<1> QED
  BY <1>2, <1>3 DEF Inv, Store

LEMMA BooksInit == ASSUME AccessAssumption, AccessInit PROVE Books
<1>1. PICK d \in Documents : row = [rev |-> 0, st |-> d]
  BY DEF AccessInit
<1>2. Good(d) /\ \A a \in Apps : d.apps[a] # None => d.apps[a].day = 0
  BY DEF AccessAssumption
<1>3. Today = 0 /\ Replicas \subseteq Nodes
  BY DEF AccessInit, Today, AccessAssumption, Replicas
<1>4. \A a \in Apps : admitted[a] = 0 /\ usage[a] = 0 /\ (\A t \in Tasks : task[t].pc = "idle")
  BY DEF AccessInit, Idle
<1>9. ASSUME NEW a \in Apps, d.apps[a] # None PROVE d.apps[a].quota \in Nat /\ d.apps[a].used \in Nat
  <2>1. AppOK(d.apps[a])
    BY <1>2 DEF Good, Shape
  <2> QED
    BY <1>9, <2>1 DEF AppOK
<1>5. ASSUME NEW a \in Apps PROVE Covered(d.apps[a], 0)
  BY <1>2, <1>3, <1>9 DEF Covered
<1>6. Filed
  BY <1>1, <1>3, <1>4, <1>5 DEF AccessInit, Filed, Idle
<1>7. \A a \in Apps : d.apps[a] # None => d.apps[a].quota = 0 \/ 0 <= d.apps[a].quota
  BY <1>9
<1>8. Table
  BY <1>1, <1>4, <1>7 DEF AccessInit, Table, InRow, Known, Idle
<1> QED
  BY <1>6, <1>8 DEF AccessInit, Books

\* What a call makes of the applications covers what the ones before it covered.
LEMMA CoversOn ==
  ASSUME NEW v, NEW w, NEW a, NEW c, NEW n \in Nat, AppOK(w), GoesOn(v, w, a, c), Covered(v, n),
         c.op # "use", ~(c.op = "app" /\ c.quota > 0), Today \in Nat
  PROVE  Covered(w, n)
BY DEF Covered, GoesOn, AppOK

\* No task comes to count but by a use.
Usual == \A u \in Tasks : task'[u].pc = "consume" => task'[u] = task[u]

\* A document of a replica takes the place of the one in the row, or the other way round,
\* or d takes the place of either.
LEMMA FiledSaved ==
  ASSUME AccessAssumption, Inv, Filed, mode = "file", NEW t \in Tasks, NEW d, Saved(t, d), Usual,
         UNCHANGED <<home, now>>, \A a \in Apps : Covered(d.apps[a], admitted'[a]),
         admitted' = admitted \/ (row'.st = d /\ cache'[home[t]].st = d)
  PROVE  Filed'
<1> DEFINE p == home[t]
<1>1. p \in Nodes /\ Replicas = {p} /\ Replicas' = Replicas /\ Today' = Today
  BY DEF Inv, Store, Replicas, Today
<1>2. \A v, n : Covered(v, n)' <=> Covered(v', n')
  BY <1>1 DEF Covered
<1>3. cache'[p].st \in {row.st, d} /\ row'.st \in {row.st, d}
  BY <1>1 DEF Saved, Inv, Store
<1>4. ASSUME NEW a \in Apps PROVE Covered(row'.st.apps[a], admitted'[a]) /\ Covered(cache'[p].st.apps[a], admitted'[a])
  BY <1>1, <1>3 DEF Filed
<1>5. \A u \in Tasks : task'[u].pc # "consume"
  BY DEF Usual, Filed
<1>6. ASSUME NEW a \in Apps PROVE Covered(row.st.apps[a], admitted[a])' /\ Covered(cache[p].st.apps[a], admitted[a])'
  BY <1>1, <1>4 DEF Covered
<1> QED
  BY <1>1, <1>5, <1>6 DEF Filed
\* A replica loads, dies, or keeps an edit; or its memory is written out.
LEMMA FiledElse ==
  ASSUME AccessAssumption, Inv, Filed, NEW p \in Replicas, Usual, UNCHANGED <<home, now, admitted>>,
         row'.st \in {row.st, cache[p].st}, \A q \in Replicas \ {p} : cache'[q] = cache[q],
         \/ cache'[p].st \in {row.st, cache[p].st}
         \/ \A a \in Apps : Covered(cache'[p].st.apps[a], admitted[a])
  PROVE  Filed'
<1>1. Replicas' = Replicas /\ Today' = Today
  BY DEF Replicas, Today
<1>2. ASSUME NEW a \in Apps PROVE Covered(row'.st.apps[a], admitted[a])
  BY DEF Filed
<1>3. ASSUME NEW q \in Replicas, NEW a \in Apps PROVE Covered(cache'[q].st.apps[a], admitted[a])
  <2>1. CASE q = p
    BY <2>1 DEF Filed
  <2>2. CASE q # p
    BY <2>2 DEF Filed
  <2> QED
    BY <2>1, <2>2
<1>4. \A u \in Tasks : task'[u].pc # "consume"
  BY DEF Usual, Filed
<1>5. ASSUME NEW a \in Apps PROVE Covered(row.st.apps[a], admitted[a])'
  BY <1>1, <1>2 DEF Covered
<1>6. ASSUME NEW q \in Replicas, NEW a \in Apps PROVE Covered(cache[q].st.apps[a], admitted[a])'
  BY <1>1, <1>3 DEF Covered
<1> QED
  BY <1>1, <1>4, <1>5, <1>6 DEF Filed

\* A document that has the applications of the row, with their quotas.
Matches(s) == \A a \in Apps : row.st.apps[a] # None => s.apps[a] # None /\ InRow(s.apps[a], a)

\* A call keeps the quotas, and gives no application its first key back.
Follows(s, d) == \A a \in Apps : /\ s.apps[a] # None => d.apps[a] # None /\ d.apps[a].quota = s.apps[a].quota
                                 /\ Known(d.apps[a], a) => Known(s.apps[a], a)

\* The row stays or becomes one that matches it, and each memory stays, becomes the row, or is
\* what a call makes of it.
LEMMA TableKept ==
  ASSUME AccessAssumption, Inv, Inv', Table, mode = "postgres", Usual, UNCHANGED <<usage, admitted>>,
         row' = row \/ (row'.rev = row.rev + 1 /\ Matches(row'.st)),
         \A p \in Nodes : \/ cache'[p] = cache[p] \/ cache'[p] = row'
                          \/ cache'[p].rev = cache[p].rev /\ Follows(cache[p].st, cache'[p].st)
  PROVE  Table'
<1>1. ASSUME NEW a \in Apps, row.st.apps[a] # None
      PROVE  row'.st.apps[a] # None /\ row'.st.apps[a].quota = row.st.apps[a].quota
  BY <1>1 DEF Matches, InRow
<1>2. \A a \in Apps : row'.st.apps[a] # None => row'.st.apps[a].quota \in Nat
  BY DEF Inv, Store, Good, Shape, AppOK
<1>3. ASSUME NEW a \in Apps PROVE row'.st.apps[a] = None => usage[a] = 0
  BY <1>1 DEF Table
<1>4. ASSUME NEW a \in Apps, row'.st.apps[a] # None PROVE row'.st.apps[a].quota = 0 \/ usage[a] <= row'.st.apps[a].quota
  BY <1>1, <1>2, <1>4 DEF Table
<1>5. ASSUME NEW p \in Nodes, NEW a \in Apps, Known(cache'[p].st.apps[a], a)
      PROVE  row'.st.apps[a] # None /\ cache'[p].st.apps[a].quota = row'.st.apps[a].quota
  <2>1. CASE cache'[p] = row'
    BY <1>5, <2>1 DEF Known
  <2>2. CASE cache'[p] = cache[p] \/ Follows(cache[p].st, cache'[p].st)
    <3>1. Known(cache[p].st.apps[a], a) /\ cache[p].st.apps[a] # None
      BY <1>5, <2>2 DEF Follows, Known
    <3>2. cache'[p].st.apps[a].quota = cache[p].st.apps[a].quota
      BY <2>2, <3>1 DEF Follows
    <3> QED
      BY <1>1, <3>1, <3>2 DEF Table, InRow
  <2> QED
    BY <2>1, <2>2
<1>6. ASSUME NEW p \in Nodes, NEW a \in Apps, cache'[p].rev = row'.rev, row'.st.apps[a] # None
      PROVE  cache'[p].st.apps[a] # None /\ cache'[p].st.apps[a].quota = row'.st.apps[a].quota
  <2>1. CASE cache'[p] = row'
    BY <1>6, <2>1
  <2>2. CASE cache'[p].rev = cache[p].rev /\ (cache'[p] = cache[p] \/ Follows(cache[p].st, cache'[p].st))
    <3>1. row' = row
      BY <1>6, <2>2 DEF Inv, Store
    <3>2. cache[p].st.apps[a] # None /\ cache[p].st.apps[a].quota = row.st.apps[a].quota
      BY <1>6, <2>2, <3>1 DEF Table, InRow
    <3> QED
      BY <2>2, <3>1, <3>2 DEF Follows
  <2> QED
    BY <2>1, <2>2
<1>7. ASSUME NEW t \in Tasks, task'[t].pc = "consume"
      PROVE  /\ task'[t].call.x \in Apps /\ row'.st.apps[task'[t].call.x] # None
             /\ task'[t].quota = row'.st.apps[task'[t].call.x].quota /\ task'[t].quota # 0
  <2>1. task'[t] = task[t]
    BY <1>7 DEF Usual
  <2>2. C(t).x \in Apps /\ InRow(task[t], C(t).x) /\ task[t].quota # 0
    BY <1>1, <1>7, <2>1 DEF Table
  <2> QED
    BY <1>1, <2>1, <2>2 DEF InRow, C
<1> QED
  BY <1>3, <1>4, <1>5, <1>6, <1>7 DEF Table, InRow, C

\* What a task saves.
LEMMA TableSaved ==
  ASSUME AccessAssumption, Inv, Inv', Table, mode = "postgres", Usual, UNCHANGED <<usage, admitted, home, mode>>,
         NEW t \in Tasks, NEW d, Saved(t, d), Follows(cache[home[t]].st, d)
  PROVE  Table'
<1> DEFINE p == home[t]
<1>1. p \in Nodes /\ DOMAIN cache = Nodes /\ \A q \in Nodes : cache[q] = [rev |-> cache[q].rev, st |-> cache[q].st]
  BY DEF Inv, Store
<1>2. \A q \in Nodes \ {p} : cache'[q] = cache[q]
  BY <1>1 DEF Saved
<1>3. cache'[p] = row' \/ (cache'[p].rev = cache[p].rev /\ cache'[p].st = d)
  BY <1>1 DEF Saved
<1>4. row' = row \/ (row' = [rev |-> row.rev + 1, st |-> d] /\ cache[p].rev = row.rev)
  BY DEF Saved, Next1
<1>5. ASSUME row' # row PROVE row'.rev = row.rev + 1 /\ Matches(row'.st)
  <2>1. row'.rev = row.rev + 1 /\ row'.st = d /\ cache[p].rev = row.rev
    BY <1>4, <1>5
  <2>2. ASSUME NEW a \in Apps, row.st.apps[a] # None PROVE d.apps[a] # None /\ d.apps[a].quota = row.st.apps[a].quota
    <3>1. cache[p].st.apps[a] # None /\ cache[p].st.apps[a].quota = row.st.apps[a].quota
      BY <1>1, <2>1, <2>2 DEF Table, InRow
    <3> QED
      BY <3>1 DEF Follows
  <2> QED
    BY <2>1, <2>2 DEF Matches, InRow
<1>6. \A q \in Nodes : \/ cache'[q] = cache[q] \/ cache'[q] = row'
                       \/ cache'[q].rev = cache[q].rev /\ Follows(cache[q].st, cache'[q].st)
  BY <1>2, <1>3
<1> QED
  BY <1>5, <1>6, TableKept
\* The steps that only load the row, if they touch a document at all.
LEMMA LoadBooks ==
  ASSUME AccessAssumption, Inv, Inv', Books, NEW p \in Replicas, Usual,
         UNCHANGED <<mode, home, row, usage, now, admitted, reset>>,
         cache'[p] \in {row, cache[p]}, \A q \in Nodes \ {p} : cache'[q] = cache[q]
  PROVE  Books'
<1>1. /\ p \in Nodes /\ Replicas \subseteq Nodes /\ (\A q \in Nodes : q # p => cache'[q] = cache[q])
      /\ cache'[p] = cache[p] \/ cache'[p] = row
  BY DEF Inv, Store, Replicas
<1>2. ASSUME ~reset, mode = "file" PROVE Filed'
  <2>1. cache'[p].st \in {row.st, cache[p].st} /\ \A q \in Replicas \ {p} : cache'[q] = cache[q]
    BY <1>1
  <2> QED
    BY <1>2, <2>1, FiledElse DEF Books
<1>3. ASSUME ~reset, mode = "postgres" PROVE Table'
  BY <1>1, <1>3, TableKept DEF Books
<1> QED
  BY <1>2, <1>3 DEF Books

LEMMA Home == ASSUME Inv, NEW t \in Tasks PROVE home[t] \in Replicas /\ home[t] \in Nodes
BY DEF Inv, Store, Replicas

LEMMA MovesBooks ==
  ASSUME AccessAssumption, Inv, Inv', Books, NEW t \in Tasks, Begin(t) \/ Enter(t) \/ Refuse(t) \/ Audit(t)
  PROVE  Books'
<1> DEFINE p == home[t]
<1>1. p \in Replicas
  BY Home
<1>2. UNCHANGED <<mode, home, row, usage, now, admitted, reset>>
  BY DEF Begin, Enter, Refuse, Audit
<1>3. cache'[p] \in {row, cache[p]} /\ \A q \in Nodes \ {p} : cache'[q] = cache[q]
  <2>1. ASSUME Loads(p) PROVE cache'[p] \in {row, cache[p]} /\ \A q \in Nodes \ {p} : cache'[q] = cache[q]
    <3>1. p \in Nodes /\ DOMAIN cache = Nodes
      BY Home DEF Inv, Store
    <3>2. cache' = [cache EXCEPT ![p] = Newest(p)] /\ Newest(p) \in {row, cache[p]}
      BY <2>1 DEF Loads, Newest
    <3> QED
      BY <3>1, <3>2
  <2> QED
    BY <2>1 DEF Begin, Enter, Refuse, Audit, P
<1>4. Usual
  <2>1. DOMAIN task = Tasks
    BY DEF Inv, Work
  <2>2. ASSUME NEW k, k.pc # "consume", task' = [task EXCEPT ![t] = k] PROVE Usual
    BY <2>1, <2>2 DEF Usual
  <2>3. ASSUME NEW q, q # "consume", To(t, q) PROVE Usual
    <3> DEFINE k == [task[t] EXCEPT !.pc = q]
    <3>1. k.pc = q
      BY DEF Inv, Work, TaskOK
    <3>2. task' = [task EXCEPT ![t] = k]
      BY <2>3 DEF To
    <3> HIDE DEF k
    <3> QED
      BY <2>2, <2>3, <3>1, <3>2
  <2>4. End(t) => Usual
    BY <2>2 DEF End, Idle
  <2>5. CASE Begin(t)
    <3>1. task' = task => Usual
      BY DEF Usual
    <3>2. ASSUME NEW c, task' = [task EXCEPT ![t] = [Idle EXCEPT !.pc = "enter", !.call = c]] PROVE Usual
      BY <2>2, <3>2 DEF Idle
    <3>3. ASSUME NEW c, NEW k, NEW o, task' = [task EXCEPT ![t] = [Idle EXCEPT !.pc = "enter", !.call = c, !.key = k, !.old = o]]
          PROVE  Usual
      BY <2>2, <3>3 DEF Idle
    <3> QED
      BY <2>5, <3>1, <3>2, <3>3 DEF Begin
  <2>6. CASE Enter(t)
    BY <2>3, <2>4, <2>6 DEF Enter, Fails
  <2>7. CASE Refuse(t) \/ Audit(t)
    BY <2>3, <2>4, <2>7 DEF Refuse, Audit
  <2> QED
    BY <2>5, <2>6, <2>7
<1> QED
  BY <1>1, <1>2, <1>3, <1>4, LoadBooks

LEMMA EditBooks == ASSUME AccessAssumption, Inv, Inv', Books, NEW t \in Tasks, Edit(t) PROVE Books'
<1> DEFINE p == home[t]
           s == cache[p].st
           r == IF task[t].second THEN CreateApp(s, C(t), task[t].key) ELSE Does(s, C(t), task[t].key)
           d == r.st
<1>1. /\ task[t].pc = "edit" /\ C(t) \in Calls /\ C(t).op # "use" /\ Good(s) /\ now \in 0..MaxTime
      /\ UNCHANGED <<mode, home, now, usage, admitted>>
      /\ C(t).op \notin Unaudited => task[t].key \in Tasks \X Nat
      /\ task[t].second => C(t).op = "newTenant"
      /\ p \in Nodes /\ p \in Replicas /\ DOMAIN cache = Nodes /\ Replicas \subseteq Nodes
      /\ cache[p] = [rev |-> cache[p].rev, st |-> s]
  <2>1. /\ task[t].pc = "edit" /\ C(t).op # "use" /\ now \in 0..MaxTime
        /\ UNCHANGED <<mode, home, now, usage, admitted>>
    BY DEF Edit, Inv, Work, Op
  <2>2. /\ C(t) \in Calls
        /\ C(t).op \notin Unaudited => task[t].key \in Tasks \X Nat
        /\ task[t].second => C(t).op = "newTenant"
    BY <2>1 DEF Inv, Work, TaskOK, C
  <2>3. p \in Nodes /\ p \in Replicas /\ DOMAIN cache = Nodes /\ Replicas \subseteq Nodes
    BY Home DEF Inv, Work, Store, Replicas
  <2>4. cache[p] = [rev |-> cache[p].rev, st |-> s] /\ Good(s)
    BY <2>3 DEF Inv, Store
  <2> QED
    BY <2>1, <2>2, <2>3, <2>4
<1>2. Good(d) /\ Beside(s, d, C(t))
  BY <1>1, DoesKept DEF Keeps
<1>3. \/ Save(t, d, Proceeds(t), Fails(t))
      \/ cache' = [cache EXCEPT ![p].st = d] /\ Fails(t) /\ UNCHANGED row
  BY DEF Edit, P
<1>4. reset' = (reset \/ (C(t).op = "app" /\ C(t).quota > 0)) /\ reset' \in BOOLEAN
  BY DEF Edit, Op, Books
<1> HIDE DEF r
<1>5. Usual
  <2>1. Proceeds(t) \/ Fails(t)
    BY <1>3 DEF Save
  <2>2. PICK k : task' = [task EXCEPT ![t] = k] /\ k.pc # "consume"
    BY <1>1, <2>1, Proceeded
  <2> QED
    BY <2>2 DEF Usual, Inv, Work
<1>6. Save(t, d, Proceeds(t), Fails(t)) => Saved(t, d)
  BY DEF Save, Saved, P
<1>7. ASSUME UNCHANGED row, cache' = [cache EXCEPT ![p].st = d]
      PROVE  cache'[p] = [rev |-> cache[p].rev, st |-> d] /\ \A q \in Nodes \ {p} : cache'[q] = cache[q]
  BY <1>1, <1>7
<1>8. ASSUME ~reset', mode = "file" PROVE Filed'
  <2>1. ~reset /\ ~(C(t).op = "app" /\ C(t).quota > 0) /\ Filed
    BY <1>4, <1>8 DEF Books
  <2>2. ASSUME NEW a \in Apps PROVE Covered(d.apps[a], admitted[a])
    <3>1. GoesOn(s.apps[a], d.apps[a], a, C(t)) /\ AppOK(d.apps[a]) /\ Covered(s.apps[a], admitted[a])
      BY <1>1, <1>2, <2>1 DEF Beside, Good, Shape, Filed
    <3>2. admitted[a] \in Nat /\ Today \in Nat
      BY <1>1, NumbersLemma DEF Books
    <3> QED
      BY <1>1, <2>1, <3>1, <3>2, CoversOn
  <2> HIDE DEF d
  <2>3. CASE Saved(t, d)
    BY <1>1, <1>5, <1>8, <2>1, <2>2, <2>3, FiledSaved
  <2>4. CASE UNCHANGED row /\ cache' = [cache EXCEPT ![p].st = d]
    <3>1. cache'[p].st = d /\ row'.st = row.st /\ \A q \in Replicas \ {p} : cache'[q] = cache[q]
      BY <1>1, <1>7, <2>4
    <3> QED
      BY <1>1, <1>5, <1>8, <2>1, <2>2, <3>1, FiledElse
  <2> QED
    BY <1>3, <1>6, <2>3, <2>4
<1>9. ASSUME ~reset', mode = "postgres" PROVE Table'
  <2>1. ~reset /\ ~(C(t).op = "app" /\ C(t).quota > 0) /\ Table
    BY <1>4, <1>9 DEF Books
  <2>2. Follows(s, d)
    BY <1>2, <2>1 DEF Beside, GoesOn, Follows
  <2> HIDE DEF d
  <2>3. CASE Saved(t, d)
    BY <1>1, <1>5, <1>9, <2>1, <2>2, <2>3, TableSaved
  <2>4. CASE UNCHANGED row /\ cache' = [cache EXCEPT ![p].st = d]
    <3>1. \A q \in Nodes : cache'[q] = cache[q] \/ (cache'[q].rev = cache[q].rev /\ Follows(cache[q].st, cache'[q].st))
      BY <1>1, <1>7, <2>2, <2>4
    <3> QED
      BY <1>1, <1>5, <1>9, <2>1, <2>4, <3>1, TableKept
  <2> QED
    BY <1>3, <1>6, <2>3, <2>4
<1> QED
  BY <1>1, <1>4, <1>8, <1>9 DEF Books
\* The count of a request covers it.
LEMMA CountCovers ==
  ASSUME AccessAssumption, Inv, Books, Filed, NEW p \in Replicas, NEW c, c.op = "use", c.x \in Apps,
         cache[p].st.apps[c.x] # None
  PROVE  /\ \A d \in {Counted(cache[p].st, c.x), Fresh(cache[p].st, c.x)}, a \in Apps : Covered(d.apps[a], admitted[a])
         /\ cache[p].st.apps[c.x].quota # 0 /\ ~Exhausted(cache[p].st, c.x) =>
              \A a \in Apps : Covered(Counted(cache[p].st, c.x).apps[a], [admitted EXCEPT ![c.x] = @ + 1][a])
<1> DEFINE s == cache[p].st
           v == s.apps[c.x]
           n == admitted[c.x]
<1>1. now \in 0..MaxTime /\ Good(s) /\ Today \in Nat
  BY NumbersLemma DEF Inv, Store, Work, Replicas
<1>2. AppOK(v) /\ v # None /\ v.quota \in Nat /\ v.used \in Nat /\ v.day \in Nat /\ n \in Nat /\ Covered(v, n)
  BY <1>1 DEF Good, Shape, AppOK, Books, Filed
<1> HIDE DEF s
<1>3. ASSUME NEW d \in {Counted(s, c.x), Fresh(s, c.x)}
      PROVE  /\ \A a \in Apps \ {c.x} : d.apps[a] = s.apps[a]
             /\ d.apps[c.x] # None /\ d.apps[c.x].day = Today /\ d.apps[c.x].quota = v.quota
             /\ d.apps[c.x].used = IF d = Counted(s, c.x) THEN IF v.day = Today THEN v.used + 1 ELSE 1
                                                          ELSE IF v.day = Today THEN v.used ELSE 0
  <2>1. Used(s, c, d)
    BY <1>1, <1>2, <1>3, UseDocument
  <2>2. Beside(s, d, c)
    BY <2>1 DEF Used
  <2>3. d.apps[c.x].quota = v.quota /\ \A a \in Apps \ {c.x} : d.apps[a] = s.apps[a]
    <3>1. GoesOn(v, d.apps[c.x], c.x, c)
      BY <2>2 DEF Beside
    <3> QED
      BY <1>2, <2>2, <3>1 DEF GoesOn, Beside
  <2>4. /\ d.apps[c.x] # None /\ d.apps[c.x].day = Today
        /\ d.apps[c.x].used = IF d = Counted(s, c.x) THEN IF v.day = Today THEN v.used + 1 ELSE 1
                                                     ELSE IF v.day = Today THEN v.used ELSE 0
    BY <2>1 DEF Used
  <2> HIDE DEF v
  <2> QED
    BY <2>3, <2>4
<1>4. \A a \in Apps : Covered(s.apps[a], admitted[a])
  BY DEF s, Filed
<1>5. ASSUME NEW d \in {Counted(s, c.x), Fresh(s, c.x)}, NEW a \in Apps PROVE Covered(d.apps[a], admitted[a])
  <2>1. CASE a # c.x
    BY <1>3, <1>4, <2>1
  <2>2. CASE a = c.x
    <3> DEFINE w == d.apps[c.x]
    <3>1. /\ w # None /\ w.day = Today /\ w.quota = v.quota
          /\ w.used = IF d = Counted(s, c.x) THEN IF v.day = Today THEN v.used + 1 ELSE 1
                                             ELSE IF v.day = Today THEN v.used ELSE 0
      BY <1>3, <1>5
    <3> HIDE DEF w, v, n
    <3>3. (v.day = Today => w.used >= v.used) /\ w.used \in Nat
      BY <1>2, <3>1
    <3>2. Covered(w, n)
      BY <1>1, <1>2, <3>1, <3>3 DEF Covered
    <3> QED
      BY <2>2, <3>2 DEF w, n
  <2> QED
    BY <2>1, <2>2
<1>6. ASSUME v.quota # 0, ~Exhausted(s, c.x), NEW a \in Apps
      PROVE  Covered(Counted(s, c.x).apps[a], [admitted EXCEPT ![c.x] = @ + 1][a])
  <2>1. [admitted EXCEPT ![c.x] = @ + 1][a] = IF a = c.x THEN n + 1 ELSE admitted[a]
    BY DEF Books
  <2>2. CASE a # c.x
    BY <1>3, <1>4, <2>1, <2>2
  <2>3. CASE a = c.x
    <3> DEFINE w == Counted(s, c.x).apps[c.x]
    <3>1. w # None /\ w.day = Today /\ w.quota = v.quota /\ w.used = IF v.day = Today THEN v.used + 1 ELSE 1
      BY <1>3
    <3>2. v.day = Today => v.used < v.quota
      BY <1>2, <1>6 DEF Exhausted
    <3> HIDE DEF w, v, n
    <3>3. Covered(w, n + 1)
      BY <1>1, <1>2, <1>6, <3>1, <3>2 DEF Covered
    <3> QED
      BY <2>1, <2>3, <3>3 DEF w
  <2> QED
    BY <2>2, <2>3
<1> QED
  BY <1>5, <1>6 DEF s

\* The table after a step that leaves the row and the memories alone.
LEMMA TableStays ==
  ASSUME Table, UNCHANGED <<row, cache>>, admitted' = usage',
         \A a \in Apps : row.st.apps[a] = None => usage'[a] = 0,
         \A a \in Apps : row.st.apps[a] # None => row.st.apps[a].quota = 0 \/ usage'[a] <= row.st.apps[a].quota,
         \A t \in Tasks : task'[t].pc = "consume" =>
           LET a == task'[t].call.x
           IN  a \in Apps /\ row.st.apps[a] # None /\ task'[t].quota = row.st.apps[a].quota /\ task'[t].quota # 0
  PROVE  Table'
<1>1. /\ \A p \in Nodes, a \in Apps : Known(cache[p].st.apps[a], a)' => InRow(cache[p].st.apps[a], a)'
      /\ \A p \in Nodes, a \in Apps : (cache[p].rev = row.rev /\ row.st.apps[a] # None)' =>
           (cache[p].st.apps[a] # None /\ InRow(cache[p].st.apps[a], a))'
  BY DEF Table, InRow, Known
<1>2. \A t \in Tasks : (task[t].pc = "consume")' => (C(t).x \in Apps /\ InRow(task[t], C(t).x) /\ task[t].quota # 0)'
  BY DEF InRow, C
<1>3. /\ \A a \in Apps : row'.st.apps[a] = None => usage'[a] = 0
      /\ \A a \in Apps : row'.st.apps[a] # None => row'.st.apps[a].quota = 0 \/ usage'[a] <= row'.st.apps[a].quota
  OBVIOUS
<1> QED
  BY <1>1, <1>2, <1>3 DEF Table

LEMMA UseBooks == ASSUME AccessAssumption, Inv, Inv', Books, NEW t \in Tasks, Use(t) PROVE Books'
<1> DEFINE p == home[t]
           s == cache[p].st
           a == C(t).x
<1>1. /\ C(t).op = "use" /\ p \in Nodes /\ p \in Replicas /\ DOMAIN task = Tasks /\ task[t].pc = "edit"
      /\ UNCHANGED <<mode, home, usage, now, reset>>
  BY Home DEF Use, Op, Inv, Work
<1>2. End(t) => Usual
  BY <1>1 DEF End, Idle, Usual
<1>3. CASE End(t) /\ UNCHANGED <<row, cache, admitted>>
  BY <1>1, <1>2, <1>3, LoadBooks
<1>4. CASE /\ a \in Opens(s, a) /\ s.apps[a].quota # 0 /\ mode = "postgres"
           /\ task' = [task EXCEPT ![t].pc = "consume", ![t].quota = s.apps[a].quota]
           /\ UNCHANGED <<row, cache, admitted>>
  <2> DEFINE k == [task[t] EXCEPT !.pc = "consume", !.quota = s.apps[a].quota]
  <2>1. task' = [task EXCEPT ![t] = k]
    BY <1>1, <1>4
  <2>2. k.quota = s.apps[a].quota /\ k.call = C(t)
    BY DEF Inv, Work, TaskOK, C
  <2> HIDE DEF k
  <2>3. a \in Apps /\ Known(s.apps[a], a)
    BY <1>4 DEF Opens, InForce, Known
  <2>4. ASSUME ~reset PROVE Table'
    <3>1. Table
      BY <1>4, <2>4 DEF Books
    <3>2. InRow(s.apps[a], a)
      BY <1>1, <2>3, <3>1 DEF Table
    <3>3. ASSUME NEW u \in Tasks, task'[u].pc = "consume"
          PROVE  task'[u].call.x \in Apps /\ InRow(task'[u], task'[u].call.x) /\ task'[u].quota # 0
      <4>1. CASE u = t
        BY <1>1, <1>4, <2>1, <2>2, <2>3, <3>2, <4>1 DEF InRow
      <4>2. CASE u # t
        BY <1>1, <2>1, <3>1, <3>3, <4>2 DEF Table, C
      <4> QED
        BY <4>1, <4>2
    <3>4. /\ \A b \in Apps : row.st.apps[b] = None => usage'[b] = 0
          /\ \A b \in Apps : row.st.apps[b] # None => row.st.apps[b].quota = 0 \/ usage'[b] <= row.st.apps[b].quota
          /\ admitted' = usage' /\ UNCHANGED <<row, cache>>
      BY <1>1, <1>4, <3>1 DEF Table
    <3> QED
      BY <3>1, <3>3, <3>4, TableStays DEF InRow
  <2> QED
    BY <1>1, <1>4, <2>4 DEF Books
<1>5. ASSUME a \in Opens(s, a), s.apps[a].quota # 0, mode = "file", NEW d \in {Counted(s, a), Fresh(s, a)},
             Saved(t, d), End(t),
             \/ admitted' = admitted
             \/ /\ ~Exhausted(s, a) /\ admitted' = [admitted EXCEPT ![a] = @ + 1]
                /\ d = Counted(s, a) /\ row'.st = d /\ cache'[p].st = d
      PROVE  Books'
  <2>1. a \in Apps /\ s.apps[a] # None
    BY <1>5 DEF Opens
  <2>2. ASSUME ~reset PROVE Filed'
    <3>1. Filed
      BY <1>5, <2>2 DEF Books
    <3>2. /\ \A b \in Apps : Covered(d.apps[b], admitted[b])
          /\ ~Exhausted(s, a) => \A b \in Apps : Covered(Counted(s, a).apps[b], [admitted EXCEPT ![a] = @ + 1][b])
      BY <1>1, <1>5, <2>1, <3>1, CountCovers
    <3>3. \A b \in Apps : Covered(d.apps[b], admitted'[b])
      BY <1>5, <3>2
    <3>4. admitted' = admitted \/ (row'.st = d /\ cache'[p].st = d)
      BY <1>5
    <3> QED
      BY <1>1, <1>2, <1>5, <3>1, <3>3, <3>4, FiledSaved
  <2>3. admitted' \in [Apps -> Nat]
    BY <1>5 DEF Books
  <2> QED
    BY <1>1, <1>5, <2>2, <2>3 DEF Books
<1>6. CASE /\ a \in Opens(s, a) /\ s.apps[a].quota # 0 /\ mode = "file" /\ UNCHANGED admitted
           /\ Save(t, Fresh(s, a), End(t), End(t))
  <2>1. Saved(t, Fresh(s, a)) /\ End(t)
    BY <1>6 DEF Save, Saved, P
  <2> QED
    BY <1>5, <1>6, <2>1
<1>7. CASE /\ a \in Opens(s, a) /\ s.apps[a].quota # 0 /\ mode = "file" /\ ~Exhausted(s, a)
           /\ Save(t, Counted(s, a), End(t) /\ admitted' = [admitted EXCEPT ![a] = @ + 1], End(t) /\ UNCHANGED admitted)
  <2> DEFINE d == Counted(s, a)
  <2>1. Saved(t, d) /\ End(t)
    BY <1>7 DEF Save, Saved, P
  <2>2. \/ admitted' = admitted
        \/ admitted' = [admitted EXCEPT ![a] = @ + 1] /\ row' = [rev |-> Next1, st |-> d] /\ cache' = [cache EXCEPT ![p] = row']
    BY <1>7 DEF Save, P
  <2> HIDE DEF d
  <2>3. ASSUME row' = [rev |-> Next1, st |-> d], cache' = [cache EXCEPT ![p] = row'] PROVE row'.st = d /\ cache'[p].st = d
    BY <1>1, <2>3 DEF Inv, Store
  <2>4. d \in {Counted(s, a), Fresh(s, a)} /\ d = Counted(s, a)
    BY DEF d
  <2> QED
    BY <1>5, <1>7, <2>1, <2>2, <2>3, <2>4
<1>8. mode = "file" \/ mode = "postgres"
  BY DEF Inv, Store
<1> QED
  BY <1>3, <1>4, <1>6, <1>7, <1>8 DEF Use, P

LEMMA ConsumeBooks == ASSUME AccessAssumption, Inv, Inv', Books, NEW t \in Tasks, Consume(t) PROVE Books'
<1> DEFINE a == C(t).x
<1>1. /\ task[t].pc = "consume" /\ task' = [task EXCEPT ![t] = Idle] /\ DOMAIN task = Tasks
      /\ UNCHANGED <<mode, home, row, cache, reset, now>> /\ usage \in [Apps -> Nat] /\ admitted \in [Apps -> Nat]
      /\ \/ usage[a] < task[t].quota /\ usage' = [usage EXCEPT ![a] = @ + 1] /\ admitted' = [admitted EXCEPT ![a] = @ + 1]
         \/ UNCHANGED <<usage, admitted>>
  BY DEF Consume, End, Inv, Work, Books
<1>2. usage' \in [Apps -> Nat] /\ admitted' \in [Apps -> Nat]
  BY <1>1
<1>3. \A u \in Tasks : task'[u].pc = "consume" => u # t /\ task'[u] = task[u]
  BY <1>1 DEF Idle
<1>4. ASSUME ~reset, mode = "file" PROVE FALSE
  BY <1>1, <1>4 DEF Books, Filed
<1>5. ASSUME ~reset, mode = "postgres" PROVE Table'
  <2>1. Table
    BY <1>5 DEF Books
  <2>2. a \in Apps /\ row.st.apps[a] # None /\ task[t].quota = row.st.apps[a].quota
    BY <1>1, <2>1 DEF Table, InRow
  <2>3. ASSUME NEW b \in Apps
        PROVE  /\ row.st.apps[b] = None => usage'[b] = 0
               /\ row.st.apps[b] # None => row.st.apps[b].quota = 0 \/ usage'[b] <= row.st.apps[b].quota
    <3>1. row.st.apps[b] # None => row.st.apps[b].quota \in Nat
      BY DEF Inv, Store, Good, Shape, AppOK
    <3>2. CASE b # a
      BY <1>1, <2>1, <3>2 DEF Table
    <3>3. CASE b = a
      <4>1. /\ usage[a] \in Nat
            /\ usage'[b] = usage[a] \/ (usage[a] < task[t].quota /\ usage'[b] = usage[a] + 1)
        BY <1>1, <2>2, <3>3
      <4>2. row.st.apps[a].quota = 0 \/ usage[a] <= row.st.apps[a].quota
        BY <2>1, <2>2 DEF Table
      <4> QED
        BY <2>2, <3>1, <3>3, <4>1, <4>2
    <3> QED
      BY <3>2, <3>3
  <2>4. admitted' = usage'
    BY <1>1, <2>1 DEF Table
  <2>5. ASSUME NEW u \in Tasks, task'[u].pc = "consume"
        PROVE  task'[u].call.x \in Apps /\ InRow(task'[u], task'[u].call.x) /\ task'[u].quota # 0
    BY <1>3, <2>1, <2>5 DEF Table, C
  <2>6. UNCHANGED <<row, cache>>
    BY <1>1
  <2> QED
    BY <2>1, <2>3, <2>4, <2>5, <2>6, TableStays DEF InRow
<1> QED
  BY <1>1, <1>2, <1>4, <1>5 DEF Books

LEMMA ReplicaBooks ==
  ASSUME AccessAssumption, Inv, Inv', Books, NEW p \in Replicas, CountCall(p) \/ Flush(p) \/ Restart(p) PROVE Books'
<1>1. p \in Nodes /\ DOMAIN cache = Nodes /\ UNCHANGED <<mode, home, usage, now, admitted, reset>>
  BY DEF Inv, Store, Replicas, CountCall, Flush, Restart
<1>2. Usual
  BY DEF CountCall, Flush, Restart, Usual, Idle
<1>3. CASE CountCall(p) \/ Restart(p)
  <2>1. cache'[p] \in {row, cache[p]} /\ (\A q \in Nodes \ {p} : cache'[q] = cache[q]) /\ row' = row
    BY <1>1, <1>3 DEF CountCall, Restart
  <2> QED
    BY <1>1, <1>2, <2>1, LoadBooks
<1>4. CASE Flush(p)
  <2>1. cache' = cache /\ row'.st = cache[p].st /\ mode = "file"
    BY <1>1, <1>4 DEF Flush, Inv, Store
  <2>2. ASSUME ~reset PROVE Filed'
    BY <1>1, <1>2, <2>1, <2>2, FiledElse DEF Books
  <2> QED
    BY <1>1, <2>1, <2>2 DEF Books
<1> QED
  BY <1>3, <1>4

LEMMA TickBooks == ASSUME AccessAssumption, Inv, Inv', Books, Tick PROVE Books'
<1>1. UNCHANGED <<mode, home, row, cache, task, reset>> /\ Replicas' = Replicas /\ Replicas \subseteq Nodes
  BY DEF Tick, Replicas, Inv, Store
<1>2. /\ Today \in Nat /\ Today' \in Nat /\ Today' >= Today
      /\ \/ Today' = Today /\ UNCHANGED <<usage, admitted>>
         \/ Today' # Today /\ usage' = [a \in Apps |-> 0] /\ admitted' = [a \in Apps |-> 0]
  <2>1. now \in Nat /\ now' = now + 1 /\ DayLength \in Nat \ {0}
    BY NumbersLemma DEF Tick, Inv, Work, AccessAssumption
  <2>2. now \div DayLength \in Nat /\ (now + 1) \div DayLength \in Nat /\ (now + 1) \div DayLength >= now \div DayLength
    BY <2>1
  <2> QED
    BY <2>1, <2>2 DEF Tick, Today
<1>3. usage' \in [Apps -> Nat] /\ admitted' \in [Apps -> Nat]
  BY <1>2 DEF Books
<1>4. ASSUME NEW v, AppOK(v), NEW a \in Apps, Covered(v, admitted[a])
      PROVE  /\ v = None => admitted'[a] = 0
             /\ v # None => /\ v.day <= Today' /\ (v.day # Today' => admitted'[a] = 0)
                            /\ v.day = Today' => admitted'[a] <= v.used /\ (v.quota = 0 \/ admitted'[a] <= v.quota)
  <2>1. v # None => v.day \in Nat /\ v.used \in Nat /\ v.quota \in Nat
    BY <1>4 DEF AppOK
  <2> QED
    BY <1>2, <1>3, <1>4, <2>1 DEF Covered
<1>5. ASSUME ~reset, mode = "file" PROVE Filed'
  <2>1. Filed
    BY <1>5 DEF Books
  <2>2. \A a \in Apps : AppOK(row.st.apps[a]) /\ \A p \in Nodes : AppOK(cache[p].st.apps[a])
    BY DEF Inv, Store, Good, Shape
  <2>3. ASSUME NEW a \in Apps PROVE Covered(row.st.apps[a], admitted[a])'
    BY <1>1, <1>4, <2>1, <2>2 DEF Covered, Filed
  <2>4. ASSUME NEW p \in Replicas, NEW a \in Apps PROVE Covered(cache[p].st.apps[a], admitted[a])'
    BY <1>1, <1>4, <2>1, <2>2 DEF Covered, Filed
  <2> QED
    BY <1>1, <2>1, <2>3, <2>4 DEF Filed
<1>6. ASSUME ~reset, mode = "postgres" PROVE Table'
  <2>1. Table
    BY <1>6 DEF Books
  <2>2. admitted' = usage' /\ \A a \in Apps : usage'[a] = usage[a] \/ usage'[a] = 0
    BY <1>2, <2>1 DEF Table
  <2>3. \A a \in Apps : row.st.apps[a] # None => row.st.apps[a].quota \in Nat
    BY DEF Inv, Store, Good, Shape, AppOK
  <2>4. \A a \in Apps : /\ row.st.apps[a] = None => usage'[a] = 0
                        /\ row.st.apps[a] # None => row.st.apps[a].quota = 0 \/ usage'[a] <= row.st.apps[a].quota
    BY <2>1, <2>2, <2>3 DEF Table
  <2> QED
    BY <1>1, <2>1, <2>2, <2>4 DEF Table, InRow, C
<1> QED
  BY <1>1, <1>3, <1>5, <1>6 DEF Books

LEMMA BooksNext == ASSUME AccessAssumption, Inv, Inv', Books, [AccessNext]_accessVars PROVE Books'
<1>1. CASE UNCHANGED accessVars
  <2>1. Filed => Filed'
    BY <1>1 DEF accessVars, Filed, Covered, Today, Replicas
  <2>2. Table => Table'
    BY <1>1 DEF accessVars, Table, InRow, Known, C
  <2> QED
    BY <1>1, <2>1, <2>2 DEF accessVars, Books
<1>2. ASSUME NEW t \in Tasks, Put(t) PROVE Books'
  BY <1>2 DEF Put, Books
<1> QED
  BY <1>1, <1>2, MovesBooks, EditBooks, UseBooks, ConsumeBooks, ReplicaBooks, TickBooks DEF AccessNext

-----------------------------------------------------------------------------
(* The theorems.                                                           *)

\* Whatever replicas, calls, lost races and failures there are, the documents are sound: a
\* replica that is at the revision of the row has what the row has, unless it keeps an edit
\* that was never saved, so that a key that is rotated away and an application that is
\* disabled are refused by all at once; members never share a phone or a subject, in the
\* row and in every memory; and a lock is held by the one task that is at the document.
\* No more requests of a day are admitted, over all replicas, than the quota of their
\* application allows, until it is set anew or a snapshot is put back.
THEOREM ReplicasAgree ==
  ASSUME AccessAssumption
  PROVE  Spec => []AccessIsSound
<1>1. AccessInit => Inv /\ Books
  BY InvInit, BooksInit
<1>2. Inv /\ Books /\ [AccessNext]_accessVars => Inv' /\ Books'
  BY InvNext, BooksNext
<1>3. Inv /\ Books => AccessIsSound
  BY InvIsSound, BooksHold DEF AccessIsSound
<1> QED
  BY <1>1, <1>2, <1>3, PTL DEF Spec

\* No replica overwrites what another one has just saved: a save of a call changes the
\* project, application, webhook or member that the call names, and nothing else, unless
\* its replica had an edit in memory that was never saved; and it cuts off no key before
\* its grace is over, unless more keys were replaced than are kept.
THEOREM SavesAreNarrow == ASSUME AccessAssumption PROVE Spec => AccessSafe
<1>1. AccessInit => Inv
  BY InvInit
<1>2. Inv /\ [AccessNext]_accessVars => Inv'
  BY InvNext
<1>3. Inv /\ [AccessNext]_accessVars => SavesItsOwn
  BY StepKeepsOthers
<1> QED
  BY <1>1, <1>2, <1>3, PTL DEF Spec, AccessSafe
=============================================================================
