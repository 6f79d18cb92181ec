----------------------------- MODULE ServingProofs -----------------------------
(***************************************************************************)
(* The inference of one model, for every set of requests and of tasks,     *)
(* every size of a batch and every bound of the faults.  The scheduler:    *)
(* batches stay within their limits and a caller is given the rows of its  *)
(* own input, a future is settled once, and the request that has waited    *)
(* longest is not passed over for ever.  The runtime registry: a bundle in *)
(* use keeps its session, what is registered can be used, and a model is   *)
(* loaded by one task at a time as long as no load lock was dropped.       *)
(*                                                                         *)
(* The operators of the scheduler are recursive functions over sequences.  *)
(* The library's theorems on such functions take an operator as their      *)
(* parameter and cannot be cited, but that < is well founded on Nat can:   *)
(* induction over numbers and the existence of a function that is defined  *)
(* from a first value and a step are derived from it here.                 *)
(***************************************************************************)
EXTENDS InferenceScheduler, ModelRuntime, WellFoundedInduction, FiniteSetTheorems, TLAPS

-----------------------------------------------------------------------------
(* Numbers and recursive functions.                                        *)

\* < on numbers, as a relation.
Less == {ss \in Nat \X Nat : ss[1] < ss[2]}

\* A set of numbers that holds 0, and with a number the next one, holds all of them.
LEMMA Induction ==
  ASSUME NEW T, T \subseteq Nat, 0 \in T, \A n \in T : n + 1 \in T
  PROVE  T = Nat
<1>1. ASSUME Nat \ T # {} PROVE FALSE
  <2>1. IsWellFoundedOn(Less, Nat)
    BY NatLessThanWellFounded DEF OpToRel, Less
  <2>2. PICK x \in Nat \ T : \A y \in Nat \ T : ~(<<y, x>> \in Less)
    BY <1>1, <2>1, WFMin
  <2>3. x # 0 /\ x - 1 \in Nat
    OBVIOUS
  <2>4. <<x - 1, x>> \in Less
    BY <2>3 DEF Less
  <2> QED  BY <2>2, <2>3, <2>4
<1> QED  BY <1>1

\* The same for the numbers up to N.
LEMMA UpTo ==
  ASSUME NEW N \in Nat, NEW T, 0 \in T, \A n \in 1..N : n - 1 \in T => n \in T
  PROVE  \A n \in 0..N : n \in T
<1> DEFINE U == {n \in Nat : n \in T \/ n > N}
<1>1. \A n \in U : n + 1 \in U
  <2> SUFFICES ASSUME NEW n \in U, n + 1 <= N PROVE n + 1 \in T
    OBVIOUS
  <2> QED  OBVIOUS
<1>2. U = Nat
  <2> HIDE DEF U
  <2>1. 0 \in U /\ U \subseteq Nat
    BY DEF U
  <2> QED  BY <1>1, <2>1, Induction
<1> QED  BY <1>2

\* What is defined from a first value and a step exists.
Defined(S, b, N, F) == \E f \in [0..N -> S] : f[0] = b /\ \A n \in 1..N : f[n] = F[n][f[n - 1]]

\* A first value and a step for every number up to N define a function on 0..N.
LEMMA Recursion ==
  ASSUME NEW S, NEW b \in S, NEW N \in Nat, NEW F \in [1..N -> [S -> S]]
  PROVE  Defined(S, b, N, F)
<1> DEFINE Good(n, f) == f[0] = b /\ \A m \in 1..n : f[m] = F[m][f[m - 1]]
           T == {n \in 0..N : \E f \in [0..n -> S] : Good(n, f)}
<1>1. 0 \in T
  <2>1. [n \in 0..0 |-> b] \in [0..0 -> S] /\ Good(0, [n \in 0..0 |-> b])
    OBVIOUS
  <2> HIDE DEF Good
  <2>2. \E f \in [0..0 -> S] : Good(0, f)
    BY <2>1
  <2> QED  BY <2>2
<1>2. ASSUME NEW n \in 1..N, n - 1 \in T PROVE n \in T
  <2>1. PICK f \in [0..(n - 1) -> S] : Good(n - 1, f)
    BY <1>2
  <2> DEFINE g == [m \in 0..n |-> IF m = n THEN F[n][f[n - 1]] ELSE f[m]]
  <2>2. g \in [0..n -> S]
    <3>1. f[n - 1] \in S
      BY <2>1
    <3>2. F[n][f[n - 1]] \in S
      BY <3>1
    <3> QED  BY <3>2
  <2>3. g[0] = b
    BY <2>1
  <2>4. ASSUME NEW m \in 1..n PROVE g[m] = F[m][g[m - 1]]
    <3>1. CASE m = n
      <4>1. g[m] = F[n][f[n - 1]]
        BY <3>1
      <4>2. g[m - 1] = f[n - 1]
        BY <3>1
      <4> QED  BY <4>1, <4>2, <3>1
    <3>2. CASE m # n
      <4>1. m \in 1..(n - 1)
        BY <3>2
      <4>2. g[m] = f[m]
        BY <3>2
      <4>3. g[m - 1] = f[m - 1]
        BY <4>1
      <4> QED  BY <4>1, <4>2, <4>3, <2>1
    <3> QED  BY <3>1, <3>2
  <2>5. Good(n, g)
    BY <2>3, <2>4
  <2>6. \E h \in [0..n -> S] : Good(n, h)
    <3> HIDE DEF g, Good
    <3> QED  BY <2>2, <2>5
  <2> HIDE DEF Good
  <2> QED  BY <2>6
<1>3. \A n \in 0..N : n \in T
  <2> HIDE DEF T
  <2> QED  BY <1>1, <1>2, UpTo
<1>4. N \in T
  BY <1>3
<1> QED  BY <1>4 DEF Defined

-----------------------------------------------------------------------------
(* The requests of a sequence that are in a set. *)

\* What is appended stands behind all the rest.
LEMMA AppendLemma ==
  ASSUME NEW R, NEW q \in Seq(R), NEW x \in R
  PROVE  /\ ToSet(Append(q, x)) = ToSet(q) \cup {x}
         /\ \A a, b : Before(Append(q, x), a, b) <=> Before(q, a, b) \/ (a \in ToSet(q) /\ b = x)
<1>1. /\ Len(Append(q, x)) = Len(q) + 1 /\ DOMAIN q = 1..Len(q) /\ Len(q) \in Nat
      /\ DOMAIN Append(q, x) = 1..(Len(q) + 1)
      /\ \A i \in 1..Len(q) : Append(q, x)[i] = q[i]
      /\ Append(q, x)[Len(q) + 1] = x
  OBVIOUS
<1> DEFINE t == Append(q, x)
<1> HIDE DEF t
<1>2. /\ DOMAIN t = 1..(Len(q) + 1) /\ DOMAIN q = 1..Len(q) /\ Len(q) \in Nat
      /\ \A i \in 1..Len(q) : t[i] = q[i]
      /\ t[Len(q) + 1] = x
  BY <1>1 DEF t
<1>3. ToSet(t) = ToSet(q) \cup {x}
  BY <1>2 DEF ToSet
<1>4. \A a, b : Before(t, a, b) <=> Before(q, a, b) \/ (a \in ToSet(q) /\ b = x)
  BY <1>2 DEF ToSet, Before
<1> QED  BY <1>3, <1>4 DEF t

\* Those(s, S) keeps the elements of s that are in S, all of them, in their order.
LEMMA ThoseLemma ==
  ASSUME NEW R, NEW s \in Seq(R), NEW S
  PROVE  /\ Those(s, S) \in Seq(R) /\ Len(Those(s, S)) <= Len(s)
         /\ ToSet(Those(s, S)) = ToSet(s) \cap S
         /\ \A a, b : Before(Those(s, S), a, b) <=> a \in S /\ b \in S /\ Before(s, a, b)
<1> DEFINE N == Len(s)
           Step(n, t) == IF s[n] \in S THEN Append(t, s[n]) ELSE t
           Def(f) == f = [n \in 0..Len(s) |-> IF n = 0 THEN <<>>
                            ELSE IF s[n] \in S THEN Append(f[n - 1], s[n]) ELSE f[n - 1]]
           g == CHOOSE f : Def(f)
<1>1. Those(s, S) = g[N]
  BY DEF Those
<1>2. N \in Nat /\ \A n \in 1..N : s[n] \in R
  OBVIOUS
<1>3. Def(g)
  <2> DEFINE Q == Seq(R)
             b == <<>>
             F == [n \in 1..N |-> [t \in Q |-> Step(n, t)]]
  <2>1. b \in Q
    OBVIOUS
  <2>2. \A n \in 1..N, t \in Q : Step(n, t) \in Q
    BY <1>2
  <2>3. F \in [1..N -> [Q -> Q]]
    <3> HIDE DEF N, Q, Step
    <3> QED  BY <2>2
  <2>4. Defined(Q, b, N, F)
    <3>1. N \in Nat
      BY <1>2
    <3> HIDE DEF N, Q, b, F
    <3> QED  BY <3>1, <2>1, <2>3, Recursion
  <2>5. PICK f \in [0..N -> Q] : f[0] = b /\ \A n \in 1..N : f[n] = F[n][f[n - 1]]
    BY <2>4 DEF Defined
  <2>6. \A n \in 1..N : f[n - 1] \in Q
    <3>1. N \in Nat
      BY <1>2
    <3> HIDE DEF N, Q, F, b
    <3> QED  BY <2>5, <3>1
  <2>7. \A n \in 1..N : f[n] = Step(n, f[n - 1])
    <3> HIDE DEF N, Q, Step, b
    <3> QED  BY <2>5, <2>6
  <2>8. Def(f)
    <3>1. f[0] = <<>> /\ f = [n \in 0..N |-> f[n]] /\ N \in Nat
      BY <1>2, <2>5
    <3>2. \A n \in 0..N : f[n] = IF n = 0 THEN <<>> ELSE IF s[n] \in S THEN Append(f[n - 1], s[n]) ELSE f[n - 1]
      <4>1. ASSUME NEW n \in 0..N, n # 0 PROVE f[n] = Step(n, f[n - 1])
        <5>1. n \in 1..N
          BY <3>1, <4>1
        <5> QED  BY <2>7, <5>1
      <4> HIDE DEF Q, F, N
      <4> QED  BY <3>1, <4>1
    <3> QED  BY <3>1, <3>2
  <2>9. \E h : Def(h)
    <3> HIDE DEF Def
    <3> QED  BY <2>8
  <2> HIDE DEF Def
  <2> QED  BY <2>9
<1> HIDE DEF g
<1>4. g[0] = <<>> /\ \A n \in 1..N : g[n] = Step(n, g[n - 1])
  <2>1. \A n \in 0..N : g[n] = IF n = 0 THEN <<>> ELSE Step(n, g[n - 1])
    BY <1>3
  <2>2. 0 \in 0..N /\ \A n \in 1..N : n \in 0..N /\ n # 0
    BY <1>2
  <2> HIDE DEF Step
  <2> QED  BY <2>1, <2>2
<1> DEFINE Seen(n, a) == \E i \in 1..n : s[i] = a
           Pair(n, a, b) == \E i, j \in 1..n : i < j /\ s[i] = a /\ s[j] = b
           Good(n) == /\ g[n] \in Seq(R) /\ Len(g[n]) <= n
                      /\ \A a : a \in ToSet(g[n]) <=> a \in S /\ Seen(n, a)
                      /\ \A a, b : Before(g[n], a, b) <=> a \in S /\ b \in S /\ Pair(n, a, b)
           T == {n \in 0..N : Good(n)}
<1>5. Good(0)
  <2>1. ToSet(<<>>) = {} /\ \A a, b : ~Before(<<>>, a, b)
    BY DEF ToSet, Before
  <2> QED  BY <1>4, <2>1
<1>6. ASSUME NEW n \in 1..N, Good(n - 1) PROVE Good(n)
  <2>1. g[n] = Step(n, g[n - 1]) /\ s[n] \in R /\ g[n - 1] \in Seq(R)
    BY <1>2, <1>4, <1>6
  <2>2. \A a : Seen(n, a) <=> Seen(n - 1, a) \/ a = s[n]
    OBVIOUS
  <2>3. \A a, b : Pair(n, a, b) <=> Pair(n - 1, a, b) \/ (Seen(n - 1, a) /\ b = s[n])
    OBVIOUS
  <2>4. CASE s[n] \in S
    <3>1. g[n] = Append(g[n - 1], s[n])
      BY <2>1, <2>4
    <3>2. ToSet(g[n]) = ToSet(g[n - 1]) \cup {s[n]}
      BY <2>1, <3>1, AppendLemma
    <3>3. \A a, b : Before(g[n], a, b) <=> Before(g[n - 1], a, b) \/ (a \in ToSet(g[n - 1]) /\ b = s[n])
      BY <2>1, <3>1, AppendLemma
    <3>4. g[n] \in Seq(R) /\ Len(g[n]) <= n
      <4>1. n \in Nat /\ Len(g[n - 1]) <= n - 1
        BY <1>2, <1>6
      <4> HIDE DEF N, Good
      <4> QED  BY <2>1, <3>1, <4>1
    <3> HIDE DEF Seen, Pair, N, Step
    <3> QED  BY <1>6, <2>2, <2>3, <2>4, <3>2, <3>3, <3>4
  <2>5. CASE s[n] \notin S
    <3>1. g[n] = g[n - 1]
      BY <2>1, <2>5
    <3>2. g[n] \in Seq(R) /\ Len(g[n]) <= n
      <4>1. n \in Nat /\ Len(g[n - 1]) <= n - 1
        BY <1>2, <1>6
      <4> HIDE DEF N, Good
      <4> QED  BY <2>1, <3>1, <4>1
    <3> HIDE DEF Seen, Pair, N, Step
    <3> QED  BY <1>6, <2>2, <2>3, <2>5, <3>1, <3>2
  <2> QED  BY <2>4, <2>5
<1>7. Good(N)
  <2> HIDE DEF Good, N
  <2>1. \A n \in 0..N : n \in T
    <3>1. 0 \in T /\ \A n \in 1..N : n - 1 \in T => n \in T
      BY <1>2, <1>5, <1>6
    <3> HIDE DEF T
    <3> QED  BY <1>2, <3>1, UpTo
  <2> QED  BY <1>2, <2>1
<1>8. \A a : a \in ToSet(s) <=> Seen(N, a)
  BY DEF ToSet
<1>9. \A a, b : Before(s, a, b) <=> Pair(N, a, b)
  BY DEF Before
<1>10. Len(g[N]) <= Len(s)
  BY <1>7
<1> QED
  <2> HIDE DEF Seen, Pair, N
  <2> QED  BY <1>1, <1>7, <1>8, <1>9, <1>10

-----------------------------------------------------------------------------
(* The rows of a batch. *)

\* Every request has rows.
Sized == \A r \in Requests : item[r].size \in Nat \ {0}

\* Sizes(s)[n] adds up the rows of the first n requests of s.
LEMMA SizesLemma ==
  ASSUME Sized, NEW s \in Seq(Requests)
  PROVE  /\ Sizes(s)[0] = 0
         /\ \A n \in 1..Len(s) : Sizes(s)[n] = Sizes(s)[n - 1] + item[s[n]].size
         /\ \A n \in 0..Len(s) : Sizes(s)[n] \in Nat
<1> DEFINE N == Len(s)
           Def(f) == f = [n \in 0..Len(s) |-> IF n = 0 THEN 0 ELSE f[n - 1] + item[s[n]].size]
           g == CHOOSE f : Def(f)
<1>1. Sizes(s) = g
  BY DEF Sizes
<1>2. N \in Nat
  OBVIOUS
<1>3. \A n \in 1..N : s[n] \in Requests /\ item[s[n]].size \in Nat
  BY DEF Sized
<1>4. Def(g)
  <2> DEFINE Q == Nat
             b == 0
             F == [n \in 1..N |-> [t \in Q |-> t + item[s[n]].size]]
  <2>1. b \in Q
    OBVIOUS
  <2>2. F \in [1..N -> [Q -> Q]]
    BY <1>3
  <2>3. Defined(Q, b, N, F)
    <3> HIDE DEF N, Q, b, F
    <3> QED  BY <1>2, <2>1, <2>2, Recursion
  <2>4. PICK f \in [0..N -> Q] : f[0] = b /\ \A n \in 1..N : f[n] = F[n][f[n - 1]]
    BY <2>3 DEF Defined
  <2>5. ASSUME NEW n \in 1..N PROVE f[n] = f[n - 1] + item[s[n]].size
    <3>1. f[n - 1] \in Q
      BY <1>2
    <3> QED  BY <2>4, <3>1
  <2>6. \A n \in 0..N : f[n] = IF n = 0 THEN 0 ELSE f[n - 1] + item[s[n]].size
    <3>1. ASSUME NEW n \in 0..N, n # 0 PROVE f[n] = f[n - 1] + item[s[n]].size
      <4>1. n \in 1..N
        BY <1>2, <3>1
      <4> QED  BY <2>5, <4>1
    <3> QED  BY <2>4, <3>1
  <2>7. Def(f)
    BY <2>6
  <2>8. \E h : Def(h)
    <3> HIDE DEF Def
    <3> QED  BY <2>7
  <2> HIDE DEF Def
  <2> QED  BY <2>8
<1> HIDE DEF g
<1>5. g[0] = 0 /\ \A n \in 1..N : g[n] = g[n - 1] + item[s[n]].size
  <2>1. \A n \in 0..N : g[n] = IF n = 0 THEN 0 ELSE g[n - 1] + item[s[n]].size
    BY <1>4
  <2>2. 0 \in 0..N /\ \A n \in 1..N : n \in 0..N /\ n # 0
    BY <1>2
  <2> QED  BY <2>1, <2>2
<1>6. \A n \in 0..N : g[n] \in Nat
  <2> DEFINE T == {n \in 0..N : g[n] \in Nat}
  <2>1. 0 \in T
    BY <1>2, <1>5
  <2>2. \A n \in 1..N : n - 1 \in T => n \in T
    BY <1>2, <1>3, <1>5
  <2>3. \A n \in 0..N : n \in T
    <3> HIDE DEF T, N
    <3> QED  BY <1>2, <2>1, <2>2, UpTo
  <2> QED  BY <2>3
<1> QED  BY <1>1, <1>5, <1>6

\* A concatenation, element by element.
LEMMA ConcatLemma ==
  ASSUME NEW R, NEW p \in Seq(R), NEW q \in Seq(R)
  PROVE  /\ p \o q \in Seq(R) /\ Len(p \o q) = Len(p) + Len(q)
         /\ \A i \in 1..Len(p) : (p \o q)[i] = p[i]
         /\ \A i \in 1..Len(q) : (p \o q)[Len(p) + i] = q[i]
OBVIOUS

\* Every request finds its rows behind those of the requests before it.
LEMMA JoinedLemma ==
  ASSUME Sized, NEW s \in Seq(Requests)
  PROVE  /\ Joined(s) \in Seq(Requests \X Nat)
         /\ Len(Joined(s)) = Sizes(s)[Len(s)]
         /\ \A k \in 1..Len(s) : /\ Sizes(s)[k] <= Sizes(s)[Len(s)]
                                 /\ \A i \in 1..item[s[k]].size : Joined(s)[Sizes(s)[k - 1] + i] = <<s[k], i>>
<1> DEFINE N == Len(s)
           Q == Seq(Requests \X Nat)
           Def(f) == f = [n \in 0..Len(s) |-> IF n = 0 THEN <<>> ELSE f[n - 1] \o Rows(s[n])]
           g == CHOOSE f : Def(f)
           Z == Sizes(s)
           size(n) == item[s[n]].size
<1>1. Joined(s) = g[N]
  BY DEF Joined
<1>2. N \in Nat
  OBVIOUS
<1>3. ASSUME NEW n \in 1..N
      PROVE  /\ size(n) \in Nat /\ Rows(s[n]) \in Q /\ Len(Rows(s[n])) = size(n)
             /\ \A i \in 1..size(n) : Rows(s[n])[i] = <<s[n], i>>
  <2>1. s[n] \in Requests /\ size(n) \in Nat
    BY DEF Sized
  <2> QED  BY <2>1 DEF Rows
<1>4. Def(g)
  <2> DEFINE b == <<>>
             F == [n \in 1..N |-> [t \in Q |-> t \o Rows(s[n])]]
  <2>1. b \in Q
    OBVIOUS
  <2>2. \A n \in 1..N, t \in Q : t \o Rows(s[n]) \in Q
    BY <1>3, ConcatLemma
  <2>3. F \in [1..N -> [Q -> Q]]
    <3> HIDE DEF N, Q
    <3> QED  BY <2>2
  <2>4. Defined(Q, b, N, F)
    <3> HIDE DEF N, Q, b, F
    <3> QED  BY <1>2, <2>1, <2>3, Recursion
  <2>5. PICK f \in [0..N -> Q] : f[0] = b /\ \A n \in 1..N : f[n] = F[n][f[n - 1]]
    BY <2>4 DEF Defined
  <2>6. ASSUME NEW n \in 1..N PROVE f[n] = f[n - 1] \o Rows(s[n])
    <3>1. f[n - 1] \in Q
      <4> HIDE DEF Q
      <4> QED  BY <1>2
    <3> HIDE DEF Q
    <3> QED  BY <2>5, <3>1
  <2>7. \A n \in 0..N : f[n] = IF n = 0 THEN <<>> ELSE f[n - 1] \o Rows(s[n])
    <3>1. ASSUME NEW n \in 0..N, n # 0 PROVE f[n] = f[n - 1] \o Rows(s[n])
      <4>1. n \in 1..N
        BY <1>2, <3>1
      <4> QED  BY <2>6, <4>1
    <3> QED  BY <2>5, <3>1
  <2>8. Def(f)
    <3> HIDE DEF Q
    <3> QED  BY <2>7
  <2>9. \E h : Def(h)
    <3> HIDE DEF Def
    <3> QED  BY <2>8
  <2> HIDE DEF Def
  <2> QED  BY <2>9
<1> HIDE DEF g
<1>5. g[0] = <<>> /\ \A n \in 1..N : g[n] = g[n - 1] \o Rows(s[n])
  <2>1. \A n \in 0..N : g[n] = IF n = 0 THEN <<>> ELSE g[n - 1] \o Rows(s[n])
    BY <1>4
  <2>2. 0 \in 0..N /\ \A n \in 1..N : n \in 0..N /\ n # 0
    BY <1>2
  <2> QED  BY <2>1, <2>2
<1>6. /\ Z[0] = 0 /\ \A n \in 1..N : Z[n] = Z[n - 1] + size(n)
      /\ \A n \in 0..N : Z[n] \in Nat
  BY SizesLemma
<1> DEFINE Good(n) == /\ g[n] \in Q /\ Len(g[n]) = Z[n]
                      /\ \A k \in 1..n : /\ Z[k] <= Z[n]
                                         /\ \A i \in 1..size(k) : g[n][Z[k - 1] + i] = <<s[k], i>>
           T == {n \in 0..N : Good(n)}
<1>7. Good(0)
  BY <1>5, <1>6
<1>8. ASSUME NEW n \in 1..N, Good(n - 1) PROVE Good(n)
  <2>1. /\ g[n - 1] \in Q /\ Len(g[n - 1]) = Z[n - 1]
        /\ \A k \in 1..(n - 1) : /\ Z[k] <= Z[n - 1]
                                 /\ \A i \in 1..size(k) : g[n - 1][Z[k - 1] + i] = <<s[k], i>>
    BY <1>8
  <2>2. n \in Nat /\ n - 1 \in 0..N /\ n \in 0..N /\ \A k \in 1..(n - 1) : k \in 1..N /\ k \in 0..N /\ k - 1 \in 0..N
    <3> HIDE DEF N
    <3> QED  BY <1>2
  <2> HIDE DEF N, Z, size, Good, Q
  <2>3. Z[n - 1] \in Nat /\ Z[n] \in Nat /\ Z[n] = Z[n - 1] + size(n)
    BY <1>6, <2>2
  <2>4. /\ size(n) \in Nat /\ Rows(s[n]) \in Q /\ Len(Rows(s[n])) = size(n)
        /\ \A i \in 1..size(n) : Rows(s[n])[i] = <<s[n], i>>
    BY <1>3
  <2>5. g[n] = g[n - 1] \o Rows(s[n])
    BY <1>5
  <2>6. /\ g[n] \in Q /\ Len(g[n]) = Z[n]
        /\ \A i \in 1..Z[n - 1] : g[n][i] = g[n - 1][i]
        /\ \A i \in 1..size(n) : g[n][Z[n - 1] + i] = <<s[n], i>>
    <3>1. /\ g[n] \in Q /\ Len(g[n]) = Len(g[n - 1]) + Len(Rows(s[n]))
          /\ \A i \in 1..Len(g[n - 1]) : g[n][i] = g[n - 1][i]
          /\ \A i \in 1..Len(Rows(s[n])) : g[n][Len(g[n - 1]) + i] = Rows(s[n])[i]
      <4> DEFINE p == g[n - 1]
                 q == Rows(s[n])
      <4>1. p \in Seq(Requests \X Nat) /\ q \in Seq(Requests \X Nat)
        BY <2>1, <2>4 DEF Q
      <4> HIDE DEF p, q
      <4>2. /\ p \o q \in Seq(Requests \X Nat) /\ Len(p \o q) = Len(p) + Len(q)
            /\ \A i \in 1..Len(p) : (p \o q)[i] = p[i]
            /\ \A i \in 1..Len(q) : (p \o q)[Len(p) + i] = q[i]
        BY <4>1, ConcatLemma
      <4> QED  BY <2>5, <4>2 DEF p, q, Q
    <3> QED  BY <2>1, <2>3, <2>4, <3>1
  <2>7. ASSUME NEW k \in 1..(n - 1)
        PROVE  Z[k] <= Z[n] /\ \A i \in 1..size(k) : g[n][Z[k - 1] + i] = <<s[k], i>>
    <3>1. /\ k \in 1..N /\ Z[k] = Z[k - 1] + size(k) /\ Z[k - 1] \in Nat /\ Z[k] \in Nat
          /\ size(k) \in Nat /\ Z[k] <= Z[n - 1]
      BY <1>3, <1>6, <2>1, <2>2
    <3>2. \A i \in 1..size(k) : Z[k - 1] + i \in 1..Z[n - 1]
      BY <2>3, <3>1
    <3>3. \A i \in 1..size(k) : g[n - 1][Z[k - 1] + i] = <<s[k], i>>
      BY <2>1
    <3>4. \A i \in 1..size(k) : g[n][Z[k - 1] + i] = <<s[k], i>>
      BY <2>6, <3>2, <3>3
    <3>5. Z[n] = Z[n - 1] + size(n) /\ size(n) \in Nat /\ Z[n - 1] \in Nat
      BY <2>3, <2>4
    <3>6. Z[k] <= Z[n]
      BY <3>1, <3>5
    <3> QED  BY <3>4, <3>6
  <2>8. \A k \in 1..n : k = n \/ k \in 1..(n - 1)
    BY <2>2
  <2>9. ASSUME NEW k \in 1..n
        PROVE  Z[k] <= Z[n] /\ \A i \in 1..size(k) : g[n][Z[k - 1] + i] = <<s[k], i>>
    <3>1. CASE k = n
      BY <2>3, <2>6, <3>1
    <3> QED  BY <2>7, <2>8, <3>1
  <2> QED  BY <2>6, <2>9 DEF Good
<1>9. Good(N)
  <2> HIDE DEF Good, N
  <2>1. \A n \in 0..N : n \in T
    <3>1. 0 \in T /\ \A n \in 1..N : n - 1 \in T => n \in T
      BY <1>2, <1>7, <1>8
    <3> HIDE DEF T
    <3> QED  BY <1>2, <3>1, UpTo
  <2> QED  BY <1>2, <2>1
<1> QED  BY <1>1, <1>9

\* What _split_outputs gives to a request of the batch are its own rows.
LEMMA SplitLemma ==
  ASSUME Sized, batch \in Seq(Requests), NEW k \in DOMAIN batch
  PROVE  Split(Joined(batch), k) = Rows(batch[k])
<1> DEFINE out == Joined(batch)
           a == Sizes(batch)[k - 1]
           z == item[batch[k]].size
<1>1. /\ k \in 1..Len(batch) /\ k - 1 \in 0..Len(batch) /\ batch[k] \in Requests /\ z \in Nat
      /\ k \in 0..Len(batch) /\ Len(batch) \in 0..Len(batch)
  BY DEF Sized
<1>2. a \in Nat /\ Sizes(batch)[k] = a + z
  BY <1>1, SizesLemma
<1>3. /\ out \in Seq(Requests \X Nat) /\ a + z <= Len(out)
      /\ \A i \in 1..z : out[a + i] = <<batch[k], i>>
  BY <1>1, <1>2, JoinedLemma
<1>4. Split(out, k) = SubSeq(out, a + 1, a + z)
  BY <1>2 DEF Split
<1> HIDE DEF out, a, z
<1>5. SubSeq(out, a + 1, a + z) = [i \in 1..z |-> <<batch[k], i>>]
  <2>1. SubSeq(out, a + 1, a + z) = [i \in 1..((a + z) - (a + 1) + 1) |-> out[(a + 1) + i - 1]]
    BY <1>1, <1>2, <1>3
  <2>2. (a + z) - (a + 1) + 1 = z /\ \A i \in 1..z : (a + 1) + i - 1 = a + i
    BY <1>1, <1>2
  <2> QED  BY <1>3, <2>1, <2>2
<1> QED  BY <1>4, <1>5 DEF Rows, z, out

-----------------------------------------------------------------------------
(* The turns of the scopes. *)

\* A set of numbers up to c has a largest one.
LEMMA MaxLemma ==
  ASSUME NEW c \in Nat, NEW S \in SUBSET (0..c), S # {}
  PROVE  Max(S) \in S /\ \A i \in S : i <= Max(S)
<1> DEFINE T == {n \in 0..c : \A U \in SUBSET (0..n) : U # {} => \E m \in U : \A i \in U : i <= m}
<1>1. 0 \in T
  <2> SUFFICES ASSUME NEW U \in SUBSET (0..0), U # {} PROVE \E m \in U : \A i \in U : i <= m
    OBVIOUS
  <2>1. PICK m \in U : TRUE
    OBVIOUS
  <2>2. \A i \in U : i = 0
    OBVIOUS
  <2>3. m <= m
    BY <2>2
  <2> QED  BY <2>1, <2>2, <2>3
<1>2. ASSUME NEW n \in 1..c, n - 1 \in T PROVE n \in T
  <2> SUFFICES ASSUME NEW U \in SUBSET (0..n), U # {} PROVE \E m \in U : \A i \in U : i <= m
    OBVIOUS
  <2>1. CASE n \in U
    BY <2>1
  <2>2. CASE n \notin U
    <3>1. U \in SUBSET (0..(n - 1))
      BY <2>2
    <3> QED  BY <1>2, <3>1
  <2> QED  BY <2>1, <2>2
<1>3. \A n \in 0..c : n \in T
  <2> HIDE DEF T
  <2> QED  BY <1>1, <1>2, UpTo
<1>4. \E m \in S : \A i \in S : i <= m
  <2>1. c \in T
    BY <1>3
  <2> QED  BY <2>1
<1> QED  BY <1>4 DEF Max

\* The smaller of two numbers.
LEMMA MinLemma ==
  ASSUME NEW a \in Nat, NEW b \in Nat
  PROVE  Min({a, b}) \in Nat /\ Min({a, b}) <= a /\ (a > 0 /\ b > 0 => Min({a, b}) > 0)
<1>1. \E m \in {a, b} : \A i \in {a, b} : m <= i
  OBVIOUS
<1>2. Min({a, b}) \in {a, b} /\ \A i \in {a, b} : Min({a, b}) <= i
  BY <1>1 DEF Min
<1> QED  BY <1>2

\* Every request has rows and a weight.
InputOK == \A r \in Requests : item[r].size \in Nat \ {0} /\ item[r].weight \in Nat \ {0}

\* The requests of C that scope may give after sel.
Waiting(C, sel, scope) == Those(C, {r \in Requests : item[r].scope = scope} \ ToSet(sel))

\* A turn gives the first requests of its scope, or nothing when not even one fits.
LEMMA ShareLemma ==
  ASSUME InputOK, NEW C \in Seq(Requests), NEW sel \in Seq(Requests), NEW scope
  PROVE  /\ Waiting(C, sel, scope) \in Seq(Requests)
         /\ Share(C, sel, scope) \in Seq(Requests)
         /\ ToSet(Share(C, sel, scope)) \subseteq ToSet(Waiting(C, sel, scope))
         /\ \E m \in 0..Len(Waiting(C, sel, scope)) :
              /\ Share(C, sel, scope) = SubSeq(Waiting(C, sel, scope), 1, m)
              /\ \A i \in 1..m : Fits(sel, Waiting(C, sel, scope), i)
         /\ Waiting(C, sel, scope) # <<>> /\ Fits(sel, Waiting(C, sel, scope), 1)
              => Waiting(C, sel, scope)[1] \in ToSet(Share(C, sel, scope))
         /\ ~(Waiting(C, sel, scope) # <<>> /\ Fits(sel, Waiting(C, sel, scope), 1)) => Share(C, sel, scope) = <<>>
<1> DEFINE q == Waiting(C, sel, scope)
           cap == IF q = <<>> THEN 0 ELSE Min({Len(q), item[q[1]].weight})
           J == {j \in 0..cap : \A i \in 1..j : Fits(sel, q, i)}
           m == Max(J)
<1>1. Share(C, sel, scope) = SubSeq(q, 1, m)
  BY DEF Share, Waiting
<1>2. q \in Seq(Requests)
  BY ThoseLemma DEF Waiting
<1> HIDE DEF q
<1>3. cap \in Nat /\ cap <= Len(q) /\ (q # <<>> => cap > 0)
  <2>1. CASE q = <<>>
    BY <2>1
  <2>2. CASE q # <<>>
    <3>1. Len(q) \in Nat /\ Len(q) > 0 /\ q[1] \in Requests
      BY <1>2, <2>2
    <3>2. item[q[1]].weight \in Nat /\ item[q[1]].weight > 0
      BY <3>1 DEF InputOK
    <3> QED  BY <2>2, <3>1, <3>2, MinLemma
  <2> QED  BY <2>1, <2>2
<1> HIDE DEF cap
<1>4. J \in SUBSET (0..cap) /\ 0 \in J
  BY <1>3
<1>5. m \in J /\ \A j \in J : j <= m
  <2> HIDE DEF J
  <2> QED  BY <1>3, <1>4, MaxLemma
<1>6. m \in 0..cap
  BY <1>5
<1>7. q # <<>> /\ Fits(sel, q, 1) => m >= 1
  <2> SUFFICES ASSUME q # <<>>, Fits(sel, q, 1) PROVE 1 \in J
    BY <1>5, <1>6
  <2> QED  BY <1>3
<1>8. ~(q # <<>> /\ Fits(sel, q, 1)) => m = 0
  <2>1. CASE q = <<>>
    BY <1>6, <2>1 DEF cap
  <2>2. CASE ~Fits(sel, q, 1)
    <3>1. \A i \in 1..m : Fits(sel, q, i)
      BY <1>5
    <3> HIDE DEF m
    <3> QED  BY <1>3, <1>6, <2>2, <3>1
  <2> QED  BY <2>1, <2>2
<1>8a. m \in 0..Len(q) /\ \A i \in 1..m : Fits(sel, q, i)
  <2>1. \A i \in 1..m : Fits(sel, q, i)
    BY <1>5
  <2>2. Len(q) \in Nat
    BY <1>2
  <2> HIDE DEF m
  <2> QED  BY <1>3, <1>6, <2>1, <2>2
<1> HIDE DEF m
<1>9. /\ SubSeq(q, 1, m) \in Seq(Requests) /\ DOMAIN SubSeq(q, 1, m) = 1..m
      /\ \A i \in 1..m : SubSeq(q, 1, m)[i] = q[i] /\ i \in DOMAIN q
  <2>1. m \in Nat /\ m <= Len(q)
    BY <1>2, <1>3, <1>6
  <2> QED  BY <1>2, <2>1
<1>10. ToSet(SubSeq(q, 1, m)) \subseteq ToSet(q)
  BY <1>9 DEF ToSet
<1>11. m >= 1 => q[1] \in ToSet(SubSeq(q, 1, m))
  <2> SUFFICES ASSUME m >= 1 PROVE q[1] \in ToSet(SubSeq(q, 1, m))
    OBVIOUS
  <2>1. 1 \in 1..m
    BY <1>3, <1>6
  <2>2. 1 \in DOMAIN SubSeq(q, 1, m) /\ SubSeq(q, 1, m)[1] = q[1]
    BY <1>9, <2>1
  <2> QED  BY <2>2 DEF ToSet
<1>12. m = 0 => SubSeq(q, 1, m) = <<>>
  BY <1>2
<1> QED  BY <1>1, <1>2, <1>7, <1>8, <1>9, <1>10, <1>11, <1>12, <1>8a DEF q

\* Nobody stands twice in C.
InOrder(C) == \A a : ~Before(C, a, a)

\* Before is a total order on a sequence in which nobody stands twice.
LEMMA OrderLemma ==
  ASSUME NEW C \in Seq(Requests), InOrder(C)
  PROVE  /\ \A i, j \in DOMAIN C : C[i] = C[j] => i = j
         /\ \A a, b, c : Before(C, a, b) /\ Before(C, b, c) => Before(C, a, c)
         /\ \A a, b \in ToSet(C) : a = b \/ Before(C, a, b) \/ Before(C, b, a)
         /\ \A a, b : Before(C, a, b) => a \in ToSet(C) /\ b \in ToSet(C)
         /\ C # <<>> => C[1] \in ToSet(C) /\ \A b \in ToSet(C) : b = C[1] \/ Before(C, C[1], b)
<1>1. DOMAIN C = 1..Len(C) /\ Len(C) \in Nat /\ (C # <<>> => 1 \in DOMAIN C)
  OBVIOUS
<1>2. \A i, j \in DOMAIN C : C[i] = C[j] => i = j
  <2> SUFFICES ASSUME NEW i \in DOMAIN C, NEW j \in DOMAIN C, C[i] = C[j], i # j PROVE FALSE
    OBVIOUS
  <2>1. i < j \/ j < i
    BY <1>1
  <2> QED  BY <2>1 DEF InOrder, Before
<1>3. ASSUME NEW a, NEW b, NEW c, Before(C, a, b), Before(C, b, c) PROVE Before(C, a, c)
  <2>1. PICK i, j \in DOMAIN C : i < j /\ C[i] = a /\ C[j] = b
    BY <1>3 DEF Before
  <2>2. PICK k, l \in DOMAIN C : k < l /\ C[k] = b /\ C[l] = c
    BY <1>3 DEF Before
  <2>3. j = k
    BY <1>2, <2>1, <2>2
  <2>4. i < l
    BY <1>1, <2>1, <2>2, <2>3
  <2> QED  BY <2>1, <2>2, <2>4 DEF Before
<1>4. \A a, b \in ToSet(C) : a = b \/ Before(C, a, b) \/ Before(C, b, a)
  <2> SUFFICES ASSUME NEW i \in DOMAIN C, NEW j \in DOMAIN C
               PROVE  C[i] = C[j] \/ Before(C, C[i], C[j]) \/ Before(C, C[j], C[i])
    BY DEF ToSet
  <2>1. i = j \/ i < j \/ j < i
    BY <1>1
  <2> QED  BY <2>1 DEF Before
<1>5. C # <<>> => C[1] \in ToSet(C) /\ \A b \in ToSet(C) : b = C[1] \/ Before(C, C[1], b)
  <2> SUFFICES ASSUME C # <<>>, NEW j \in DOMAIN C PROVE C[j] = C[1] \/ Before(C, C[1], C[j])
    BY <1>1 DEF ToSet
  <2>1. j = 1 \/ 1 < j
    BY <1>1
  <2> QED  BY <1>1, <2>1 DEF Before
<1>6. \A a, b : Before(C, a, b) => a \in ToSet(C) /\ b \in ToSet(C)
  BY DEF Before, ToSet
<1> QED  BY <1>2, <1>3, <1>4, <1>5, <1>6

\* The requests that are the first ones of their scopes, in their order.
Firsts(C) ==
  Those(C, {r \in ToSet(C) : \A b \in ToSet(C) : Before(C, b, r) => item[b].scope # item[r].scope})

\* Firsts(C) holds one request of each scope, which is the first of its scope.
LEMMA FirstsLemma ==
  ASSUME NEW C \in Seq(Requests), InOrder(C)
  PROVE  /\ Firsts(C) \in Seq(Requests) /\ ToSet(Firsts(C)) \subseteq ToSet(C)
         /\ \A i, j \in DOMAIN Firsts(C) :
              i < j => /\ Before(C, Firsts(C)[i], Firsts(C)[j])
                       /\ item[Firsts(C)[i]].scope # item[Firsts(C)[j]].scope
         /\ \A i \in DOMAIN Firsts(C), c \in ToSet(C) :
              item[c].scope = item[Firsts(C)[i]].scope => c = Firsts(C)[i] \/ Before(C, Firsts(C)[i], c)
         /\ C # <<>> => Firsts(C) # <<>> /\ Firsts(C)[1] = C[1]
<1> DEFINE F == Firsts(C)
           S == {r \in ToSet(C) : \A b \in ToSet(C) : Before(C, b, r) => item[b].scope # item[r].scope}
<1>1. /\ F \in Seq(Requests) /\ ToSet(F) = ToSet(C) \cap S
      /\ \A a, b : Before(F, a, b) <=> a \in S /\ b \in S /\ Before(C, a, b)
  <2> HIDE DEF S
  <2> QED  BY ThoseLemma DEF Firsts, S
<1> HIDE DEF F
<1>2. \A i \in DOMAIN F : F[i] \in ToSet(C) /\ F[i] \in S
  BY <1>1 DEF ToSet
<1>3. ASSUME NEW i \in DOMAIN F, NEW j \in DOMAIN F, i < j
      PROVE  Before(C, F[i], F[j]) /\ item[F[i]].scope # item[F[j]].scope
  <2>1. Before(C, F[i], F[j])
    <3>1. Before(F, F[i], F[j])
      BY <1>3 DEF Before
    <3> QED  BY <1>1, <3>1
  <2> QED  BY <1>2, <2>1
<1>4. ASSUME NEW i \in DOMAIN F, NEW c \in ToSet(C), item[c].scope = item[F[i]].scope
      PROVE  c = F[i] \/ Before(C, F[i], c)
  <2>1. ~Before(C, c, F[i])
    BY <1>2, <1>4
  <2> HIDE DEF S
  <2> QED  BY <1>2, <2>1, OrderLemma
<1>5. ASSUME C # <<>> PROVE F # <<>> /\ F[1] = C[1]
  <2>1. C[1] \in ToSet(C) /\ \A b \in ToSet(C) : b = C[1] \/ Before(C, C[1], b)
    BY <1>5, OrderLemma
  <2>2. \A b \in ToSet(C) : ~Before(C, b, C[1])
    <3> SUFFICES ASSUME NEW b \in ToSet(C), Before(C, b, C[1]) PROVE FALSE
      OBVIOUS
    <3>1. b = C[1] \/ Before(C, b, b)
      BY <2>1, OrderLemma
    <3> QED  BY <3>1 DEF InOrder
  <2>3. C[1] \in ToSet(F)
    BY <1>1, <2>1, <2>2
  <2>4. PICK i \in DOMAIN F : F[i] = C[1]
    BY <2>3 DEF ToSet
  <2>5. F # <<>> /\ 1 \in DOMAIN F /\ i \in Nat /\ i >= 1
    BY <1>1, <2>4
  <2>6. i = 1
    <3>1. ~(1 < i)
      <4> SUFFICES ASSUME 1 < i PROVE FALSE
        OBVIOUS
      <4>1. Before(C, F[1], C[1])
        BY <1>3, <2>4, <2>5
      <4> QED  BY <1>2, <2>2, <2>5, <4>1
    <3> QED  BY <2>5, <3>1
  <2> QED  BY <2>4, <2>5, <2>6
<1> HIDE DEF S
<1> QED  BY <1>1, <1>3, <1>4, <1>5 DEF F

\* The scopes in their turns: whoever has the first request is the first, or stands behind
\* exactly the scopes whose first requests come after that of the last scope.
LEMMA RotatedLemma ==
  ASSUME NEW C \in Seq(Requests), InOrder(C), C # <<>>
  PROVE  LET R == Rotated(Scopes(C)) IN
         /\ R \in Seq(AllScopes) /\ R # <<>>
         /\ \E p \in DOMAIN R :
              /\ R[p] = item[C[1]].scope
              /\ \A i \in 1..(p - 1) : R[i] # item[C[1]].scope
              /\ p = 1 \/ \E f \in ToSet(C) :
                   /\ item[f].scope = last
                   /\ \A i \in 1..(p - 1), c \in ToSet(C) : item[c].scope = R[i] => Before(C, f, c)
<1> DEFINE F == Firsts(C)
           s == Scopes(C)
           R == Rotated(s)
           n == Len(s)
<1>1. /\ F \in Seq(Requests) /\ ToSet(F) \subseteq ToSet(C) /\ F # <<>> /\ F[1] = C[1]
      /\ \A i, j \in DOMAIN F : i < j => Before(C, F[i], F[j]) /\ item[F[i]].scope # item[F[j]].scope
      /\ \A i \in DOMAIN F, c \in ToSet(C) :
           item[c].scope = item[F[i]].scope => c = F[i] \/ Before(C, F[i], c)
  BY FirstsLemma
<1>2. s = [i \in DOMAIN F |-> item[F[i]].scope]
  BY DEF Scopes, Firsts
<1> HIDE DEF F, s
<1>3. /\ s \in Seq(AllScopes) /\ n \in Nat /\ n >= 1 /\ DOMAIN F = 1..n /\ DOMAIN s = 1..n
      /\ \A i \in 1..n : s[i] = item[F[i]].scope /\ s[i] \in AllScopes /\ F[i] \in ToSet(C)
  <2>1. DOMAIN F = 1..Len(F) /\ Len(F) \in Nat /\ Len(F) >= 1 /\ \A i \in 1..Len(F) : F[i] \in Requests
    BY <1>1
  <2>2. \A i \in 1..Len(F) : item[F[i]].scope \in AllScopes
    BY <2>1 DEF AllScopes
  <2>3. s \in Seq(AllScopes) /\ Len(s) = Len(F)
    BY <1>2, <2>1, <2>2
  <2> QED  BY <1>1, <1>2, <2>1, <2>2, <2>3 DEF ToSet
<1>4. CASE last \notin ToSet(s)
  <2>1. R = s
    BY <1>4 DEF Rotated
  <2>2. s[1] = item[C[1]].scope /\ 1 \in DOMAIN s /\ s # <<>>
    BY <1>1, <1>3
  <2> QED  BY <1>3, <2>1, <2>2 DEF s
<1>5. CASE last \in ToSet(s)
  <2> DEFINE k == CHOOSE i \in DOMAIN s : s[i] = last
  <2>1. k \in 1..n /\ s[k] = last
    BY <1>3, <1>5 DEF ToSet
  <2>2. R = SubSeq(s, k + 1, n) \o SubSeq(s, 1, k)
    BY <1>5 DEF Rotated
  <2> HIDE DEF k
  <2>3. /\ SubSeq(s, k + 1, n) \in Seq(AllScopes) /\ Len(SubSeq(s, k + 1, n)) = n - k
        /\ SubSeq(s, 1, k) \in Seq(AllScopes) /\ Len(SubSeq(s, 1, k)) = k
        /\ \A i \in 1..(n - k) : SubSeq(s, k + 1, n)[i] = s[k + i]
        /\ SubSeq(s, 1, k)[1] = s[1]
    <3>1. s \in Seq(AllScopes) /\ n \in Nat /\ k \in Nat /\ 1 <= k /\ k <= n /\ Len(s) = n
      BY <1>3, <2>1
    <3> HIDE DEF n
    <3>2. SubSeq(s, k + 1, n) \in Seq(AllScopes) /\ SubSeq(s, 1, k) \in Seq(AllScopes)
      BY <3>1
    <3>3. SubSeq(s, k + 1, n) = [i \in 1..(n - (k + 1) + 1) |-> s[i + (k + 1) - 1]]
      BY <3>1
    <3>4. n - (k + 1) + 1 = n - k /\ n - k \in Nat /\ \A i \in 1..(n - k) : i + (k + 1) - 1 = k + i
      BY <3>1
    <3>5. Len(SubSeq(s, k + 1, n)) = n - k /\ \A i \in 1..(n - k) : SubSeq(s, k + 1, n)[i] = s[k + i]
      BY <3>2, <3>3, <3>4
    <3>6. Len(SubSeq(s, 1, k)) = k /\ SubSeq(s, 1, k)[1] = s[1]
      BY <3>1
    <3> QED  BY <3>2, <3>5, <3>6
  <2> DEFINE a == SubSeq(s, k + 1, n)
             b == SubSeq(s, 1, k)
  <2>4. /\ a \o b \in Seq(AllScopes) /\ Len(a \o b) = Len(a) + Len(b)
        /\ \A i \in 1..Len(a) : (a \o b)[i] = a[i]
        /\ \A i \in 1..Len(b) : (a \o b)[Len(a) + i] = b[i]
    <3>1. a \in Seq(AllScopes) /\ b \in Seq(AllScopes)
      BY <2>3
    <3> HIDE DEF a, b
    <3> QED  BY <3>1, ConcatLemma
  <2> DEFINE p == n - k + 1
  <2>5. /\ R \in Seq(AllScopes) /\ Len(R) = n /\ p \in 1..n /\ R[p] = s[1]
        /\ \A i \in 1..(p - 1) : R[i] = s[k + i] /\ k + i \in 1..n /\ k < k + i
    <3>1. \A i \in 1..(p - 1) : i \in 1..(n - k)
      BY <1>3, <2>1
    <3>2. 1 \in 1..k /\ k \in Nat /\ k <= n
      BY <1>3, <2>1
    <3>3. n \in Nat /\ n >= 1
      BY <1>3
    <3> HIDE DEF R, n, a, b
    <3>4. Len(a) = n - k /\ Len(b) = k /\ b[1] = s[1] /\ \A i \in 1..(n - k) : a[i] = s[k + i]
      BY <2>3 DEF a, b
    <3>5. R \in Seq(AllScopes) /\ Len(R) = n
      BY <2>2, <2>4, <3>2, <3>3, <3>4 DEF a, b
    <3>6. R[p] = s[1]
      BY <2>2, <2>4, <3>2, <3>3, <3>4 DEF a, b
    <3>7. \A i \in 1..(p - 1) : R[i] = s[k + i] /\ k + i \in 1..n /\ k < k + i
      BY <2>2, <2>4, <3>1, <3>2, <3>3, <3>4 DEF a, b
    <3> QED  BY <3>2, <3>3, <3>5, <3>6, <3>7
  <2>6. s[1] = item[C[1]].scope
    BY <1>1, <1>3
  <2>7. \A i \in 1..(p - 1) : R[i] # s[1]
    <3> SUFFICES ASSUME NEW i \in 1..(p - 1) PROVE s[k + i] # s[1]
      BY <2>5
    <3>1. 1 \in 1..n /\ k + i \in 1..n /\ 1 < k + i
      BY <1>3, <2>1, <2>5
    <3> QED  BY <1>1, <1>3, <3>1
  <2>8. /\ F[k] \in ToSet(C) /\ item[F[k]].scope = last
        /\ \A i \in 1..(p - 1), c \in ToSet(C) : item[c].scope = R[i] => Before(C, F[k], c)
    <3>1. F[k] \in ToSet(C) /\ item[F[k]].scope = last
      BY <1>3, <2>1
    <3>2. ASSUME NEW i \in 1..(p - 1), NEW c \in ToSet(C), item[c].scope = R[i]
          PROVE  Before(C, F[k], c)
      <4>1. k + i \in DOMAIN F /\ k \in DOMAIN F /\ k < k + i /\ item[c].scope = item[F[k + i]].scope
        BY <1>3, <2>1, <2>5, <3>2
      <4>2. Before(C, F[k], F[k + i])
        BY <1>1, <4>1
      <4>3. c = F[k + i] \/ Before(C, F[k + i], c)
        BY <1>1, <4>1
      <4> QED  BY <4>2, <4>3, OrderLemma
    <3> QED  BY <3>1, <3>2
  <2>9. R # <<>> /\ p \in DOMAIN R
    <3> HIDE DEF R, p
    <3> QED  BY <1>3, <2>5
  <2> HIDE DEF R, p
  <2> QED  BY <2>5, <2>6, <2>7, <2>8, <2>9 DEF R, s
<1> QED  BY <1>4, <1>5

\* g[n] is what is selected after n turns.
Turns(C, g) ==
  LET R == Rotated(Scopes(C))
      M == Len(R) * Len(C)
  IN  /\ g \in [0..M -> Seq(Requests)]
      /\ g[0] = <<>>
      /\ \A n \in 1..M : g[n] = g[n - 1] \o Share(C, g[n - 1], R[((n - 1) % Len(R)) + 1])
      /\ FairBatch(C) = g[M]

\* The recursive function of _take_fair_batch exists.
LEMMA TurnsLemma ==
  ASSUME InputOK, NEW C \in Seq(Requests), InOrder(C), C # <<>>
  PROVE  /\ Len(Rotated(Scopes(C))) * Len(C) \in Nat
         /\ \E g : Turns(C, g)
<1> DEFINE R == Rotated(Scopes(C))
           M == Len(R) * Len(C)
           Step(n, t) == t \o Share(C, t, R[((n - 1) % Len(R)) + 1])
           Def(f) == f = [n \in 0..(Len(R) * Len(C)) |->
                            IF n = 0 THEN <<>>
                            ELSE LET sel == f[n - 1]
                                 IN  sel \o Share(C, sel, R[((n - 1) % Len(R)) + 1])]
           g == CHOOSE f : Def(f)
           Q == Seq(Requests)
           b == <<>>
           F == [n \in 1..M |-> [t \in Q |-> Step(n, t)]]
<1>1. FairBatch(C) = g[M]
  BY DEF FairBatch
<1>2. M \in Nat
  <2>1. R \in Seq(AllScopes)
    BY RotatedLemma
  <2> HIDE DEF R
  <2>2. Len(R) \in Nat /\ Len(C) \in Nat
    BY <2>1
  <2> QED  BY <2>2
<1>3. b \in Q
  OBVIOUS
<1>4. \A n \in 1..M, t \in Q : Step(n, t) \in Q
  <2> SUFFICES ASSUME NEW t \in Q, NEW scope PROVE t \o Share(C, t, scope) \in Q
    OBVIOUS
  <2> QED  BY ShareLemma, ConcatLemma
<1>5. F \in [1..M -> [Q -> Q]]
  <2> HIDE DEF M, Q, Step
  <2> QED  BY <1>4
<1>6. Defined(Q, b, M, F)
  <2> HIDE DEF M, Q, b, F
  <2> QED  BY <1>2, <1>3, <1>5, Recursion
<1>7. PICK f \in [0..M -> Q] : f[0] = b /\ \A n \in 1..M : f[n] = F[n][f[n - 1]]
  BY <1>6 DEF Defined
<1>8. \A n \in 1..M : f[n - 1] \in Q
  <2> HIDE DEF M, Q
  <2> QED  BY <1>2
<1>9. \A n \in 1..M : f[n] = Step(n, f[n - 1])
  <2> HIDE DEF M, Q, Step, b
  <2> QED  BY <1>7, <1>8
<1>10. Def(f)
  <2>1. ASSUME NEW n \in 0..M, n # 0 PROVE f[n] = Step(n, f[n - 1])
    <3>1. n \in 1..M
      <4> HIDE DEF M
      <4> QED  BY <1>2, <2>1
    <3> QED  BY <1>9, <3>1
  <2>2. f[0] = <<>> /\ f = [n \in 0..M |-> f[n]]
    <3> HIDE DEF M, Q
    <3> QED  BY <1>7
  <2>3. \A n \in 0..M : f[n] = IF n = 0 THEN <<>> ELSE Step(n, f[n - 1])
    <3> HIDE DEF M, Q, Step, F
    <3> QED  BY <2>1, <2>2
  <2> HIDE DEF F, Q
  <2> QED  BY <2>2, <2>3
<1>11. Def(g)
  <2>1. \E h : Def(h)
    <3> HIDE DEF Def
    <3> QED  BY <1>10
  <2> HIDE DEF Def
  <2> QED  BY <2>1
<1> HIDE DEF g
<1>12. \A n \in 0..M : g[n] = IF n = 0 THEN <<>> ELSE Step(n, g[n - 1])
  BY <1>11
<1>13. g[0] = <<>> /\ \A n \in 1..M : g[n] = Step(n, g[n - 1])
  <2>1. 0 \in 0..M /\ \A n \in 1..M : n \in 0..M /\ n # 0
    <3> HIDE DEF M
    <3> QED  BY <1>2
  <2> HIDE DEF M, Step
  <2> QED  BY <1>12, <2>1
<1>14. \A n \in 0..M : g[n] \in Q
  <2> DEFINE T == {n \in 0..M : g[n] \in Q}
  <2>1. 0 \in T
    <3>1. g[0] \in Q
      <4> HIDE DEF M, Q, Step
      <4> QED  BY <1>3, <1>13
    <3>2. 0 \in 0..M
      <4> HIDE DEF M
      <4> QED  BY <1>2
    <3> HIDE DEF M, Q
    <3> QED  BY <3>1, <3>2
  <2>2. \A n \in 1..M : n - 1 \in T => n \in T
    <3> HIDE DEF M, Step, Q
    <3> QED  BY <1>2, <1>4, <1>13
  <2>3. \A n \in 0..M : n \in T
    <3> HIDE DEF T, M
    <3> QED  BY <1>2, <2>1, <2>2, UpTo
  <2> QED  BY <2>3
<1>15. g \in [0..M -> Q]
  <2>1. g = [n \in 0..M |-> g[n]]
    BY <1>11, <1>12
  <2> HIDE DEF M, Q
  <2> QED  BY <1>14, <2>1
<1>16. Turns(C, g)
  <2> HIDE DEF F, Def
  <2> QED  BY <1>1, <1>13, <1>15 DEF Turns
<1> QED  BY <1>2, <1>16

\* Who waits for the next turn of its scope.
LEMMA WaitingLemma ==
  ASSUME NEW C \in Seq(Requests), NEW sel, NEW scope
  PROVE  /\ Waiting(C, sel, scope) \in Seq(Requests)
         /\ \A r : r \in ToSet(Waiting(C, sel, scope)) <=>
                     r \in ToSet(C) /\ item[r].scope = scope /\ r \notin ToSet(sel)
         /\ \A a, b : Before(Waiting(C, sel, scope), a, b) => Before(C, a, b)
<1> DEFINE S == {r \in Requests : item[r].scope = scope} \ ToSet(sel)
<1>1. /\ Those(C, S) \in Seq(Requests) /\ ToSet(Those(C, S)) = ToSet(C) \cap S
      /\ \A a, b : Before(Those(C, S), a, b) <=> a \in S /\ b \in S /\ Before(C, a, b)
  <2> HIDE DEF S
  <2> QED  BY ThoseLemma
<1>2. ToSet(C) \subseteq Requests
  BY DEF ToSet
<1> QED  BY <1>1, <1>2 DEF Waiting

\* The elements of a concatenation.
LEMMA ConcatSet ==
  ASSUME NEW p \in Seq(Requests), NEW q \in Seq(Requests)
  PROVE  ToSet(p \o q) = ToSet(p) \cup ToSet(q)
<1>1. /\ DOMAIN p = 1..Len(p) /\ DOMAIN q = 1..Len(q) /\ DOMAIN (p \o q) = 1..(Len(p) + Len(q))
      /\ Len(p) \in Nat /\ Len(q) \in Nat
  BY ConcatLemma
<1>2. /\ \A i \in 1..Len(p) : (p \o q)[i] = p[i]
      /\ \A i \in 1..Len(q) : (p \o q)[Len(p) + i] = q[i]
  BY ConcatLemma
<1>3. ToSet(p) \subseteq ToSet(p \o q)
  BY <1>1, <1>2 DEF ToSet
<1>4. ToSet(q) \subseteq ToSet(p \o q)
  <2> SUFFICES ASSUME NEW i \in 1..Len(q) PROVE q[i] \in ToSet(p \o q)
    BY <1>1 DEF ToSet
  <2>1. Len(p) + i \in DOMAIN (p \o q)
    BY <1>1
  <2> QED  BY <1>2, <2>1 DEF ToSet
<1>5. ToSet(p \o q) \subseteq ToSet(p) \cup ToSet(q)
  <2> SUFFICES ASSUME NEW i \in 1..(Len(p) + Len(q)) PROVE (p \o q)[i] \in ToSet(p) \cup ToSet(q)
    BY <1>1 DEF ToSet
  <2>1. CASE i <= Len(p)
    <3>1. i \in 1..Len(p)
      BY <1>1, <2>1
    <3> QED  BY <1>1, <1>2, <3>1 DEF ToSet
  <2>2. CASE i > Len(p)
    <3>1. i - Len(p) \in 1..Len(q) /\ Len(p) + (i - Len(p)) = i
      BY <1>1, <2>2
    <3> QED  BY <1>1, <1>2, <3>1 DEF ToSet
  <2> QED  BY <1>1, <2>1, <2>2
<1> QED  BY <1>3, <1>4, <1>5

\* With requests of one size nobody fits any more as soon as one does not.
LEMMA FitsLemma ==
  ASSUME InputOK, Uniform, NEW sel \in Seq(Requests),
         NEW p \in Seq(Requests), p # <<>>, NEW q \in Seq(Requests), q # <<>>
  PROVE  /\ Fits(sel, p, 1) <=> Fits(sel, q, 1)
         /\ Fits(<<>>, p, 1)
<1>1. p[1] \in Requests /\ q[1] \in Requests
  OBVIOUS
<1>2. item[p[1]].size = item[q[1]].size /\ item[p[1]].size \in Nat
  BY <1>1 DEF Uniform, InputOK
<1>3. Sized
  BY DEF InputOK, Sized
<1>4. Sizes(p)[0] = 0 /\ Sizes(q)[0] = 0
  BY <1>3, SizesLemma
<1>5. Fits(sel, p, 1) <=> Fits(sel, q, 1)
  BY <1>2, <1>4 DEF Fits
<1>6. <<>> \in Seq(Requests) /\ Len(<<>>) = 0
  OBVIOUS
<1>7. Size(<<>>) = 0
  <2>1. Sizes(<<>>)[0] = 0
    BY <1>3, <1>6, SizesLemma
  <2> QED  BY <1>6, <2>1 DEF Size
<1>8. Fits(<<>>, p, 1)
  BY <1>4, <1>7, BoundsAssumption DEF Fits
<1> QED  BY <1>5, <1>8

\* _take_fair_batch takes candidates only; when it leaves out the first one, C[1], it takes
\* something, none of it of that one's scope, and a request of the scope that was served last
\* stands before every request of the scopes it takes from.
LEMMA FairBatchLemma ==
  ASSUME InputOK, NEW C \in Seq(Requests), InOrder(C), C # <<>>
  PROVE  /\ FairBatch(C) \in Seq(Requests) /\ ToSet(FairBatch(C)) \subseteq ToSet(C)
         /\ Uniform /\ C[1] \notin ToSet(FairBatch(C)) =>
              /\ FairBatch(C) # <<>>
              /\ \A b \in ToSet(FairBatch(C)) : item[b].scope # item[C[1]].scope
              /\ \E f \in ToSet(C) :
                   /\ item[f].scope = last
                   /\ \A b \in ToSet(FairBatch(C)), c \in ToSet(C) :
                        item[c].scope = item[b].scope => Before(C, f, c)
<1> DEFINE R == Rotated(Scopes(C))
           L == Len(R)
           M == L * Len(C)
           r == C[1]
           s == item[r].scope
<1>1. PICK g : Turns(C, g)
  BY TurnsLemma
<1>2. /\ g \in [0..M -> Seq(Requests)] /\ g[0] = <<>> /\ FairBatch(C) = g[M]
      /\ \A n \in 1..M : g[n] = g[n - 1] \o Share(C, g[n - 1], R[((n - 1) % L) + 1])
  BY <1>1 DEF Turns
<1>3. PICK p \in DOMAIN R :
        /\ R[p] = s
        /\ \A i \in 1..(p - 1) : R[i] # s
        /\ p = 1 \/ \E f \in ToSet(C) :
             /\ item[f].scope = last
             /\ \A i \in 1..(p - 1), c \in ToSet(C) : item[c].scope = R[i] => Before(C, f, c)
  BY RotatedLemma
<1>4. L \in Nat /\ p \in 1..L /\ Len(C) \in Nat /\ Len(C) >= 1
  <2>1. R \in Seq(AllScopes)
    BY RotatedLemma
  <2> HIDE DEF R
  <2> QED  BY <2>1
<1> HIDE DEF R, L
<1>5. M \in Nat /\ p \in 1..M
  <2>1. M \in Nat
    BY <1>4
  <2>2. L <= L * Len(C)
    BY <1>4
  <2> QED  BY <1>4, <2>1, <2>2
<1> DEFINE turn(n) == R[((n - 1) % L) + 1]
           new(n) == Share(C, g[n - 1], turn(n))
<1>6. \A n \in 1..p : turn(n) = R[n]
  <2> SUFFICES ASSUME NEW n \in 1..p PROVE (n - 1) % L = n - 1
    BY <1>4
  <2> QED  BY <1>4
<1> HIDE DEF M
<1>7. r \in ToSet(C) /\ r \in Requests /\ \A b \in ToSet(C) : b = r \/ Before(C, r, b)
  <2>1. r \in Requests
    OBVIOUS
  <2> QED  BY <2>1, OrderLemma
<1> HIDE DEF r
<1>8. ASSUME NEW n \in 1..M
      PROVE  n - 1 \in 0..M /\ n \in 0..M /\ g[n - 1] \in Seq(Requests) /\ g[n] \in Seq(Requests)
  <2>1. n - 1 \in 0..M /\ n \in 0..M
    BY <1>5
  <2> QED  BY <1>2, <2>1
<1>9. ASSUME NEW n \in 1..M
      PROVE  /\ g[n] = g[n - 1] \o new(n)
             /\ ToSet(g[n]) = ToSet(g[n - 1]) \cup ToSet(new(n))
             /\ \A b \in ToSet(new(n)) : b \in ToSet(C) /\ item[b].scope = turn(n)
  <2>1. g[n] = g[n - 1] \o new(n)
    BY <1>2
  <2>2. new(n) \in Seq(Requests) /\ ToSet(new(n)) \subseteq ToSet(Waiting(C, g[n - 1], turn(n)))
    BY <1>8, ShareLemma
  <2>3. ToSet(g[n - 1] \o new(n)) = ToSet(g[n - 1]) \cup ToSet(new(n))
    <3> HIDE DEF new
    <3> QED  BY <1>8, <2>2, ConcatSet
  <2> HIDE DEF turn, new
  <2> QED  BY <2>1, <2>2, <2>3, WaitingLemma
<1> HIDE DEF turn, new
<1>10. \A n \in 0..M : ToSet(g[n]) \subseteq ToSet(C)
  <2> DEFINE T == {n \in 0..M : ToSet(g[n]) \subseteq ToSet(C)}
  <2>1. 0 \in T
    BY <1>2, <1>5 DEF ToSet
  <2>2. \A n \in 1..M : n - 1 \in T => n \in T
    BY <1>8, <1>9
  <2>3. \A n \in 0..M : n \in T
    <3> HIDE DEF T
    <3> QED  BY <1>5, <2>1, <2>2, UpTo
  <2> QED  BY <2>3
<1>11. FairBatch(C) \in Seq(Requests) /\ ToSet(FairBatch(C)) \subseteq ToSet(C)
  BY <1>2, <1>5, <1>10
<1>12. ASSUME NEW k \in 0..M, NEW x \in ToSet(g[k]) PROVE x \in ToSet(g[M])
  <2> DEFINE T == {n \in 0..M : n >= k => x \in ToSet(g[n])}
  <2>1. 0 \in T
    BY <1>5, <1>12
  <2>2. \A n \in 1..M : n - 1 \in T => n \in T
    <3> SUFFICES ASSUME NEW n \in 1..M, n - 1 \in T, n >= k PROVE x \in ToSet(g[n])
      BY <1>5
    <3>1. CASE n = k
      BY <1>12, <3>1
    <3>2. CASE n # k
      <4>1. x \in ToSet(g[n - 1])
        BY <1>5, <3>2
      <4> QED  BY <1>9, <4>1
    <3> QED  BY <3>1, <3>2
  <2>3. \A n \in 0..M : n \in T
    <3> HIDE DEF T
    <3> QED  BY <1>5, <2>1, <2>2, UpTo
  <2> QED  BY <1>5, <2>3
<1>13. \A n \in 0..(p - 1) : \A b \in ToSet(g[n]) : \E i \in 1..n : R[i] = item[b].scope
  <2> DEFINE T == {n \in 0..M : n <= p - 1 => \A b \in ToSet(g[n]) : \E i \in 1..n : R[i] = item[b].scope}
  <2>1. 0 \in T
    BY <1>2, <1>5 DEF ToSet
  <2>2. ASSUME NEW n \in 1..M, n - 1 \in T PROVE n \in T
    <3> SUFFICES ASSUME n <= p - 1, NEW b \in ToSet(g[n]) PROVE \E i \in 1..n : R[i] = item[b].scope
      OBVIOUS
    <3>1. \A d \in ToSet(g[n - 1]) : \E i \in 1..(n - 1) : R[i] = item[d].scope
      BY <1>5, <2>2
    <3>2. turn(n) = R[n]
      BY <1>5, <1>6
    <3>3. b \in ToSet(g[n - 1]) \/ item[b].scope = R[n]
      BY <1>9, <3>2
    <3> QED  BY <3>1, <3>3
  <2>3. \A n \in 0..M : n \in T
    <3> HIDE DEF T
    <3> QED  BY <1>5, <2>1, <2>2, UpTo
  <2> QED  BY <1>5, <2>3
<1>14. ASSUME Uniform, r \notin ToSet(g[M])
       PROVE  g[M] = g[p - 1] /\ g[M] # <<>>
  <2> DEFINE sel == g[p - 1]
             q == Waiting(C, sel, s)
  <2>1. p - 1 \in 0..M /\ p - 1 \in 0..(p - 1) /\ sel \in Seq(Requests)
    BY <1>5, <1>8
  <2>2. r \notin ToSet(sel)
    BY <1>12, <1>14, <2>1
  <2>3. q \in Seq(Requests) /\ r \in ToSet(q)
    BY <1>7, <2>2, WaitingLemma
  <2>4. q # <<>> /\ q[1] = r
    <3> HIDE DEF q
    <3>1. q # <<>>
      BY <2>3 DEF ToSet
    <3>2. \A a, b : Before(q, a, b) => Before(C, a, b)
      BY WaitingLemma DEF q
    <3>3. PICK i \in DOMAIN q : q[i] = r
      BY <2>3 DEF ToSet
    <3>4. i \in Nat /\ i >= 1 /\ 1 \in DOMAIN q
      BY <2>3, <3>1
    <3>5. ~(1 < i)
      <4> SUFFICES ASSUME 1 < i PROVE FALSE
        OBVIOUS
      <4>1. Before(q, q[1], r)
        BY <3>3, <3>4 DEF Before
      <4>2. Before(C, q[1], r)
        BY <3>2, <4>1
      <4>3. q[1] = r \/ Before(C, r, q[1])
        BY <1>7, <4>2, OrderLemma
      <4>4. Before(C, r, r)
        BY <4>2, <4>3, OrderLemma
      <4> QED  BY <4>4 DEF InOrder
    <3> QED  BY <3>1, <3>3, <3>4, <3>5
  <2>5. ~Fits(sel, q, 1)
    <3> SUFFICES ASSUME Fits(sel, q, 1) PROVE FALSE
      OBVIOUS
    <3>1. r \in ToSet(Share(C, sel, s))
      BY <2>1, <2>4, ShareLemma
    <3>2. new(p) = Share(C, sel, s)
      BY <1>3, <1>5, <1>6 DEF new
    <3>3. r \in ToSet(g[p])
      BY <1>5, <1>9, <3>1, <3>2
    <3>4. p \in 0..M
      BY <1>5
    <3> QED  BY <1>12, <1>14, <3>3, <3>4
  <2>6. sel # <<>>
    BY <2>3, <2>4, <2>5, <1>14, FitsLemma
  <2>7. \A scope : Share(C, sel, scope) = <<>>
    <3> SUFFICES ASSUME NEW scope PROVE ~(Waiting(C, sel, scope) # <<>> /\ Fits(sel, Waiting(C, sel, scope), 1))
      BY <2>1, ShareLemma
    <3> DEFINE w == Waiting(C, sel, scope)
    <3>1. w \in Seq(Requests)
      BY WaitingLemma
    <3> HIDE DEF w, q, sel
    <3> QED  BY <1>14, <2>1, <2>3, <2>4, <2>5, <3>1, FitsLemma DEF w
  <2>8. sel \o <<>> = sel
    BY <2>1
  <2> DEFINE T == {n \in 0..M : n >= p - 1 => g[n] = sel}
  <2>9. 0 \in T
    BY <1>5
  <2>10. ASSUME NEW n \in 1..M, n - 1 \in T PROVE n \in T
    <3> SUFFICES ASSUME n >= p - 1, n # p - 1 PROVE g[n] = sel
      BY <1>5
    <3>1. g[n - 1] = sel
      BY <1>5, <2>10
    <3> QED  BY <1>9, <2>7, <2>8, <3>1 DEF new
  <2>11. \A n \in 0..M : n \in T
    <3> HIDE DEF T
    <3> QED  BY <1>5, <2>9, <2>10, UpTo
  <2>12. g[M] = sel
    BY <1>5, <2>11
  <2> QED  BY <2>6, <2>12
<1>15. ASSUME Uniform, r \notin ToSet(FairBatch(C))
       PROVE  /\ FairBatch(C) # <<>>
              /\ \A b \in ToSet(FairBatch(C)) : item[b].scope # s
              /\ \E f \in ToSet(C) :
                   /\ item[f].scope = last
                   /\ \A b \in ToSet(FairBatch(C)), c \in ToSet(C) :
                        item[c].scope = item[b].scope => Before(C, f, c)
  <2>1. FairBatch(C) = g[p - 1] /\ g[p - 1] # <<>>
    BY <1>2, <1>14, <1>15
  <2>2. \A b \in ToSet(FairBatch(C)) : \E i \in 1..(p - 1) : R[i] = item[b].scope
    <3>1. p - 1 \in 0..(p - 1)
      BY <1>5
    <3> QED  BY <1>13, <2>1, <3>1
  <2>3. p # 1
    BY <1>2, <2>1
  <2>4. PICK f \in ToSet(C) :
          /\ item[f].scope = last
          /\ \A i \in 1..(p - 1), c \in ToSet(C) : item[c].scope = R[i] => Before(C, f, c)
    BY <1>3, <2>3
  <2>5. \A b \in ToSet(FairBatch(C)), c \in ToSet(C) : item[c].scope = item[b].scope => Before(C, f, c)
    BY <2>2, <2>4
  <2>6. \A b \in ToSet(FairBatch(C)) : item[b].scope # s
    BY <1>3, <2>2
  <2> QED  BY <2>1, <2>4, <2>5, <2>6
<1> QED  BY <1>11, <1>15 DEF r

\* A set of numbers has a least one.
LEMMA LeastLemma ==
  ASSUME NEW S, S \subseteq Nat, S # {}
  PROVE  Min(S) \in S /\ \A i \in S : Min(S) <= i
<1>1. IsWellFoundedOn(Less, Nat)
  BY NatLessThanWellFounded DEF OpToRel, Less
<1>2. PICK m \in S : \A y \in S : ~(<<y, m>> \in Less)
  BY <1>1, WFMin
<1>3. \A y \in S : m <= y
  <2> SUFFICES ASSUME NEW y \in S, y < m PROVE FALSE
    OBVIOUS
  <2>1. <<y, m>> \in Less
    BY DEF Less
  <2> QED  BY <1>2, <2>1
<1> QED  BY <1>3 DEF Min

\* The seed is the first of its class in the queue, and so of the candidates.
LEMMA SeedLemma ==
  ASSUME \A r \in Requests : item[r].priority \in {0, 1},
         NEW q \in Seq(Requests), q # <<>>, InOrder(q)
  PROVE  /\ Seed(q) \in ToSet(q) /\ Seed(q) \in Requests
         /\ \A b \in ToSet(q) : Class(b) = Class(Seed(q)) => b = Seed(q) \/ Before(q, Seed(q), b)
         /\ Candidates(q) \in Seq(Requests) /\ InOrder(Candidates(q)) /\ Candidates(q) # <<>>
         /\ Candidates(q)[1] = Seed(q)
         /\ \A b : b \in ToSet(Candidates(q)) <=> b \in ToSet(q) /\ Class(b) = Class(Seed(q))
         /\ \A a, b : Before(Candidates(q), a, b) => Before(q, a, b)
<1> DEFINE best == Min({item[r].priority : r \in ToSet(q)})
           P == {i \in DOMAIN q : item[q[i]].priority = best}
           m == Min(P)
           x == Seed(q)
           S == {r \in Requests : Class(r) = Class(x)}
           C == Candidates(q)
<1>1. DOMAIN q = 1..Len(q) /\ Len(q) \in Nat /\ Len(q) >= 1 /\ \A i \in DOMAIN q : q[i] \in Requests
  OBVIOUS
<1>2. best \in {item[r].priority : r \in ToSet(q)}
  <2>1. {item[r].priority : r \in ToSet(q)} \subseteq Nat
    <3>1. \A r \in ToSet(q) : r \in Requests
      BY <1>1 DEF ToSet
    <3>2. \A r \in ToSet(q) : item[r].priority \in Nat
      BY <3>1
    <3> QED  BY <3>2
  <2>2. {item[r].priority : r \in ToSet(q)} # {}
    <3>1. q[1] \in ToSet(q)
      BY <1>1 DEF ToSet
    <3> QED  BY <3>1
  <2> QED  BY <2>1, <2>2, LeastLemma
<1>3. m \in P /\ \A i \in P : m <= i
  <2> HIDE DEF best
  <2>1. P \subseteq Nat /\ P # {}
    BY <1>1, <1>2 DEF ToSet
  <2> HIDE DEF P
  <2> QED  BY <2>1, LeastLemma
<1>4. x = q[m]
  BY DEF Seed
<1> HIDE DEF best, m, x
<1>5. x \in ToSet(q) /\ x \in Requests
  BY <1>1, <1>3, <1>4 DEF ToSet
<1>6. ASSUME NEW b \in ToSet(q), Class(b) = Class(x) PROVE b = x \/ Before(q, x, b)
  <2>1. PICK i \in DOMAIN q : q[i] = b
    BY DEF ToSet
  <2>2. item[b].priority = item[x].priority
    BY <1>6 DEF Class
  <2>3. i \in P
    BY <1>3, <1>4, <2>1, <2>2
  <2>4. m = i \/ m < i
    BY <1>1, <1>3, <2>3
  <2> QED  BY <1>3, <1>4, <2>1, <2>4 DEF Before
<1>7. /\ C \in Seq(Requests) /\ ToSet(C) = ToSet(q) \cap S
      /\ \A a, b : Before(C, a, b) <=> a \in S /\ b \in S /\ Before(q, a, b)
  <2>1. C = Those(q, S)
    BY DEF Candidates, x
  <2> HIDE DEF S, C
  <2> QED  BY <2>1, ThoseLemma
<1> HIDE DEF C
<1>8. InOrder(C)
  BY <1>7 DEF InOrder
<1>9. ToSet(q) \subseteq Requests
  BY <1>1 DEF ToSet
<1>10. \A b : b \in ToSet(C) <=> b \in ToSet(q) /\ Class(b) = Class(x)
  BY <1>7, <1>9
<1>11. C # <<>> /\ C[1] = x
  <2>1. x \in ToSet(C)
    BY <1>5, <1>10
  <2>2. C # <<>>
    BY <2>1 DEF ToSet
  <2>3. C[1] \in ToSet(C) /\ (x = C[1] \/ Before(C, C[1], x))
    BY <1>7, <1>8, <2>1, <2>2, OrderLemma
  <2>4. C[1] = x \/ Before(q, x, C[1])
    BY <1>6, <1>10, <2>3
  <2>5. x = C[1] \/ Before(q, C[1], x)
    BY <1>7, <2>3
  <2>6. ~(Before(q, x, C[1]) /\ Before(q, C[1], x))
    BY OrderLemma DEF InOrder
  <2> QED  BY <2>2, <2>4, <2>5, <2>6
<1> QED  BY <1>5, <1>6, <1>7, <1>8, <1>10, <1>11 DEF x, C

-----------------------------------------------------------------------------
(* The bounds of the queue and of a batch.                                 *)

\* Two sequences without a repetition and without a common element make one without a
\* repetition.
LEMMA ConcatOrder ==
  ASSUME NEW p \in Seq(Requests), NEW q \in Seq(Requests), InOrder(p), InOrder(q),
         \A r : ~(r \in ToSet(p) /\ r \in ToSet(q))
  PROVE  InOrder(p \o q) /\ IsInjective(p \o q)
<1> DEFINE t == p \o q
<1>1. /\ Len(p) \in Nat /\ Len(q) \in Nat /\ DOMAIN t = 1..(Len(p) + Len(q))
      /\ DOMAIN p = 1..Len(p) /\ DOMAIN q = 1..Len(q)
      /\ \A i \in 1..Len(p) : t[i] = p[i]
      /\ \A i \in 1..Len(q) : t[Len(p) + i] = q[i]
  BY ConcatLemma
<1> HIDE DEF t
<1>2. ASSUME NEW i \in DOMAIN t PROVE (i \in DOMAIN p /\ t[i] = p[i]) \/ (i - Len(p) \in DOMAIN q /\ t[i] = q[i - Len(p)])
  <2>1. CASE i <= Len(p)
    BY <1>1, <2>1
  <2>2. CASE i > Len(p)
    <3>1. i - Len(p) \in 1..Len(q) /\ Len(p) + (i - Len(p)) = i
      BY <1>1, <2>2
    <3> QED  BY <1>1, <3>1
  <2> QED  BY <1>1, <2>1, <2>2
<1>3. ASSUME NEW i \in DOMAIN t, NEW j \in DOMAIN t, t[i] = t[j] PROVE i = j
  <2>1. /\ \A k, l \in DOMAIN p : p[k] = p[l] => k = l
        /\ \A k, l \in DOMAIN q : q[k] = q[l] => k = l
    BY OrderLemma
  <2>2. \A k \in DOMAIN p, l \in DOMAIN q : p[k] # q[l]
    BY DEF ToSet
  <2>3. i \in Int /\ j \in Int /\ Len(p) \in Int
    BY <1>1
  <2> QED  BY <1>2, <1>3, <2>1, <2>2, <2>3
<1>4. InOrder(t)
  <2> SUFFICES ASSUME NEW i \in DOMAIN t, NEW j \in DOMAIN t, i < j, t[i] = t[j] PROVE FALSE
    BY DEF InOrder, Before
  <2> QED  BY <1>1, <1>3
<1>5. IsInjective(t)
  BY <1>3 DEF IsInjective
<1> QED  BY <1>4, <1>5 DEF t

\* The first elements of a sequence without a repetition.
LEMMA PrefixOrder ==
  ASSUME NEW q \in Seq(Requests), InOrder(q), NEW m \in 0..Len(q)
  PROVE  /\ SubSeq(q, 1, m) \in Seq(Requests) /\ Len(SubSeq(q, 1, m)) = m
         /\ \A i \in 1..m : SubSeq(q, 1, m)[i] = q[i]
         /\ ToSet(SubSeq(q, 1, m)) \subseteq ToSet(q)
         /\ InOrder(SubSeq(q, 1, m))
<1> DEFINE t == SubSeq(q, 1, m)
<1>1. /\ t \in Seq(Requests) /\ Len(t) = m /\ DOMAIN t = 1..m
      /\ \A i \in 1..m : t[i] = q[i] /\ i \in DOMAIN q
  OBVIOUS
<1> HIDE DEF t
<1>2. ToSet(t) \subseteq ToSet(q)
  BY <1>1 DEF ToSet
<1>3. InOrder(t)
  BY <1>1 DEF InOrder, Before
<1> QED  BY <1>1, <1>2, <1>3 DEF t

\* The rows of a sequence behind which the first requests of another one are put.
LEMMA SizeConcat ==
  ASSUME Sized, NEW p \in Seq(Requests), NEW q \in Seq(Requests), NEW m \in 0..Len(q),
         NEW e \in Seq(Requests), Len(e) = m, \A i \in 1..m : e[i] = q[i]
  PROVE  Size(p \o e) = Size(p) + Sizes(q)[m]
<1> DEFINE t == p \o e
           N == Len(p)
<1>1. /\ t \in Seq(Requests) /\ Len(t) = N + m /\ N \in Nat /\ m \in Nat
      /\ \A i \in 1..N : t[i] = p[i]
      /\ \A i \in 1..m : t[N + i] = q[i] /\ i \in 1..Len(q)
  <2>1. /\ t \in Seq(Requests) /\ Len(t) = Len(p) + Len(e)
        /\ \A i \in 1..Len(p) : t[i] = p[i]
        /\ \A i \in 1..Len(e) : t[Len(p) + i] = e[i]
    <3>1. \A a, b \in Seq(Requests) :
            /\ a \o b \in Seq(Requests) /\ Len(a \o b) = Len(a) + Len(b)
            /\ \A i \in 1..Len(a) : (a \o b)[i] = a[i]
            /\ \A i \in 1..Len(b) : (a \o b)[Len(a) + i] = b[i]
      BY ConcatLemma
    <3> QED  BY <3>1, Zenon
  <2>2. Len(p) \in Nat /\ Len(q) \in Nat /\ m \in Nat /\ \A i \in 1..m : i \in 1..Len(q)
    OBVIOUS
  <2> HIDE DEF t
  <2> QED  BY <2>1, <2>2
<1> HIDE DEF t
<1>2. /\ Sizes(t)[0] = 0 /\ Sizes(p)[0] = 0 /\ Sizes(q)[0] = 0
      /\ \A n \in 1..(N + m) : Sizes(t)[n] = Sizes(t)[n - 1] + item[t[n]].size
      /\ \A n \in 1..N : Sizes(p)[n] = Sizes(p)[n - 1] + item[p[n]].size
      /\ \A n \in 1..m : Sizes(q)[n] = Sizes(q)[n - 1] + item[q[n]].size
  BY <1>1, SizesLemma
<1>3. \A n \in 1..m : Sizes(q)[n - 1] \in Nat /\ item[q[n]].size \in Nat
  <2> SUFFICES ASSUME NEW n \in 1..m PROVE Sizes(q)[n - 1] \in Nat /\ item[q[n]].size \in Nat
    OBVIOUS
  <2>1. n - 1 \in 0..Len(q) /\ q[n] \in Requests
    BY <1>1
  <2> QED  BY <2>1, SizesLemma DEF Sized
<1>4. Sizes(p)[N] \in Nat /\ Size(p) = Sizes(p)[N] /\ Size(t) = Sizes(t)[N + m]
  <2>1. N \in 0..Len(p)
    BY <1>1
  <2> QED  BY <1>1, <2>1, SizesLemma DEF Size
<1> HIDE DEF N
<1>5. \A n \in 0..N : Sizes(t)[n] = Sizes(p)[n]
  <2> DEFINE T == {n \in 0..N : Sizes(t)[n] = Sizes(p)[n]}
  <2>1. 0 \in T
    BY <1>1, <1>2
  <2>2. ASSUME NEW n \in 1..N, n - 1 \in T PROVE n \in T
    <3>1. n \in 1..(N + m) /\ n \in 0..N
      BY <1>1
    <3>2. Sizes(t)[n] = Sizes(t)[n - 1] + item[t[n]].size /\ Sizes(p)[n] = Sizes(p)[n - 1] + item[p[n]].size
      BY <1>2, <3>1
    <3>3. Sizes(t)[n - 1] = Sizes(p)[n - 1] /\ t[n] = p[n]
      BY <1>1, <2>2
    <3> QED  BY <3>1, <3>2, <3>3
  <2>3. \A n \in 0..N : n \in T
    <3> HIDE DEF T
    <3> QED  BY <1>1, <2>1, <2>2, UpTo
  <2> QED  BY <2>3
<1>6. \A n \in 0..m : Sizes(t)[N + n] = Sizes(p)[N] + Sizes(q)[n]
  <2> DEFINE T == {n \in 0..m : Sizes(t)[N + n] = Sizes(p)[N] + Sizes(q)[n]}
  <2>1. 0 \in T
    BY <1>1, <1>2, <1>4, <1>5
  <2>2. ASSUME NEW n \in 1..m, n - 1 \in T PROVE n \in T
    <3>1. N + n \in 1..(N + m) /\ (N + n) - 1 = N + (n - 1) /\ n \in Nat
      BY <1>1
    <3>2. Sizes(t)[N + n] = Sizes(t)[N + (n - 1)] + item[q[n]].size
      BY <1>1, <1>2, <3>1
    <3>3. Sizes(t)[N + (n - 1)] = Sizes(p)[N] + Sizes(q)[n - 1]
      BY <2>2
    <3>4. Sizes(q)[n] = Sizes(q)[n - 1] + item[q[n]].size
      BY <1>2
    <3>5. Sizes(t)[N + n] = Sizes(p)[N] + Sizes(q)[n]
      BY <1>3, <1>4, <3>2, <3>3, <3>4
    <3> QED  BY <3>5
  <2>3. \A n \in 0..m : n \in T
    <3> HIDE DEF T
    <3> QED  BY <1>1, <2>1, <2>2, UpTo
  <2> QED  BY <2>3
<1> QED  BY <1>1, <1>4, <1>6 DEF t

\* What is selected is selected once, and is one request or no more than the limit.
Limited(sel) == InOrder(sel) /\ (Len(sel) <= 1 \/ Size(sel) <= MaxBatch)

\* A turn keeps what is selected within the limit.
LEMMA TurnLimited ==
  ASSUME InputOK, NEW C \in Seq(Requests), InOrder(C), NEW sel \in Seq(Requests), Limited(sel), NEW scope
  PROVE  Limited(sel \o Share(C, sel, scope))
<1> DEFINE q == Waiting(C, sel, scope)
           e == Share(C, sel, scope)
<1>1. PICK m \in 0..Len(q) : e = SubSeq(q, 1, m) /\ \A i \in 1..m : Fits(sel, q, i)
  BY ShareLemma
<1>2. /\ q \in Seq(Requests)
      /\ \A r : r \in ToSet(q) => r \notin ToSet(sel)
      /\ \A a, b : Before(q, a, b) => Before(C, a, b)
  BY WaitingLemma
<1> HIDE DEF q, e
<1>3. InOrder(q)
  BY <1>2 DEF InOrder
<1>4. /\ e \in Seq(Requests) /\ Len(e) = m /\ ToSet(e) \subseteq ToSet(q) /\ InOrder(e)
      /\ \A i \in 1..m : e[i] = q[i]
  BY <1>1, <1>2, <1>3, PrefixOrder
<1>5. InOrder(sel \o e)
  BY <1>2, <1>4, ConcatOrder DEF Limited
<1>6. Sized
  BY DEF InputOK, Sized
<1>7. Size(sel \o e) = Size(sel) + Sizes(q)[m]
  BY <1>2, <1>4, <1>6, SizeConcat
<1>8. Len(sel) \in Nat /\ Len(sel \o e) = Len(sel) + m /\ m \in Nat
  <2>1. Len(sel \o e) = Len(sel) + Len(e)
    BY <1>4, ConcatLemma
  <2>2. Len(q) \in Nat /\ m \in Nat /\ Len(sel) \in Nat
    BY <1>2
  <2> QED  BY <1>4, <2>1, <2>2
<1>9. CASE m = 0
  <2>1. e = <<>>
    BY <1>4, <1>9
  <2>2. sel \o <<>> = sel
    OBVIOUS
  <2> QED  BY <2>1, <2>2 DEF e
<1>10. CASE sel = <<>> /\ m = 1
  BY <1>5, <1>8, <1>10 DEF Limited, e
<1>11. CASE m > 0 /\ (sel # <<>> \/ m > 1)
  <2>1. m \in 1..m
    BY <1>8, <1>11
  <2>2. Size(sel) + Sizes(q)[m - 1] + item[q[m]].size <= MaxBatch
    BY <1>1, <1>11, <2>1 DEF Fits
  <2>3. m \in 1..Len(q) /\ m - 1 \in 0..Len(q)
    BY <1>1, <1>2, <1>11
  <2>4. Sizes(q)[m] = Sizes(q)[m - 1] + item[q[m]].size /\ Sizes(q)[m - 1] \in Nat
    BY <1>2, <1>6, <2>3, SizesLemma
  <2>5. item[q[m]].size \in Nat
    BY <1>2, <2>3 DEF InputOK
  <2>6. Size(sel) \in Nat
    <3>1. Len(sel) \in 0..Len(sel)
      BY <1>8
    <3> QED  BY <1>6, <3>1, SizesLemma DEF Size
  <2>7. Size(sel \o e) <= MaxBatch
    BY <1>7, <2>2, <2>4, <2>5, <2>6, BoundsAssumption
  <2> QED  BY <1>5, <2>7 DEF Limited, e
<1>12. m = 0 \/ m = 1 \/ m > 1
  BY <1>8
<1> QED  BY <1>9, <1>10, <1>11, <1>12

\* A batch is one request, or no larger than the limit.
LEMMA BatchLimited ==
  ASSUME InputOK, NEW C \in Seq(Requests), InOrder(C), C # <<>>
  PROVE  Limited(FairBatch(C))
<1> DEFINE R == Rotated(Scopes(C))
           M == Len(R) * Len(C)
<1>1. M \in Nat
  BY TurnsLemma
<1>2. PICK g : Turns(C, g)
  BY TurnsLemma
<1>3. /\ g \in [0..M -> Seq(Requests)] /\ g[0] = <<>> /\ FairBatch(C) = g[M]
      /\ \A n \in 1..M : g[n] = g[n - 1] \o Share(C, g[n - 1], R[((n - 1) % Len(R)) + 1])
  BY <1>2 DEF Turns
<1> HIDE DEF M
<1> DEFINE T == {n \in 0..M : Limited(g[n])}
<1>4. 0 \in T
  <2>1. InOrder(<<>>) /\ Len(<<>>) = 0
    BY DEF InOrder, Before
  <2> QED  BY <1>1, <1>3, <2>1 DEF Limited
<1>5. ASSUME NEW n \in 1..M, n - 1 \in T PROVE n \in T
  <2>1. g[n - 1] \in Seq(Requests) /\ Limited(g[n - 1])
    BY <1>3, <1>5
  <2>2. g[n] = g[n - 1] \o Share(C, g[n - 1], R[((n - 1) % Len(R)) + 1])
    BY <1>3
  <2> HIDE DEF R
  <2>3. Limited(g[n])
    BY <2>1, <2>2, TurnLimited
  <2> QED  BY <2>3
<1>6. \A n \in 0..M : n \in T
  <2> HIDE DEF T
  <2> QED  BY <1>1, <1>4, <1>5, UpTo
<1> QED  BY <1>1, <1>3, <1>6

-----------------------------------------------------------------------------
(* Who was passed over, and for whom. *)

\* The requests of r's class that wait in q, f being the futures.
Live(q, f, r) == {b \in ToSet(q) : f[b] = "pending" /\ Class(b) = Class(r)}

\* The scopes of which one waits before all those of scope l, and l.
Passed(q, f, l, r) ==
  {x \in AllScopes : \E a \in Live(q, f, r) :
     /\ item[a].scope = x
     /\ \A b \in Live(q, f, r) : item[b].scope = l => a = b \/ Before(q, a, b)} \cup {l}

\* r is the first of its class in q.
Oldest(q, r) == \A b \in ToSet(q) : Class(b) = Class(r) => b = r \/ Before(q, r, b)

\* From q and f to q2 and f2, at most D stops waiting, and what is new is behind the rest.
Drops(D, q, f, q2, f2) ==
  /\ \A a \in ToSet(q) : f[a] = "pending" /\ a \notin D => a \in ToSet(q2) /\ f2[a] = "pending"
  /\ \A b \in ToSet(q) : f2[b] = "pending" => f[b] = "pending"
  /\ \A a, b \in ToSet(q2) : Before(q, a, b) => Before(q2, a, b)
  /\ \A b \in ToSet(q2) : b \in ToSet(q) \/ \A a \in ToSet(q2) : a = b \/ Before(q2, a, b)

\* It lets at most as many scopes go ahead again.
LEMMA DropLemma ==
  ASSUME NEW D \in SUBSET Requests, NEW l \in AllScopes, NEW r,
         NEW q, NEW f, NEW q2, NEW f2, Drops(D, q, f, q2, f2)
  PROVE  /\ IsFiniteSet(Passed(q, f, l, r)) /\ IsFiniteSet(Passed(q2, f2, l, r)) /\ IsFiniteSet(D)
         /\ Cardinality(Passed(q, f, l, r)) <= Cardinality(Passed(q2, f2, l, r)) + Cardinality(D)
         /\ r \in ToSet(q2) /\ Oldest(q, r) => Oldest(q2, r)
<1> DEFINE X == Passed(q, f, l, r)
           Y == Passed(q2, f2, l, r)
           I == {item[d].scope : d \in D}
<1>1. IsFiniteSet(D) /\ IsFiniteSet(Requests) /\ IsFiniteSet(AllScopes)
  <2>1. IsFiniteSet(Requests)
    BY BoundsAssumption
  <2>2. [d \in Requests |-> item[d].scope] \in Surjection(Requests, AllScopes)
    BY DEF Surjection, AllScopes
  <2> QED  BY <2>1, <2>2, FS_Subset, FS_Surjection
<1>2. X \subseteq AllScopes /\ Y \subseteq AllScopes
  BY DEF Passed
<1>3. IsFiniteSet(X) /\ IsFiniteSet(Y)
  BY <1>1, <1>2, FS_Subset
<1>4. IsFiniteSet(I) /\ Cardinality(I) <= Cardinality(D)
  <2>1. [d \in D |-> item[d].scope] \in Surjection(D, I)
    BY DEF Surjection
  <2> HIDE DEF I
  <2> QED  BY <1>1, <2>1, FS_Surjection
<1>5. X \subseteq Y \cup I
  <2> SUFFICES ASSUME NEW x \in AllScopes, NEW a \in Live(q, f, r), item[a].scope = x,
                      \A b \in Live(q, f, r) : item[b].scope = l => a = b \/ Before(q, a, b),
                      x \notin I
               PROVE  x \in Y
    BY DEF Passed
  <2>1. a \notin D /\ a \in ToSet(q) /\ f[a] = "pending" /\ Class(a) = Class(r)
    BY DEF Live
  <2>2. a \in Live(q2, f2, r) /\ a \in ToSet(q2)
    BY <2>1 DEF Live, Drops
  <2>3. ASSUME NEW b \in Live(q2, f2, r), item[b].scope = l PROVE a = b \/ Before(q2, a, b)
    <3>1. b \in ToSet(q2) /\ f2[b] = "pending" /\ Class(b) = Class(r)
      BY DEF Live
    <3>2. CASE b \in ToSet(q)
      <4>1. b \in Live(q, f, r)
        BY <3>1, <3>2 DEF Live, Drops
      <4> QED  BY <2>2, <2>3, <3>1, <4>1 DEF Drops
    <3> QED  BY <2>2, <3>1, <3>2 DEF Drops
  <2> QED  BY <2>2, <2>3 DEF Passed
<1> HIDE DEF X, Y, I
<1>6. Cardinality(X) <= Cardinality(Y) + Cardinality(D)
  <2>1. /\ IsFiniteSet(Y \cup I) /\ Cardinality(X) <= Cardinality(Y \cup I)
        /\ Cardinality(Y \cup I) = Cardinality(Y) + Cardinality(I) - Cardinality(Y \cap I)
    BY <1>3, <1>4, <1>5, FS_Union, FS_Subset
  <2>2. IsFiniteSet(Y \cap I)
    BY <1>3, FS_Intersection
  <2>3. /\ Cardinality(X) \in Nat /\ Cardinality(Y) \in Nat /\ Cardinality(I) \in Nat
        /\ Cardinality(Y \cap I) \in Nat /\ Cardinality(D) \in Nat
    BY <1>1, <1>3, <1>4, <2>2, FS_CardinalityType
  <2> QED  BY <1>4, <2>1, <2>3
<1>7. r \in ToSet(q2) /\ Oldest(q, r) => Oldest(q2, r)
  BY DEF Oldest, Drops
<1> QED  BY <1>1, <1>3, <1>6, <1>7 DEF X, Y

\* A batch that passes over its seed ends with a scope that was ahead of it and is no more.
LEMMA PassLemma ==
  ASSUME InputOK, \A r \in Requests : item[r].priority \in {0, 1}, Uniform,
         NEW q \in Seq(Requests), InOrder(q), q # <<>>, NEW f,
         \A b \in ToSet(q) : f[b] = "pending",
         NEW new, new = FairBatch(Candidates(q)), Seed(q) \notin ToSet(new),
         NEW rest, rest = Those(q, Requests \ ToSet(new))
  PROVE  LET l2 == item[Last(new)].scope
             X  == Passed(q, f, last, Seed(q))
         IN  /\ Seed(q) \in ToSet(rest) /\ Oldest(rest, Seed(q))
             /\ item[Seed(q)].scope \in X
             /\ l2 \in AllScopes /\ l2 \notin X
             /\ X \cup {l2} \subseteq Passed(rest, f, l2, Seed(q))
<1> DEFINE r == Seed(q)
           C == Candidates(q)
           B == ToSet(new)
           l2 == item[Last(new)].scope
           X == Passed(q, f, last, r)
<1>1. /\ r \in ToSet(q) /\ r \in Requests
      /\ \A b \in ToSet(q) : Class(b) = Class(r) => b = r \/ Before(q, r, b)
      /\ C \in Seq(Requests) /\ InOrder(C) /\ C # <<>> /\ C[1] = r
      /\ \A b : b \in ToSet(C) <=> b \in ToSet(q) /\ Class(b) = Class(r)
      /\ \A a, b : Before(C, a, b) => Before(q, a, b)
  BY SeedLemma
<1> HIDE DEF r, C
<1>2. /\ new \in Seq(Requests) /\ B \subseteq ToSet(C) /\ new # <<>>
      /\ \A b \in B : item[b].scope # item[r].scope
      /\ \E a \in ToSet(C) :
           /\ item[a].scope = last
           /\ \A b \in B, c \in ToSet(C) : item[c].scope = item[b].scope => Before(C, a, c)
  <2>1. new = FairBatch(C) /\ C[1] \notin ToSet(FairBatch(C))
    BY <1>1 DEF r, C
  <2> QED  BY <1>1, <2>1, FairBatchLemma
<1>3. Last(new) \in B /\ Last(new) \in Requests
  <2>1. Len(new) \in DOMAIN new /\ new[Len(new)] \in Requests
    BY <1>2
  <2> QED  BY <2>1 DEF Last, ToSet
<1>4. l2 \in AllScopes
  BY <1>3 DEF AllScopes
<1>5. PICK a \in ToSet(C) :
        /\ item[a].scope = last
        /\ \A b \in B, c \in ToSet(C) : item[c].scope = item[b].scope => Before(C, a, c)
  BY <1>2
<1>6. /\ ToSet(rest) = ToSet(q) \ B
      /\ \A x, y : x \notin B /\ y \notin B /\ x \in Requests /\ y \in Requests /\ Before(q, x, y) => Before(rest, x, y)
  <2>1. ToSet(q) \subseteq Requests
    BY DEF ToSet
  <2>2. /\ ToSet(rest) = ToSet(q) \cap (Requests \ B)
        /\ \A x, y : Before(rest, x, y) <=> x \in Requests \ B /\ y \in Requests \ B /\ Before(q, x, y)
    BY ThoseLemma
  <2> QED  BY <2>1, <2>2
<1>7. ToSet(q) \subseteq Requests
  BY DEF ToSet
<1> HIDE DEF B, l2
<1>8. r \notin B
  BY DEF B, r
<1>9. r \in ToSet(rest) /\ Oldest(rest, r)
  BY <1>1, <1>6, <1>7, <1>8 DEF Oldest
<1>10. Live(q, f, r) = ToSet(C)
  BY <1>1 DEF Live
<1>11. Live(rest, f, r) = ToSet(C) \ B
  BY <1>1, <1>6, <1>10 DEF Live
<1>12. item[r].scope \in X
  <2>1. r \in Live(q, f, r) /\ item[r].scope \in AllScopes
    BY <1>1, <1>10 DEF AllScopes
  <2>2. \A b \in Live(q, f, r) : r = b \/ Before(q, r, b)
    BY <1>1 DEF Live
  <2> QED  BY <2>1, <2>2 DEF Passed
<1>13. ASSUME NEW c \in ToSet(C), item[c].scope = l2 PROVE Before(C, a, c)
  BY <1>3, <1>5, <1>13 DEF l2
<1>14. l2 # last
  <2>1. ~Before(C, a, a)
    BY <1>1 DEF InOrder
  <2> QED  BY <1>5, <1>13, <2>1
<1>15. l2 \notin X
  <2> SUFFICES ASSUME NEW c \in ToSet(C), item[c].scope = l2, c = a \/ Before(q, c, a) PROVE FALSE
    BY <1>5, <1>10, <1>14 DEF Passed
  <2>1. Before(C, a, c)
    BY <1>13
  <2>2. Before(q, a, c) /\ ~Before(q, a, a) /\ ~Before(C, a, a)
    BY <1>1, <2>1 DEF InOrder
  <2>3. Before(q, c, a) => Before(q, a, a)
    BY <2>2, OrderLemma
  <2> QED  BY <2>1, <2>2, <2>3
<1>16. a \notin B /\ a \in Live(rest, f, r)
  BY <1>1, <1>5, <1>11 DEF InOrder
<1>17. ASSUME NEW c \in ToSet(C) \ B, item[c].scope = l2 PROVE Before(rest, a, c)
  <2>1. Before(q, a, c)
    BY <1>1, <1>13, <1>17
  <2> QED  BY <1>1, <1>6, <1>7, <1>16, <2>1
<1>18. last \in AllScopes /\ last \in Passed(rest, f, l2, r)
  <2>1. last \in AllScopes
    BY <1>1, <1>5, <1>7 DEF AllScopes
  <2> QED  BY <1>5, <1>11, <1>16, <1>17, <2>1 DEF Passed
<1>19. ASSUME NEW x \in AllScopes, NEW c \in ToSet(C), item[c].scope = x, x # last,
              \A b \in ToSet(C) : item[b].scope = last => c = b \/ Before(q, c, b)
       PROVE  x \in Passed(rest, f, l2, r)
  <2>1. c = a \/ Before(q, c, a)
    BY <1>5, <1>19
  <2>2. c \notin B
    <3> SUFFICES ASSUME c \in B PROVE FALSE
      OBVIOUS
    <3>1. Before(C, a, c)
      BY <1>5
    <3>2. Before(q, a, c) /\ ~Before(q, a, a) /\ ~Before(C, a, a)
      BY <1>1, <3>1 DEF InOrder
    <3>3. Before(q, c, a) => Before(q, a, a)
      BY <3>2, OrderLemma
    <3> QED  BY <2>1, <3>1, <3>2, <3>3
  <2>3. ASSUME NEW b \in ToSet(C) \ B, item[b].scope = l2 PROVE Before(rest, c, b)
    <3>1. Before(q, a, b)
      BY <1>1, <1>13, <2>3
    <3>2. Before(q, c, b)
      BY <2>1, <3>1, OrderLemma
    <3> QED  BY <1>1, <1>6, <1>7, <2>2, <3>2
  <2> QED  BY <1>11, <1>19, <2>2, <2>3 DEF Passed
<1>20. X \subseteq Passed(rest, f, l2, r)
  <2> SUFFICES ASSUME NEW x \in X PROVE x \in Passed(rest, f, l2, r)
    OBVIOUS
  <2>1. CASE x = last
    BY <1>18, <2>1
  <2>2. CASE x # last
    <3>1. x \in AllScopes /\ \E c \in ToSet(C) :
            /\ item[c].scope = x
            /\ \A b \in ToSet(C) : item[b].scope = last => c = b \/ Before(q, c, b)
      BY <1>10, <2>2 DEF Passed
    <3> QED  BY <1>19, <2>2, <3>1
  <2> QED  BY <2>1, <2>2
<1>21. l2 \in Passed(rest, f, l2, r)
  BY DEF Passed
<1> QED  BY <1>4, <1>9, <1>12, <1>15, <1>20, <1>21 DEF r, l2

-----------------------------------------------------------------------------
(* The queue, the batch and the futures agree. *)

\* The states of a future.
Outcome == {"new", "pending", "done", "failed", "timeout", "cancelled", "rejected"}

\* Nobody is twice in the queue, or in it and in a batch or a call; whoever is in one has been
\* submitted.
Sound ==
  /\ item \in Inputs /\ left \in Nat /\ left <= MaxFaults
  /\ queue \in Seq(Requests) /\ InOrder(queue) /\ batch \in Seq(Requests) /\ single \subseteq Requests
  /\ fut \in [Requests -> Outcome] /\ result = [r \in Requests |-> result[r]]
  /\ \A r \in ToSet(queue) : fut[r] # "new" /\ r \notin ToSet(batch) /\ r \notin single
  /\ \A r \in ToSet(batch) \cup single : fut[r] # "new"

\* What the assumption on the inputs says of the one that is submitted.
LEMMA InputLemma ==
  ASSUME item \in Inputs
  PROVE  InputOK /\ Sized /\ \A r \in Requests : item[r].priority \in {0, 1}
BY InputsAssumption DEF InputOK, Sized

\* _discard_finished keeps what is pending and not late, in its order.
LEMMA KeptLemma ==
  ASSUME Sound, NEW D \in Late
  PROVE  /\ D \in SUBSET Requests /\ IsFiniteSet(D) /\ left - Cardinality(D) \in Nat /\ Cardinality(D) \in Nat
         /\ \A d \in D : d \in ToSet(queue) /\ fut[d] = "pending"
         /\ Kept(D) \in Seq(Requests) /\ InOrder(Kept(D))
         /\ \A b : b \in ToSet(Kept(D)) <=> b \in ToSet(queue) /\ fut[b] = "pending" /\ b \notin D
         /\ \A a, b \in ToSet(Kept(D)) : Before(queue, a, b) => Before(Kept(D), a, b)
         /\ Timed(D) \in [Requests -> Outcome]
         /\ \A r \in Requests : Timed(D)[r] = IF r \in D THEN "timeout" ELSE fut[r]
<1> DEFINE S == {r \in Requests : fut[r] = "pending"} \ D
<1>1. ToSet(queue) \subseteq Requests
  BY DEF Sound, ToSet
<1>2. /\ D \in SUBSET Requests /\ Cardinality(D) <= left
      /\ \A d \in D : d \in ToSet(queue) /\ fut[d] = "pending"
  BY <1>1 DEF Late
<1>3. IsFiniteSet(D) /\ Cardinality(D) \in Nat
  BY <1>2, BoundsAssumption, FS_Subset, FS_CardinalityType
<1>4. /\ Kept(D) \in Seq(Requests) /\ ToSet(Kept(D)) = ToSet(queue) \cap S
      /\ \A a, b : Before(Kept(D), a, b) <=> a \in S /\ b \in S /\ Before(queue, a, b)
  <2> HIDE DEF S
  <2> QED  BY ThoseLemma DEF Sound, Kept, S
<1>5. InOrder(Kept(D))
  BY <1>4 DEF InOrder, Sound
<1>6. \A b : b \in ToSet(Kept(D)) <=> b \in ToSet(queue) /\ fut[b] = "pending" /\ b \notin D
  BY <1>1, <1>4
<1>7. \A a, b \in ToSet(Kept(D)) : Before(queue, a, b) => Before(Kept(D), a, b)
  BY <1>4
<1>8. /\ Timed(D) \in [Requests -> Outcome]
      /\ \A r \in Requests : Timed(D)[r] = IF r \in D THEN "timeout" ELSE fut[r]
  BY DEF Timed, Sound, Outcome
<1>9. left - Cardinality(D) \in Nat
  BY <1>2, <1>3 DEF Sound
<1> QED  BY <1>2, <1>3, <1>4, <1>5, <1>6, <1>7, <1>8, <1>9

\* What a dispatch takes, and what it leaves.
LEMMA DispatchLemma ==
  ASSUME Sound, NEW D \in Late, Kept(D) # <<>>,
         NEW new, new = FairBatch(Candidates(Kept(D))),
         NEW rest, rest = Those(Kept(D), Requests \ ToSet(new))
  PROVE  /\ new \in Seq(Requests) /\ rest \in Seq(Requests) /\ InOrder(rest)
         /\ \A b \in ToSet(new) : b \in ToSet(queue) /\ fut[b] = "pending"
         /\ \A b : b \in ToSet(rest) <=> b \in ToSet(Kept(D)) /\ b \notin ToSet(new)
<1> DEFINE q == Kept(D)
           C == Candidates(q)
<1>1. InputOK /\ \A r \in Requests : item[r].priority \in {0, 1}
  BY InputLemma DEF Sound
<1>2. /\ q \in Seq(Requests) /\ InOrder(q)
      /\ \A b : b \in ToSet(q) <=> b \in ToSet(queue) /\ fut[b] = "pending" /\ b \notin D
  BY KeptLemma
<1> HIDE DEF q
<1>3. /\ C \in Seq(Requests) /\ InOrder(C) /\ C # <<>>
      /\ \A b : b \in ToSet(C) => b \in ToSet(q)
  BY <1>1, <1>2, SeedLemma DEF q
<1>4. new \in Seq(Requests) /\ ToSet(new) \subseteq ToSet(C)
  <2> HIDE DEF C
  <2> QED  BY <1>1, <1>3, FairBatchLemma DEF C, q
<1>5. /\ rest \in Seq(Requests) /\ ToSet(rest) = ToSet(q) \cap (Requests \ ToSet(new))
      /\ \A a, b : Before(rest, a, b) => Before(q, a, b)
  BY <1>2, ThoseLemma DEF q
<1>6. InOrder(rest)
  BY <1>2, <1>5 DEF InOrder
<1>7. ToSet(q) \subseteq Requests
  BY <1>2 DEF ToSet
<1> QED  BY <1>2, <1>3, <1>4, <1>5, <1>6, <1>7 DEF q

\* submit: a request that was not in the queue goes to its end.
LEMMA SubmitSound ==
  ASSUME Sound, NEW r \in Requests, Submit(r)
  PROVE  Sound'
<1>1. PICK D \in Late :
        /\ left' = left - Cardinality(D)
        /\ \/ queue' = Kept(D) /\ fut' = [Timed(D) EXCEPT ![r] = "rejected"]
           \/ queue' = Append(Kept(D), r) /\ fut' = [Timed(D) EXCEPT ![r] = "pending"]
  BY DEF Submit
<1>2. fut[r] = "new" /\ UNCHANGED <<item, batch, single, result>>
  BY DEF Submit
<1>3. /\ D \in SUBSET Requests /\ left - Cardinality(D) \in Nat /\ Cardinality(D) \in Nat
      /\ Kept(D) \in Seq(Requests) /\ InOrder(Kept(D))
      /\ \A b : b \in ToSet(Kept(D)) <=> b \in ToSet(queue) /\ fut[b] = "pending" /\ b \notin D
      /\ Timed(D) \in [Requests -> Outcome]
      /\ \A x \in Requests : Timed(D)[x] = IF x \in D THEN "timeout" ELSE fut[x]
  BY KeptLemma
<1>4. r \notin ToSet(queue) /\ r \notin ToSet(batch) /\ r \notin single
  BY <1>2 DEF Sound
<1>5. /\ queue' \in Seq(Requests) /\ InOrder(queue')
      /\ \A b \in ToSet(queue') : b \in ToSet(queue) \/ b = r
  <2>1. CASE queue' = Kept(D)
    BY <1>3, <2>1
  <2>2. CASE queue' = Append(Kept(D), r)
    <3>1. /\ ToSet(queue') = ToSet(Kept(D)) \cup {r}
          /\ \A a, b : Before(queue', a, b) <=> Before(Kept(D), a, b) \/ (a \in ToSet(Kept(D)) /\ b = r)
      BY <1>3, <2>2, AppendLemma
    <3>2. InOrder(queue')
      BY <1>3, <1>4, <3>1 DEF InOrder
    <3>3. queue' \in Seq(Requests)
      BY <1>3, <2>2
    <3> QED  BY <1>3, <3>1, <3>2, <3>3
  <2> QED  BY <1>1, <2>1, <2>2
<1>6. /\ fut' \in [Requests -> Outcome] /\ fut'[r] # "new"
      /\ \A x \in Requests : fut'[x] = "new" => fut[x] = "new"
  BY <1>1, <1>3 DEF Outcome
<1>7. left' \in Nat /\ left' <= MaxFaults
  <2>1. left \in Nat /\ left <= MaxFaults /\ MaxFaults \in Nat
    BY BoundsAssumption DEF Sound
  <2>2. Cardinality(D) \in Nat /\ left - Cardinality(D) \in Nat /\ left' = left - Cardinality(D)
    BY <1>1, <1>3
  <2> QED  BY <2>1, <2>2
<1>8. ToSet(queue) \subseteq Requests /\ ToSet(batch) \subseteq Requests /\ single \subseteq Requests
  BY DEF Sound, ToSet
<1>9. ToSet(batch)' = ToSet(batch) /\ ToSet(queue)' = ToSet(queue') /\ InOrder(queue)' = InOrder(queue')
  BY <1>2 DEF ToSet, InOrder, Before
<1> QED  BY <1>2, <1>4, <1>5, <1>6, <1>7, <1>8, <1>9 DEF Sound

\* _run: what is taken for the batch leaves the queue.
LEMMA LoopSound ==
  ASSUME Sound, Loop
  PROVE  Sound'
<1>1. PICK D \in Late : /\ left' = left - Cardinality(D) /\ fut' = Timed(D)
                        /\ LoopEnds(Kept(D)) \/ LoopSleeps(Kept(D)) \/ LoopDispatches(Kept(D))
  BY DEF Loop
<1>2. UNCHANGED <<item, result>>
  BY DEF Loop
<1>3. /\ D \in SUBSET Requests /\ left - Cardinality(D) \in Nat /\ Cardinality(D) \in Nat
      /\ Kept(D) \in Seq(Requests) /\ InOrder(Kept(D))
      /\ \A b : b \in ToSet(Kept(D)) <=> b \in ToSet(queue) /\ fut[b] = "pending" /\ b \notin D
      /\ Timed(D) \in [Requests -> Outcome]
      /\ \A x \in Requests : Timed(D)[x] = IF x \in D THEN "timeout" ELSE fut[x]
  BY KeptLemma
<1>4. ToSet(queue) \subseteq Requests /\ ToSet(batch) \subseteq Requests /\ single \subseteq Requests
  BY DEF Sound, ToSet
<1>5. /\ fut' \in [Requests -> Outcome]
      /\ \A x \in Requests : fut'[x] = "new" => fut[x] = "new"
  BY <1>1, <1>3
<1>6. left' \in Nat /\ left' <= MaxFaults
  <2>1. left \in Nat /\ left <= MaxFaults /\ MaxFaults \in Nat
    BY BoundsAssumption DEF Sound
  <2>2. Cardinality(D) \in Nat /\ left - Cardinality(D) \in Nat /\ left' = left - Cardinality(D)
    BY <1>1, <1>3
  <2> QED  BY <2>1, <2>2
<1>7. CASE LoopEnds(Kept(D)) \/ LoopSleeps(Kept(D))
  <2>1. queue' = Kept(D) /\ UNCHANGED <<batch, single>>
    BY <1>7 DEF LoopEnds, LoopSleeps
  <2>2. ToSet(batch)' = ToSet(batch) /\ ToSet(queue)' = ToSet(Kept(D)) /\ InOrder(queue)' = InOrder(Kept(D))
    BY <2>1 DEF ToSet, InOrder, Before
  <2> QED  BY <1>2, <1>3, <1>4, <1>5, <1>6, <2>1, <2>2 DEF Sound
<1>8. CASE LoopDispatches(Kept(D))
  <2> DEFINE new == FairBatch(Candidates(Kept(D)))
             rest == Those(Kept(D), Requests \ ToSet(new))
  <2>1. /\ Kept(D) # <<>> /\ queue' = rest
        /\ \/ single' = ToSet(new) /\ UNCHANGED batch
           \/ batch' = new /\ UNCHANGED single
    BY <1>8 DEF LoopDispatches
  <2>2. /\ new \in Seq(Requests) /\ rest \in Seq(Requests) /\ InOrder(rest)
        /\ \A b \in ToSet(new) : b \in ToSet(queue) /\ fut[b] = "pending"
        /\ \A b : b \in ToSet(rest) <=> b \in ToSet(Kept(D)) /\ b \notin ToSet(new)
    BY <2>1, DispatchLemma
  <2> HIDE DEF new, rest
  <2>3. ToSet(queue)' = ToSet(rest) /\ InOrder(queue)' = InOrder(rest) /\ ToSet(batch)' = ToSet(batch')
    BY <2>1 DEF ToSet, InOrder, Before
  <2>4. ToSet(new) \subseteq Requests
    BY <1>4, <2>2
  <2>5. \A b \in ToSet(new) : fut'[b] # "new"
    BY <1>5, <2>2, <2>4
  <2>6. CASE single' = ToSet(new) /\ UNCHANGED batch
    <3>1. ToSet(batch)' = ToSet(batch)
      BY <2>6
    <3> QED  BY <1>2, <1>3, <1>4, <1>5, <1>6, <2>1, <2>2, <2>3, <2>4, <2>5, <2>6, <3>1 DEF Sound
  <2>7. CASE batch' = new /\ UNCHANGED single
    <3>1. ToSet(batch)' = ToSet(new)
      BY <2>3, <2>7
    <3> QED  BY <1>2, <1>3, <1>4, <1>5, <1>6, <2>1, <2>2, <2>3, <2>4, <2>5, <2>7, <3>1 DEF Sound
  <2> QED  BY <2>1, <2>6, <2>7
<1> QED  BY <1>1, <1>7, <1>8

\* A step that only settles futures of the batch or of single calls.
LEMMA SettleSound ==
  ASSUME Sound, UNCHANGED <<item, queue>>, batch' \in {batch, <<>>},
         left' \in Nat, left' <= left, single' \subseteq single \cup ToSet(batch),
         fut' \in [Requests -> Outcome], \A r \in Requests : fut[r] # "new" => fut'[r] # "new",
         result' = [r \in Requests |-> result'[r]]
  PROVE  Sound'
<1>1. /\ ToSet(queue) \subseteq Requests /\ ToSet(batch) \subseteq Requests /\ single \subseteq Requests
      /\ ToSet(<<>>) = {}
  BY DEF Sound, ToSet
<1>2. ToSet(queue)' = ToSet(queue) /\ InOrder(queue)' = InOrder(queue)
  BY DEF ToSet, InOrder, Before
<1>3. batch' \in Seq(Requests) /\ ToSet(batch)' \subseteq ToSet(batch)
  <2>1. ToSet(batch)' = ToSet(batch')
    BY DEF ToSet
  <2>2. batch \in Seq(Requests) /\ <<>> \in Seq(Requests)
    BY DEF Sound
  <2>3. CASE batch' = batch
    BY <2>1, <2>2, <2>3
  <2>4. CASE batch' = <<>>
    BY <1>1, <2>1, <2>2, <2>4
  <2> QED  BY <2>3, <2>4
<1>4. left' <= MaxFaults
  BY BoundsAssumption DEF Sound
<1> QED  BY <1>1, <1>2, <1>3, <1>4 DEF Sound

\* Every step keeps the queue, the batch and the futures together.
LEMMA SoundNext == ASSUME Sound, [Next]_vars PROVE Sound'
<1>1. ASSUME NEW r \in Requests, Submit(r) PROVE Sound'
  BY <1>1, SubmitSound
<1>2. CASE Loop
  BY <1>2, LoopSound
<1>3. left \in Nat /\ (Fault => left' \in Nat /\ left' <= left)
  BY DEF Fault, Sound
<1>4. /\ fut \in [Requests -> Outcome] /\ result = [r \in Requests |-> result[r]]
  BY DEF Sound
<1>5. ASSUME NEW r \in Requests, Cancel(r) PROVE Sound'
  <2>1. /\ Fault /\ fut' = [fut EXCEPT ![r] = "cancelled"]
        /\ UNCHANGED <<item, queue, batch, single, result>>
    BY <1>5 DEF Cancel
  <2>2. fut' \in [Requests -> Outcome] /\ \A x \in Requests : fut[x] # "new" => fut'[x] # "new"
    BY <1>4, <2>1 DEF Outcome
  <2> QED  BY <1>3, <1>4, <2>1, <2>2, SettleSound
<1>6. CASE Awake \/ UNCHANGED vars
  <2>1. UNCHANGED <<item, queue, fut, result, batch, single, left>>
    BY <1>6 DEF Awake, vars
  <2> QED  BY <1>3, <1>4, <2>1, SettleSound DEF Sound
<1>7. CASE BatchDone
  <2> DEFINE B    == {r \in ToSet(batch) : Open(r)}
             G(r) == Split(Joined(batch), CHOOSE k \in DOMAIN batch : batch[k] = r)
  <2>1. /\ fut' = [r \in Requests |-> IF r \in B THEN "done" ELSE fut[r]]
        /\ result' = [r \in Requests |-> IF r \in B THEN G(r) ELSE result[r]]
        /\ batch' = <<>> /\ UNCHANGED <<item, queue, single, left>>
    BY <1>7 DEF BatchDone
  <2> HIDE DEF B, G
  <2>2. fut' \in [Requests -> Outcome] /\ \A x \in Requests : fut[x] # "new" => fut'[x] # "new"
    BY <1>4, <2>1 DEF Outcome
  <2>3. result' = [r \in Requests |-> result'[r]]
    BY <2>1
  <2> QED  BY <1>3, <2>1, <2>2, <2>3, SettleSound
<1>8. CASE BatchFails
  <2>1. Fault /\ batch' = <<>> /\ single' = {r \in ToSet(batch) : Open(r)} /\ UNCHANGED <<item, queue, fut, result>>
    BY <1>8 DEF BatchFails
  <2> QED  BY <1>3, <1>4, <2>1, SettleSound
<1>9. ASSUME NEW r \in Requests, SingleDone(r) PROVE Sound'
  <2>1. /\ single' = single \ {r} /\ UNCHANGED <<item, queue, batch>>
        /\ \/ /\ fut' = IF Open(r) THEN [fut EXCEPT ![r] = "done"] ELSE fut
              /\ result' = IF Open(r) THEN [result EXCEPT ![r] = Rows(r)] ELSE result
              /\ UNCHANGED left
           \/ /\ fut' = IF Open(r) THEN [fut EXCEPT ![r] = "failed"] ELSE fut
              /\ Fault /\ UNCHANGED result
    BY <1>9 DEF SingleDone
  <2>2. /\ fut' \in [Requests -> Outcome] /\ \A x \in Requests : fut[x] # "new" => fut'[x] # "new"
        /\ result' = [x \in Requests |-> result'[x]]
    BY <1>4, <2>1 DEF Outcome
  <2> QED  BY <1>3, <2>1, <2>2, SettleSound
<1> QED  BY <1>1, <1>2, <1>5, <1>6, <1>7, <1>8, <1>9 DEF Next, WorkerStep

\* So does the start.
LEMMA SoundInit == Init => Sound
<1> SUFFICES ASSUME Init PROVE Sound
  OBVIOUS
<1>1. ToSet(queue) = {} /\ ToSet(batch) = {} /\ InOrder(queue)
  BY DEF Init, ToSet, InOrder, Before
<1> QED  BY <1>1, BoundsAssumption DEF Init, Sound, Outcome

-----------------------------------------------------------------------------
(* Types.                                                                  *)

\* A batch of several is within the limit and of one class.
Whole(b) == Size(b) <= MaxBatch /\ \A i, j \in DOMAIN b : Class(b[i]) = Class(b[j])

\* What TypeOK says beyond Sound; a sleeping worker sleeps for a request.
Limits ==
  /\ Len(queue) <= MaxQueue /\ InOrder(batch) /\ wake \in BOOLEAN
  /\ worker \in {"none", "loop", "sleep", "batch", "single"}
  /\ over \subseteq Requests /\ overtaken \in [Requests -> Nat]
  /\ worker = "sleep" => seed \in Requests
  /\ worker = "batch" => Whole(batch)

\* Sound and Limits are the types, and a little more.
LEMMA LimitsTypes == ASSUME Sound, Limits PROVE TypeOK
<1>1. IsInjective(queue \o batch)
  BY ConcatOrder DEF Sound, Limits
<1>2. left \in 0..MaxFaults
  BY BoundsAssumption DEF Sound
<1> QED  BY <1>1, <1>2 DEF Sound, Limits, TypeOK, BatchFits, Whole, Outcome

\* A step that leaves the queue and the batch alone, or empties the batch.
LEMMA LimitsQuiet ==
  ASSUME Sound, Limits, UNCHANGED <<item, queue, overtaken>>,
         batch' = batch \/ (batch' = <<>> /\ worker' # "batch"),
         worker' \in {worker, "loop", "single"}, worker' = "sleep" => seed' = seed,
         wake' \in BOOLEAN, over' \subseteq Requests
  PROVE  Limits'
<1>1. InOrder(batch)'
  <2>1. CASE batch' = batch
    BY <2>1 DEF Limits, InOrder, Before
  <2>2. CASE batch' = <<>>
    BY <2>2 DEF InOrder, Before
  <2> QED  BY <2>1, <2>2
<1>2. (worker = "batch" => Whole(batch))'
  <2> SUFFICES ASSUME worker' = "batch" PROVE Whole(batch)'
    OBVIOUS
  <2>1. batch' = batch /\ worker = "batch"
    OBVIOUS
  <2> QED  BY <2>1 DEF Limits, Whole, Size, Sizes, Class
<1> QED  BY <1>1, <1>2 DEF Limits

\* Submit lets nobody in when the queue is full, and the queue only gets shorter otherwise.
LEMMA LimitsSubmit ==
  ASSUME Sound, Limits, NEW r \in Requests, Submit(r)
  PROVE  Limits'
<1>1. PICK D \in Late :
        \/ queue' = Kept(D) /\ UNCHANGED <<worker, wake>>
        \/ /\ Len(Kept(D)) < MaxQueue /\ queue' = Append(Kept(D), r)
           /\ wake' = TRUE /\ worker' = IF worker = "none" THEN "loop" ELSE worker
  <2>1. PICK D \in Late :
          IF Len(Kept(D)) >= MaxQueue
          THEN queue' = Kept(D) /\ UNCHANGED <<worker, wake>>
          ELSE /\ queue' = Append(Kept(D), r)
               /\ wake' = TRUE /\ worker' = IF worker = "none" THEN "loop" ELSE worker
    BY DEF Submit
  <2>2. Len(Kept(D)) \in Nat /\ MaxQueue \in Nat
    BY KeptLemma, BoundsAssumption
  <2> QED  BY <2>1, <2>2
<1>2. UNCHANGED <<item, seed, batch, over, overtaken>>
  BY DEF Submit
<1>3. Kept(D) \in Seq(Requests) /\ Len(Kept(D)) <= Len(queue)
  <2>1. Kept(D) \in Seq(Requests)
    BY KeptLemma
  <2> QED  BY <2>1, ThoseLemma DEF Kept, Sound
<1>4. Len(queue') <= MaxQueue
  <2>1. Len(queue) \in Nat /\ Len(queue) <= MaxQueue /\ MaxQueue \in Nat
    BY BoundsAssumption DEF Sound, Limits
  <2>2. Len(Append(Kept(D), r)) = Len(Kept(D)) + 1 /\ Len(Kept(D)) \in Nat
    BY <1>3
  <2> QED  BY <1>1, <1>3, <2>1, <2>2
<1>5. InOrder(batch)' /\ (worker' = "batch" => worker = "batch") /\ (worker = "batch" => Whole(batch)')
  BY <1>1, <1>2 DEF Limits, InOrder, Before, Whole, Size, Sizes, Class
<1>6. /\ worker' \in {"none", "loop", "sleep", "batch", "single"} /\ wake' \in BOOLEAN
      /\ worker' = "sleep" => worker = "sleep"
  BY <1>1 DEF Limits
<1> QED  BY <1>2, <1>4, <1>5, <1>6 DEF Limits

\* _take_fair_batch takes a batch within the limit, of the seed's class.
LEMMA LimitsLoop ==
  ASSUME Sound, Limits, Loop
  PROVE  Limits'
<1>1. PICK D \in Late : LoopEnds(Kept(D)) \/ LoopSleeps(Kept(D)) \/ LoopDispatches(Kept(D))
  BY DEF Loop
<1> DEFINE q == Kept(D)
<1>2. item' = item /\ worker = "loop"
  BY DEF Loop
<1>3. q \in Seq(Requests) /\ InOrder(q) /\ Len(q) <= MaxQueue
  <2>1. q \in Seq(Requests) /\ InOrder(q)
    BY KeptLemma
  <2>2. Len(q) <= Len(queue) /\ Len(queue) \in Nat /\ Len(q) \in Nat
    BY <2>1, ThoseLemma DEF Kept, Sound
  <2>3. Len(queue) <= MaxQueue /\ MaxQueue \in Nat
    BY BoundsAssumption DEF Limits
  <2> HIDE DEF q
  <2> QED  BY <2>1, <2>2, <2>3
<1>4. InputOK /\ \A r \in Requests : item[r].priority \in {0, 1}
  BY InputLemma DEF Sound
<1> HIDE DEF q
<1>5. CASE LoopEnds(q)
  BY <1>2, <1>3, <1>5 DEF LoopEnds, Limits, InOrder, Before
<1>6. CASE LoopSleeps(q)
  <2>1. q # <<>> /\ seed' = Seed(q) /\ wake' = FALSE /\ worker' = "sleep" /\ queue' = q /\ UNCHANGED <<batch, over, overtaken>>
    BY <1>6 DEF LoopSleeps
  <2>2. Seed(q) \in Requests
    BY <1>3, <1>4, <2>1, SeedLemma
  <2> QED  BY <1>2, <1>3, <2>1, <2>2 DEF Limits, InOrder, Before
<1>7. CASE LoopDispatches(q)
  <2> DEFINE C    == Candidates(q)
             new  == FairBatch(C)
             rest == Those(q, Requests \ ToSet(new))
  <2>1. /\ q # <<>> /\ queue' = rest /\ wake' = wake
        /\ \/ worker' = "single" /\ UNCHANGED batch
           \/ Len(new) # 1 /\ worker' = "batch" /\ batch' = new
        /\ over' = IF Size(C) < MaxBatch THEN over \cup {Seed(q)} ELSE over
        /\ overtaken' = [r \in Requests |-> IF r = Seed(q) /\ r \notin ToSet(new) THEN overtaken[r] + 1 ELSE 0]
    BY <1>7 DEF LoopDispatches
  <2>2. /\ Seed(q) \in Requests /\ C \in Seq(Requests) /\ InOrder(C) /\ C # <<>>
        /\ \A b \in ToSet(C) : Class(b) = Class(Seed(q))
    BY <1>3, <1>4, <2>1, SeedLemma
  <2> HIDE DEF C
  <2>3. new \in Seq(Requests) /\ ToSet(new) \subseteq ToSet(C) /\ Limited(new)
    BY <1>4, <2>2, FairBatchLemma, BatchLimited
  <2> HIDE DEF new
  <2>4. Len(rest) <= MaxQueue
    <3>1. Len(rest) <= Len(q) /\ rest \in Seq(Requests)
      BY <1>3, ThoseLemma
    <3> HIDE DEF rest
    <3>2. Len(rest) \in Nat /\ Len(q) \in Nat /\ MaxQueue \in Nat
      BY <1>3, <3>1, BoundsAssumption
    <3> QED  BY <1>3, <3>1, <3>2
  <2> HIDE DEF rest
  <2>5. over' \subseteq Requests /\ overtaken' \in [Requests -> Nat]
    BY <2>1, <2>2 DEF Limits
  <2>6. CASE worker' = "single" /\ UNCHANGED batch
    BY <1>2, <2>1, <2>4, <2>5, <2>6 DEF Limits, InOrder, Before
  <2>7. CASE Len(new) # 1 /\ worker' = "batch" /\ batch' = new
    <3>1. InOrder(batch)'
      BY <2>3, <2>7 DEF InOrder, Before, Limited
    <3>2. Size(new) <= MaxBatch
      <4>1. CASE Len(new) = 0
        <5>1. Sized
          BY <1>4 DEF InputOK, Sized
        <5>2. Size(new) = 0
          BY <2>3, <4>1, <5>1, SizesLemma DEF Size
        <5> QED  BY <5>2, BoundsAssumption
      <4>2. CASE Len(new) # 0
        <5>1. Len(new) \in Nat
          BY <2>3
        <5>2. ~(Len(new) <= 1)
          BY <2>7, <4>2, <5>1
        <5> QED  BY <2>3, <5>2 DEF Limited
      <4> QED  BY <4>1, <4>2
    <3>3. \A i, j \in DOMAIN new : Class(new[i]) = Class(new[j])
      <4>1. \A i \in DOMAIN new : new[i] \in ToSet(C)
        BY <2>3 DEF ToSet
      <4> HIDE DEF C
      <4> QED  BY <2>2, <4>1
    <3>4. Whole(new)
      BY <3>2, <3>3 DEF Whole
    <3>5. Whole(batch)'
      BY <1>2, <2>7, <3>4 DEF Whole, Size, Sizes, Class
    <3> QED  BY <2>1, <2>4, <2>5, <2>7, <3>1, <3>5 DEF Limits
  <2> QED  BY <2>1, <2>6, <2>7
<1> QED  BY <1>1, <1>5, <1>6, <1>7 DEF q

\* Every step keeps the bounds.
LEMMA LimitsNext == ASSUME Sound, Limits, [Next]_vars PROVE Limits'
<1>1. ASSUME NEW r \in Requests, Submit(r) PROVE Limits'
  BY <1>1, LimitsSubmit
<1>2. CASE Loop
  BY <1>2, LimitsLoop
<1>3. wake \in BOOLEAN /\ over \subseteq Requests
  BY DEF Limits
<1>4. ASSUME NEW r \in Requests, Cancel(r) PROVE Limits'
  BY <1>3, <1>4, LimitsQuiet DEF Cancel
<1>5. CASE UNCHANGED vars
  BY <1>3, <1>5, LimitsQuiet DEF vars
<1>6. CASE Awake
  <2>1. over' \subseteq Requests
    BY <1>3, <1>6 DEF Awake, Limits
  <2> QED  BY <1>3, <1>6, <2>1, LimitsQuiet DEF Awake
<1>7. CASE BatchDone
  BY <1>3, <1>7, LimitsQuiet DEF BatchDone
<1>8. CASE BatchFails
  <2>1. worker' \in {"loop", "single"} /\ batch' = <<>> /\ UNCHANGED <<item, queue, overtaken, wake, over>>
    BY <1>8 DEF BatchFails
  <2> QED  BY <1>3, <2>1, LimitsQuiet
<1>9. ASSUME NEW r \in Requests, SingleDone(r) PROVE Limits'
  <2>1. worker = "single" /\ worker' \in {worker, "loop"} /\ UNCHANGED <<item, queue, batch, overtaken, wake, over>>
    BY <1>9 DEF SingleDone
  <2> QED  BY <1>3, <2>1, LimitsQuiet
<1> QED  BY <1>1, <1>2, <1>4, <1>5, <1>6, <1>7, <1>8, <1>9 DEF Next, WorkerStep

\* So does the start.
LEMMA LimitsInit == Init => Limits
<1> SUFFICES ASSUME Init PROVE Limits
  OBVIOUS
<1>1. InOrder(batch) /\ Len(queue) <= MaxQueue
  <2>1. queue = <<>> /\ batch = <<>>
    BY DEF Init
  <2>2. InOrder(<<>>) /\ Len(<<>>) = 0
    BY DEF InOrder, Before
  <2> QED  BY <2>1, <2>2, BoundsAssumption
<1>2. overtaken \in [Requests -> Nat] /\ over = {} /\ wake = FALSE /\ worker = "none"
  BY DEF Init
<1> QED  BY <1>1, <1>2 DEF Limits

-----------------------------------------------------------------------------
(* A caller's rows are its own.                                            *)

\* Only the two places that answer write a result, each with the rows of its request.
LEMMA OwnNext ==
  ASSUME Sound, ResultIsOwn, [Next]_vars
  PROVE  ResultIsOwn'
<1>1. /\ fut \in [Requests -> Outcome] /\ result = [r \in Requests |-> result[r]] /\ item' = item
  BY DEF Sound, Next, WorkerStep, Submit, Cancel, Loop, Awake, BatchDone, BatchFails, SingleDone, vars
<1>2. \A r \in Requests : Rows(r)' = Rows(r)
  BY <1>1 DEF Rows
<1>3. ASSUME \A r \in Requests : fut'[r] = "done" => result'[r] = Rows(r) PROVE ResultIsOwn'
  BY <1>2, <1>3 DEF ResultIsOwn
<1>4. ASSUME NEW D \in Late, NEW r \in Requests, Timed(D)[r] = "done" PROVE result[r] = Rows(r)
  BY <1>4 DEF Timed, ResultIsOwn
<1>5. ASSUME NEW r \in Requests, Submit(r) PROVE ResultIsOwn'
  <2>1. PICK D \in Late : fut' \in {[Timed(D) EXCEPT ![r] = "rejected"], [Timed(D) EXCEPT ![r] = "pending"]}
    BY <1>5 DEF Submit
  <2>2. result' = result
    BY <1>5 DEF Submit
  <2>3. \A x \in Requests : fut'[x] = "done" => Timed(D)[x] = "done"
    BY <2>1 DEF Timed
  <2> QED  BY <1>3, <1>4, <2>2, <2>3
<1>6. ASSUME NEW r \in Requests, Cancel(r) PROVE ResultIsOwn'
  BY <1>1, <1>3, <1>6 DEF Cancel, ResultIsOwn
<1>7. CASE Loop
  BY <1>3, <1>4, <1>7 DEF Loop
<1>8. CASE Awake \/ BatchFails \/ UNCHANGED vars
  BY <1>3, <1>8 DEF Awake, BatchFails, vars, ResultIsOwn
<1>9. CASE BatchDone
  <2> DEFINE B     == {r \in ToSet(batch) : Open(r)}
             Of(r) == CHOOSE k \in DOMAIN batch : batch[k] = r
             G(r)  == Split(Joined(batch), Of(r))
  <2>1. /\ fut' = [r \in Requests |-> IF r \in B THEN "done" ELSE fut[r]]
        /\ result' = [r \in Requests |-> IF r \in B THEN G(r) ELSE result[r]]
    BY <1>9 DEF BatchDone
  <2>2. ASSUME NEW r \in B PROVE G(r) = Rows(r)
    <3>1. \E k \in DOMAIN batch : batch[k] = r
      BY DEF ToSet
    <3>2. Of(r) \in DOMAIN batch /\ batch[Of(r)] = r
      BY <3>1
    <3>3. Sized /\ batch \in Seq(Requests)
      BY InputLemma DEF Sound
    <3> HIDE DEF Of
    <3> QED  BY <3>2, <3>3, SplitLemma
  <2> HIDE DEF B, G
  <2> QED  BY <1>3, <2>1, <2>2 DEF ResultIsOwn
<1>10. ASSUME NEW r \in Requests, SingleDone(r) PROVE ResultIsOwn'
  <2>1. \/ /\ fut' = IF Open(r) THEN [fut EXCEPT ![r] = "done"] ELSE fut
           /\ result' = IF Open(r) THEN [result EXCEPT ![r] = Rows(r)] ELSE result
        \/ /\ fut' = IF Open(r) THEN [fut EXCEPT ![r] = "failed"] ELSE fut
           /\ UNCHANGED result
    BY <1>10 DEF SingleDone
  <2>2. \A x \in Requests : fut'[x] = "done" => result'[x] = Rows(x)
    BY <1>1, <2>1 DEF ResultIsOwn
  <2> QED  BY <1>3, <2>2
<1> QED  BY <1>5, <1>6, <1>7, <1>8, <1>9, <1>10 DEF Next, WorkerStep

\* No batch is larger than max_batch_size allows or of several classes, the queue stays within
\* its limit, nobody is queued or batched twice; and whatever is batched with whatever, and
\* whichever of the batch were cancelled meanwhile, the rows _dispatch cuts out of the outputs
\* for a caller, and those _execute_one gives it, are the rows of its own input.
THEOREM OwnRows == Spec => []BatchesAreSound
<1>1. Init => Sound /\ Limits /\ ResultIsOwn
  BY SoundInit, LimitsInit DEF Init, ResultIsOwn
<1>2. Sound /\ Limits /\ ResultIsOwn /\ [Next]_vars => Sound' /\ Limits' /\ ResultIsOwn'
  BY SoundNext, LimitsNext, OwnNext
<1>3. Sound /\ Limits /\ ResultIsOwn => BatchesAreSound
  BY LimitsTypes DEF BatchesAreSound
<1> QED  BY <1>1, <1>2, <1>3, PTL DEF Spec

-----------------------------------------------------------------------------
(* Who is passed over how often.                                           *)

\* The callers that left, and the calls that failed.
Spent == MaxFaults - left

\* A request that was passed over is the oldest of its class, and was passed over no more often
\* than scopes have gone ahead of it and callers left the queue.
Ranked(r) ==
  /\ overtaken[r] \in Nat
  /\ overtaken[r] > 0 =>
       /\ fut[r] # "new" /\ last \in AllScopes /\ overtaken[r] < Cardinality(AllScopes) + Spent
       /\ r \in ToSet(queue) /\ fut[r] = "pending" =>
            /\ Oldest(queue, r)
            /\ overtaken[r] + 1 <= Cardinality(Passed(queue, fut, last, r)) + Spent

\* The invariant: a rank for every request, where requests are of one size.
Ranks == /\ overtaken = [r \in Requests |-> overtaken[r]]
         /\ Uniform => \A r \in Requests : Ranked(r)

\* There are finitely many scopes, and no more can have passed.
LEMMA ScopesLemma ==
  /\ IsFiniteSet(AllScopes) /\ Cardinality(AllScopes) \in Nat
  /\ \A q, f, l, r : l \in AllScopes => Cardinality(Passed(q, f, l, r)) <= Cardinality(AllScopes)
<1>1. IsFiniteSet(AllScopes)
  <2>1. IsFiniteSet(Requests)
    BY BoundsAssumption
  <2>2. [d \in Requests |-> item[d].scope] \in Surjection(Requests, AllScopes)
    BY DEF Surjection, AllScopes
  <2> QED  BY <2>1, <2>2, FS_Surjection
<1>2. ASSUME NEW q, NEW f, NEW l \in AllScopes, NEW r PROVE Passed(q, f, l, r) \subseteq AllScopes
  BY DEF Passed
<1> QED  BY <1>1, <1>2, FS_Subset, FS_CardinalityType

\* A step that takes nothing for a batch leaves every rank.
LEMMA RankKept ==
  ASSUME Sound, Sound', NEW r \in Requests, Ranked(r), NEW D \in SUBSET Requests,
         overtaken'[r] = overtaken[r], last' = last, left' <= left - Cardinality(D),
         item' = item, fut[r] # "new" => fut'[r] # "new",
         overtaken[r] > 0 /\ r \in ToSet(queue') /\ fut'[r] = "pending" => r \in ToSet(queue),
         Drops(D, queue, fut, queue', fut')
  PROVE  Ranked(r)'
<1> DEFINE X  == Passed(queue, fut, last, r)
           Y  == Passed(queue', fut', last, r)
           k  == overtaken[r]
<1>1. /\ AllScopes' = AllScopes /\ Oldest(queue, r)' = Oldest(queue', r) /\ ToSet(queue)' = ToSet(queue')
      /\ Passed(queue, fut, last, r)' = Y
  BY DEF AllScopes, Oldest, Passed, Live, Class, Before, ToSet
<1>2. CASE k > 0
  <2>1. last \in AllScopes /\ k \in Nat /\ k < Cardinality(AllScopes) + Spent
    BY <1>2 DEF Ranked
  <2>2. /\ IsFiniteSet(X) /\ IsFiniteSet(Y) /\ IsFiniteSet(D)
        /\ Cardinality(X) <= Cardinality(Y) + Cardinality(D)
        /\ r \in ToSet(queue') /\ Oldest(queue, r) => Oldest(queue', r)
    BY <2>1, DropLemma
  <2> HIDE DEF X, Y
  <2>3. Cardinality(X) \in Nat /\ Cardinality(Y) \in Nat /\ Cardinality(D) \in Nat /\ Cardinality(AllScopes) \in Nat
    BY <2>2, ScopesLemma, FS_CardinalityType
  <2>4. left \in Nat /\ left' \in Nat /\ MaxFaults \in Nat /\ left' <= left - Cardinality(D)
    BY BoundsAssumption DEF Sound
  <2>5. Spent \in Int /\ Spent' \in Int /\ Spent + Cardinality(D) <= Spent'
    BY <2>3, <2>4 DEF Spent
  <2>6. k < Cardinality(AllScopes) + Spent'
    BY <2>1, <2>3, <2>5
  <2>7. fut[r] # "new" /\ fut'[r] # "new"
    BY <1>2 DEF Ranked
  <2>8. ASSUME r \in ToSet(queue'), fut'[r] = "pending"
        PROVE  Oldest(queue', r) /\ k + 1 <= Cardinality(Y) + Spent'
    <3>1. r \in ToSet(queue) /\ fut[r] = "pending"
      BY <1>2, <2>8 DEF Drops
    <3>2. Oldest(queue, r) /\ k + 1 <= Cardinality(X) + Spent
      BY <1>2, <3>1 DEF Ranked, X
    <3> QED  BY <2>1, <2>2, <2>3, <2>5, <2>8, <3>2
  <2> QED  BY <1>1, <2>1, <2>6, <2>7, <2>8 DEF Ranked, Y
<1>3. CASE k = 0
  BY <1>3 DEF Ranked
<1> QED  BY <1>2, <1>3 DEF Ranked

\* A step that touches neither the queue nor what waits in it.
LEMMA RankStays ==
  ASSUME Sound, Sound', Ranks, NEW d \in SUBSET Requests, UNCHANGED <<item, queue, overtaken, last>>,
         left' <= left - Cardinality(d),
         \A r \in Requests : fut[r] # "new" => fut'[r] # "new",
         \A a \in ToSet(queue) : a \notin d => fut'[a] = fut[a],
         \A a \in ToSet(queue) : fut'[a] = "pending" => fut[a] = "pending"
  PROVE  Ranks'
<1>1. Uniform' = Uniform
  BY DEF Uniform
<1>3. Drops(d, queue, fut, queue', fut')
  BY DEF Drops
<1>2. ASSUME Uniform, NEW r \in Requests PROVE Ranked(r)'
  BY <1>2, <1>3, RankKept DEF Ranks
<1> QED  BY <1>1, <1>2 DEF Ranks

\* submit puts its request behind all others.
LEMMA RankSubmit ==
  ASSUME Sound, Sound', Ranks, NEW r \in Requests, Submit(r)
  PROVE  Ranks'
<1>1. PICK D \in Late :
        /\ left' = left - Cardinality(D)
        /\ \/ queue' = Kept(D) /\ fut' = [Timed(D) EXCEPT ![r] = "rejected"]
           \/ queue' = Append(Kept(D), r) /\ fut' = [Timed(D) EXCEPT ![r] = "pending"]
  BY DEF Submit
<1>2. fut[r] = "new" /\ UNCHANGED <<item, overtaken, last>>
  BY DEF Submit
<1>3. /\ D \in SUBSET Requests /\ left - Cardinality(D) \in Nat
      /\ Kept(D) \in Seq(Requests)
      /\ \A b : b \in ToSet(Kept(D)) <=> b \in ToSet(queue) /\ fut[b] = "pending" /\ b \notin D
      /\ \A a, b \in ToSet(Kept(D)) : Before(queue, a, b) => Before(Kept(D), a, b)
      /\ Timed(D) \in [Requests -> Outcome]
      /\ \A x \in Requests : Timed(D)[x] = IF x \in D THEN "timeout" ELSE fut[x]
  BY KeptLemma
<1>4. r \notin ToSet(queue) /\ ToSet(queue) \subseteq Requests
  BY <1>2 DEF Sound, ToSet
<1>5. \A x \in Requests \ {r} : fut'[x] = IF x \in D THEN "timeout" ELSE fut[x]
  BY <1>1, <1>3
<1>6. fut'[r] # "new"
  BY <1>1, <1>3
<1>7. Drops(D, queue, fut, queue', fut')
  <2>1. CASE queue' = Kept(D)
    BY <1>3, <1>4, <1>5, <2>1 DEF Drops
  <2>2. CASE queue' = Append(Kept(D), r)
    <3>1. /\ ToSet(queue') = ToSet(Kept(D)) \cup {r}
          /\ \A a, b : Before(queue', a, b) <=> Before(Kept(D), a, b) \/ (a \in ToSet(Kept(D)) /\ b = r)
      BY <1>3, <2>2, AppendLemma
    <3>2. \A a, b : Before(queue, a, b) => a \in ToSet(queue) /\ b \in ToSet(queue)
      BY DEF Before, ToSet
    <3> QED  BY <1>3, <1>4, <1>5, <3>1, <3>2 DEF Drops
  <2> QED  BY <1>1, <2>1, <2>2
<1>8. Uniform' = Uniform
  BY <1>2 DEF Uniform
<1>9. ASSUME Uniform, NEW x \in Requests PROVE Ranked(x)'
  <2>1. Ranked(x)
    BY <1>9 DEF Ranks
  <2>2. left' <= left - Cardinality(D) /\ overtaken'[x] = overtaken[x] /\ last' = last /\ item' = item
    BY <1>1, <1>2, <1>3
  <2>3. fut[x] # "new" => fut'[x] # "new"
    BY <1>2, <1>5
  <2>4. overtaken[x] > 0 /\ x \in ToSet(queue') /\ fut'[x] = "pending" => x \in ToSet(queue)
    <3>1. overtaken[x] > 0 => x # r
      BY <1>2, <2>1 DEF Ranked
    <3>2. \A b \in ToSet(queue') : b \in ToSet(queue) \/ b = r
      <4>1. CASE queue' = Kept(D)
        BY <1>3, <4>1
      <4>2. CASE queue' = Append(Kept(D), r)
        BY <1>3, <4>2, AppendLemma
      <4> QED  BY <1>1, <4>1, <4>2
    <3> QED  BY <3>1, <3>2
  <2> QED  BY <1>3, <1>7, <2>1, <2>2, <2>3, <2>4, RankKept
<1> QED  BY <1>2, <1>8, <1>9 DEF Ranks

\* _run: a batch without the seed puts one more scope ahead of it, and no other request has a
\* rank afterwards.
LEMMA RankLoop ==
  ASSUME Sound, Sound', Ranks, Loop
  PROVE  Ranks'
<1>1. PICK D \in Late : /\ left' = left - Cardinality(D) /\ fut' = Timed(D)
                        /\ LoopEnds(Kept(D)) \/ LoopSleeps(Kept(D)) \/ LoopDispatches(Kept(D))
  BY DEF Loop
<1>2. item' = item
  BY DEF Loop
<1>3. /\ D \in SUBSET Requests /\ IsFiniteSet(D) /\ left - Cardinality(D) \in Nat /\ Cardinality(D) \in Nat
      /\ Kept(D) \in Seq(Requests) /\ InOrder(Kept(D))
      /\ \A b : b \in ToSet(Kept(D)) <=> b \in ToSet(queue) /\ fut[b] = "pending" /\ b \notin D
      /\ \A a, b \in ToSet(Kept(D)) : Before(queue, a, b) => Before(Kept(D), a, b)
      /\ Timed(D) \in [Requests -> Outcome]
      /\ \A x \in Requests : Timed(D)[x] = IF x \in D THEN "timeout" ELSE fut[x]
  BY KeptLemma
<1>4. ToSet(queue) \subseteq Requests
  BY DEF Sound, ToSet
<1>5. Drops(D, queue, fut, Kept(D), Timed(D))
  BY <1>3, <1>4 DEF Drops
<1>6. \A x \in Requests : fut[x] # "new" => fut'[x] # "new"
  BY <1>1, <1>3
<1>7. Uniform' = Uniform
  BY <1>2 DEF Uniform
<1>8. CASE LoopEnds(Kept(D)) \/ LoopSleeps(Kept(D))
  <2>1. queue' = Kept(D) /\ UNCHANGED <<last, overtaken>>
    BY <1>8 DEF LoopEnds, LoopSleeps
  <2>2. ASSUME Uniform, NEW x \in Requests PROVE Ranked(x)'
    <3>1. Ranked(x)
      BY <2>2 DEF Ranks
    <3>2. left' <= left - Cardinality(D) /\ overtaken'[x] = overtaken[x]
      BY <1>1, <1>3, <2>1
    <3>3. Drops(D, queue, fut, queue', fut')
      BY <1>1, <1>5, <2>1
    <3>4. x \in ToSet(queue') => x \in ToSet(queue)
      BY <1>3, <2>1
    <3> QED  BY <1>2, <1>3, <1>6, <2>1, <3>1, <3>2, <3>3, <3>4, RankKept
  <2> QED  BY <1>7, <2>1, <2>2 DEF Ranks
<1>9. CASE LoopDispatches(Kept(D))
  <2> DEFINE q    == Kept(D)
             s    == Seed(q)
             new  == FairBatch(Candidates(q))
             rest == Those(q, Requests \ ToSet(new))
             l2   == item[Last(new)].scope
  <2>1. /\ q # <<>> /\ queue' = rest /\ last' = l2
        /\ overtaken' = [r \in Requests |-> IF r = s /\ r \notin ToSet(new) THEN overtaken[r] + 1 ELSE 0]
    BY <1>9 DEF LoopDispatches
  <2>2. InputOK /\ \A r \in Requests : item[r].priority \in {0, 1}
    BY InputLemma DEF Sound
  <2>3. s \in ToSet(q) /\ s \in Requests
    BY <1>3, <2>1, <2>2, SeedLemma
  <2>4. ASSUME Uniform, NEW r \in Requests, r = s, r \notin ToSet(new) PROVE Ranked(r)'
    <3> DEFINE X == Passed(queue, fut, last, r)
               Y == Passed(q, fut', last, r)
               Z == Passed(rest, fut', l2, r)
               k == overtaken[r]
    <3>1. \A b \in ToSet(q) : fut'[b] = "pending"
      BY <1>1, <1>3, <1>4
    <3>2. /\ r \in ToSet(rest) /\ Oldest(rest, r)
          /\ item[r].scope \in Y
          /\ l2 \in AllScopes /\ l2 \notin Y /\ Y \cup {l2} \subseteq Z
      <4> HIDE DEF q, rest, new
      <4> QED  BY <1>3, <2>1, <2>2, <2>4, <3>1, PassLemma DEF q, rest, new, s
    <3> HIDE DEF q, s, new, rest, l2, X, Y, Z
    <3>3. Ranked(r) /\ k \in Nat
      BY <2>4 DEF Ranks, Ranked
    <3>4. /\ Passed(queue, fut, last, r)' = Z /\ Oldest(queue, r)' = Oldest(rest, r)
          /\ AllScopes' = AllScopes
      BY <1>2, <2>1 DEF Z, Passed, Live, Class, Before, AllScopes, Oldest, ToSet
    <3>5. IsFiniteSet(AllScopes) /\ Cardinality(AllScopes) \in Nat /\ Cardinality(Z) <= Cardinality(AllScopes)
      BY <3>2, ScopesLemma DEF Z
    <3>6. /\ IsFiniteSet(Z) /\ IsFiniteSet(Y) /\ Cardinality(Y) \in Nat /\ Cardinality(Z) \in Nat
          /\ Cardinality(Y) + 1 <= Cardinality(Z)
      <4>1. Z \subseteq AllScopes
        BY <3>2 DEF Z, Passed
      <4>2. IsFiniteSet(Z) /\ IsFiniteSet(Y) /\ IsFiniteSet(Y \cup {l2})
        BY <3>2, <3>5, <4>1, FS_Subset
      <4>3. Cardinality(Y \cup {l2}) = Cardinality(Y) + 1 /\ Cardinality(Y \cup {l2}) <= Cardinality(Z)
        BY <3>2, <4>2, FS_AddElement, FS_Subset
      <4> QED  BY <4>2, <4>3, FS_CardinalityType
    <3>7. /\ left \in Nat /\ left' \in Nat /\ left <= MaxFaults /\ left' <= MaxFaults
          /\ MaxFaults \in Nat /\ left' = left - Cardinality(D)
      BY <1>1, BoundsAssumption DEF Sound
    <3>8. Spent \in Nat /\ Spent' \in Nat /\ Spent + Cardinality(D) = Spent'
      BY <1>3, <3>7 DEF Spent
    <3>9. k + 1 <= Cardinality(Y) + Spent'
      <4>1. CASE k = 0
        <5>1. Y # {}
          BY <3>2
        <5>2. Cardinality(Y) # 0
          BY <3>6, <5>1, FS_EmptySet
        <5> QED  BY <3>6, <3>8, <4>1, <5>2
      <4>2. CASE k > 0
        <5>1. r \in ToSet(queue) /\ fut[r] = "pending"
          BY <1>3, <2>3, <2>4 DEF q
        <5>2. last \in AllScopes /\ k + 1 <= Cardinality(X) + Spent
          BY <3>3, <4>2, <5>1 DEF Ranked, X
        <5>3. Drops(D, queue, fut, q, fut')
          BY <1>1, <1>5 DEF q
        <5>4. IsFiniteSet(X) /\ Cardinality(X) <= Cardinality(Y) + Cardinality(D)
          BY <1>3, <5>2, <5>3, DropLemma DEF X, Y
        <5>5. Cardinality(X) \in Nat
          BY <5>4, FS_CardinalityType
        <5>6. Cardinality(D) \in Nat
          BY <1>3
        <5> QED  BY <3>3, <3>6, <3>8, <5>2, <5>4, <5>5, <5>6
      <4> QED  BY <3>3, <4>1, <4>2
    <3>10. k + 2 <= Cardinality(Z) + Spent' /\ k + 1 < Cardinality(AllScopes) + Spent'
      BY <3>3, <3>5, <3>6, <3>8, <3>9
    <3>11. overtaken'[r] = k + 1
      BY <2>1, <2>3, <2>4 DEF k
    <3>12. fut'[r] # "new"
      BY <2>3, <2>4, <3>1
    <3> QED  BY <2>1, <3>2, <3>3, <3>4, <3>10, <3>11, <3>12 DEF Ranked
  <2>5. ASSUME Uniform, NEW x \in Requests, x # s \/ x \in ToSet(new) PROVE Ranked(x)'
    <3>1. overtaken'[x] = 0
      BY <2>1, <2>5
    <3> QED  BY <3>1 DEF Ranked
  <2>6. overtaken' = [r \in Requests |-> overtaken'[r]]
    BY <2>1
  <2> HIDE DEF s, new, rest
  <2>7. ASSUME Uniform, NEW x \in Requests PROVE Ranked(x)'
    BY <2>4, <2>5, <2>7
  <2> QED  BY <1>7, <2>6, <2>7 DEF Ranks
<1> QED  BY <1>1, <1>8, <1>9

\* Every step keeps the ranks.
LEMMA RankNext ==
  ASSUME Sound, Sound', Ranks, [Next]_vars
  PROVE  Ranks'
<1>1. ASSUME NEW r \in Requests, Submit(r) PROVE Ranks'
  BY <1>1, RankSubmit
<1>2. CASE Loop
  BY <1>2, RankLoop
<1>3. /\ left \in Nat /\ Cardinality({}) = 0
      /\ \A r \in Requests : IsFiniteSet({r}) /\ Cardinality({r}) = 1
      /\ fut \in [Requests -> Outcome] /\ ToSet(queue) \subseteq Requests
  <2>1. Cardinality({}) = 0
    BY FS_EmptySet
  <2>2. \A r \in Requests : IsFiniteSet({r}) /\ Cardinality({r}) = 1
    BY FS_Singleton
  <2> QED  BY <2>1, <2>2 DEF Sound, ToSet
<1>4. ASSUME NEW r \in Requests, Cancel(r) PROVE Ranks'
  <2>1. /\ fut' = [fut EXCEPT ![r] = "cancelled"] /\ left' = left - 1
        /\ UNCHANGED <<item, queue, overtaken, last>>
    BY <1>4 DEF Cancel, Fault
  <2>2. left' <= left - Cardinality({r}) /\ {r} \in SUBSET Requests
    BY <1>3, <2>1
  <2>3. /\ \A x \in Requests : fut[x] # "new" => fut'[x] # "new"
        /\ \A a \in ToSet(queue) : a \notin {r} => fut'[a] = fut[a]
        /\ \A a \in ToSet(queue) : fut'[a] = "pending" => fut[a] = "pending"
    BY <1>3, <2>1
  <2> QED  BY <2>1, <2>2, <2>3, RankStays
<1>5. CASE Awake \/ BatchDone \/ BatchFails \/ (\E r \in Requests : SingleDone(r)) \/ UNCHANGED vars
  <2>1. UNCHANGED <<item, queue, overtaken, last>>
    BY <1>5 DEF Awake, BatchDone, BatchFails, SingleDone, vars
  <2>2. left' <= left - Cardinality({})
    <3>1. left' = left \/ left' = left - 1
      BY <1>5 DEF Awake, BatchDone, BatchFails, SingleDone, vars, Fault
    <3> QED  BY <1>3, <3>1
  <2>3. \A x \in Requests : \/ fut'[x] = fut[x]
                            \/ x \in ToSet(batch) \cup single /\ fut'[x] # "new" /\ fut'[x] # "pending"
    <3>1. CASE Awake \/ BatchFails \/ UNCHANGED vars
      BY <3>1 DEF Awake, BatchFails, vars
    <3>2. CASE BatchDone
      BY <3>2 DEF BatchDone
    <3>3. ASSUME NEW r \in Requests, SingleDone(r), NEW x \in Requests
          PROVE  fut'[x] = fut[x] \/ (x \in single /\ fut'[x] \in {"done", "failed"})
      BY <1>3, <3>3 DEF SingleDone
    <3> QED  BY <1>5, <3>1, <3>2, <3>3
  <2>4. /\ \A x \in Requests : fut[x] # "new" => fut'[x] # "new"
        /\ \A a \in ToSet(queue) : a \notin {} => fut'[a] = fut[a]
        /\ \A a \in ToSet(queue) : fut'[a] = "pending" => fut[a] = "pending"
    BY <1>3, <2>3 DEF Sound
  <2> QED  BY <2>1, <2>2, <2>4, RankStays
<1> QED  BY <1>1, <1>2, <1>4, <1>5 DEF Next, WorkerStep

\* Among requests of one size the one that has waited longest in the best priority is left out
\* of fewer batches in a row than there are scopes, plus one for each waiting caller that left:
\* _last_scope goes round whatever is submitted, cancelled or late meanwhile.
THEOREM PassedOver == Spec => []RarelyOvertaken
<1>1. Init => Sound /\ Ranks
  BY SoundInit DEF Init, Ranks, Ranked
<1>2. Sound /\ Ranks /\ [Next]_vars => Sound' /\ Ranks'
  BY SoundNext, RankNext
<1>3. ASSUME Sound, Ranks PROVE RarelyOvertaken
  <2> SUFFICES ASSUME Uniform, NEW r \in Requests PROVE overtaken[r] < Cardinality(AllScopes) + (MaxFaults - left)
    BY DEF RarelyOvertaken
  <2>1. CASE overtaken[r] > 0
    BY <1>3, <2>1 DEF Ranks, Ranked, Spent
  <2>2. CASE ~(overtaken[r] > 0)
    <3>1. overtaken[r] = 0
      BY <1>3, <2>2 DEF Ranks, Ranked
    <3>2. AllScopes # {} /\ IsFiniteSet(AllScopes) /\ Cardinality(AllScopes) \in Nat
      BY ScopesLemma DEF AllScopes
    <3>3. Cardinality(AllScopes) # 0
      BY <3>2, FS_EmptySet
    <3>4. left \in Nat /\ left <= MaxFaults /\ MaxFaults \in Nat
      BY <1>3, BoundsAssumption DEF Sound
    <3> QED  BY <3>1, <3>2, <3>3, <3>4
  <2> QED  BY <2>1, <2>2
<1> QED  BY <1>1, <1>2, <1>3, PTL DEF Spec

-----------------------------------------------------------------------------
(* Every step writes only futures that are open.                           *)

\* The types of the futures and of what they were given.
Futures == fut \in [Requests -> Outcome] /\ result = [r \in Requests |-> result[r]]

\* The future of r has an outcome.
Settled(r) == fut[r] \notin {"new", "pending"}

\* Every step keeps these types.
LEMMA FuturesNext == ASSUME Futures, [Next]_vars PROVE Futures'
<1> USE DEF Futures, Outcome
<1>1. ASSUME NEW D \in Late PROVE Timed(D) \in [Requests -> Outcome]
  BY DEF Timed
<1>2. ASSUME NEW r \in Requests, Submit(r) \/ Cancel(r) PROVE Futures'
  BY <1>1, <1>2 DEF Submit, Cancel
<1>3. CASE Loop \/ Awake \/ BatchFails
  BY <1>1, <1>3 DEF Loop, Awake, BatchFails
<1>4. CASE BatchDone
  <2> DEFINE B    == {r \in ToSet(batch) : Open(r)}
             G(r) == Split(Joined(batch), CHOOSE k \in DOMAIN batch : batch[k] = r)
  <2>1. /\ fut' = [r \in Requests |-> IF r \in B THEN "done" ELSE fut[r]]
        /\ result' = [r \in Requests |-> IF r \in B THEN G(r) ELSE result[r]]
    BY <1>4 DEF BatchDone
  <2> HIDE DEF B, G
  <2>2. fut' \in [Requests -> Outcome]
    BY <2>1
  <2>3. result' = [r \in Requests |-> result'[r]]
    BY <2>1
  <2> QED
    BY <2>2, <2>3
<1>5. ASSUME NEW r \in Requests, SingleDone(r) PROVE Futures'
  BY <1>5 DEF SingleDone
<1>6. CASE UNCHANGED vars
  BY <1>6 DEF vars
<1> QED
  BY <1>2, <1>3, <1>4, <1>5, <1>6 DEF Next, WorkerStep

\* No step writes a future that has an outcome.
LEMMA SettledNext ==
  ASSUME Futures, [Next]_vars, NEW r \in Requests, Settled(r)
  PROVE  fut'[r] = fut[r] /\ result'[r] = result[r]
<1> USE DEF Futures, Settled
<1>1. ASSUME NEW D \in Late PROVE Timed(D)[r] = fut[r] /\ Timed(D) = [q \in Requests |-> Timed(D)[q]]
  <2>1. r \notin D
    BY DEF Late
  <2> QED
    BY <2>1 DEF Timed
<1>2. ASSUME NEW q \in Requests, Submit(q) \/ Cancel(q) PROVE fut'[r] = fut[r] /\ result'[r] = result[r]
  <2>1. q # r
    BY <1>2 DEF Submit, Cancel
  <2> QED
    BY <1>1, <1>2, <2>1 DEF Submit, Cancel
<1>3. CASE Loop \/ Awake \/ BatchFails
  BY <1>1, <1>3 DEF Loop, Awake, BatchFails
<1>4. CASE BatchDone
  BY <1>4 DEF BatchDone, Open
<1>5. ASSUME NEW q \in Requests, SingleDone(q) PROVE fut'[r] = fut[r] /\ result'[r] = result[r]
  BY <1>5 DEF SingleDone, Open
<1>6. CASE UNCHANGED vars
  BY <1>6 DEF vars
<1> QED
  BY <1>2, <1>3, <1>4, <1>5, <1>6 DEF Next, WorkerStep

\* Whatever is submitted, cancelled, late, batched or called by itself, and
\* however batches and calls fail, a caller is given one outcome: _dispatch
\* and _execute_one write only futures that are neither cancelled nor done.
THEOREM OneOutcome == Spec => SettledOnce
<1>1. Init => Futures
  BY DEF Init, Futures, Outcome
<1>2. Futures /\ [Next]_vars => Futures'
  BY FuturesNext
<1>3. Futures /\ [Next]_vars =>
        [\A r \in Requests : fut[r] \notin {"new", "pending"} => fut'[r] = fut[r] /\ result'[r] = result[r]]_vars
  BY SettledNext DEF Settled
<1> QED
  BY <1>1, <1>2, <1>3, PTL DEF Spec, SettledOnce

-----------------------------------------------------------------------------
(* The bundles of a process keep their sessions.                            *)

Using == {"model", "gpu", "run"}

\* The tasks that use bundle b, those that are called by now, and those that made none.
Users(b)  == {t \in Tasks : mine[t] = b /\ pc[t] \in Using}
Candidate == {t \in Tasks : Op(t) = "reload" /\ pc[t] \in {"held", "swap"} \cup Using}
Fresh     == {t \in Tasks : pc[t] \in {"new", "lock", "loading"}}

\* Whoever is at a stage has what it needs there.
EquippedAt(t) ==
  /\ pc[t] \in {"held", "swap", "drain"} \cup Using => mine[t] \in Tasks
  /\ pc[t] = "lock" \/ Loading(t) => lock[t] \in Tasks
  /\ pc[t] \in {"lock", "loading"} => Op(t) # "unload"
  /\ pc[t] = "swap" => Op(t) = "reload"
  /\ pc[t] # "new" /\ Op(t) # "infer" => snap[t] # None
  /\ pc[t] = "drain" => Op(t) = "unload"
  /\ pc[t] = "audit" => Op(t) # "infer"

Equipped == \A t \in Tasks : EquippedAt(t)

\* A bundle is registered under the key of the task that made it, then and in what is restored.
Keyed(R)  == \A k \in Keys : R[k] # None => Key(R[k]) = k
KeyedByMaker == Keyed(registry) /\ \A t \in Tasks : snap[t] # None => Keyed(snap[t][1])

Registered(b) == \E k \in Keys : registry[k] = b

\* Nobody knows a bundle that is not made yet, and only its maker a candidate; what is used or
\* registered has its session; and what is drained, or was replaced, is not registered.
Unknown(t) == ~Registered(t) /\ t \notin drains
Unmade     == \A t \in Fresh : Unknown(t) /\ \A s \in Tasks : mine[s] # t
Private    == \A t \in Candidate : Unknown(t) /\ mine[t] = t /\ t \in session /\ \A s \in Tasks : mine[s] = t => s = t
Running    == \A t \in Tasks : pc[t] \in Using => mine[t] \in session
Usable     == \A k \in Keys : registry[k] # None => registry[k] \in session
Retired    == /\ \A b \in drains : ~Registered(b)
              /\ \A t \in Tasks : Op(t) = "reload" /\ pc[t] = "audit" /\ mine[t] # None => ~Registered(mine[t])

Owned == Unmade /\ Private /\ Running /\ Usable /\ Retired

\* Whoever loads holds its lock, and as long as no lock is dropped that is the one of its key.
Locks ==
  \A t \in Tasks :
    /\ Loading(t) => holder[lock[t]] = t
    /\ ~LocksDropped /\ (pc[t] = "lock" \/ Loading(t)) => lock[t] = locks[Key(t)]

IInv == RuntimeTypeOK /\ Equipped /\ KeyedByMaker /\ (~undone => Owned) /\ Locks

\* The types alone, and the counts.
Types ==
  /\ work \in Calls /\ pc \in [Tasks -> Stages] /\ registry \in Bundles /\ locks \in Bundles
  /\ holder \in [Tasks -> Tasks \cup {None}] /\ cooling \subseteq Keys
  /\ older \subseteq Tasks \X Tasks /\ \A b \in Tasks : <<b, b>> \notin older
  /\ session \subseteq Tasks /\ drains \subseteq Tasks /\ inUse \in [Tasks -> Nat]
  /\ mine \in [Tasks -> Tasks \cup {None}] /\ lock \in [Tasks -> Tasks \cup {None}]
  /\ snap \in [Tasks -> {None} \cup (Bundles \X Bundles)] /\ undone \in BOOLEAN
  /\ faults \in [run : 0..RunFaults, audit : 0..AuditFaults]

Counts ==
  /\ \A b \in Tasks : inUse[b] = Cardinality(Users(b)) /\ Cardinality(OnModel(b)) <= Permits
  /\ Cardinality(OnGpu) <= GpuLimit

LEMMA TypeParts == RuntimeTypeOK <=> Types /\ Counts
<1>1. \A b : At(b, "model") \cup OnModel(b) = Users(b)
  BY DEF At, OnModel, Users, Using
<1> QED  BY <1>1 DEF RuntimeTypeOK, Types, Counts

\* What a task asks for.
LEMMA CallLemma ==
  ASSUME Types, NEW t \in Tasks
  PROVE  Op(t) \in Ops /\ Key(t) \in Keys
BY RuntimeAssumption DEF Types, Op, Key

\* To be used last is to be used after all others.
LEMMA TouchedLemma ==
  ASSUME Types, NEW b \in Tasks
  PROVE  Touched(older, b) \subseteq Tasks \X Tasks /\ \A c \in Tasks : <<c, c>> \notin Touched(older, b)
BY DEF Types, Touched

\* What is evicted is registered, idle and not the key that is kept.
LEMMA VictimLemma ==
  ASSUME NEW R, NEW o, NEW k
  PROVE  \A j \in Victims(R, o, k) : j \in Keys \ {k} /\ R[j] # None /\ inUse[R[j]] = 0
BY DEF Victims, Evictable, Loaded

\* The types of what is registered after evictions.
LEMMA RegistryTypes ==
  ASSUME Types, NEW R \in Bundles, NEW o, NEW k \in Keys, R[k] \in Tasks, SetRegistry(R, o, k)
  PROVE  registry' \in Bundles /\ locks' \in Bundles /\ session' \subseteq Tasks /\ older' = o
<1>1. PICK V : /\ registry' = Without(R, V) /\ locks' = Without(locks, V)
               /\ session' = (session \cup {R[k]}) \ {R[j] : j \in V} /\ older' = o
  BY DEF SetRegistry
<1> QED  BY <1>1 DEF Without, Bundles, Types

\* Every step keeps the types.
LEMMA TypesNext == ASSUME Types, Counts, Equipped, [RuntimeNext]_runtimeVars PROVE Types'
<1> USE DEF Go, Stages, Ended
<1>0. /\ RunFault => faults' \in [run : 0..RunFaults, audit : 0..AuditFaults]
      /\ faults.audit > 0 => [faults EXCEPT !.audit = @ - 1] \in [run : 0..RunFaults, audit : 0..AuditFaults]
  BY RuntimeAssumption DEF RunFault, Types
<1>1. ASSUME NEW t \in Tasks, Get(t) PROVE Types'
  <2>1. Key(t) \in Keys /\ After(t) \in Stages
    BY CallLemma DEF After
  <2>2. /\ snap' = [snap EXCEPT ![t] = IF Op(t) = "infer" THEN None ELSE <<registry, locks>>]
        /\ UNCHANGED <<work, registry, holder, session, inUse, drains, cooling, faults, undone>>
    BY <1>1 DEF Get
  <2>3. CASE Hit(t) /\ UNCHANGED <<locks, lock>>
    BY <2>1, <2>2, <2>3, TouchedLemma DEF Types, Hit, Bundles
  <2>4. CASE Go(t, "refused") /\ UNCHANGED <<locks, lock, older, mine>>
    BY <2>2, <2>4 DEF Types
  <2>5. CASE AskLock(t) /\ UNCHANGED <<older, mine>>
    BY <2>1, <2>2, <2>5 DEF Types, AskLock, Bundles
  <2> QED  BY <1>1, <2>3, <2>4, <2>5 DEF Get
<1>2. ASSUME NEW t \in Tasks, Reload(t) PROVE Types'
  BY <1>2, CallLemma DEF Reload, Types, AskLock, Bundles
<1>3. ASSUME NEW t \in Tasks, Unload(t) PROVE Types'
  BY <1>3, CallLemma DEF Unload, Types, Without, Bundles
<1>4. ASSUME NEW t \in Tasks, Locked(t) PROVE Types'
  <2>1. Key(t) \in Keys /\ After(t) \in Stages
    BY CallLemma DEF After
  <2>2. pc[t] = "lock" /\ UNCHANGED <<work, registry, locks, session, inUse, drains, cooling, lock, snap, faults, undone>>
    BY <1>4 DEF Locked
  <2>3. CASE Hit(t) /\ UNCHANGED holder
    BY <2>1, <2>2, <2>3, TouchedLemma DEF Types, Hit, Bundles
  <2>4. CASE Go(t, "refused") /\ UNCHANGED <<holder, older, mine>>
    BY <2>2, <2>4 DEF Types
  <2>5. CASE Go(t, "loading") /\ holder' = [holder EXCEPT ![lock[t]] = t] /\ UNCHANGED <<older, mine>>
    BY <2>2, <2>5 DEF Types
  <2> QED  BY <1>4, <2>3, <2>4, <2>5 DEF Locked
<1>5. ASSUME NEW t \in Tasks, LoadFails(t) PROVE Types'
  BY <1>0, <1>5, CallLemma DEF LoadFails, Types
<1>6. ASSUME NEW t \in Tasks, LoadDone(t) PROVE Types'
  <2>1. Key(t) \in Keys /\ After(t) \in Stages
    BY CallLemma DEF After
  <2>2. [registry EXCEPT ![Key(t)] = t] \in Bundles /\ [registry EXCEPT ![Key(t)] = t][Key(t)] = t
    BY <2>1 DEF Types, Bundles
  <2>3. registry' \in Bundles /\ locks' \in Bundles /\ session' \subseteq Tasks /\ older' = Touched(older, t)
    BY <1>6, <2>1, <2>2, RegistryTypes DEF LoadDone
  <2> QED  BY <1>6, <2>1, <2>3, TouchedLemma DEF LoadDone, Types
<1>7. ASSUME NEW t \in Tasks, CandidateDone(t) PROVE Types'
  BY <1>7, TouchedLemma DEF CandidateDone, Types
<1>8. ASSUME NEW t \in Tasks, Swap(t) PROVE Types'
  <2>1. Key(t) \in Keys
    BY CallLemma
  <2>2. [registry EXCEPT ![Key(t)] = t] \in Bundles /\ [registry EXCEPT ![Key(t)] = t][Key(t)] = t
    BY <2>1 DEF Types, Bundles
  <2>3. registry' \in Bundles /\ locks' \in Bundles /\ session' \subseteq Tasks /\ older' = older
    BY <1>8, <2>1, <2>2, RegistryTypes DEF Swap
  <2> QED  BY <1>8, <2>1, <2>3 DEF Swap, Types, Bundles
<1>9. ASSUME NEW t \in Tasks, Begin(t) PROVE Types'
  BY <1>9 DEF Begin, Types
<1>10. ASSUME NEW t \in Tasks, Acquire(t) PROVE Types'
  BY <1>10 DEF Acquire, Types
<1>11. ASSUME NEW t \in Tasks, pc[t] \in Using, Leave(t)
       PROVE  /\ inUse' \in [Tasks -> Nat] /\ older' \subseteq Tasks \X Tasks
              /\ \A b \in Tasks : <<b, b>> \notin older'
  <2>1. mine[t] \in Tasks
    BY <1>11 DEF Equipped, EquippedAt
  <2> QED  BY <1>11, <2>1, TouchedLemma DEF Leave, Types
<1>12. ASSUME NEW t \in Tasks, Finish(t) PROVE Types'
  BY <1>11, <1>12 DEF Finish, Types, Using
<1>13. ASSUME NEW t \in Tasks, RunFails(t) PROVE Types'
  <2>1. pc[t] \in Using /\ Leave(t)
    BY <1>13 DEF RunFails, Using
  <2> QED  BY <1>0, <1>11, <1>13, <2>1 DEF RunFails, Types
<1>14. ASSUME NEW t \in Tasks, Drained(t) PROVE Types'
  BY <1>0, <1>14 DEF Drained, Types
<1>15. ASSUME NEW t \in Tasks, Audited(t) PROVE Types'
  BY <1>15 DEF Audited, Types
<1>16. ASSUME NEW t \in Tasks, AuditFails(t) PROVE Types'
  <2>1. snap[t] \in Bundles \X Bundles
    BY <1>16 DEF AuditFails, Equipped, EquippedAt, Types
  <2>2. /\ session' \subseteq Tasks /\ pc' = [pc EXCEPT ![t] = "failed"]
        /\ registry' = snap[t][1] /\ locks' = snap[t][2] /\ undone' = TRUE
        /\ faults' \in [run : 0..RunFaults, audit : 0..AuditFaults]
        /\ UNCHANGED <<work, older, holder, inUse, drains, cooling, mine, lock, snap>>
    BY <1>0, <1>16 DEF AuditFails, Types
  <2> QED  BY <2>1, <2>2 DEF Types
<1>17. ASSUME NEW b \in Tasks, Release(b) PROVE Types'
  BY <1>17 DEF Release, Types
<1>18. ASSUME NEW k \in Keys, CoolsDown(k) PROVE Types'
  BY <1>18 DEF CoolsDown, Types
<1>19. CASE UNCHANGED runtimeVars
  BY <1>19 DEF Types, runtimeVars
<1> QED
  BY <1>1, <1>2, <1>3, <1>4, <1>5, <1>6, <1>7, <1>8, <1>9, <1>10, <1>12, <1>13, <1>14, <1>15, <1>16, <1>17,
     <1>18, <1>19 DEF RuntimeNext, Runs

-----------------------------------------------------------------------------
\* The tasks are finitely many, and so are those that use a bundle or wait for it.
LEMMA FiniteLemma ==
  /\ \A b : IsFiniteSet(Users(b)) /\ IsFiniteSet(OnModel(b)) /\ Cardinality(Users(b)) \in Nat
           /\ Cardinality(OnModel(b)) \in Nat
  /\ IsFiniteSet(OnGpu) /\ Cardinality(OnGpu) \in Nat
<1>1. \A S \in SUBSET Tasks : IsFiniteSet(S) /\ Cardinality(S) \in Nat
  BY RuntimeAssumption, FS_Subset, FS_CardinalityType
<1>2. \A b : Users(b) \in SUBSET Tasks /\ OnModel(b) \in SUBSET Tasks
  BY DEF Users, OnModel, At
<1>3. OnGpu \in SUBSET Tasks
  BY DEF OnGpu
<1> QED  BY <1>1, <1>2, <1>3

\* A step of a task that neither begins nor ends to use a bundle changes no count.
LEMMA QuietCounts ==
  ASSUME Types, Counts, NEW t \in Tasks, pc[t] \notin Using,
         pc' \in [Tasks -> Stages], pc'[t] \notin Using,
         \A s \in Tasks \ {t} : pc'[s] = pc[s] /\ mine'[s] = mine[s], inUse' = inUse
  PROVE  Counts'
<1>1. \A b : Users(b)' = Users(b)
  BY DEF Users
<1>2. \A b : OnModel(b)' = OnModel(b)
  BY DEF OnModel, At, Using
<1>3. OnGpu' = OnGpu
  BY DEF OnGpu, Using
<1> QED  BY <1>1, <1>2, <1>3 DEF Counts

\* One task more uses the bundle.
LEMMA BeginCounts ==
  ASSUME Types, Counts, NEW t \in Tasks, Begin(t)
  PROVE  Counts'
<1>1. CASE mine[t] \notin session \/ mine[t] \notin Tasks
  <2>1. pc[t] = "held" /\ UNCHANGED mine
    BY DEF Begin
  <2>2. Go(t, "gone") /\ UNCHANGED inUse
    BY <1>1 DEF Begin, Types
  <2> QED  BY <2>1, <2>2, QuietCounts DEF Go, Using, Types, Stages, Ended
<1>2. CASE mine[t] \in session /\ mine[t] \in Tasks
  <2>1. /\ pc[t] = "held" /\ pc' = [pc EXCEPT ![t] = "model"] /\ UNCHANGED mine
        /\ inUse' = [inUse EXCEPT ![mine[t]] = @ + 1]
    BY <1>2 DEF Begin, Go
  <2>2. /\ \A b : OnModel(b)' = OnModel(b)
        /\ OnGpu' = OnGpu
    BY <2>1 DEF OnModel, At, OnGpu, Types
  <2>3. t \notin Users(mine[t]) /\ Users(mine[t])' = Users(mine[t]) \cup {t}
    BY <2>1 DEF Users, Using, Types
  <2>4. \A b : b # mine[t] => Users(b)' = Users(b)
    BY <2>1 DEF Users, Types
  <2>5. Cardinality(Users(mine[t]) \cup {t}) = Cardinality(Users(mine[t])) + 1
    BY <2>3, FiniteLemma, FS_AddElement
  <2>6. \A b \in Tasks : inUse'[b] = Cardinality(Users(b)')
    BY <1>2, <2>1, <2>3, <2>4, <2>5 DEF Counts, Types
  <2> QED  BY <2>2, <2>6 DEF Counts
<1> QED  BY <1>1, <1>2

\* The semaphores let one more in as long as there is room.
LEMMA AcquireCounts ==
  ASSUME Types, Counts, NEW t \in Tasks, Acquire(t)
  PROVE  Counts'
<1>1. /\ pc[t] \in {"model", "gpu"} /\ pc' = [pc EXCEPT ![t] = IF pc[t] = "model" THEN "gpu" ELSE "run"]
      /\ UNCHANGED <<mine, inUse>>
  BY DEF Acquire, Go
<1>2. \A b : Users(b)' = Users(b)
  BY <1>1 DEF Users, Using, Types
<1>3. CASE pc[t] = "model"
  <2>1. Cardinality(OnModel(mine[t])) < Permits
    BY <1>3 DEF Acquire
  <2>2. \A b : b # mine[t] => OnModel(b)' = OnModel(b)
    BY <1>1, <1>3 DEF OnModel, At, Types
  <2>3. OnModel(mine[t])' = OnModel(mine[t]) \cup {t} /\ t \notin OnModel(mine[t])
    BY <1>1, <1>3 DEF OnModel, At, Types
  <2>4. Cardinality(OnModel(mine[t]) \cup {t}) = Cardinality(OnModel(mine[t])) + 1
    BY <2>3, FiniteLemma, FS_AddElement
  <2>5. Cardinality(OnModel(mine[t]) \cup {t}) <= Permits
    BY <2>1, <2>4, FiniteLemma, RuntimeAssumption
  <2>6. OnGpu' = OnGpu
    BY <1>1, <1>3 DEF OnGpu, Types
  <2> QED  BY <1>1, <1>2, <2>2, <2>3, <2>5, <2>6 DEF Counts
<1>4. CASE pc[t] = "gpu"
  <2>1. Cardinality(OnGpu) < GpuLimit
    BY <1>4 DEF Acquire
  <2>2. \A b : OnModel(b)' = OnModel(b)
    BY <1>1, <1>4 DEF OnModel, At, Types
  <2>3. OnGpu' = OnGpu \cup {t} /\ t \notin OnGpu
    BY <1>1, <1>4 DEF OnGpu, Types
  <2>4. Cardinality(OnGpu \cup {t}) = Cardinality(OnGpu) + 1
    BY <2>3, FiniteLemma, FS_AddElement
  <2>5. Cardinality(OnGpu \cup {t}) <= GpuLimit
    BY <2>1, <2>4, FiniteLemma, RuntimeAssumption
  <2> QED  BY <1>1, <1>2, <2>2, <2>3, <2>5 DEF Counts
<1> QED  BY <1>1, <1>3, <1>4

\* A run that ends, in whatever way, is counted no longer.
LEMMA LeaveCounts ==
  ASSUME Types, Counts, NEW t \in Tasks, pc[t] \in Using, mine[t] \in Tasks, Leave(t), UNCHANGED mine,
         NEW p \in Stages \ Using, pc' = [pc EXCEPT ![t] = p]
  PROVE  Counts' /\ (inUse[mine[t]] > 0)
<1>1. t \in Users(mine[t]) /\ Users(mine[t])' = Users(mine[t]) \ {t}
  BY DEF Users, Types
<1>2. \A b : b # mine[t] => Users(b)' = Users(b)
  BY DEF Users, Types
<1>3. Cardinality(Users(mine[t]) \ {t}) = Cardinality(Users(mine[t])) - 1 /\ Cardinality(Users(mine[t])) \in Nat \ {0}
  <2>1. Cardinality(Users(mine[t]) \ {t}) = Cardinality(Users(mine[t])) - 1
    BY <1>1, FiniteLemma, FS_RemoveElement
  <2>2. Cardinality(Users(mine[t])) # 0
    BY <1>1, FiniteLemma, FS_EmptySet
  <2> QED  BY <2>1, <2>2, FiniteLemma
<1>4. inUse' = [inUse EXCEPT ![mine[t]] = IF @ = 0 THEN 0 ELSE @ - 1]
  BY DEF Leave
<1>5. \A b \in Tasks : inUse'[b] = Cardinality(Users(b)')
  BY <1>1, <1>2, <1>3, <1>4 DEF Counts, Types
<1>6. \A b : OnModel(b)' \in SUBSET OnModel(b)
  BY DEF OnModel, At, Types, Using
<1>7. OnGpu' \in SUBSET OnGpu
  BY DEF OnGpu, Types, Using
<1>8. \A b \in Tasks : Cardinality(OnModel(b)') <= Permits
  <2> SUFFICES ASSUME NEW b \in Tasks PROVE Cardinality(OnModel(b)') <= Permits
    OBVIOUS
  <2>1. /\ Cardinality(OnModel(b)') <= Cardinality(OnModel(b)) /\ Cardinality(OnModel(b)') \in Nat
    BY <1>6, FiniteLemma, FS_Subset, FS_CardinalityType
  <2> QED  BY <2>1, FiniteLemma, RuntimeAssumption DEF Counts
<1>9. Cardinality(OnGpu') <= GpuLimit
  <2>1. Cardinality(OnGpu') <= Cardinality(OnGpu) /\ Cardinality(OnGpu') \in Nat
    BY <1>7, FiniteLemma, FS_Subset, FS_CardinalityType
  <2> QED  BY <2>1, FiniteLemma, RuntimeAssumption DEF Counts
<1> QED  BY <1>1, <1>3, <1>5, <1>8, <1>9 DEF Counts

\* Every step keeps the counts.
LEMMA CountsNext == ASSUME Types, Counts, Equipped, [RuntimeNext]_runtimeVars PROVE Counts'
<1>0. Types'
  BY TypesNext
<1>1. ASSUME NEW t \in Tasks, \/ Get(t) \/ Reload(t) \/ Unload(t) \/ Locked(t) \/ LoadDone(t) \/ LoadFails(t)
                              \/ CandidateDone(t) \/ Swap(t) \/ Drained(t) \/ Audited(t) \/ AuditFails(t)
      PROVE  Counts'
  <2>1. pc[t] \notin Using /\ inUse' = inUse
    BY <1>1 DEF Get, Reload, Unload, Locked, LoadFails, LoadDone, CandidateDone, Swap, Drained, Audited, AuditFails, Using
  <2>2. PICK p : p \notin Using /\ pc' = [pc EXCEPT ![t] = p]
    BY <1>1 DEF Get, Reload, Unload, Locked, LoadFails, LoadDone, CandidateDone, Swap, Drained, Audited, AuditFails, Using,
                Go, Hit, AskLock, After
  <2>3. mine' = mine \/ \E m : mine' = [mine EXCEPT ![t] = m]
    BY <1>1 DEF Get, Reload, Unload, Locked, LoadFails, LoadDone, CandidateDone, Swap, Drained, Audited, AuditFails, Hit
  <2>4. \A s \in Tasks \ {t} : pc'[s] = pc[s] /\ mine'[s] = mine[s]
    BY <2>2, <2>3 DEF Types
  <2>5. pc'[t] \notin Using /\ pc' \in [Tasks -> Stages]
    BY <1>0, <2>2 DEF Types
  <2> QED  BY <2>1, <2>4, <2>5, QuietCounts
<1>2. ASSUME NEW t \in Tasks, Begin(t) \/ Acquire(t) PROVE Counts'
  BY <1>2, BeginCounts, AcquireCounts
<1>3. ASSUME NEW t \in Tasks, Finish(t) \/ RunFails(t) PROVE Counts'
  <2>1. pc[t] \in Using /\ mine[t] \in Tasks /\ Leave(t) /\ UNCHANGED mine
    BY <1>3 DEF Finish, RunFails, Using, Equipped, EquippedAt
  <2>2. PICK p \in Stages \ Using : pc' = [pc EXCEPT ![t] = p]
    BY <1>3 DEF Finish, RunFails, Go, Stages, Ended, Using
  <2> QED  BY <2>1, <2>2, LeaveCounts
<1>4. ASSUME UNCHANGED <<pc, mine, inUse>> PROVE Counts'
  BY <1>4 DEF Counts, Users, OnModel, OnGpu, At
<1>5. ASSUME NEW b \in Tasks, Release(b) PROVE Counts'
  BY <1>4, <1>5 DEF Release
<1>6. ASSUME NEW k \in Keys, CoolsDown(k) PROVE Counts'
  BY <1>4, <1>6 DEF CoolsDown
<1>7. CASE UNCHANGED runtimeVars
  BY <1>4, <1>7 DEF runtimeVars
<1> QED  BY <1>1, <1>2, <1>3, <1>5, <1>6, <1>7 DEF RuntimeNext, Runs

-----------------------------------------------------------------------------
\* A step of t changes nothing that is another task's.
Frame(t) ==
  /\ work' = work
  /\ \A s \in Tasks \ {t} : pc'[s] = pc[s] /\ mine'[s] = mine[s] /\ lock'[s] = lock[s] /\ snap'[s] = snap[s]

LEMMA FrameLemma ==
  ASSUME Types, NEW t \in Tasks,
         \/ Get(t) \/ Reload(t) \/ Unload(t) \/ Runs(t) \/ LoadFails(t) \/ RunFails(t) \/ AuditFails(t)
  PROVE  Frame(t) /\ \A s \in Tasks : Op(s)' = Op(s) /\ Key(s)' = Key(s)
<1>1. work' = work
  BY DEF Get, Reload, Unload, Runs, Locked, LoadDone, CandidateDone, Swap, Begin, Acquire, Finish, Drained, Audited,
         LoadFails, RunFails, AuditFails
<1>2. \E p : pc' = [pc EXCEPT ![t] = p]
  BY DEF Get, Reload, Unload, Runs, Locked, LoadDone, CandidateDone, Swap, Begin, Acquire, Finish, Drained, Audited,
         LoadFails, RunFails, AuditFails, Go, Hit, AskLock
<1>3. mine' = mine \/ \E p : mine' = [mine EXCEPT ![t] = p]
  BY DEF Get, Reload, Unload, Runs, Locked, LoadDone, CandidateDone, Swap, Begin, Acquire, Finish, Drained, Audited,
         LoadFails, RunFails, AuditFails, Hit
<1>4. lock' = lock \/ \E p : lock' = [lock EXCEPT ![t] = p]
  BY DEF Get, Reload, Unload, Runs, Locked, LoadDone, CandidateDone, Swap, Begin, Acquire, Finish, Drained, Audited,
         LoadFails, RunFails, AuditFails, AskLock
<1>5. snap' = snap \/ \E p : snap' = [snap EXCEPT ![t] = p]
  BY DEF Get, Reload, Unload, Runs, Locked, LoadDone, CandidateDone, Swap, Begin, Acquire, Finish, Drained, Audited,
         LoadFails, RunFails, AuditFails
<1> QED  BY <1>1, <1>2, <1>3, <1>4, <1>5 DEF Frame, Types, Op, Key

\* Every step leaves the tasks equipped.
LEMMA EquippedNext == ASSUME Types, Equipped, [RuntimeNext]_runtimeVars PROVE Equipped'
<1>1. ASSUME NEW t \in Tasks, Frame(t), EquippedAt(t)', \A s \in Tasks : Op(s)' = Op(s) PROVE Equipped'
  <2>1. ASSUME NEW s \in Tasks, s # t PROVE EquippedAt(s)'
    BY <1>1, <2>1 DEF Frame, Equipped, EquippedAt, Loading
  <2> QED  BY <1>1, <2>1 DEF Equipped
<1>2. ASSUME NEW t \in Tasks,
             \/ Get(t) \/ Reload(t) \/ Unload(t) \/ Runs(t) \/ LoadFails(t) \/ RunFails(t) \/ AuditFails(t),
             EquippedAt(t)'
      PROVE  Equipped'
  BY <1>1, <1>2, FrameLemma
<1>3. ASSUME NEW t \in Tasks PROVE EquippedAt(t) /\ Op(t) \in Ops /\ Key(t) \in Keys
  BY CallLemma DEF Equipped
<1>4. ASSUME NEW t \in Tasks, Get(t) PROVE Equipped'
  <2>1. pc[t] = "new" /\ Op(t) \in {"infer", "load", "warmup"} /\ Op(t)' = Op(t)
        /\ snap' = [snap EXCEPT ![t] = IF Op(t) = "infer" THEN None ELSE <<registry, locks>>]
        /\ <<registry, locks>> # None
    BY <1>4, RuntimeAssumption DEF Get, Op, Types
  <2>2. CASE Hit(t) /\ UNCHANGED <<locks, lock>>
    <3>1. /\ mine' = [mine EXCEPT ![t] = registry[Key(t)]] /\ registry[Key(t)] \in Tasks
          /\ pc' = [pc EXCEPT ![t] = After(t)] /\ After(t) \in {"held", "audit"} /\ (After(t) = "audit" => Op(t) = "load")
      BY <1>3, <2>2 DEF Hit, Go, Types, Bundles, After
    <3>2. EquippedAt(t)'
      BY <2>1, <3>1, RuntimeAssumption DEF EquippedAt, Loading, Types, Bundles, Using
    <3> QED  BY <1>2, <1>4, <3>2
  <2>3. CASE Go(t, "refused")
    <3>1. EquippedAt(t)'
      BY <2>1, <2>3, RuntimeAssumption DEF EquippedAt, Loading, Types, Bundles, Using, Go
    <3> QED  BY <1>2, <1>4, <3>1
  <2>4. CASE AskLock(t)
    <3>1. pc' = [pc EXCEPT ![t] = "lock"] /\ lock'[t] \in Tasks
      BY <1>3, <2>4 DEF AskLock, Go, Types, Bundles
    <3>2. EquippedAt(t)'
      BY <2>1, <3>1, RuntimeAssumption DEF EquippedAt, Loading, Types, Bundles, Using
    <3> QED  BY <1>2, <1>4, <3>2
  <2> QED  BY <1>4, <2>2, <2>3, <2>4 DEF Get
<1>5. ASSUME NEW t \in Tasks, Reload(t) PROVE Equipped'
  <2>1. /\ pc[t] = "new" /\ Op(t) = "reload" /\ Op(t)' = Op(t) /\ snap' = [snap EXCEPT ![t] = <<registry, locks>>]
        /\ AskLock(t) /\ <<registry, locks>> # None
    BY <1>5, RuntimeAssumption DEF Reload, Op, Types
  <2>2. pc' = [pc EXCEPT ![t] = "lock"] /\ lock'[t] \in Tasks
    BY <1>3, <2>1 DEF AskLock, Go, Types, Bundles
  <2>3. EquippedAt(t)'
    BY <2>1, <2>2, RuntimeAssumption DEF EquippedAt, Loading, Types, Bundles, Using
  <2> QED  BY <1>2, <1>5, <2>3
<1>6. ASSUME NEW t \in Tasks, Unload(t) PROVE Equipped'
  <2>0. <<registry, locks>> # None
    BY RuntimeAssumption DEF Types
  <2>1. EquippedAt(t)'
    BY <1>3, <1>6, <2>0 DEF Unload, Go, EquippedAt, Loading, Types, Bundles, Using, Op
  <2> QED  BY <1>2, <1>6, <2>1
<1>7. ASSUME NEW t \in Tasks, Locked(t) PROVE Equipped'
  <2>1. pc[t] = "lock" /\ UNCHANGED <<lock, snap>> /\ Op(t)' = Op(t) /\ Key(t) \in Keys
    BY <1>3, <1>7 DEF Locked, Op
  <2>2. CASE Op(t) # "reload" /\ Hit(t)
    <3>1. /\ mine' = [mine EXCEPT ![t] = registry[Key(t)]] /\ registry[Key(t)] \in Tasks
          /\ pc' = [pc EXCEPT ![t] = After(t)] /\ After(t) \in {"held", "audit"} /\ (After(t) = "audit" => Op(t) = "load")
      BY <2>1, <2>2 DEF Hit, Go, Types, Bundles, After
    <3>2. EquippedAt(t)'
      BY <1>3, <2>1, <2>2, <3>1, RuntimeAssumption DEF EquippedAt, Loading, Types, Bundles, Using
    <3> QED  BY <1>2, <1>7, <3>2 DEF Runs
  <2>3. CASE Go(t, "refused") \/ (Go(t, "loading") /\ UNCHANGED mine)
    <3>1. EquippedAt(t)'
      BY <1>3, <2>1, <2>3 DEF EquippedAt, Loading, Types, Using, Go
    <3> QED  BY <1>2, <1>7, <3>1 DEF Runs
  <2> QED  BY <1>7, <2>2, <2>3 DEF Locked
<1>8. ASSUME NEW t \in Tasks, LoadDone(t) PROVE Equipped'
  <2>1. /\ pc[t] = "loading" /\ pc' = [pc EXCEPT ![t] = After(t)] /\ mine' = [mine EXCEPT ![t] = t] /\ Op(t) # "reload"
        /\ UNCHANGED <<lock, snap>> /\ Op(t)' = Op(t) /\ After(t) \in {"held", "audit"} /\ (After(t) = "audit" => Op(t) = "load")
    BY <1>8 DEF LoadDone, Go, After, Op
  <2>2. EquippedAt(t)'
    BY <1>3, <2>1 DEF EquippedAt, Loading, Types, Using
  <2> QED  BY <1>2, <1>8, <2>2 DEF Runs
<1>9. ASSUME NEW t \in Tasks, CandidateDone(t) \/ Swap(t) \/ Begin(t) \/ Acquire(t) \/ Finish(t) PROVE Equipped'
  <2>1. /\ UNCHANGED <<lock, snap>> /\ Op(t)' = Op(t)
        /\ pc[t] \in {"loading", "swap", "held"} \cup Using
    BY <1>9 DEF CandidateDone, Swap, Begin, Acquire, Finish, Op, Using
  <2>2. \/ Op(t) = "reload" /\ pc' = [pc EXCEPT ![t] = "held"] /\ mine' = [mine EXCEPT ![t] = t]
        \/ pc' = [pc EXCEPT ![t] = "audit"] /\ Op(t) # "infer"
        \/ pc[t] # "loading" /\ UNCHANGED mine /\ \E p \in {"gone", "model", "gpu", "run", "done"} : pc' = [pc EXCEPT ![t] = p]
        \/ pc[t] # "loading" /\ UNCHANGED mine /\ pc' = [pc EXCEPT ![t] = "swap"] /\ Op(t) = "reload"
    BY <1>3, <1>9 DEF CandidateDone, Swap, Begin, Acquire, Finish, Go, EquippedAt
  <2>3. EquippedAt(t)'
    BY <1>3, <2>1, <2>2 DEF EquippedAt, Loading, Types, Using
  <2> QED  BY <1>2, <1>9, <2>3 DEF Runs
<1>10. ASSUME NEW t \in Tasks, Drained(t) \/ Audited(t) \/ LoadFails(t) \/ RunFails(t) \/ AuditFails(t) PROVE Equipped'
  <2>1. /\ UNCHANGED snap /\ Op(t)' = Op(t) /\ pc[t] # "new"
    BY <1>10 DEF Drained, Audited, LoadFails, RunFails, AuditFails, Op, Go
  <2>2. PICK p \in {"done", "failed", "audit"} : pc' = [pc EXCEPT ![t] = p] /\ (p = "audit" => pc[t] = "drain")
    BY <1>10 DEF Drained, Audited, LoadFails, RunFails, AuditFails, Go
  <2>3. pc'[t] = p /\ snap'[t] = snap[t]
    BY <2>1, <2>2 DEF Types
  <2>4. EquippedAt(t)'
    BY <1>3, <2>1, <2>2, <2>3 DEF EquippedAt, Loading, Using
  <2> QED  BY <1>2, <1>10, <2>4 DEF Runs
<1>11. ASSUME UNCHANGED <<work, pc, mine, lock, snap>> PROVE Equipped'
  BY <1>11 DEF Equipped, EquippedAt, Loading, Op, Key
<1>12. ASSUME NEW b \in Tasks, Release(b) PROVE Equipped'
  BY <1>11, <1>12 DEF Release
<1>13. ASSUME NEW k \in Keys, CoolsDown(k) PROVE Equipped'
  BY <1>11, <1>13 DEF CoolsDown
<1>14. CASE UNCHANGED runtimeVars
  BY <1>11, <1>14 DEF runtimeVars
<1> QED  BY <1>4, <1>5, <1>6, <1>7, <1>8, <1>9, <1>10, <1>12, <1>13, <1>14 DEF RuntimeNext, Runs
-----------------------------------------------------------------------------
\* What is set and evicted keeps every bundle under its key.
LEMMA KeyedLemma ==
  ASSUME NEW R, NEW o, NEW k, Keyed(R), SetRegistry(R, o, k), UNCHANGED work
  PROVE  Keyed(registry)'
BY DEF SetRegistry, Without, Keyed, Key

\* So does every step.
LEMMA KeyedNext == ASSUME Types, Equipped, KeyedByMaker, [RuntimeNext]_runtimeVars PROVE KeyedByMaker'
<1>1. ASSUME UNCHANGED work, Keyed(registry)', \A t \in Tasks : snap'[t] # None => snap'[t] = snap[t] \/ snap'[t][1] = registry
      PROVE  KeyedByMaker'
  <2>1. ASSUME NEW t \in Tasks, snap'[t] # None PROVE Keyed(snap[t][1])'
    <3>1. CASE snap'[t] = snap[t]
      BY <1>1, <2>1, <3>1 DEF KeyedByMaker, Keyed, Key
    <3>2. CASE snap'[t][1] = registry
      BY <1>1, <2>1, <3>2 DEF KeyedByMaker, Keyed, Key
    <3> QED  BY <1>1, <2>1, <3>1, <3>2
  <2> QED  BY <1>1, <2>1 DEF KeyedByMaker
<1>2. ASSUME UNCHANGED <<work, registry>> PROVE Keyed(registry)'
  BY <1>2 DEF KeyedByMaker, Keyed, Key
<1>3. ASSUME NEW t \in Tasks, Get(t) \/ Reload(t) \/ Unload(t) PROVE KeyedByMaker'
  <2>1. \A s \in Tasks : snap'[s] # None => snap'[s] = snap[s] \/ snap'[s][1] = registry
    BY <1>3 DEF Get, Reload, Unload, Types
  <2>2. Keyed(registry)' /\ UNCHANGED work
    BY <1>2, <1>3 DEF Get, Reload, Unload, Without, KeyedByMaker, Keyed, Key
  <2> QED  BY <1>1, <2>1, <2>2
<1>4. ASSUME NEW t \in Tasks, LoadDone(t) \/ Swap(t) PROVE KeyedByMaker'
  <2>1. UNCHANGED <<work, snap>> /\ \E o : SetRegistry([registry EXCEPT ![Key(t)] = t], o, Key(t))
    BY <1>4 DEF LoadDone, Swap
  <2>2. Keyed([registry EXCEPT ![Key(t)] = t])
    BY CallLemma DEF KeyedByMaker, Keyed, Types, Bundles
  <2> QED  BY <1>1, <2>1, <2>2, KeyedLemma
<1>5. ASSUME NEW t \in Tasks, AuditFails(t) PROVE KeyedByMaker'
  <2>1. UNCHANGED <<work, snap>> /\ registry' = snap[t][1] /\ snap[t] # None
    BY <1>5 DEF AuditFails, Equipped, EquippedAt
  <2>2. Keyed(registry)'
    BY <2>1 DEF KeyedByMaker, Keyed, Key
  <2> QED  BY <1>1, <2>1, <2>2
<1>6. ASSUME UNCHANGED <<work, registry, snap>> PROVE KeyedByMaker'
  BY <1>1, <1>2, <1>6
<1>7. ASSUME NEW t \in Tasks, \/ Locked(t) \/ LoadFails(t) \/ CandidateDone(t) \/ Begin(t) \/ Acquire(t) \/ Finish(t)
                              \/ RunFails(t) \/ Drained(t) \/ Audited(t)
      PROVE  KeyedByMaker'
  BY <1>6, <1>7 DEF Locked, LoadFails, CandidateDone, Begin, Acquire, Finish, RunFails, Drained, Audited
<1>8. ASSUME NEW b \in Tasks, Release(b) PROVE KeyedByMaker'
  BY <1>6, <1>8 DEF Release
<1>9. ASSUME NEW k \in Keys, CoolsDown(k) PROVE KeyedByMaker'
  BY <1>6, <1>9 DEF CoolsDown
<1>10. CASE UNCHANGED runtimeVars
  BY <1>6, <1>10 DEF runtimeVars
<1> QED  BY <1>3, <1>4, <1>5, <1>7, <1>8, <1>9, <1>10 DEF RuntimeNext, Runs

-----------------------------------------------------------------------------
\* As long as the models that are asked for fit, nothing is evicted.
LEMMA NoVictims ==
  ASSUME Types, NEW R \in Bundles, Keyed(R), NEW o, NEW k, Cardinality({Key(t) : t \in Tasks}) <= MaxLoaded
  PROVE  Victims(R, o, k) = {}
<1> DEFINE A == {Key(t) : t \in Tasks}
<1>1. IsFiniteSet(A) /\ Cardinality(A) \in Nat
  <2>1. A \subseteq Keys
    BY CallLemma
  <2> QED  BY <2>1, RuntimeAssumption, FS_Subset, FS_CardinalityType
<1>2. Loaded(R) \subseteq A
  BY DEF Loaded, Keyed, Bundles
<1>3. Cardinality(Loaded(R)) <= Cardinality(A) /\ Cardinality(Loaded(R)) \in Nat
  <2> HIDE DEF A
  <2> QED  BY <1>1, <1>2, FS_Subset, FS_CardinalityType
<1>4. Cardinality(Loaded(R)) - MaxLoaded <= 0
  BY <1>1, <1>3, RuntimeAssumption
<1>5. ASSUME NEW j \in Evictable(R, k)
      PROVE  ~(Cardinality({i \in Evictable(R, k) : <<R[i], R[j]>> \in o}) < Cardinality(Loaded(R)) - MaxLoaded)
  <2>1. {i \in Evictable(R, k) : <<R[i], R[j]>> \in o} \subseteq Keys
    BY DEF Evictable, Loaded
  <2>2. Cardinality({i \in Evictable(R, k) : <<R[i], R[j]>> \in o}) \in Nat
    BY <2>1, RuntimeAssumption, FS_Subset, FS_CardinalityType
  <2> QED  BY <1>3, <1>4, <2>2, RuntimeAssumption
<1> QED  BY <1>5 DEF Victims

\* Every step leaves whoever loads with its lock.
LEMMA LocksNext == ASSUME Types, Equipped, KeyedByMaker, Locks, [RuntimeNext]_runtimeVars PROVE Locks'
<1>1. ASSUME NEW t \in Tasks, Frame(t), \A s \in Tasks : Op(s)' = Op(s) /\ Key(s)' = Key(s),
             Loading(t)' => holder'[lock'[t]] = t,
             \A s \in Tasks \ {t} : Loading(s) => holder'[lock[s]] = holder[lock[s]],
             ~LocksDropped' => /\ ~LocksDropped
                               /\ (pc'[t] = "lock" \/ Loading(t)') => lock'[t] = locks'[Key(t)]
                               /\ \A k \in Keys : locks[k] # None => locks'[k] = locks[k]
      PROVE  Locks'
  <2>1. ASSUME NEW s \in Tasks, s # t
        PROVE  /\ Loading(s)' => holder'[lock'[s]] = s
               /\ ~LocksDropped' /\ (pc'[s] = "lock" \/ Loading(s)') => lock'[s] = locks'[Key(s)']
    <3>1. lock'[s] = lock[s] /\ pc'[s] = pc[s] /\ Op(s)' = Op(s) /\ Key(s)' = Key(s) /\ Key(s) \in Keys
      BY <1>1, <2>1, CallLemma DEF Frame
    <3>2. Loading(s)' <=> Loading(s)
      BY <3>1 DEF Loading
    <3>3. pc[s] = "lock" \/ Loading(s) => lock[s] # None
      BY RuntimeAssumption DEF Equipped, EquippedAt
    <3> QED  BY <1>1, <2>1, <3>1, <3>2, <3>3 DEF Locks
  <2>2. Key(t)' = Key(t)
    BY <1>1
  <2> QED  BY <1>1, <2>1, <2>2 DEF Locks
<1>2. ASSUME UNCHANGED <<work, undone>> PROVE LocksDropped' <=> LocksDropped
  BY <1>2 DEF LocksDropped, Op, Key
<1>3. ASSUME NEW t \in Tasks, UNCHANGED <<locks, holder, undone>>,
             \/ Get(t) \/ Reload(t) \/ Unload(t) \/ Runs(t) \/ LoadFails(t) \/ RunFails(t) \/ AuditFails(t),
             lock'[t] = lock[t], Loading(t)' => Loading(t), pc'[t] = "lock" => pc[t] = "lock"
      PROVE  Locks'
  <2>1. Frame(t) /\ \A s \in Tasks : Op(s)' = Op(s) /\ Key(s)' = Key(s)
    BY <1>3, FrameLemma
  <2>2. LocksDropped' <=> LocksDropped
    BY <1>2, <1>3, <2>1 DEF Frame
  <2> QED  BY <1>1, <1>3, <2>1, <2>2 DEF Locks
<1>4. ASSUME NEW t \in Tasks, AskLock(t), Get(t) \/ Reload(t) PROVE Locks'
  <2>1. Frame(t) /\ \A s \in Tasks : Op(s)' = Op(s) /\ Key(s)' = Key(s)
    BY <1>4, FrameLemma
  <2>2. UNCHANGED <<holder, undone>>
    BY <1>4 DEF Get, Reload
  <2>3. LocksDropped' <=> LocksDropped
    BY <1>2, <2>1, <2>2 DEF Frame
  <2>4. PICK l : /\ locks' = [locks EXCEPT ![Key(t)] = l] /\ lock' = [lock EXCEPT ![t] = l] /\ pc' = [pc EXCEPT ![t] = "lock"]
                 /\ locks[Key(t)] # None => l = locks[Key(t)]
    BY <1>4 DEF AskLock, Go
  <2>5. ~Loading(t)'
    BY <2>4 DEF Loading, Types, Using
  <2>6. Key(t) \in Keys
    BY CallLemma
  <2>7. lock'[t] = locks'[Key(t)] /\ \A k \in Keys : locks[k] # None => locks'[k] = locks[k]
    BY <2>4, <2>6 DEF Types, Bundles
  <2> QED  BY <1>1, <2>1, <2>2, <2>3, <2>5, <2>7
<1>5. ASSUME NEW t \in Tasks, Get(t) \/ Reload(t) PROVE Locks'
  <2>1. CASE AskLock(t)
    BY <1>4, <1>5, <2>1
  <2>2. CASE ~AskLock(t)
    <3>1. UNCHANGED <<locks, holder, undone, lock>> /\ \E p \in {"held", "audit", "refused"} : pc' = [pc EXCEPT ![t] = p]
      BY <1>5, <2>2 DEF Get, Reload, Hit, Go, After
    <3>2. Get(t) /\ Op(t) # "reload" /\ Op(t)' = Op(t)
      BY <1>5, <2>2 DEF Get, Reload, Op
    <3>3. ~Loading(t)' /\ pc'[t] # "lock"
      BY <3>1, <3>2 DEF Loading, Types
    <3> QED  BY <1>3, <1>5, <3>1, <3>3
  <2> QED  BY <2>1, <2>2
<1>6. ASSUME NEW t \in Tasks, Locked(t) PROVE Locks'
  <2>1. /\ pc[t] = "lock" /\ holder[lock[t]] = None /\ lock[t] \in Tasks /\ UNCHANGED <<locks, lock, undone>>
        /\ Op(t)' = Op(t)
    BY <1>6 DEF Locked, Equipped, EquippedAt, Op
  <2>2. CASE UNCHANGED holder
    <3>1. PICK p \in {"held", "audit", "refused"} : pc' = [pc EXCEPT ![t] = p] /\ Op(t) # "reload"
      BY <1>6, <2>1, <2>2, RuntimeAssumption DEF Locked, Hit, Go, After, Types
    <3>2. ~Loading(t)' /\ pc'[t] # "lock"
      BY <2>1, <3>1 DEF Loading, Types
    <3> QED  BY <1>3, <1>6, <2>1, <2>2, <3>2 DEF Runs
  <2>3. CASE Go(t, "loading") /\ holder' = [holder EXCEPT ![lock[t]] = t]
    <3>1. Frame(t) /\ \A s \in Tasks : Op(s)' = Op(s) /\ Key(s)' = Key(s)
      BY <1>6, FrameLemma DEF Runs
    <3>2. LocksDropped' <=> LocksDropped
      BY <1>2, <2>1, <3>1 DEF Frame
    <3>3. holder'[lock'[t]] = t
      BY <2>1, <2>3 DEF Types
    <3>4. \A s \in Tasks : Loading(s) => holder'[lock[s]] = holder[lock[s]]
      BY <2>1, <2>3, RuntimeAssumption DEF Locks, Types
    <3> QED  BY <1>1, <2>1, <3>1, <3>2, <3>3, <3>4 DEF Locks
  <2> QED  BY <1>6, <2>2, <2>3 DEF Locked
<1>7. ASSUME NEW t \in Tasks, LoadDone(t) \/ Swap(t) PROVE Locks'
  <2>1. Frame(t) /\ (\A s \in Tasks : Op(s)' = Op(s) /\ Key(s)' = Key(s)) /\ UNCHANGED <<work, undone, lock>>
    BY <1>7, FrameLemma DEF Runs, LoadDone, Swap
  <2>2. LocksDropped' <=> LocksDropped
    BY <1>2, <2>1
  <2>3. /\ Loading(t) /\ holder' = [holder EXCEPT ![lock[t]] = None]
        /\ \E p \in {"held", "audit"} : pc' = [pc EXCEPT ![t] = p] /\ (Op(t) = "reload" => p = "audit")
    BY <1>7 DEF LoadDone, Swap, Loading, Equipped, EquippedAt, Go, After
  <2>4. ~Loading(t)' /\ pc'[t] # "lock"
    BY <2>1, <2>3 DEF Loading, Types
  <2>5. \A s \in Tasks \ {t} : Loading(s) => holder'[lock[s]] = holder[lock[s]]
    BY <2>3 DEF Locks, Types, Equipped, EquippedAt
  <2>6. ASSUME ~LocksDropped PROVE locks' = locks
    <3> DEFINE R == [registry EXCEPT ![Key(t)] = t]
    <3>1. PICK o : SetRegistry(R, o, Key(t))
      BY <1>7 DEF LoadDone, Swap
    <3>2. R \in Bundles /\ Keyed(R)
      BY CallLemma DEF KeyedByMaker, Keyed, Types, Bundles
    <3>3. Cardinality({Key(s) : s \in Tasks}) <= MaxLoaded
      <4>1. Cardinality({Key(s) : s \in Tasks}) \in Nat
        <5>1. {Key(s) : s \in Tasks} \subseteq Keys
          BY CallLemma
        <5> QED  BY <5>1, RuntimeAssumption, FS_Subset, FS_CardinalityType
      <4> QED  BY <2>6, <4>1, RuntimeAssumption DEF LocksDropped
    <3> HIDE DEF R
    <3>4. Victims(R, o, Key(t)) = {}
      BY <3>2, <3>3, NoVictims
    <3>5. locks' = Without(locks, {})
      BY <3>1, <3>4 DEF SetRegistry
    <3> QED  BY <3>5 DEF Without, Types, Bundles
  <2> QED  BY <1>1, <2>1, <2>2, <2>4, <2>5, <2>6
<1>8. ASSUME NEW t \in Tasks, LoadFails(t) \/ RunFails(t) PROVE Locks'
  <2>1. Frame(t) /\ (\A s \in Tasks : Op(s)' = Op(s) /\ Key(s)' = Key(s)) /\ UNCHANGED <<work, undone, lock, locks>>
    BY <1>8, FrameLemma DEF LoadFails, RunFails
  <2>2. LocksDropped' <=> LocksDropped
    BY <1>2, <2>1
  <2>3. /\ pc' = [pc EXCEPT ![t] = "failed"]
        /\ UNCHANGED holder \/ (Loading(t) /\ holder' = [holder EXCEPT ![lock[t]] = None])
    BY <1>8 DEF LoadFails, RunFails, Loading, Go
  <2>4. ~Loading(t)' /\ pc'[t] # "lock"
    BY <2>1, <2>3 DEF Loading, Types
  <2>5. \A s \in Tasks \ {t} : Loading(s) => holder'[lock[s]] = holder[lock[s]]
    BY <2>3 DEF Locks, Types, Equipped, EquippedAt
  <2> QED  BY <1>1, <2>1, <2>2, <2>4, <2>5
<1>9. ASSUME NEW t \in Tasks, CandidateDone(t) \/ Begin(t) \/ Acquire(t) \/ Finish(t) \/ Drained(t) \/ Audited(t) PROVE Locks'
  <2>1. UNCHANGED <<lock, locks, holder, undone>> /\ Op(t)' = Op(t)
    BY <1>9 DEF CandidateDone, Begin, Acquire, Finish, Drained, Audited, Op
  <2>2. PICK p : pc' = [pc EXCEPT ![t] = p] /\ p # "lock" /\ p # "loading" /\ (pc[t] \in {"drain", "audit"} => p \in {"audit", "done"})
                 /\ (pc[t] \notin {"drain", "audit"} /\ Op(t) = "reload" => Loading(t))
    BY <1>9 DEF CandidateDone, Begin, Acquire, Finish, Drained, Audited, Go, Loading
  <2>3. (Loading(t)' => Loading(t)) /\ pc'[t] # "lock"
    BY <2>1, <2>2 DEF Loading, Types
  <2> QED  BY <1>3, <1>9, <2>1, <2>3 DEF Runs
<1>10. ASSUME NEW t \in Tasks, Unload(t) PROVE Locks'
  <2>1. Frame(t) /\ (\A s \in Tasks : Op(s)' = Op(s) /\ Key(s)' = Key(s)) /\ UNCHANGED <<work, undone, lock, holder>>
    BY <1>10, FrameLemma DEF Unload
  <2>2. LocksDropped'
    BY <1>10, <2>1 DEF Unload, LocksDropped
  <2>3. ~Loading(t)' /\ pc'[t] # "lock"
    BY <1>10, <2>1 DEF Unload, Go, Loading, Types
  <2> QED  BY <1>1, <2>1, <2>2, <2>3
<1>11. ASSUME NEW t \in Tasks, AuditFails(t) PROVE Locks'
  <2>1. Frame(t) /\ (\A s \in Tasks : Op(s)' = Op(s) /\ Key(s)' = Key(s)) /\ UNCHANGED <<work, lock, holder>>
    BY <1>11, FrameLemma DEF AuditFails
  <2>2. LocksDropped'
    BY <1>11 DEF AuditFails, LocksDropped
  <2>3. ~Loading(t)' /\ pc'[t] # "lock"
    BY <1>11, <2>1 DEF AuditFails, Go, Loading, Types
  <2> QED  BY <1>1, <2>1, <2>2, <2>3
<1>12. ASSUME UNCHANGED <<work, pc, lock, locks, holder, undone>> PROVE Locks'
  BY <1>2, <1>12 DEF Locks, Loading, Op, Key
<1>13. ASSUME NEW b \in Tasks, Release(b) PROVE Locks'
  BY <1>12, <1>13 DEF Release
<1>14. ASSUME NEW k \in Keys, CoolsDown(k) PROVE Locks'
  BY <1>12, <1>14 DEF CoolsDown
<1>15. CASE UNCHANGED runtimeVars
  BY <1>12, <1>15 DEF runtimeVars
<1> QED  BY <1>5, <1>6, <1>7, <1>8, <1>9, <1>10, <1>11, <1>13, <1>14, <1>15 DEF RuntimeNext, Runs
-----------------------------------------------------------------------------
\* Who has made no bundle, and who has a candidate, after a step of t.
LEMMA MakersLemma ==
  ASSUME Types, NEW t \in Tasks, Frame(t), \A s \in Tasks : Op(s)' = Op(s)
  PROVE  /\ Fresh' \subseteq Fresh \cup {t} /\ Candidate' \subseteq Candidate \cup {t}
         /\ \A s \in Tasks \ {t} : pc'[s] = pc[s] /\ mine'[s] = mine[s]
         /\ Fresh \subseteq Tasks /\ Candidate \subseteq Tasks /\ Fresh \cap Candidate = {}
BY DEF Frame, Fresh, Candidate, Using

\* A step of t that neither registers nor drains nor releases, and after which t knows no bundle
\* but the one it had or a registered one.
LEMMA QuietOwned ==
  ASSUME Types, Equipped, Owned, NEW t \in Tasks, Frame(t), \A s \in Tasks : Op(s)' = Op(s),
         UNCHANGED <<registry, session, drains>>,
         mine'[t] = mine[t] \/ Registered(mine'[t]),
         t \in Fresh' => t \in Fresh /\ mine'[t] = mine[t],
         t \in Candidate' => t \in Candidate /\ mine'[t] = mine[t],
         pc'[t] \in Using => mine'[t] \in session,
         Op(t) = "reload" /\ pc'[t] = "audit" => FALSE
  PROVE  Owned'
<1>1. /\ Fresh' \subseteq Fresh /\ Candidate' \subseteq Candidate
      /\ \A s \in Tasks \ {t} : pc'[s] = pc[s] /\ mine'[s] = mine[s]
      /\ Fresh \subseteq Tasks /\ Candidate \subseteq Tasks
  BY MakersLemma
<1>2. \A b : Registered(b)' <=> Registered(b)
  BY DEF Registered
<1>3. Unmade'
  BY <1>1, <1>2 DEF Unmade, Unknown, Owned
<1>4. Private'
  BY <1>1, <1>2 DEF Private, Unknown, Owned
<1>5. Running'
  BY <1>1 DEF Running, Owned
<1>6. Usable'
  BY DEF Usable, Owned
<1>7. Retired'
  BY <1>1, <1>2 DEF Retired, Owned
<1> QED  BY <1>3, <1>4, <1>5, <1>6, <1>7 DEF Owned

\* A new bundle is registered, and what is evicted for it is not used by anybody.
LEMMA RegisterOwned ==
  ASSUME Types, Counts, Equipped, KeyedByMaker, Owned, NEW t \in Tasks, Frame(t), \A s \in Tasks : Op(s)' = Op(s),
         NEW o, SetRegistry([registry EXCEPT ![Key(t)] = t], o, Key(t)), UNCHANGED drains,
         t \in Fresh \cup Candidate, t \notin Fresh', t \notin Candidate', pc'[t] \notin Using,
         mine'[t] = t \/ mine'[t] = registry[Key(t)],
         Op(t) = "reload" /\ pc'[t] = "audit" => mine'[t] = registry[Key(t)]
  PROVE  Owned'
<1> DEFINE R == [registry EXCEPT ![Key(t)] = t]
<1>1. /\ Fresh' \subseteq Fresh \ {t} /\ Candidate' \subseteq Candidate \ {t}
      /\ \A s \in Tasks \ {t} : pc'[s] = pc[s] /\ mine'[s] = mine[s]
      /\ Fresh \subseteq Tasks /\ Candidate \subseteq Tasks
  BY MakersLemma
<1>2. Key(t) \in Keys /\ R \in [Keys -> Tasks \cup {None}] /\ R[Key(t)] = t
      /\ \A k \in Keys : k # Key(t) => R[k] = registry[k]
  BY CallLemma DEF Types, Bundles
<1>3. Unknown(t) /\ \A s \in Tasks \ {t} : mine[s] # t
  BY DEF Owned, Unmade, Private
<1> HIDE DEF R
<1>4. PICK V : /\ registry' = Without(R, V) /\ session' = (session \cup {t}) \ {R[j] : j \in V}
               /\ V = Victims(R, o, Key(t))
  BY <1>2 DEF SetRegistry, R
<1>5. \A j \in V : j \in Keys /\ j # Key(t) /\ R[j] = registry[j] /\ registry[j] # None /\ registry[j] \in Tasks
                  /\ inUse[registry[j]] = 0
  BY <1>2, <1>4, VictimLemma
<1>6. \A j \in V : R[j] # t
  BY <1>3, <1>5 DEF Unknown, Registered
<1>7. \A k \in Keys : registry'[k] = IF k \in V THEN None ELSE R[k]
  BY <1>4 DEF Without
<1>8. \A b \in Tasks : Registered(b)' => b = t \/ (b # t /\ Registered(b) /\ b # registry[Key(t)])
  <2> SUFFICES ASSUME NEW b \in Tasks, NEW k \in Keys, registry'[k] = b, b # t
               PROVE  Registered(b) /\ b # registry[Key(t)]
    BY DEF Registered
  <2>1. k # Key(t) /\ registry[k] = b
    BY <1>2, <1>7, RuntimeAssumption
  <2>2. Key(registry[k]) = k /\ registry[k] # None
    BY <2>1, RuntimeAssumption DEF KeyedByMaker, Keyed
  <2>3. registry[Key(t)] # None => Key(registry[Key(t)]) = Key(t)
    BY <1>2 DEF KeyedByMaker, Keyed
  <2> QED  BY <2>1, <2>2, <2>3 DEF Registered
<1>9. \A s \in Tasks : Registered(mine'[s]) /\ mine'[s] # None => mine'[s] \in Tasks
  BY DEF Registered, Types, Bundles
<1>10. ASSUME NEW b \in Tasks, Unknown(b), b # t PROVE Unknown(b)'
  BY <1>8, <1>10 DEF Unknown
<1>11. ASSUME NEW b \in Tasks, ~Registered(b), b # t PROVE mine'[t] # b
  BY <1>2, <1>11 DEF Registered
<1>12. Unmade'
  BY <1>1, <1>10, <1>11 DEF Unmade, Unknown, Owned
<1>13. ASSUME NEW b \in session, b \in Tasks, ~Registered(b) \/ inUse[b] # 0 PROVE b \in session'
  BY <1>4, <1>5, <1>13 DEF Registered
<1>14. Private'
  BY <1>1, <1>10, <1>11, <1>13 DEF Private, Unknown, Owned
<1>15. Running'
  <2> SUFFICES ASSUME NEW s \in Tasks, pc'[s] \in Using PROVE mine'[s] \in session'
    BY DEF Running
  <2>1. s # t /\ pc[s] \in Using /\ mine'[s] = mine[s] /\ mine[s] \in session /\ mine[s] \in Tasks
    BY <1>1 DEF Running, Owned, Equipped, EquippedAt
  <2>2. s \in Users(mine[s])
    BY <2>1 DEF Users
  <2>3. inUse[mine[s]] # 0
    BY <2>1, <2>2, FiniteLemma, FS_EmptySet DEF Counts
  <2> QED  BY <1>13, <2>1, <2>3
<1>16. Usable'
  <2> SUFFICES ASSUME NEW k \in Keys, registry'[k] # None PROVE registry'[k] \in session'
    BY DEF Usable
  <2>1. k \notin V /\ registry'[k] = R[k]
    BY <1>7
  <2>2. CASE k = Key(t)
    BY <1>2, <1>4, <1>6, <2>1, <2>2
  <2>3. CASE k # Key(t)
    <3>1. registry[k] \in session /\ registry[k] # None /\ R[k] = registry[k]
      BY <1>2, <2>1, <2>3 DEF Usable, Owned
    <3>2. \A j \in V : R[j] # R[k]
      BY <1>5, <2>1, <3>1 DEF KeyedByMaker, Keyed
    <3> QED  BY <1>4, <2>1, <3>1, <3>2
  <2> QED  BY <2>2, <2>3
<1>17. Retired'
  <2>1. ASSUME NEW b \in drains' PROVE ~Registered(b)'
    BY <1>3, <1>8, <2>1 DEF Retired, Owned, Types, Unknown
  <2>2. ASSUME NEW s \in Tasks, Op(s)' = "reload", pc'[s] = "audit", mine'[s] # None PROVE ~Registered(mine[s])'
    <3>1. CASE s = t
      <4>1. mine'[s] = registry[Key(t)] /\ registry[Key(t)] \in Tasks /\ mine'[s] \in Tasks
        BY <1>2, <2>2, <3>1 DEF Types, Bundles
      <4>2. mine'[s] # t
        BY <1>2, <1>3, <4>1 DEF Unknown, Registered
      <4> QED  BY <1>8, <4>1, <4>2
    <3>2. CASE s # t
      <4>1. ~Registered(mine[s]) /\ mine'[s] = mine[s] /\ mine[s] # t /\ mine[s] \in Tasks
        BY <1>1, <1>3, <2>2, <3>2 DEF Retired, Owned, Types
      <4> QED  BY <1>8, <4>1
    <3> QED  BY <3>1, <3>2
  <2> QED  BY <2>1, <2>2 DEF Retired
<1> QED  BY <1>12, <1>14, <1>15, <1>16, <1>17 DEF Owned
\* The steps that release a bundle, or are about to.
LEMMA ReleaseOwned ==
  ASSUME Types, Counts, Equipped, Owned, NEW b \in Tasks, Release(b)
  PROVE  Owned'
<1>1. /\ b \in drains /\ inUse[b] = 0 /\ drains' = drains \ {b} /\ session' = session \ {b}
      /\ UNCHANGED <<work, registry, pc, mine>>
  BY DEF Release
<1>2. /\ \A s \in Tasks : Op(s)' = Op(s)
      /\ \A c : Registered(c)' <=> Registered(c)
      /\ Fresh' = Fresh /\ Candidate' = Candidate /\ Candidate \subseteq Tasks
  BY <1>1 DEF Op, Registered, Fresh, Candidate
<1>3. \A c : Unknown(c) => Unknown(c)'
  BY <1>1, <1>2 DEF Unknown
<1>4. Unmade'
  BY <1>1, <1>2, <1>3 DEF Unmade, Owned
<1>5. Private'
  BY <1>1, <1>2, <1>3 DEF Private, Owned, Unknown
<1>6. Running'
  <2> SUFFICES ASSUME NEW s \in Tasks, pc[s] \in Using PROVE mine[s] # b
    BY <1>1 DEF Running, Owned
  <2>1. mine[s] \in Tasks /\ s \in Users(mine[s])
    BY DEF Users, Equipped, EquippedAt
  <2>2. inUse[mine[s]] # 0
    BY <2>1, FiniteLemma, FS_EmptySet DEF Counts
  <2> QED  BY <1>1, <2>2
<1>7. Usable'
  BY <1>1 DEF Usable, Owned, Retired, Registered
<1>8. Retired'
  BY <1>1, <1>2 DEF Retired, Owned
<1> QED  BY <1>4, <1>5, <1>6, <1>7, <1>8 DEF Owned

LEMMA CandidateOwned ==
  ASSUME Types, Equipped, Owned, NEW t \in Tasks, CandidateDone(t) \/ (RunFails(t) /\ Op(t) = "reload")
  PROVE  Owned'
<1>1. Frame(t) /\ (\A s \in Tasks : Op(s)' = Op(s)) /\ UNCHANGED <<registry, drains>>
  BY FrameLemma DEF Runs, CandidateDone, RunFails
<1>2. /\ Fresh' \subseteq Fresh \cup {t} /\ Candidate' \subseteq Candidate \cup {t}
      /\ \A s \in Tasks \ {t} : pc'[s] = pc[s] /\ mine'[s] = mine[s]
      /\ Fresh \subseteq Tasks /\ Candidate \subseteq Tasks
  BY <1>1, MakersLemma
<1>3. /\ \A b : Registered(b)' <=> Registered(b)
      /\ \A b : Unknown(b)' <=> Unknown(b)
  BY <1>1 DEF Registered, Unknown
<1>4. mine'[t] = t /\ Unknown(t) /\ (\A s \in Tasks \ {t} : mine[s] # t) /\ pc'[t] \in {"held", "failed"} /\ t \notin Fresh'
      /\ session' = IF t \in Candidate' THEN session \cup {t} ELSE session \ {t}
  <2>1. CASE CandidateDone(t)
    BY <1>2, <2>1 DEF CandidateDone, Fresh, Candidate, Owned, Unmade, Unknown, Go, Types, Op
  <2>2. CASE RunFails(t) /\ Op(t) = "reload"
    BY <1>2, <2>2 DEF RunFails, Fresh, Candidate, Owned, Private, Unknown, Go, Types, Op, Using
  <2> QED  BY <2>1, <2>2
<1>5. \A s \in Tasks \ {t} : mine'[s] # t
  BY <1>2, <1>4
<1>6. \A b \in Tasks : b # t /\ b \in session => b \in session'
  BY <1>4
<1>7. Unmade'
  BY <1>2, <1>3, <1>4 DEF Unmade, Owned
<1>8. Private'
  BY <1>2, <1>3, <1>4, <1>5, <1>6 DEF Private, Owned
<1>9. Running'
  BY <1>2, <1>4, <1>5, <1>6 DEF Running, Owned, Using, Equipped, EquippedAt
<1>10. Usable'
  BY <1>1, <1>4, <1>6 DEF Usable, Owned, Unknown, Registered, Types, Bundles
<1>11. Retired'
  BY <1>1, <1>2, <1>3, <1>4 DEF Retired, Owned
<1> QED  BY <1>7, <1>8, <1>9, <1>10, <1>11 DEF Owned

LEMMA DrainOwned ==
  ASSUME Types, Equipped, KeyedByMaker, Owned, NEW t \in Tasks, Unload(t) \/ Audited(t)
  PROVE  Owned'
<1>1. Frame(t) /\ (\A s \in Tasks : Op(s)' = Op(s)) /\ UNCHANGED session
  BY FrameLemma DEF Runs, Unload, Audited
<1>2. /\ Fresh' \subseteq Fresh \cup {t} /\ Candidate' \subseteq Candidate \cup {t}
      /\ \A s \in Tasks \ {t} : pc'[s] = pc[s] /\ mine'[s] = mine[s]
      /\ Fresh \subseteq Tasks /\ Candidate \subseteq Tasks /\ Fresh \cap Candidate = {}
  BY <1>1, MakersLemma
<1>3. /\ t \notin Fresh' /\ t \notin Candidate' /\ t \notin Candidate /\ pc'[t] \notin Using
      /\ Op(t) = "reload" => pc'[t] # "audit"
  <2>1. CASE Unload(t)
    BY <1>1, <2>1 DEF Unload, Fresh, Candidate, Go, Types, Using
  <2>2. CASE Audited(t)
    BY <1>1, <2>2 DEF Audited, Fresh, Candidate, Go, Types, Using
  <2> QED  BY <2>1, <2>2
<1>4. /\ \A b \in Tasks : Registered(b)' => Registered(b)
      /\ \A k \in Keys : registry'[k] # None => registry'[k] = registry[k]
  BY RuntimeAssumption DEF Unload, Audited, Registered, Without
<1>5. mine'[t] = mine[t] \/ (mine'[t] = registry[Key(t)] /\ Key(t) \in Keys)
  BY CallLemma DEF Unload, Audited, Types
<1>6. /\ \A b \in drains' \ drains : b \in Tasks /\ ~Registered(b)' /\ (Registered(b) \/ b = mine[t])
      /\ drains \subseteq drains'
  <2>1. CASE Unload(t)
    <3>1. /\ drains' = IF registry[Key(t)] = None THEN drains ELSE drains \cup {registry[Key(t)]}
          /\ registry' = Without(registry, {Key(t)})
      BY <2>1 DEF Unload
    <3>2. Key(t) \in Keys
      BY CallLemma
    <3>3. ASSUME NEW b, b = registry[Key(t)], b # None PROVE ~Registered(b)'
      <4> SUFFICES ASSUME NEW k \in Keys, registry'[k] = b PROVE FALSE
        BY DEF Registered
      <4>1. k # Key(t) /\ registry[k] = b
        BY <3>1, <3>3 DEF Without
      <4>2. Key(registry[k]) = k /\ Key(registry[Key(t)]) = Key(t)
        BY <3>2, <3>3, <4>1 DEF KeyedByMaker, Keyed
      <4> QED  BY <3>3, <4>1, <4>2
    <3>4. registry[Key(t)] # None => registry[Key(t)] \in Tasks /\ Registered(registry[Key(t)])
      BY <3>2 DEF Registered, Types, Bundles
    <3> QED  BY <3>1, <3>3, <3>4
  <2>2. CASE Audited(t)
    <3>1. /\ drains' = IF Op(t) = "reload" /\ mine[t] # None THEN drains \cup {mine[t]} ELSE drains
          /\ pc[t] = "audit" /\ UNCHANGED registry
      BY <2>2 DEF Audited
    <3> QED  BY <3>1 DEF Retired, Owned, Registered, Types
  <2> QED  BY <2>1, <2>2
<1>7. ASSUME NEW b \in Fresh \cup Candidate, b # t PROVE Unknown(b)'
  BY <1>2, <1>3, <1>4, <1>6, <1>7 DEF Owned, Unmade, Private, Unknown
<1>8. ASSUME NEW b \in Tasks, ~Registered(b), mine[t] # b PROVE mine'[t] # b
  BY <1>5, <1>8 DEF Registered
<1>9. Unmade'
  BY <1>2, <1>3, <1>7, <1>8 DEF Unmade, Owned, Unknown
<1>10. Private'
  BY <1>1, <1>2, <1>3, <1>7, <1>8 DEF Private, Owned, Unknown
<1>11. Running'
  BY <1>1, <1>2, <1>3 DEF Running, Owned
<1>12. Usable'
  BY <1>1, <1>4 DEF Usable, Owned
<1>13. Retired'
  BY <1>1, <1>2, <1>3, <1>4, <1>6 DEF Retired, Owned, Types
<1> QED  BY <1>9, <1>10, <1>11, <1>12, <1>13 DEF Owned

\* As long as nothing is undone, every step keeps the bundles with their owners.
LEMMA OwnedNext ==
  ASSUME Types, Counts, Equipped, KeyedByMaker, Owned, [RuntimeNext]_runtimeVars, ~undone'
  PROVE  Owned'
<1>1. ASSUME NEW t \in Tasks, \/ Get(t) \/ Reload(t) \/ Unload(t) \/ Runs(t) \/ LoadFails(t) \/ RunFails(t)
      PROVE  /\ Frame(t) /\ \A s \in Tasks : Op(s)' = Op(s) /\ Key(s)' = Key(s)
             /\ Key(t) \in Keys /\ EquippedAt(t)
  BY <1>1, FrameLemma, CallLemma DEF Equipped
<1>2. ASSUME NEW t \in Tasks, Get(t) \/ Reload(t) \/ Locked(t) PROVE Owned'
  <2>1. UNCHANGED <<registry, session, drains>> /\ pc[t] \in {"new", "lock"}
    BY <1>2 DEF Get, Reload, Locked
  <2>2. CASE Hit(t) /\ Op(t) # "reload"
    <3>1. mine'[t] = registry[Key(t)] /\ pc'[t] \in {"held", "audit"}
      BY <2>2 DEF Hit, Go, After, Types
    <3>2. Registered(mine'[t])
      BY <1>1, <1>2, <3>1 DEF Registered, Runs
    <3>3. t \notin Fresh' /\ t \notin Candidate' /\ pc'[t] \notin Using
      BY <1>1, <1>2, <2>2, <3>1 DEF Fresh, Candidate, Using, Runs
    <3> QED  BY <1>1, <1>2, <2>1, <2>2, <3>2, <3>3, QuietOwned DEF Runs
  <2>3. CASE UNCHANGED mine /\ pc'[t] \in {"refused", "lock", "loading"}
    <3>1. t \in Fresh /\ t \notin Candidate' /\ pc'[t] \notin Using
      BY <2>1, <2>3 DEF Fresh, Candidate, Using
    <3> QED  BY <1>1, <1>2, <2>1, <2>3, <3>1, QuietOwned DEF Runs
  <2>4. Get(t) \/ Locked(t) => \/ (Hit(t) /\ Op(t) # "reload")
                              \/ (UNCHANGED mine /\ pc'[t] \in {"refused", "lock", "loading"})
    BY DEF Get, Locked, Go, AskLock, Types
  <2>5. Reload(t) => UNCHANGED mine /\ pc'[t] \in {"refused", "lock", "loading"}
    BY DEF Reload, Go, AskLock, Types
  <2> QED  BY <1>2, <2>2, <2>3, <2>4, <2>5
<1>3. ASSUME NEW t \in Tasks, \/ LoadFails(t) \/ Begin(t) \/ Acquire(t) \/ Finish(t) \/ Drained(t)
                              \/ RunFails(t) /\ Op(t) # "reload"
      PROVE  Owned'
  <2>1. UNCHANGED <<registry, session, drains, mine>> /\ pc[t] \notin {"new", "lock"}
    BY <1>3 DEF LoadFails, Begin, Acquire, Finish, Drained, RunFails
  <2>2. t \notin Fresh' /\ (t \in Candidate' => t \in Candidate) /\ (Op(t) = "reload" => pc'[t] # "audit")
    BY <1>1, <1>3 DEF LoadFails, Begin, Acquire, Finish, Drained, RunFails, Fresh, Candidate, Using, Go, Types, Runs, EquippedAt
  <2>3. pc'[t] \in Using => mine'[t] \in session
    BY <1>3 DEF LoadFails, Begin, Acquire, Finish, Drained, RunFails, Using, Go, Types, Owned, Running
  <2> QED  BY <1>1, <1>3, <2>1, <2>2, <2>3, QuietOwned DEF Runs
<1>4. ASSUME NEW t \in Tasks, LoadDone(t) PROVE Owned'
  <2>1. /\ SetRegistry([registry EXCEPT ![Key(t)] = t], Touched(older, t), Key(t)) /\ UNCHANGED drains
        /\ Op(t) # "reload" /\ pc[t] = "loading" /\ pc'[t] \in {"held", "audit"} /\ mine'[t] = t
    BY <1>4 DEF LoadDone, Go, After, Types
  <2>2. t \in Fresh /\ t \notin Fresh' /\ t \notin Candidate' /\ pc'[t] \notin Using
    BY <1>1, <1>4, <2>1 DEF Fresh, Candidate, Using, Runs
  <2> QED  BY <1>1, <1>4, <2>1, <2>2, RegisterOwned DEF Runs
<1>5. ASSUME NEW t \in Tasks, Swap(t) PROVE Owned'
  <2>1. /\ SetRegistry([registry EXCEPT ![Key(t)] = t], older, Key(t)) /\ UNCHANGED drains
        /\ pc[t] = "swap" /\ pc'[t] = "audit" /\ mine'[t] = registry[Key(t)]
    BY <1>5 DEF Swap, Go, Types
  <2>2. t \in Candidate /\ t \notin Fresh' /\ t \notin Candidate' /\ pc'[t] \notin Using
    BY <1>1, <1>5, <2>1 DEF Fresh, Candidate, Using, Runs, EquippedAt
  <2> QED  BY <1>1, <1>5, <2>1, <2>2, RegisterOwned DEF Runs
<1>6. ASSUME NEW t \in Tasks, CandidateDone(t) \/ (RunFails(t) /\ Op(t) = "reload") PROVE Owned'
  BY <1>6, CandidateOwned
<1>7. ASSUME NEW t \in Tasks, Unload(t) \/ Audited(t) PROVE Owned'
  BY <1>7, DrainOwned
<1>8. ASSUME NEW t \in Tasks PROVE ~AuditFails(t)
  BY DEF AuditFails
<1>9. ASSUME NEW b \in Tasks, Release(b) PROVE Owned'
  BY <1>9, ReleaseOwned
<1>10. ASSUME UNCHANGED <<work, registry, session, drains, pc, mine>> PROVE Owned'
  BY <1>10 DEF Owned, Unmade, Private, Running, Usable, Retired, Unknown, Registered, Fresh, Candidate, Op
<1>11. ASSUME NEW k \in Keys, CoolsDown(k) PROVE Owned'
  BY <1>10, <1>11 DEF CoolsDown
<1>12. CASE UNCHANGED runtimeVars
  BY <1>10, <1>12 DEF runtimeVars
<1> QED
  BY <1>2, <1>3, <1>4, <1>5, <1>6, <1>7, <1>8, <1>9, <1>11, <1>12 DEF RuntimeNext, Runs

-----------------------------------------------------------------------------
\* In every state the types and counts are right; as long as no administrative call was undone,
\* no eviction, unload or hot swap takes the session of a bundle that is used or registered; and
\* a load lock admits one task, the one lock of a model unless it was dropped.
THEOREM Bundled == RuntimeSpec => []BundlesAreSound
<1>1. RuntimeInit => IInv
  <2> SUFFICES ASSUME RuntimeInit PROVE IInv
    OBVIOUS
  <2>1. /\ work \in Calls /\ registry = [k \in Keys |-> None] /\ locks = [k \in Keys |-> None]
        /\ older = {} /\ session = {} /\ drains = {} /\ cooling = {} /\ undone = FALSE
        /\ holder = [t \in Tasks |-> None] /\ inUse = [t \in Tasks |-> 0]
        /\ pc = [t \in Tasks |-> "new"] /\ mine = [t \in Tasks |-> None]
        /\ lock = [t \in Tasks |-> None] /\ snap = [t \in Tasks |-> None]
        /\ faults = [run |-> RunFaults, audit |-> AuditFaults]
    BY DEF RuntimeInit
  <2>2. Types
    <3>1. faults \in [run : 0..RunFaults, audit : 0..AuditFaults]
      BY <2>1, RuntimeAssumption
    <3>2. /\ pc \in [Tasks -> Stages] /\ registry \in Bundles /\ locks \in Bundles /\ inUse \in [Tasks -> Nat]
          /\ holder \in [Tasks -> Tasks \cup {None}] /\ mine \in [Tasks -> Tasks \cup {None}]
          /\ lock \in [Tasks -> Tasks \cup {None}] /\ snap \in [Tasks -> {None} \cup (Bundles \X Bundles)]
      BY <2>1 DEF Stages, Bundles
    <3> QED  BY <2>1, <3>1, <3>2 DEF Types
  <2>3. (\A b \in Tasks : Users(b) = {} /\ OnModel(b) = {}) /\ OnGpu = {}
    BY <2>1 DEF Users, OnModel, OnGpu, At, Using
  <2>4. Counts
    <3>1. Cardinality({}) = 0 /\ 0 <= Permits /\ 0 <= GpuLimit
      BY FS_EmptySet, RuntimeAssumption
    <3> QED  BY <2>1, <2>3, <3>1 DEF Counts
  <2>5. Equipped /\ KeyedByMaker /\ Locks
    BY <2>1 DEF Equipped, EquippedAt, Using, Loading, KeyedByMaker, Keyed, Locks
  <2>6. Owned
    BY <2>1, RuntimeAssumption DEF Owned, Unmade, Private, Running, Usable, Retired, Unknown, Registered, Fresh, Candidate, Using
  <2> QED  BY <2>2, <2>4, <2>5, <2>6, TypeParts DEF IInv
<1>2. IInv /\ [RuntimeNext]_runtimeVars => IInv'
  <2> SUFFICES ASSUME IInv, [RuntimeNext]_runtimeVars PROVE IInv'
    OBVIOUS
  <2>1. Types /\ Counts /\ Equipped /\ KeyedByMaker /\ Locks /\ (~undone => Owned)
    BY TypeParts DEF IInv
  <2>2. Types' /\ Counts' /\ Equipped' /\ KeyedByMaker' /\ Locks'
    BY <2>1, TypesNext, CountsNext, EquippedNext, KeyedNext, LocksNext
  <2>3. ~undone' => ~undone
    BY <2>1 DEF RuntimeNext, Runs, Get, Reload, Unload, Locked, LoadFails, LoadDone, CandidateDone, Swap, Begin, Acquire,
               Finish, RunFails, Drained, Audited, AuditFails, Release, CoolsDown, runtimeVars, Types
  <2>4. ~undone' => Owned'
    BY <2>1, <2>3, OwnedNext
  <2>5. RuntimeTypeOK'
    BY <2>2, TypeParts, PTL
  <2> QED  BY <2>2, <2>4, <2>5 DEF IInv
<1>3. IInv => BundlesAreSound
  <2> SUFFICES ASSUME IInv PROVE BundlesAreSound
    OBVIOUS
  <2>1. Types /\ Counts /\ Equipped /\ Locks /\ (~undone => Owned)
    BY TypeParts DEF IInv
  <2>2. InUseKeepsSession
    <3> SUFFICES ASSUME ~undone, NEW b \in Tasks, inUse[b] > 0 PROVE b \in session
      BY DEF InUseKeepsSession
    <3>1. Users(b) # {}
      BY <2>1, FS_EmptySet DEF Counts
    <3> QED  BY <2>1, <3>1 DEF Users, Owned, Running
  <2>3. RegisteredIsUsable
    BY <2>1 DEF RegisteredIsUsable, Owned, Usable, Loaded
  <2>4. OneLoadPerKey
    BY <2>1 DEF OneLoadPerKey, Locks
  <2> QED  BY <2>2, <2>3, <2>4 DEF BundlesAreSound, IInv
<1> QED  BY <1>1, <1>2, <1>3, PTL DEF RuntimeSpec
=============================================================================
