------------------------ MODULE LocalTaskQueueProofs ------------------------
(***************************************************************************)
(* Proofs about LocalTaskQueue and RedisTaskQueue, for any number of       *)
(* workers, messages and faults: the spool does what TaskQueue promises,   *)
(* step by step, and loses nothing, with the one exception of a file that  *)
(* is deleted as invalid; the streams do what it promises and lose nothing. *)
(***************************************************************************)
EXTENDS LocalTaskQueue, RedisTaskQueue, TLAPS

\* NoOtherLoss is not inductive: a message may be claimed before its enqueue
\* returns.
Kept == \A m \in Messages :
  api[m] \in {"written", "ok"} /\ m \notin acked \cup discarded => Exists(m)

-----------------------------------------------------------------------------
LEMMA FaultLemma == ASSUME TypeOK, Fault PROVE left' \in 0..MaxFaults
BY BoundAssumption DEF TypeOK, Fault

\* A worker that moves keeps its type, and is about a message exactly where it
\* needs one.
LEMMA GoLemma ==
  ASSUME TypeOK, NEW w \in Consumers, NEW m \in Messages \cup {None},
         NEW p \in {"idle", "requeue", "try", "touch", "read", "discard", "write",
                    "work", "rewrite"},
         Go(w, p, m), m = None <=> p \in {"idle", "try"}
  PROVE  /\ pc' \in [Consumers -> {"idle", "requeue", "try", "touch", "read", "discard",
                                   "write", "work", "rewrite"}]
         /\ msg' \in [Consumers -> Messages \cup {None}]
         /\ \A v \in Consumers : msg'[v] = None <=> pc'[v] \in {"idle", "try"}
BY DEF TypeOK, Go

\* Where a worker is about a message, and what it may do with the file.
LEMMA FileLemma ==
  ASSUME TypeOK, NEW m \in Messages
  PROVE  /\ Put(m, pend) \in [Messages -> Age] /\ Put(m, proc) \in [Messages -> Age]
         /\ Unlink(m, pend) \in [Messages -> Age] /\ Unlink(m, proc) \in [Messages -> Age]
         /\ [pend EXCEPT ![m] = proc[m]] \in [Messages -> Age]
         /\ [proc EXCEPT ![m] = pend[m]] \in [Messages -> Age]
BY DEF TypeOK, Age, Put, Unlink

LEMMA PutBackLemma ==
  ASSUME TypeOK, NEW m \in Messages, PutBack(m)
  PROVE  pend' \in [Messages -> Age] /\ proc' \in [Messages -> Age]
BY FileLemma DEF PutBack

LEMMA MessageLemma ==
  ASSUME TypeOK, NEW w \in Consumers, pc[w] \notin {"idle", "try"}
  PROVE  msg[w] \in Messages /\ msg[w] # None
BY NoneAssumption DEF TypeOK

LEMMA ContinueLemma ==
  ASSUME TypeOK, NEW w \in Consumers, NEW steps, Continue(w, steps)
  PROVE  /\ pc' \in [Consumers -> {"idle", "requeue", "try", "touch", "read", "discard",
                                   "write", "work", "rewrite"}]
         /\ msg' \in [Consumers -> Messages \cup {None}]
         /\ \A v \in Consumers : msg'[v] = None <=> pc'[v] \in {"idle", "try"}
         /\ pc'[w] \in {"idle", "try"} /\ \A v \in Consumers \ {w} : pc'[v] = pc[v] /\ msg'[v] = msg[v]
BY DEF TypeOK, Continue, Go

-----------------------------------------------------------------------------
LEMMA InitType == Init => TypeOK
BY BoundAssumption DEF Init, TypeOK, Age

LEMMA ProducerType ==
  ASSUME TypeOK, NEW m \in Messages,
         \/ EnqueueWrite(m) \/ RemovePending(m) \/ ProducerStep(m)
         \/ AgePending(m) \/ AgeProcessing(m)
  PROVE  TypeOK'
<1>1. /\ Put(m, pend) \in [Messages -> Age] /\ Unlink(m, pend) \in [Messages -> Age]
      /\ Unlink(m, proc) \in [Messages -> Age]
  BY FileLemma
<1>2. ASSUME NEW p, NEW q \in {"written", "ok", "failed", "removing", "removed"}, At(m, p, q)
      PROVE  api' \in [Messages -> {"new", "written", "ok", "failed", "removing", "removed"}]
  BY <1>2 DEF At, TypeOK
<1>3. CASE EnqueueWrite(m)
  BY <1>1, <1>2, <1>3 DEF EnqueueWrite, TypeOK
<1>4. CASE EnqueueLogged(m)
  BY <1>2, <1>4 DEF EnqueueLogged, TypeOK, files
<1>5. CASE EnqueueFails(m)
  BY <1>1, <1>2, <1>5, FaultLemma DEF EnqueueFails, TypeOK
<1>6. CASE RemovePending(m)
  BY <1>1, <1>2, <1>6, FaultLemma DEF RemovePending, TypeOK
<1>7. CASE RemoveProcessing(m)
  BY <1>1, <1>2, <1>7 DEF RemoveProcessing, TypeOK
<1>8. CASE AgePending(m)
  BY <1>8 DEF AgePending, TypeOK, Age
<1>9. CASE AgeProcessing(m)
  <2>1. left' \in 0..MaxFaults
    BY <1>9, FaultLemma DEF AgeProcessing, TypeOK
  <2>2. proc' \in [Messages -> Age]
    BY <1>9 DEF AgeProcessing, TypeOK, Age
  <2> QED  BY <1>9, <2>1, <2>2 DEF AgeProcessing, TypeOK
<1> QED  BY <1>3, <1>4, <1>5, <1>6, <1>7, <1>8, <1>9 DEF ProducerStep

LEMMA WorkerType ==
  ASSUME TypeOK, NEW w \in Consumers, WorkerStep(w) \/ Crash(w)
  PROVE  TypeOK'
<1> USE FileLemma, FaultLemma, MessageLemma, NoneAssumption
<1>1. CASE \E m \in Messages : Look(w, m)
  <2> PICK m \in Messages : Look(w, m)  BY <1>1
  <2> QED  BY GoLemma DEF Look, TypeOK, files
<1>2. CASE Requeue(w)
  <2>1. pend' \in [Messages -> Age] /\ proc' \in [Messages -> Age]
    <3>1. msg[w] \in Messages
      BY <1>2 DEF Requeue
    <3> QED  BY <1>2, <3>1, PutBackLemma DEF Requeue, TypeOK, files
  <2> QED  BY <1>2, <2>1, GoLemma DEF Requeue, TypeOK
<1>3. CASE List(w)
  BY <1>3, GoLemma DEF List, TypeOK, files
<1>4. CASE Try(w)
  <2> PICK m \in Messages :
        /\ todo' = [todo EXCEPT ![w] = @ \ {m}]
        /\ IF pend[m] = "none" THEN Continue(w, todo[w] \ {m}) /\ UNCHANGED files
           ELSE /\ Go(w, "touch", m)
                /\ proc' = [proc EXCEPT ![m] = pend[m]] /\ pend' = Unlink(m, pend)
    BY <1>4 DEF Try
  <2>1. todo' \in [Consumers -> SUBSET Messages]
    BY DEF TypeOK
  <2>2. CASE pend[m] = "none"
    BY <1>4, <2>1, <2>2, ContinueLemma DEF Try, TypeOK, files
  <2>3. CASE pend[m] # "none"
    <3>1. pend' \in [Messages -> Age] /\ proc' \in [Messages -> Age]
      BY <2>3
    <3>2. Go(w, "touch", m) /\ m # None
      BY <2>3
    <3> QED  BY <1>4, <2>1, <3>1, <3>2, GoLemma DEF Try, TypeOK
  <2> QED  BY <2>2, <2>3
<1>5. CASE Touch(w)
  <2>1. CASE proc[msg[w]] = "none"
    BY <1>5, <2>1, ContinueLemma DEF Touch, TypeOK
  <2>2. CASE proc[msg[w]] # "none"
    BY <1>5, <2>2, GoLemma DEF Touch, TypeOK
  <2> QED  BY <2>1, <2>2
<1>6. CASE Read(w)
  BY <1>6, GoLemma DEF Read, TypeOK, files
<1>7. CASE Discard(w)
  BY <1>7, ContinueLemma DEF Discard, TypeOK
<1>8. CASE Write(w)
  BY <1>8, GoLemma DEF Write, TypeOK
<1>9. CASE Heartbeat(w)
  BY <1>9 DEF Heartbeat, TypeOK
<1>10. CASE Ack(w)
  <2>1. msg[w] \in Messages /\ Go(w, "idle", None)
    BY <1>10 DEF Ack
  <2>2. proc' \in [Messages -> Age] /\ acked' \subseteq Messages
    BY <1>10, <2>1 DEF Ack, TypeOK
  <2> QED  BY <1>10, <2>1, <2>2, GoLemma DEF Ack, TypeOK
<1>11. CASE Release(w)
  <2>1. pend' \in [Messages -> Age] /\ proc' \in [Messages -> Age]
    <3>1. msg[w] \in Messages
      BY <1>11 DEF Release
    <3> QED  BY <1>11, <3>1, PutBackLemma DEF Release, TypeOK, files
  <2>2. Go(w, "idle", None) \/ Go(w, "rewrite", msg[w])
    BY <1>11 DEF Release
  <2> QED  BY <1>11, <2>1, <2>2, GoLemma DEF Release, TypeOK
<1>12. CASE Rewrite(w)
  BY <1>12, GoLemma DEF Rewrite, TypeOK
<1>13. CASE Crash(w)
  BY <1>13, GoLemma DEF Crash, TypeOK, files
<1> QED
  BY <1>1, <1>2, <1>3, <1>4, <1>5, <1>6, <1>7, <1>8, <1>9, <1>10, <1>11, <1>12, <1>13
     DEF WorkerStep

LEMMA NextType == TypeOK /\ [Next]_vars => TypeOK'
<1> SUFFICES ASSUME TypeOK, [Next]_vars PROVE TypeOK'
  OBVIOUS
<1>1. CASE UNCHANGED vars
  BY <1>1 DEF vars, TypeOK
<1>2. CASE Next
  BY <1>2, ProducerType, WorkerType DEF Next
<1> QED  BY <1>1, <1>2

\* Every reachable state of the spool is well typed, and a worker is about a
\* message exactly where claim, ack or release need one.
THEOREM TypeCorrect == Spec => []TypeOK
BY InitType, NextType, PTL DEF Spec

-----------------------------------------------------------------------------
(* The files.                                                              *)

\* Only the files of message m change.
Only(m) == \A n \in Messages \ {m} : pend'[n] = pend[n] /\ proc'[n] = proc[n]

InProcessing(m) == proc[m] # "none" /\ pend[m] = "none"

\* What a step that changes the files of one message does to what the users see.
LEMMA OnlyLemma ==
  ASSUME NEW m \in Messages, Only(m)
  PROVE  /\ Exists(m)' => Live' = Live \cup {m}
         /\ ~Exists(m)' => Live' = Live \ {m}
         /\ InProcessing(m)' => Leased' = Leased \cup {m}
         /\ ~InProcessing(m)' => Leased' = Leased \ {m}
BY DEF Only, Exists, InProcessing, Live, Leased

\* Putting a file, moving it and renaming it keep a message; unlinking does so
\* only if it is in the other directory.
LEMMA EffectLemma ==
  ASSUME TypeOK, NEW m \in Messages
  PROVE  /\ pend' = Put(m, pend) /\ UNCHANGED proc
              => Only(m) /\ Exists(m)' /\ ~InProcessing(m)'
         /\ proc' = Put(m, proc) /\ UNCHANGED pend
              => Only(m) /\ Exists(m)' /\ (InProcessing(m)' <=> pend[m] = "none")
         /\ pend' = Unlink(m, pend) /\ UNCHANGED proc
              => Only(m) /\ (Exists(m)' <=> proc[m] # "none") /\ (InProcessing(m)' <=> proc[m] # "none")
         /\ proc' = Unlink(m, proc) /\ UNCHANGED pend
              => Only(m) /\ (Exists(m)' <=> pend[m] # "none") /\ ~InProcessing(m)'
         /\ PutBack(m) /\ proc[m] # "none"
              => Only(m) /\ Exists(m)' /\ ~InProcessing(m)'
         /\ proc' = [proc EXCEPT ![m] = pend[m]] /\ pend' = Unlink(m, pend) /\ pend[m] # "none"
              => Only(m) /\ Exists(m)' /\ InProcessing(m)'
BY DEF TypeOK, Only, Exists, InProcessing, Put, Unlink, PutBack

-----------------------------------------------------------------------------
LEMMA NextKept == TypeOK /\ Kept /\ [Next]_vars => Kept'
<1> SUFFICES ASSUME TypeOK, Kept, [Next]_vars PROVE Kept'
  OBVIOUS
<1>1. ASSUME NEW m \in Messages, Only(m), Exists(m)', acked \subseteq acked',
             discarded \subseteq discarded',
             \A n \in Messages \ {m} : api'[n] = api[n]
      PROVE  Kept'
  BY <1>1 DEF Kept, Only, Exists
<1>2. ASSUME NEW m \in Messages, Only(m), acked \subseteq acked', discarded \subseteq discarded',
             \A n \in Messages \ {m} : api'[n] = api[n],
             \/ m \in acked' \cup discarded'
             \/ api'[m] \notin {"written", "ok"}
      PROVE  Kept'
  BY <1>2 DEF Kept, Only, Exists
<1>3. ASSUME UNCHANGED <<files, acked, discarded>>,
             \A n \in Messages : api'[n] \in {"written", "ok"} => api[n] \in {"written", "ok"}
      PROVE  Kept'
  BY <1>3 DEF Kept, Exists, files
<1>4. CASE UNCHANGED vars
  BY <1>3, <1>4 DEF vars, files
<1>5. ASSUME NEW m \in Messages, \/ EnqueueWrite(m) \/ RemovePending(m) \/ ProducerStep(m)
                                 \/ AgePending(m) \/ AgeProcessing(m)
      PROVE  Kept'
  <2>1. CASE EnqueueWrite(m)
    <3>1. Only(m) /\ Exists(m)'
      BY <2>1, EffectLemma DEF EnqueueWrite
    <3> QED  BY <1>1, <2>1, <3>1 DEF EnqueueWrite, At, TypeOK
  <2>2. CASE EnqueueLogged(m)
    BY <1>3, <2>2 DEF EnqueueLogged, At, TypeOK
  <2>3. CASE EnqueueFails(m)
    <3>1. Only(m)
      BY <2>3, EffectLemma DEF EnqueueFails
    <3> QED  BY <1>2, <2>3, <3>1 DEF EnqueueFails, At, TypeOK
  <2>4. CASE RemovePending(m)
    <3>1. Only(m)
      BY <2>4, EffectLemma DEF RemovePending
    <3> QED  BY <1>2, <2>4, <3>1 DEF RemovePending, At, TypeOK
  <2>5. CASE RemoveProcessing(m)
    <3>1. Only(m)
      BY <2>5, EffectLemma DEF RemoveProcessing
    <3> QED  BY <1>2, <2>5, <3>1 DEF RemoveProcessing, At, TypeOK
  <2>6. CASE AgePending(m) \/ AgeProcessing(m)
    <3>1. Only(m) /\ Exists(m)'
      BY <2>6 DEF AgePending, AgeProcessing, Only, Exists, TypeOK
    <3> QED  BY <1>1, <2>6, <3>1 DEF AgePending, AgeProcessing
  <2> QED  BY <1>5, <2>1, <2>2, <2>3, <2>4, <2>5, <2>6 DEF ProducerStep
<1>6. ASSUME NEW w \in Consumers, WorkerStep(w) \/ Crash(w)
      PROVE  Kept'
  <2>1. ASSUME pc[w] \notin {"idle", "try"} PROVE msg[w] \in Messages
    BY <2>1, MessageLemma
  <2>2. CASE (\E m \in Messages : Look(w, m)) \/ List(w) \/ Read(w) \/ Crash(w)
    BY <1>3, <2>2 DEF Look, List, Read, Crash
  <2>3. CASE Requeue(w)
    <3>1. CASE proc[msg[w]] = "none"
      BY <1>3, <2>3, <3>1 DEF Requeue
    <3>2. CASE proc[msg[w]] # "none"
      <4>1. msg[w] \in Messages /\ PutBack(msg[w])
        BY <2>1, <2>3, <3>2 DEF Requeue
      <4> QED  BY <1>1, <2>3, <3>2, <4>1, EffectLemma DEF Requeue
    <3> QED  BY <3>1, <3>2
  <2>4. CASE Try(w)
    <3> PICK m \in Messages :
          IF pend[m] = "none" THEN UNCHANGED files
          ELSE proc' = [proc EXCEPT ![m] = pend[m]] /\ pend' = Unlink(m, pend)
      BY <2>4 DEF Try
    <3>1. CASE pend[m] = "none"
      BY <1>3, <2>4, <3>1 DEF Try
    <3>2. CASE pend[m] # "none"
      <4>1. Only(m) /\ Exists(m)'
        BY <3>2, EffectLemma
      <4> QED  BY <1>1, <2>4, <4>1 DEF Try
    <3> QED  BY <3>1, <3>2
  <2>5. CASE Touch(w)
    <3>1. CASE proc[msg[w]] = "none"
      BY <1>3, <2>5, <3>1 DEF Touch, files
    <3>2. CASE proc[msg[w]] # "none"
      <4> PICK m \in Messages : m = msg[w]
        BY <2>1, <2>5 DEF Touch
      <4>1. Only(m) /\ Exists(m)'
        BY <2>5, <3>2, EffectLemma DEF Touch
      <4> QED  BY <1>1, <2>5, <4>1 DEF Touch
    <3> QED  BY <3>1, <3>2
  <2>6. CASE Discard(w)
    <3>1. msg[w] \in Messages /\ Only(msg[w])
      BY <2>1, <2>6, EffectLemma DEF Discard
    <3>2. CASE proc[msg[w]] = "none"
      BY <2>6, <3>1, <3>2 DEF Discard, Unlink, TypeOK, Kept, Exists
    <3>3. CASE proc[msg[w]] # "none"
      BY <1>2, <2>6, <3>1, <3>3 DEF Discard
    <3> QED  BY <3>2, <3>3
  <2>7. CASE Write(w) \/ Heartbeat(w)
    <3> PICK m \in Messages : proc' = Put(m, proc) /\ UNCHANGED pend
      BY <2>1, <2>7 DEF Write, Heartbeat
    <3>1. Only(m) /\ Exists(m)'
      BY EffectLemma
    <3> QED  BY <1>1, <2>7, <3>1 DEF Write, Heartbeat
  <2>8. CASE Ack(w)
    <3>1. msg[w] \in Messages /\ Only(msg[w])
      BY <2>1, <2>8, EffectLemma DEF Ack
    <3> QED  BY <1>2, <2>8, <3>1 DEF Ack
  <2>9. CASE Release(w)
    <3>1. CASE proc[msg[w]] = "none"
      BY <1>3, <2>9, <3>1 DEF Release
    <3>2. CASE proc[msg[w]] # "none"
      <4>1. msg[w] \in Messages /\ PutBack(msg[w])
        BY <2>1, <2>9, <3>2 DEF Release
      <4> QED  BY <1>1, <2>9, <3>2, <4>1, EffectLemma DEF Release
    <3> QED  BY <3>1, <3>2
  <2>10. CASE Rewrite(w)
    <3> PICK m \in Messages : m = msg[w]
      BY <2>1, <2>10 DEF Rewrite
    <3>1. Only(m) /\ Exists(m)'
      BY <2>10, EffectLemma DEF Rewrite
    <3> QED  BY <1>1, <2>10, <3>1 DEF Rewrite
  <2> QED
    BY <1>6, <2>2, <2>3, <2>4, <2>5, <2>6, <2>7, <2>8, <2>9, <2>10 DEF WorkerStep
<1> QED  BY <1>4, <1>5, <1>6 DEF Next

\* No message of the spool is lost that was enqueued and neither acknowledged
\* nor removed nor deleted as invalid, whoever crashes, stalls or releases.
THEOREM Durability == Spec => []NoOtherLoss
<1>1. Init => Kept
  BY DEF Init, Kept
<1>2. Kept => NoOtherLoss
  BY DEF Kept, NoOtherLoss
<1> QED  BY <1>1, <1>2, TypeCorrect, NextKept, PTL DEF Spec

-----------------------------------------------------------------------------
(* The promise.                                                            *)

\* A message that is not enqueued yet has no file, and no worker is about it.
Unknown == \A m \in Messages :
  api[m] = "new" => ~Exists(m) /\ \A w \in Consumers : msg[w] # m

LEMMA UsedLemma ==
  ASSUME TypeOK, Unknown, NEW m \in Messages,
         Exists(m) \/ \E w \in Consumers : msg[w] = m
  PROVE  m \in Used
BY DEF Unknown, Used

LEMMA NextUnknown == TypeOK /\ Unknown /\ [Next]_vars => Unknown'
<1> SUFFICES ASSUME TypeOK, Unknown, [Next]_vars PROVE Unknown'
  OBVIOUS
<1>1. ASSUME NEW m \in Messages, Only(m), UNCHANGED msg, api'[m] # "new",
             \A n \in Messages \ {m} : api'[n] = api[n]
      PROVE  Unknown'
  BY <1>1 DEF Unknown, Only, Exists
<1>2. ASSUME NEW w \in Consumers, NEW m \in Messages, m \in Used, Only(m), UNCHANGED api,
             msg' = [msg EXCEPT ![w] = m] \/ msg' = [msg EXCEPT ![w] = None]
      PROVE  Unknown'
  BY <1>2, NoneAssumption DEF Unknown, Only, Exists, TypeOK, Used
<1>3. ASSUME NEW w \in Consumers, UNCHANGED <<files, api>>,
             \/ msg' = [msg EXCEPT ![w] = None] \/ msg' = [msg EXCEPT ![w] = msg[w]]
      PROVE  Unknown'
  BY <1>3, NoneAssumption DEF Unknown, Exists, TypeOK, files
<1>4. CASE UNCHANGED vars
  BY <1>4 DEF vars, Unknown, Exists
<1>5. ASSUME NEW m \in Messages, \/ EnqueueWrite(m) \/ RemovePending(m) \/ ProducerStep(m)
                                 \/ AgePending(m) \/ AgeProcessing(m)
      PROVE  Unknown'
  <2>1. CASE EnqueueWrite(m) \/ RemovePending(m) \/ ProducerStep(m)
    <3>1. /\ api'[m] # "new" /\ \A n \in Messages \ {m} : api'[n] = api[n]
          /\ UNCHANGED msg
      BY <2>1 DEF EnqueueWrite, RemovePending, ProducerStep, EnqueueLogged, EnqueueFails,
                  RemoveProcessing, At, TypeOK
    <3>2. Only(m)
      BY <2>1, EffectLemma DEF EnqueueWrite, RemovePending, ProducerStep, EnqueueLogged,
                               EnqueueFails, RemoveProcessing, Only, files
    <3> QED  BY <1>1, <3>1, <3>2
  <2>2. CASE AgePending(m) \/ AgeProcessing(m)
    <3>1. Only(m) /\ Exists(m)
      BY <2>2 DEF AgePending, AgeProcessing, Only, Exists, TypeOK
    <3>2. api[m] # "new"
      BY <3>1 DEF Unknown
    <3> QED  BY <1>1, <2>2, <3>1, <3>2 DEF AgePending, AgeProcessing
  <2> QED  BY <1>5, <2>1, <2>2
<1>6. ASSUME NEW w \in Consumers, WorkerStep(w) \/ Crash(w)
      PROVE  Unknown'
  <2>1. CASE \E m \in Messages : Look(w, m)
    <3> PICK m \in Messages : Look(w, m)  BY <2>1
    <3>1. m \in Used /\ Only(m)
      BY UsedLemma DEF Look, Exists, Only, files
    <3> QED  BY <1>2, <3>1 DEF Look, Go
  <2>2. CASE List(w) \/ Crash(w)
    BY <1>3, <2>2 DEF List, Crash, Go
  <2>3. CASE Read(w)
    BY <1>3, <2>3 DEF Read, Go
  <2>4. CASE Try(w)
    <3> PICK m \in Messages :
          IF pend[m] = "none" THEN Continue(w, todo[w] \ {m}) /\ UNCHANGED files
          ELSE /\ Go(w, "touch", m)
               /\ proc' = [proc EXCEPT ![m] = pend[m]] /\ pend' = Unlink(m, pend)
      BY <2>4 DEF Try
    <3>1. CASE pend[m] = "none"
      BY <1>3, <2>4, <3>1 DEF Try, Continue, Go
    <3>2. CASE pend[m] # "none"
      <4>1. m \in Used /\ Only(m)
        BY <3>2, UsedLemma, EffectLemma DEF Exists
      <4> QED  BY <1>2, <2>4, <3>2, <4>1 DEF Try, Go
    <3> QED  BY <3>1, <3>2
  <2>5. CASE Requeue(w) \/ Touch(w) \/ Discard(w) \/ Write(w) \/ Heartbeat(w) \/ Ack(w)
             \/ Release(w) \/ Rewrite(w)
    <3>1. pc[w] \notin {"idle", "try"} /\ UNCHANGED api
      BY <2>5 DEF Requeue, Touch, Discard, Write, Heartbeat, Ack, Release, Rewrite
    <3> PICK m \in Messages : m = msg[w]
      BY <3>1, MessageLemma
    <3>2. m \in Used
      BY UsedLemma
    <3>3. Only(m)
      <4>1. CASE UNCHANGED files
        BY <4>1 DEF Only, files
      <4>2. CASE ~UNCHANGED files
        BY <2>5, <4>2, EffectLemma
           DEF Requeue, Touch, Discard, Write, Heartbeat, Ack, Release, Rewrite, files
      <4> QED  BY <4>1, <4>2
    <3>4. msg' = [msg EXCEPT ![w] = m] \/ msg' = [msg EXCEPT ![w] = None]
      BY <2>5 DEF Requeue, Touch, Discard, Write, Heartbeat, Ack, Release, Rewrite,
                  Continue, Go, TypeOK
    <3> QED  BY <1>2, <3>1, <3>2, <3>3, <3>4
  <2> QED  BY <1>6, <2>1, <2>2, <2>3, <2>4, <2>5 DEF WorkerStep
<1> QED  BY <1>4, <1>5, <1>6 DEF Next

-----------------------------------------------------------------------------
Claimed == {"touch", "read", "write", "work"}

\* A step that TaskQueue allows, in terms of what the users see.
Allowed == \/ Promise!Next \/ UNCHANGED <<Used, Done, Live, Leased, Held>>
           \/ \E w \in Consumers : Discard(w)

LEMMA HeldLemma ==
  ASSUME TypeOK, NEW w \in Consumers, NEW p, NEW m, Go(w, p, m)
  PROVE  Held' = [Held EXCEPT ![w] = IF p \in Claimed THEN m ELSE None]
BY DEF TypeOK, Go, Held, Claimed

LEMMA HeldIs ==
  ASSUME TypeOK, NEW w \in Consumers
  PROVE  /\ pc[w] \in Claimed => Held[w] = msg[w] /\ msg[w] \in Messages /\ Held[w] # None
         /\ pc[w] \notin Claimed => Held[w] = None
BY NoneAssumption DEF TypeOK, Held, Claimed

\* A worker that is not claiming goes on without changing what is claimed.
LEMMA HeldStays ==
  ASSUME TypeOK, NEW w \in Consumers, NEW p, NEW m, Go(w, p, m),
         \/ p \notin Claimed /\ pc[w] \notin Claimed
         \/ pc[w] \in Claimed /\ p \in Claimed /\ m = msg[w]
  PROVE  UNCHANGED Held
BY DEF TypeOK, Go, Held, Claimed

LEMMA SeenLemma ==
  ASSUME NEW m \in Messages
  PROVE  /\ m \in Live <=> Exists(m)
         /\ m \in Leased <=> InProcessing(m)
         /\ InProcessing(m) => Exists(m)
BY DEF Live, Leased, Exists, InProcessing

LEMMA Stutter ==
  ASSUME UNCHANGED <<files, api, acked, Held>>
  PROVE  Allowed
BY DEF Allowed, Used, Done, Live, Leased, Exists, files

\* Three ways to change the files of one message that are steps of the promise.
LEMMA FilesAllowed ==
  ASSUME TypeOK, NEW m \in Messages, m \in Used, Only(m), UNCHANGED <<Used, Done, Held>>,
         \/ Exists(m) /\ Exists(m)' /\ ~InProcessing(m)'
         \/ Exists(m)' /\ InProcessing(m)' /\ (Exists(m) => InProcessing(m))
         \/ Exists(m)' /\ ~Exists(m) /\ ~InProcessing(m)'
  PROVE  Allowed
<1> USE OnlyLemma, SeenLemma
<1>1. CASE Exists(m) /\ Exists(m)' /\ ~InProcessing(m)'
  <2>1. UNCHANGED Live /\ Leased' = Leased \ {m}
    BY <1>1
  <2>2. CASE m \in Leased
    BY <2>1, <2>2 DEF Allowed, Promise!Next, Promise!Expire
  <2>3. CASE m \notin Leased
    BY <2>1, <2>3 DEF Allowed
  <2> QED  BY <2>2, <2>3
<1>2. CASE Exists(m)' /\ InProcessing(m)' /\ (Exists(m) => InProcessing(m))
  <2>1. Live' = Live \cup {m} /\ Leased' = Leased \cup {m}
    BY <1>2
  <2>2. CASE Exists(m)
    BY <1>2, <2>1, <2>2 DEF Allowed
  <2>3. CASE ~Exists(m)
    BY <2>1, <2>3 DEF Allowed, Promise!Next, Promise!Reappear
  <2> QED  BY <2>2, <2>3
<1>3. CASE Exists(m)' /\ ~Exists(m) /\ ~InProcessing(m)'
  <2>1. Live' = Live \cup {m} /\ Leased' = Leased
    BY <1>3
  <2> QED  BY <1>3, <2>1 DEF Allowed, Promise!Next, Promise!Reappear
<1> QED  BY <1>1, <1>2, <1>3

LEMMA ProducerAllowed ==
  ASSUME TypeOK, Unknown, NEW m \in Messages,
         \/ EnqueueWrite(m) \/ RemovePending(m) \/ ProducerStep(m)
         \/ AgePending(m) \/ AgeProcessing(m)
  PROVE  Allowed
<1> USE OnlyLemma, SeenLemma
<1>1. UNCHANGED <<pc, msg, acked, discarded>>
  BY DEF EnqueueWrite, RemovePending, ProducerStep, EnqueueLogged, EnqueueFails,
         RemoveProcessing, AgePending, AgeProcessing
<1>2. UNCHANGED Held
  BY <1>1 DEF Held
<1>3. CASE EnqueueWrite(m)
  <2>1. /\ m \notin Used /\ Used' = Used \cup {m} /\ UNCHANGED Done
        /\ ~Exists(m)
    BY <1>1, <1>3 DEF EnqueueWrite, At, Used, Done, TypeOK, Unknown
  <2>2. Only(m) /\ Exists(m)' /\ ~InProcessing(m)'
    BY <1>3, EffectLemma DEF EnqueueWrite
  <2>3. Live' = Live \cup {m} /\ Leased' = Leased
    BY <2>1, <2>2
  <2> QED  BY <1>2, <2>1, <2>3 DEF Allowed, Promise!Next, Promise!Enqueue
<1>4. CASE EnqueueLogged(m)
  BY <1>1, <1>2, <1>4 DEF EnqueueLogged, At, TypeOK, Allowed, Used, Done, Live, Leased, Exists, files
<1>5. CASE EnqueueFails(m) \/ RemovePending(m) \/ RemoveProcessing(m)
  <2>1. m \in Used /\ UNCHANGED Used /\ Done' = Done \cup {m}
    BY <1>1, <1>5 DEF EnqueueFails, RemovePending, RemoveProcessing, At, Used, Done, TypeOK
  <2>2. /\ Only(m)
        /\ ~Exists(m)' \/ (Exists(m) /\ Exists(m)')
    BY <1>5, EffectLemma DEF EnqueueFails, RemovePending, RemoveProcessing, Exists
  <2>3. Live' = Live \/ Live' = Live \ {m}
    BY <2>2
  <2>4. Leased' = Leased \ {m} \/ Leased' = (Leased \cup {m}) \cap Live'
    <3>1. CASE ~InProcessing(m)'
      BY <2>2, <3>1
    <3>2. CASE InProcessing(m)'
      <4>1. Leased' = Leased \cup {m} /\ Exists(m)'
        BY <2>2, <3>2 DEF InProcessing, Exists
      <4>2. Leased' \subseteq Live'
        BY DEF Leased, Live, Exists
      <4> QED  BY <4>1, <4>2
    <3> QED  BY <3>1, <3>2
  <2> QED  BY <1>2, <2>1, <2>3, <2>4 DEF Allowed, Promise!Next, Promise!Remove
<1>6. CASE AgePending(m) \/ AgeProcessing(m)
  <2>1. /\ UNCHANGED api
        /\ \A n \in Messages : /\ pend[n] = "none" <=> pend'[n] = "none"
                               /\ proc[n] = "none" <=> proc'[n] = "none"
    BY <1>6 DEF AgePending, AgeProcessing, TypeOK
  <2>2. UNCHANGED <<Used, Done>>
    BY <1>1, <2>1 DEF Used, Done
  <2>3. UNCHANGED <<Live, Leased>>
    BY <2>1 DEF Live, Leased, Exists
  <2> QED  BY <1>2, <2>2, <2>3 DEF Allowed
<1> QED  BY <1>3, <1>4, <1>5, <1>6 DEF ProducerStep

LEMMA WorkerAllowed ==
  ASSUME TypeOK, Unknown, NEW w \in Consumers, WorkerStep(w) \/ Crash(w)
  PROVE  Allowed
<1> USE OnlyLemma, SeenLemma
<1>1. ASSUME UNCHANGED <<api, acked>> PROVE UNCHANGED <<Used, Done>>
  BY <1>1 DEF Used, Done
<1>2. ASSUME UNCHANGED files PROVE UNCHANGED <<Live, Leased>>
  BY <1>2 DEF Live, Leased, Exists, files
\* A worker that lets go of its claim and leaves the files alone.
<1>3. ASSUME NEW p, NEW m, Go(w, p, m), p \notin Claimed, pc[w] \in Claimed,
             UNCHANGED <<files, api, acked>>
      PROVE  Allowed
  <2>1. Held[w] # None /\ Held' = [Held EXCEPT ![w] = None]
    BY <1>3, HeldIs, HeldLemma
  <2> QED  BY <1>1, <1>2, <1>3, <2>1 DEF Allowed, Promise!Next, Promise!Release, Promise!Drop
<1>4. CASE (\E m \in Messages : Look(w, m)) \/ List(w)
  <2>1. UNCHANGED Held
    BY <1>4, HeldStays DEF Look, List, Claimed
  <2> QED  BY <1>4, <2>1, Stutter DEF Look, List
<1>5. CASE Requeue(w)
  <2>1. UNCHANGED Held
    BY <1>5, HeldStays DEF Requeue, Claimed
  <2> PICK m \in Messages : m = msg[w]
    BY <1>5, MessageLemma DEF Requeue
  <2>2. CASE proc[m] = "none"
    BY <1>5, <2>1, <2>2, Stutter DEF Requeue
  <2>3. CASE proc[m] # "none"
    <3>1. Only(m) /\ Exists(m)' /\ ~InProcessing(m)' /\ Exists(m)
      BY <1>5, <2>3, EffectLemma DEF Requeue, Exists
    <3> QED  BY <1>1, <1>5, <2>1, <3>1, UsedLemma, FilesAllowed DEF Requeue
  <2> QED  BY <2>2, <2>3
<1>6. CASE Try(w)
  <2> PICK m \in Messages :
        IF pend[m] = "none" THEN Continue(w, todo[w] \ {m}) /\ UNCHANGED files
        ELSE /\ Go(w, "touch", m)
             /\ proc' = [proc EXCEPT ![m] = pend[m]] /\ pend' = Unlink(m, pend)
    BY <1>6 DEF Try
  <2>1. CASE pend[m] = "none"
    <3>1. UNCHANGED Held
      BY <1>6, <2>1, HeldStays DEF Try, Continue, Claimed
    <3> QED  BY <1>6, <2>1, <3>1, Stutter DEF Try
  <2>2. CASE pend[m] # "none"
    <3>1. Held[w] = None /\ Held' = [Held EXCEPT ![w] = m]
      BY <1>6, <2>2, HeldIs, HeldLemma DEF Try, Claimed
    <3>2. Only(m) /\ Exists(m)' /\ InProcessing(m)' /\ Exists(m) /\ ~InProcessing(m)
      BY <2>2, EffectLemma DEF Exists, InProcessing
    <3>3. m \in Live \ Leased /\ Live' = Live /\ Leased' = Leased \cup {m}
      BY <3>2
    <3>4. UNCHANGED <<Used, Done>>
      BY <1>1, <1>6 DEF Try
    <3> QED  BY <3>1, <3>3, <3>4 DEF Allowed, Promise!Next, Promise!Claim
  <2> QED  BY <2>1, <2>2
<1>7. CASE Touch(w)
  <2> PICK m \in Messages : m = msg[w]
    BY <1>7, MessageLemma DEF Touch
  <2>1. CASE proc[m] = "none"
    <3> PICK p \in {"idle", "try"} : Go(w, p, None)
      BY <1>7, <2>1 DEF Touch, Continue
    <3> QED  BY <1>3, <1>7, <2>1 DEF Touch, Claimed, files
  <2>2. CASE proc[m] # "none"
    <3>1. UNCHANGED Held
      BY <1>7, <2>2, HeldStays DEF Touch, Claimed
    <3>2. Only(m) /\ Exists(m)' /\ Exists(m) /\ (InProcessing(m)' => InProcessing(m))
      BY <1>7, <2>2, EffectLemma DEF Touch, Exists, InProcessing
    <3> QED  BY <1>1, <1>7, <3>1, <3>2, UsedLemma, FilesAllowed DEF Touch
  <2> QED  BY <2>1, <2>2
<1>8. CASE Read(w)
  <2>1. CASE proc[msg[w]] = "none"
    BY <1>3, <1>8, <2>1 DEF Read, Claimed
  <2>2. CASE proc[msg[w]] # "none"
    <3>1. UNCHANGED Held
      BY <1>8, <2>2, HeldStays DEF Read, Claimed
    <3> QED  BY <1>8, <3>1, Stutter DEF Read
  <2> QED  BY <2>1, <2>2
<1>9. CASE Discard(w)
  BY <1>9 DEF Allowed
<1>10. CASE Write(w) \/ Heartbeat(w)
  <2> PICK m \in Messages : m = msg[w] /\ proc' = Put(m, proc) /\ UNCHANGED pend
    BY <1>10, MessageLemma DEF Write, Heartbeat
  <2>1. UNCHANGED Held
    <3>1. CASE Write(w)
      BY <3>1, HeldStays DEF Write, Claimed
    <3>2. CASE Heartbeat(w)
      BY <3>2 DEF Heartbeat, Held
    <3> QED  BY <1>10, <3>1, <3>2
  <2>2. /\ Only(m) /\ Exists(m)'
        /\ InProcessing(m)' => (Exists(m) => InProcessing(m))
    BY EffectLemma DEF Exists, InProcessing
  <2>3. m \in Used /\ UNCHANGED <<Used, Done>>
    BY <1>1, <1>10, UsedLemma DEF Write, Heartbeat
  <2> QED  BY <2>1, <2>2, <2>3, FilesAllowed
<1>11. CASE Ack(w)
  <2> PICK m \in Messages : m = msg[w]
    BY <1>11, MessageLemma DEF Ack
  <2>1. /\ Held[w] = m /\ m # None /\ Held' = [Held EXCEPT ![w] = None]
    BY <1>11, HeldIs, HeldLemma, NoneAssumption DEF Ack, Claimed
  <2>2. /\ UNCHANGED Used /\ Done' = Done \cup {m}
    BY <1>11 DEF Ack, Used, Done
  <2>3. Only(m) /\ (Exists(m)' <=> pend[m] # "none") /\ ~InProcessing(m)'
    BY <1>11, EffectLemma DEF Ack
  <2>4. \/ Live' = Live \ {m} /\ Leased' = Leased \ {m}
        \/ m \notin Leased /\ UNCHANGED <<Live, Leased>>
    <3>1. CASE pend[m] = "none"
      BY <2>3, <3>1
    <3>2. CASE pend[m] # "none"
      <4>1. Exists(m) /\ ~InProcessing(m) /\ Exists(m)'
        BY <2>3, <3>2 DEF Exists, InProcessing
      <4> QED  BY <2>3, <4>1
    <3> QED  BY <3>1, <3>2
  <2> QED  BY <2>1, <2>2, <2>4 DEF Allowed, Promise!Next, Promise!Ack, Promise!Drop
<1>12. CASE Release(w)
  <2> PICK m \in Messages : m = msg[w]
    BY <1>12, MessageLemma DEF Release
  <2>1. CASE proc[m] = "none"
    BY <1>3, <1>12, <2>1 DEF Release, Claimed
  <2>2. CASE proc[m] # "none"
    <3>1. Held[w] = m /\ m # None /\ Held' = [Held EXCEPT ![w] = None]
      BY <1>12, <2>2, HeldIs, HeldLemma, NoneAssumption DEF Release, Claimed
    <3>2. Only(m) /\ Exists(m)' /\ ~InProcessing(m)' /\ Exists(m)
      BY <1>12, <2>2, EffectLemma DEF Release, Exists
    <3>3. Live' = Live /\ Leased' = Leased \ {m}
      BY <3>2
    <3>4. UNCHANGED <<Used, Done>>
      BY <1>1, <1>12 DEF Release
    <3> QED  BY <3>1, <3>3, <3>4 DEF Allowed, Promise!Next, Promise!Release, Promise!Drop
  <2> QED  BY <2>1, <2>2
<1>13. CASE Rewrite(w)
  <2> PICK m \in Messages : m = msg[w]
    BY <1>13, MessageLemma DEF Rewrite
  <2>1. UNCHANGED Held
    BY <1>13, HeldStays DEF Rewrite, Claimed
  <2>2. Only(m) /\ Exists(m)' /\ ~InProcessing(m)'
    BY <1>13, EffectLemma DEF Rewrite
  <2> QED  BY <1>1, <1>13, <2>1, <2>2, UsedLemma, FilesAllowed DEF Rewrite
<1>14. CASE Crash(w)
  <2>1. CASE pc[w] \in Claimed
    BY <1>3, <1>14, <2>1 DEF Crash, Claimed
  <2>2. CASE pc[w] \notin Claimed
    <3>1. UNCHANGED Held
      BY <1>14, <2>2, HeldStays DEF Crash, Claimed
    <3> QED  BY <1>14, <3>1, Stutter DEF Crash
  <2> QED  BY <2>1, <2>2
<1> QED
  BY <1>4, <1>5, <1>6, <1>7, <1>8, <1>9, <1>10, <1>11, <1>12, <1>13, <1>14 DEF WorkerStep

\* The spool implements the task queue that its users count on: whatever its
\* workers do to its files, in any order, is an enqueue, a claim, an expired
\* lease, an acknowledgement, a release, a withdrawal or a message written once
\* more, as TaskQueue has them, except for a file deleted as invalid.
THEOREM Implementation == Spec => Promise!Init /\ PromiseKept
<1>1. Init => Unknown /\ Promise!Init
  <2>1. Init => Unknown
    BY NoneAssumption DEF Init, Unknown, Exists
  <2>2. Init => Promise!Init
    BY DEF Init, Promise!Init, Used, Done, Live, Leased, Held, Exists
  <2> QED  BY <2>1, <2>2
<1>2. TypeOK /\ Unknown /\ [Next]_vars
        => [Promise!Next \/ \E w \in Consumers : Discard(w)]_<<Used, Done, Live, Leased, Held>>
  <2> SUFFICES ASSUME TypeOK, Unknown, [Next]_vars PROVE Allowed
    BY DEF Allowed
  <2>1. CASE UNCHANGED vars
    <3>1. UNCHANGED Held
      BY <2>1 DEF vars, Held
    <3> QED  BY <2>1, <3>1, Stutter DEF vars, files
  <2>2. CASE Next
    BY <2>2, ProducerAllowed, WorkerAllowed DEF Next
  <2> QED  BY <2>1, <2>2
<1> QED  BY <1>1, <1>2, TypeCorrect, NextUnknown, PTL DEF Spec, PromiseKept

-----------------------------------------------------------------------------
(* Redis: types.                                                           *)

LEMMA RedisFaultLemma == ASSUME RedisTypeOK, Lost \/ Answered PROVE rest' \in 0..RedisFaults
BY RedisFaultsAssumption DEF RedisTypeOK, Lost, Answered

Positions ==
  /\ at \in [Consumers -> Steps] /\ stage \in [Consumers -> 1..3] /\ about \in [Consumers -> Messages \cup {None}]
  /\ \A w \in Consumers : about[w] # None <=> at[w] \in {"work", "delete"}

\* A worker that moves keeps its type, and is about a message exactly where it needs one.
LEMMA RedisGoLemma ==
  ASSUME Positions, NEW w \in Consumers, NEW p \in Steps, NEW s \in 1..3, NEW m \in Messages \cup {None},
         WorkerAt(w, p, s, m), m # None <=> p \in {"work", "delete"}
  PROVE  Positions'
BY DEF Positions, WorkerAt

LEMMA RestLemma == ASSUME Positions, NEW w \in Consumers, Rest(w) PROVE Positions'
<1>1. WorkerAt(w, "idle", 1, None)
  BY DEF Rest
<1> QED  BY <1>1, RedisGoLemma DEF Steps

LEMMA NextStreamLemma ==
  ASSUME Positions, NEW w \in Consumers, at[w] \in {"reclaim", "read"}, NextStream(w)
  PROVE  Positions' /\ at'[w] \notin {"work", "delete"} /\ \A v \in Consumers \ {w} : at'[v] = at[v] /\ about'[v] = about[v]
<1>1. stage[w] \in 1..3 /\ at[w] \in Steps
  BY DEF Positions
<1>2. CASE stage[w] < 3
  <2>1. WorkerAt(w, at[w], stage[w] + 1, None) /\ stage[w] + 1 \in 1..3
    BY <1>1, <1>2 DEF NextStream
  <2> QED  BY <1>1, <2>1, RedisGoLemma DEF WorkerAt, Positions
<1>3. CASE ~(stage[w] < 3) /\ at[w] = "reclaim"
  <2>1. WorkerAt(w, "read", 1, None)
    BY <1>1, <1>3 DEF NextStream
  <2>2. "read" \in Steps /\ 1 \in 1..3
    BY DEF Steps
  <2>3. Positions'
    BY <2>1, <2>2, RedisGoLemma
  <2> QED  BY <2>1, <2>3 DEF WorkerAt, Positions
<1>4. CASE ~(stage[w] < 3) /\ at[w] # "reclaim"
  <2>1. WorkerAt(w, "idle", 1, None)
    BY <1>1, <1>4 DEF NextStream, Rest
  <2>2. Rest(w) /\ Positions'
    BY <2>1, RestLemma DEF Rest
  <2> QED  BY <2>1, <2>2 DEF WorkerAt, Positions
<1> QED  BY <1>2, <1>3, <1>4

LEMMA RedisInitType == RedisInit => RedisTypeOK
BY RedisFaultsAssumption DEF RedisInit, RedisTypeOK, Steps

LEMMA PendingLemma ==
  ASSUME RedisTypeOK, NEW m \in Messages, NEW how \in {"none", "fresh", "stale"}
  PROVE  /\ [idle EXCEPT ![m] = how] \in [Messages -> {"none", "fresh", "stale"}]
         /\ \A s : [Swept(s) EXCEPT ![m] = how] \in [Messages -> {"none", "fresh", "stale"}]
BY DEF RedisTypeOK, Swept

LEMMA SweptLemma == ASSUME RedisTypeOK, NEW s PROVE Swept(s) \in [Messages -> {"none", "fresh", "stale"}]
BY DEF RedisTypeOK, Swept

LEMMA RedisMessageLemma ==
  ASSUME RedisTypeOK, NEW w \in Consumers
  PROVE  /\ at[w] \in {"work", "delete"} => about[w] \in Messages
         /\ beat[w] # None => beat[w] \in Messages
BY NoneAssumption DEF RedisTypeOK

\* A worker that gets a message, and one that deletes it.
LEMMA TakeLemma ==
  ASSUME Positions, NEW w \in Consumers, NEW m \in Messages, NEW p \in {"work", "delete"}, WorkerAt(w, p, 1, m)
  PROVE  Positions'
<1>1. m # None /\ p \in Steps /\ 1 \in 1..3
  BY NoneAssumption DEF Steps
<1> QED  BY <1>1, RedisGoLemma

LEMMA StartLemma == ASSUME Positions, NEW w \in Consumers, WorkerAt(w, "reclaim", 1, None) PROVE Positions'
<1>1. "reclaim" \in Steps /\ 1 \in 1..3
  BY DEF Steps
<1> QED  BY <1>1, RedisGoLemma

LEMMA StayLemma == ASSUME Positions, UNCHANGED <<at, stage, about>> PROVE Positions'
BY DEF Positions

\* The variables that a step changes together keep their types.
LEMMA TypeParts ==
  /\ RedisTypeOK <=> /\ Positions
                /\ entry \in [Messages -> Nat] /\ next \in Nat \ {0} /\ seen \subseteq Messages
                /\ idle \in [Messages -> {"none", "fresh", "stale"}]
                /\ producer \in [Messages -> {"new", "ok", "failed", "refused", "removing", "removed"}]
                /\ beat \in [Consumers -> Messages \cup {None}]
                /\ gone \subseteq Messages /\ rest \in 0..RedisFaults
  /\ RedisTypeOK' <=> /\ Positions'
                 /\ entry' \in [Messages -> Nat] /\ next' \in Nat \ {0} /\ seen' \subseteq Messages
                 /\ idle' \in [Messages -> {"none", "fresh", "stale"}]
                 /\ producer' \in [Messages -> {"new", "ok", "failed", "refused", "removing", "removed"}]
                 /\ beat' \in [Consumers -> Messages \cup {None}]
                 /\ gone' \subseteq Messages /\ rest' \in 0..RedisFaults
BY DEF RedisTypeOK, Positions

LEMMA RedisProducerType ==
  ASSUME RedisTypeOK, NEW m \in Messages, Enqueue(m) \/ Withdraw(m) \/ Delete(m) \/ Idles(m)
  PROVE  RedisTypeOK'
<1>1. rest' \in 0..RedisFaults
  <2>1. Lost \/ Answered
    BY DEF Enqueue, Withdraw, Delete, Idles
  <2> QED  BY <2>1, RedisFaultLemma
<1>2. UNCHANGED <<at, stage, about, beat, gone>>
  BY DEF Enqueue, Withdraw, Delete, Idles, Producer
<1>3. CASE Enqueue(m)
  BY <1>1, <1>2, <1>3 DEF Enqueue, ProducerAt, Added, RedisTypeOK
<1>4. CASE Withdraw(m)
  BY <1>1, <1>2, <1>4 DEF Withdraw, ProducerAt, Pending, RedisTypeOK
<1>5. CASE Delete(m)
  BY <1>1, <1>2, <1>5 DEF Delete, ProducerAt, Deleted, RedisTypeOK
<1>6. CASE Idles(m)
  BY <1>1, <1>2, <1>6 DEF Idles, Pending, RedisTypeOK
<1> QED  BY <1>3, <1>4, <1>5, <1>6

LEMMA ReclaimType == ASSUME RedisTypeOK, NEW w \in Consumers, Reclaim(w) PROVE RedisTypeOK'
<1> DEFINE s == stage[w]
<1>1. UNCHANGED <<entry, next, seen, producer, beat, gone>> /\ at[w] = "reclaim" /\ Positions
  BY TypeParts DEF Reclaim
<1>2. CASE NextStream(w) /\ (Lost \/ Answered) /\ idle' \in {idle, Swept(s)}
  <2>1. idle' \in [Messages -> {"none", "fresh", "stale"}]
    BY <1>2, SweptLemma, TypeParts
  <2> QED  BY <1>1, <1>2, <2>1, NextStreamLemma, RedisFaultLemma, TypeParts
<1>3. ASSUME NEW m \in Messages, idle' = [Swept(s) EXCEPT ![m] = "fresh"],
             (WorkerAt(w, "work", 1, m) /\ Answered) \/ (NextStream(w) /\ Lost)
      PROVE  RedisTypeOK'
  <2>1. idle' \in [Messages -> {"none", "fresh", "stale"}]
    BY <1>3, PendingLemma
  <2>2. rest' \in 0..RedisFaults
    BY <1>3, RedisFaultLemma
  <2>3. CASE WorkerAt(w, "work", 1, m)
    <3>1. Positions'
      BY <1>1, <2>3, TakeLemma
    <3> QED  BY <1>1, <2>1, <2>2, <3>1, TypeParts
  <2>4. CASE NextStream(w)
    BY <1>1, <2>1, <2>2, <2>4, NextStreamLemma, TypeParts
  <2> QED  BY <1>3, <2>3, <2>4
<1> QED  BY <1>2, <1>3 DEF Reclaim

LEMMA ReadType == ASSUME RedisTypeOK, NEW w \in Consumers, ReadNew(w) PROVE RedisTypeOK'
<1>1. UNCHANGED <<entry, next, producer, beat, gone>> /\ at[w] = "read" /\ Positions
  BY TypeParts DEF ReadNew
<1>2. rest' \in 0..RedisFaults
  <2>1. Lost \/ Answered
    BY DEF ReadNew
  <2> QED  BY <2>1, RedisFaultLemma
<1>3. CASE NextStream(w) /\ UNCHANGED <<seen, idle>>
  BY <1>1, <1>2, <1>3, NextStreamLemma, TypeParts
<1>4. CASE Rest(w) /\ UNCHANGED <<seen, idle>>
  BY <1>1, <1>2, <1>4, RestLemma, TypeParts
<1>5. ASSUME NEW m \in Messages, seen' = seen \cup {m}, Pending(m, "fresh"), WorkerAt(w, "work", 1, m) \/ Rest(w)
      PROVE  RedisTypeOK'
  <2>1. Positions'
    <3>1. CASE WorkerAt(w, "work", 1, m)
      BY <1>1, <3>1, TakeLemma
    <3>2. CASE Rest(w)
      BY <1>1, <3>2, RestLemma
    <3> QED  BY <1>5, <3>1, <3>2
  <2>2. idle' \in [Messages -> {"none", "fresh", "stale"}] /\ seen' \subseteq Messages
    BY <1>5, PendingLemma, TypeParts DEF Pending
  <2> QED  BY <1>1, <1>2, <2>1, <2>2, TypeParts
<1> QED  BY <1>3, <1>4, <1>5 DEF ReadNew

LEMMA RedisWorkerType ==
  ASSUME RedisTypeOK, NEW w \in Consumers, Start(w) \/ Beat(w) \/ Renew(w) \/ AckEntry(w) \/ AckDelete(w) \/ LeaveEntry(w) \/ WorkerDies(w)
  PROVE  RedisTypeOK'
<1>1. rest' \in 0..RedisFaults /\ Positions
  <2>1. Lost \/ Answered
    BY DEF Start, Beat, Renew, AckEntry, AckDelete, LeaveEntry, WorkerDies
  <2> QED  BY <2>1, RedisFaultLemma, TypeParts
<1>2. CASE Start(w)
  <2>1. Positions'
    BY <1>1, <1>2, StartLemma DEF Start
  <2> QED  BY <1>1, <1>2, <2>1, TypeParts DEF Start, redis
<1>3. CASE Beat(w)
  <2>1. Positions' /\ about[w] \in Messages
    BY <1>1, <1>3, StayLemma, RedisMessageLemma DEF Beat
  <2>2. beat' \in [Consumers -> Messages \cup {None}]
    BY <1>3, <2>1, TypeParts DEF Beat
  <2> QED  BY <1>1, <1>3, <2>1, <2>2, TypeParts DEF Beat, redis
<1>4. CASE Renew(w)
  <2>1. beat[w] \in Messages
    BY <1>4, RedisMessageLemma DEF Renew
  <2>2. idle' \in [Messages -> {"none", "fresh", "stale"}]
    BY <1>4, <2>1, PendingLemma, TypeParts DEF Renew, Pending
  <2> QED  BY <1>1, <1>4, <2>2, TypeParts DEF Renew, Positions
<1>5. CASE AckEntry(w)
  <2>1. about[w] \in Messages
    BY <1>5, RedisMessageLemma DEF AckEntry
  <2>2. Positions'
    <3>1. CASE WorkerAt(w, "delete", 1, about[w])
      BY <1>1, <2>1, <3>1, TakeLemma
    <3> QED  BY <1>1, <1>5, <3>1, RestLemma DEF AckEntry
  <2>3. idle' \in [Messages -> {"none", "fresh", "stale"}] /\ gone' \subseteq Messages
    BY <1>5, <2>1, PendingLemma, TypeParts DEF AckEntry, Pending
  <2> QED  BY <1>1, <1>5, <2>2, <2>3, TypeParts DEF AckEntry
<1>6. CASE AckDelete(w)
  <2>1. Positions'
    BY <1>1, <1>6, RestLemma DEF AckDelete
  <2>2. entry' \in [Messages -> Nat]
    BY <1>6, TypeParts DEF AckDelete, Deleted
  <2> QED  BY <1>1, <1>6, <2>1, <2>2, TypeParts DEF AckDelete
<1>7. CASE LeaveEntry(w)
  <2>1. Positions'
    BY <1>1, <1>7, RestLemma DEF LeaveEntry
  <2> QED  BY <1>1, <1>7, <2>1, TypeParts DEF LeaveEntry, redis
<1>8. CASE WorkerDies(w)
  <2>1. Positions'
    BY <1>1, <1>8, RestLemma DEF WorkerDies
  <2> QED  BY <1>1, <1>8, <2>1, TypeParts DEF WorkerDies, redis
<1> QED  BY <1>2, <1>3, <1>4, <1>5, <1>6, <1>7, <1>8

LEMMA RedisNextType == RedisTypeOK /\ [RedisNext]_redisVars => RedisTypeOK'
<1> SUFFICES ASSUME RedisTypeOK, [RedisNext]_redisVars PROVE RedisTypeOK'
  OBVIOUS
<1>1. CASE UNCHANGED redisVars
  BY <1>1 DEF RedisTypeOK, redisVars, redis
<1>2. CASE RedisNext
  BY <1>2, RedisProducerType, ReclaimType, ReadType, RedisWorkerType DEF RedisNext, RedisStep
<1> QED  BY <1>1, <1>2

\* The states of a spool of streams are what the code can tell apart: a worker that is
\* about a message has one, and nothing is pending that is not a message.
THEOREM RedisTypeCorrect == RedisSpec => []RedisTypeOK
BY RedisInitType, RedisNextType, PTL DEF RedisSpec

-----------------------------------------------------------------------------
(* Redis: nothing is lost.  An entry is pending only after it was read, it is*)
(* acknowledged only then, and a worker that is about a message holds one  *)
(* that was read.                                                          *)

Known(m) ==
  /\ producer[m] \in {"new", "refused"} => entry[m] = 0 /\ m \notin seen
  /\ idle[m] # "none" => m \in seen
  /\ m \in gone => m \in seen /\ idle[m] = "none"
  /\ producer[m] = "ok" /\ m \notin gone => Deliverable(m)

About(w) ==
  /\ at[w] = "work" => about[w] \in seen
  /\ at[w] = "delete" => about[w] \in gone

Sound == (\A m \in Messages : Known(m)) /\ (\A w \in Consumers : About(w))

\* The acknowledged and the read messages only grow.
LEMMA MoreLemma ==
  ASSUME Positions, \A w \in Consumers : About(w), seen \subseteq seen', gone \subseteq gone',
         NEW w \in Consumers, Rest(w) \/ (NextStream(w) /\ at[w] \in {"reclaim", "read"})
  PROVE  \A v \in Consumers : About(v)'
<1>1. /\ at'[w] \notin {"work", "delete"}
      /\ \A v \in Consumers \ {w} : at'[v] = at[v] /\ about'[v] = about[v]
  <2>1. CASE Rest(w)
    BY <2>1 DEF Rest, WorkerAt, Positions
  <2> QED  BY <2>1, NextStreamLemma
<1> QED  BY <1>1 DEF About

LEMMA WorkLemma ==
  ASSUME Positions, \A w \in Consumers : About(w), seen \subseteq seen', gone \subseteq gone',
         NEW w \in Consumers, NEW p, NEW m \in Messages, WorkerAt(w, p, 1, m),
         p = "work" => m \in seen', p = "delete" => m \in gone'
  PROVE  \A v \in Consumers : About(v)'
<1>1. at'[w] = p /\ about'[w] = m /\ \A v \in Consumers \ {w} : at'[v] = at[v] /\ about'[v] = about[v]
  BY DEF WorkerAt, Positions
<1> QED  BY <1>1 DEF About

LEMMA SameAbout ==
  ASSUME \A w \in Consumers : About(w), UNCHANGED <<at, about>>, seen \subseteq seen', gone \subseteq gone'
  PROVE  \A w \in Consumers : About(w)'
BY DEF About

\* A message whose entry, reading and state nobody touches.
LEMMA SameKnown ==
  ASSUME NEW m \in Messages, Known(m), entry'[m] = entry[m], idle'[m] = idle[m], producer'[m] = producer[m],
         m \in seen' <=> m \in seen, m \in gone' <=> m \in gone
  PROVE  Known(m)'
BY DEF Known, Deliverable

LEMMA SweptKnown ==
  ASSUME RedisTypeOK, NEW m \in Messages, Known(m), NEW s, idle'[m] = Swept(s)[m], UNCHANGED <<entry, seen, producer, gone>>
  PROVE  Known(m)'
<1>1. idle'[m] = idle[m] \/ (idle'[m] = "none" /\ entry[m] = 0)
  BY DEF Swept
<1> QED  BY <1>1 DEF Known, Deliverable

LEMMA InitSound == RedisInit => Sound
BY DEF RedisInit, Sound, Known, About

LEMMA ProducerSound ==
  ASSUME RedisTypeOK, Sound, NEW m \in Messages, Enqueue(m) \/ Withdraw(m) \/ Delete(m) \/ Idles(m)
  PROVE  Sound'
<1>1. UNCHANGED <<at, about, seen, gone>>
  BY DEF Enqueue, Withdraw, Delete, Idles, Producer
<1>2. \A w \in Consumers : About(w)'
  BY <1>1, SameAbout DEF Sound
<1>3. \A n \in Messages \ {m} : Known(n)'
  <2> SUFFICES ASSUME NEW n \in Messages, n # m PROVE Known(n)'
    OBVIOUS
  <2>1. entry'[n] = entry[n] /\ idle'[n] = idle[n] /\ producer'[n] = producer[n]
    BY TypeParts DEF Enqueue, Withdraw, Delete, Idles, ProducerAt, Added, Pending, Deleted
  <2> QED  BY <1>1, <2>1, SameKnown DEF Sound
<1>4. Known(m)'
  <2> Known(m)
    BY DEF Sound
  <2>1. CASE Enqueue(m)
    BY <1>1, <2>1, TypeParts DEF Enqueue, ProducerAt, Added, Known, Deliverable
  <2>2. CASE Withdraw(m)
    BY <1>1, <2>2, TypeParts DEF Withdraw, ProducerAt, Pending, Known, Deliverable
  <2>3. CASE Delete(m)
    BY <1>1, <2>3, TypeParts DEF Delete, ProducerAt, Deleted, Known, Deliverable
  <2>4. CASE Idles(m)
    BY <1>1, <2>4, TypeParts DEF Idles, Pending, Known, Deliverable
  <2> QED  BY <2>1, <2>2, <2>3, <2>4
<1> QED  BY <1>2, <1>3, <1>4 DEF Sound

LEMMA ReclaimSound == ASSUME RedisTypeOK, Sound, NEW w \in Consumers, Reclaim(w) PROVE Sound'
<1> DEFINE s == stage[w]
<1>1. UNCHANGED <<entry, next, seen, producer, beat, gone>> /\ at[w] = "reclaim" /\ Positions
  BY TypeParts DEF Reclaim
<1>2. CASE NextStream(w) /\ idle' \in {idle, Swept(s)}
  <2>1. \A v \in Consumers : About(v)'
    BY <1>1, <1>2, MoreLemma DEF Sound
  <2>2. \A m \in Messages : Known(m)'
    BY <1>1, <1>2, SameKnown, SweptKnown DEF Sound
  <2> QED  BY <2>1, <2>2 DEF Sound
<1>3. ASSUME NEW m \in Messages, FirstEntry(m, Stale(s)), idle' = [Swept(s) EXCEPT ![m] = "fresh"],
             WorkerAt(w, "work", 1, m) \/ NextStream(w)
      PROVE  Sound'
  <2>1. m \in seen /\ m \notin gone /\ Known(m) /\ entry[m] # 0
    BY <1>3 DEF FirstEntry, Stale, Sound, Known
  <2>2. \A v \in Consumers : About(v)'
    <3>1. CASE WorkerAt(w, "work", 1, m)
      BY <1>1, <2>1, <3>1, WorkLemma DEF Sound
    <3>2. CASE NextStream(w)
      BY <1>1, <3>2, MoreLemma DEF Sound
    <3> QED  BY <1>3, <3>1, <3>2
  <2>3. \A n \in Messages \ {m} : Known(n)'
    <3> SUFFICES ASSUME NEW n \in Messages, n # m PROVE Known(n)'
      OBVIOUS
    <3>1. idle'[n] = Swept(s)[n]
      BY <1>3, SweptLemma
    <3> QED  BY <1>1, <3>1, SweptKnown DEF Sound
  <2>4. idle'[m] = "fresh"
    BY <1>3, SweptLemma
  <2>5. Known(m)'
    BY <1>1, <2>1, <2>4 DEF Known, Deliverable
  <2> QED  BY <2>2, <2>3, <2>5 DEF Sound
<1> QED  BY <1>2, <1>3 DEF Reclaim

LEMMA ReadSound == ASSUME RedisTypeOK, Sound, NEW w \in Consumers, ReadNew(w) PROVE Sound'
<1>1. UNCHANGED <<entry, next, producer, beat, gone>> /\ at[w] = "read" /\ Positions
  BY TypeParts DEF ReadNew
<1>2. CASE (NextStream(w) \/ Rest(w)) /\ UNCHANGED <<seen, idle>>
  <2>1. \A v \in Consumers : About(v)'
    BY <1>1, <1>2, MoreLemma DEF Sound
  <2>2. \A m \in Messages : Known(m)'
    BY <1>1, <1>2, SameKnown DEF Sound
  <2> QED  BY <2>1, <2>2 DEF Sound
<1>3. ASSUME NEW m \in Messages, FirstEntry(m, Waiting(stage[w])), seen' = seen \cup {m}, Pending(m, "fresh"),
             WorkerAt(w, "work", 1, m) \/ Rest(w)
      PROVE  Sound'
  <2>1. m \notin seen /\ entry[m] # 0 /\ Known(m)
    BY <1>3 DEF FirstEntry, Waiting, Sound
  <2>2. \A v \in Consumers : About(v)'
    <3>1. CASE WorkerAt(w, "work", 1, m)
      BY <1>1, <1>3, <3>1, WorkLemma DEF Sound
    <3>2. CASE Rest(w)
      BY <1>1, <1>3, <3>2, MoreLemma DEF Sound
    <3> QED  BY <1>3, <3>1, <3>2
  <2>3. \A n \in Messages \ {m} : Known(n)'
    <3> SUFFICES ASSUME NEW n \in Messages, n # m PROVE Known(n)'
      OBVIOUS
    <3>1. idle'[n] = idle[n] /\ (n \in seen' <=> n \in seen)
      BY <1>3, TypeParts DEF Pending
    <3> QED  BY <1>1, <3>1, SameKnown DEF Sound
  <2>4. idle'[m] = "fresh" /\ m \in seen'
    BY <1>3, TypeParts DEF Pending
  <2>5. Known(m)'
    BY <1>1, <2>1, <2>4 DEF Known, Deliverable
  <2> QED  BY <2>2, <2>3, <2>5 DEF Sound
<1> QED  BY <1>2, <1>3 DEF ReadNew

LEMMA WorkerSound ==
  ASSUME RedisTypeOK, Sound, NEW w \in Consumers, Start(w) \/ Beat(w) \/ Renew(w) \/ AckEntry(w) \/ AckDelete(w) \/ LeaveEntry(w) \/ WorkerDies(w)
  PROVE  Sound'
<1>1. Positions /\ (\A v \in Consumers : About(v)) /\ \A m \in Messages : Known(m)
  BY TypeParts DEF Sound
<1>2. CASE Start(w) \/ LeaveEntry(w) \/ WorkerDies(w)
  <2>1. UNCHANGED <<entry, next, seen, idle, producer, gone>>
    BY <1>2 DEF Start, LeaveEntry, WorkerDies, redis
  <2>2. \A v \in Consumers : About(v)'
    <3>1. at'[w] \notin {"work", "delete"} /\ \A v \in Consumers \ {w} : at'[v] = at[v] /\ about'[v] = about[v]
      BY <1>1, <1>2 DEF Start, LeaveEntry, WorkerDies, Rest, WorkerAt, Positions
    <3> QED  BY <1>1, <2>1, <3>1 DEF About
  <2>3. \A m \in Messages : Known(m)'
    BY <1>1, <2>1, SameKnown
  <2> QED  BY <2>2, <2>3 DEF Sound
<1>3. CASE Beat(w)
  <2>1. UNCHANGED <<entry, next, seen, idle, producer, gone, at, about>>
    BY <1>3 DEF Beat, redis
  <2> QED  BY <1>1, <2>1, SameAbout, SameKnown DEF Sound
<1>4. CASE Renew(w)
  <2>1. UNCHANGED <<entry, next, seen, producer, gone, at, about>> /\ beat[w] \in Messages
    BY <1>4, RedisMessageLemma DEF Renew
  <2> PICK m \in Messages : m = beat[w]
    BY <2>1
  <2>2. \A n \in Messages \ {m} : idle'[n] = idle[n]
    BY <1>4, TypeParts DEF Renew, Pending
  <2>3. \A n \in Messages \ {m} : Known(n)'
    BY <1>1, <2>1, <2>2, SameKnown
  <2>4. \/ idle'[m] = idle[m] \/ (entry[m] = 0 /\ idle'[m] = "none")
        \/ entry[m] # 0 /\ idle[m] # "none" /\ idle'[m] = "fresh"
    BY <1>4, TypeParts DEF Renew, Pending
  <2>5. Known(m)'
    BY <1>1, <2>1, <2>4 DEF Known, Deliverable
  <2> QED  BY <1>1, <2>1, <2>3, <2>5, SameAbout DEF Sound
<1>5. CASE AckEntry(w)
  <2> PICK m \in Messages : m = about[w]
    BY <1>5, RedisMessageLemma DEF AckEntry
  <2>1. UNCHANGED <<entry, next, seen, producer>> /\ at[w] = "work" /\ m \in seen /\ gone \subseteq gone'
    BY <1>1, <1>5 DEF AckEntry, About
  <2>2. \A v \in Consumers : About(v)'
    <3>1. CASE WorkerAt(w, "delete", 1, m) /\ m \in gone'
      BY <1>1, <2>1, <3>1, WorkLemma
    <3>2. CASE Rest(w)
      BY <1>1, <2>1, <3>2, MoreLemma
    <3> QED  BY <1>5, <3>1, <3>2 DEF AckEntry
  <2>3. \A n \in Messages \ {m} : Known(n)'
    <3> SUFFICES ASSUME NEW n \in Messages, n # m PROVE Known(n)'
      OBVIOUS
    <3>1. idle'[n] = idle[n] /\ (n \in gone' <=> n \in gone)
      BY <1>5, TypeParts DEF AckEntry, Pending
    <3> QED  BY <1>1, <2>1, <3>1, SameKnown
  <2>4. (idle'[m] = "none" /\ m \in gone') \/ (idle'[m] = idle[m] /\ (m \in gone' <=> m \in gone))
    BY <1>5, TypeParts DEF AckEntry, Pending
  <2>5. Known(m)'
    BY <1>1, <2>1, <2>4 DEF Known, Deliverable
  <2> QED  BY <2>2, <2>3, <2>5 DEF Sound
<1>6. CASE AckDelete(w)
  <2> PICK m \in Messages : m = about[w]
    BY <1>6, RedisMessageLemma DEF AckDelete
  <2>1. UNCHANGED <<next, seen, idle, producer, gone>> /\ m \in gone /\ at[w] = "delete"
    BY <1>1, <1>6 DEF AckDelete, About
  <2>2. \A v \in Consumers : About(v)'
    BY <1>1, <1>6, <2>1, MoreLemma DEF AckDelete
  <2>3. \A n \in Messages \ {m} : Known(n)'
    <3> SUFFICES ASSUME NEW n \in Messages, n # m PROVE Known(n)'
      OBVIOUS
    <3>1. entry'[n] = entry[n]
      BY <1>6, TypeParts DEF AckDelete, Deleted
    <3> QED  BY <1>1, <2>1, <3>1, SameKnown
  <2>4. entry'[m] \in {0, entry[m]}
    BY <1>6, TypeParts DEF AckDelete, Deleted
  <2>5. Known(m)'
    BY <1>1, <2>1, <2>4 DEF Known, Deliverable
  <2> QED  BY <2>2, <2>3, <2>5 DEF Sound
<1> QED  BY <1>2, <1>3, <1>4, <1>5, <1>6

LEMMA NextSound == RedisTypeOK /\ Sound /\ [RedisNext]_redisVars => Sound'
<1> SUFFICES ASSUME RedisTypeOK, Sound, [RedisNext]_redisVars PROVE Sound'
  OBVIOUS
<1>1. CASE UNCHANGED redisVars
  BY <1>1, SameAbout, SameKnown DEF Sound, redisVars, redis
<1>2. CASE RedisNext
  BY <1>2, ProducerSound, ReclaimSound, ReadSound, WorkerSound DEF RedisNext, RedisStep
<1> QED  BY <1>1, <1>2

LEMMA SoundIsEnough == Sound => NothingIsLost
BY DEF Sound, Known, NothingIsLost

\* A message that was enqueued is read again, whatever crashes, stalls and lost answers
\* there are, until it is acknowledged or withdrawn.
THEOREM NothingLost == RedisSpec => []RedisLosesNothing
BY InitSound, NextSound, SoundIsEnough, RedisTypeCorrect, PTL DEF RedisSpec, RedisLosesNothing

-----------------------------------------------------------------------------
(* Redis: the streams implement TaskQueue.                                        *)

Leasing(m) == Deliverable(m) /\ idle[m] = "fresh"

RedisAllowed == RedisPromise!Next \/ UNCHANGED <<RedisUsed, RedisDone, RedisLive, RedisLeased, RedisHeld>>

\* What a step does to one message only shows in the sets.
RedisOnly(m) == \A n \in Messages \ {m} : (Deliverable(n)' <=> Deliverable(n)) /\ (Leasing(n)' <=> Leasing(n))

LEMMA RedisOnlyLemma ==
  ASSUME NEW m \in Messages, RedisOnly(m)
  PROVE  /\ RedisLive' = IF Deliverable(m)' THEN RedisLive \cup {m} ELSE RedisLive \ {m}
         /\ RedisLeased' = IF Leasing(m)' THEN RedisLeased \cup {m} ELSE RedisLeased \ {m}
         /\ m \in RedisLive <=> Deliverable(m)
         /\ m \in RedisLeased <=> Leasing(m)
BY DEF RedisOnly, RedisLive, RedisLeased, Leasing

LEMMA NoneLemma ==
  ASSUME \A n \in Messages : (Deliverable(n)' <=> Deliverable(n)) /\ (Leasing(n)' <=> Leasing(n))
  PROVE  UNCHANGED <<RedisLive, RedisLeased>>
BY DEF RedisLive, RedisLeased, Leasing

LEMMA SameEntry ==
  ASSUME NEW n \in Messages, entry'[n] = entry[n], idle'[n] = idle[n], n \in seen' <=> n \in seen
  PROVE  (Deliverable(n)' <=> Deliverable(n)) /\ (Leasing(n)' <=> Leasing(n))
BY DEF Deliverable, Leasing

LEMMA SweptEntry ==
  ASSUME RedisTypeOK, NEW n \in Messages, NEW s, idle'[n] = Swept(s)[n], UNCHANGED <<entry, seen>>
  PROVE  (Deliverable(n)' <=> Deliverable(n)) /\ (Leasing(n)' <=> Leasing(n))
<1>1. idle'[n] = idle[n] \/ (idle'[n] = "none" /\ entry[n] = 0)
  BY DEF Swept
<1> QED  BY <1>1 DEF Deliverable, Leasing

\* Who holds what.
LEMMA HeldTake ==
  ASSUME Positions, NEW w \in Consumers, NEW m \in Messages, WorkerAt(w, "work", 1, m)
  PROVE  RedisHeld' = [RedisHeld EXCEPT ![w] = m]
BY DEF Positions, WorkerAt, RedisHeld

LEMMA HeldDrop ==
  ASSUME Positions, NEW w \in Consumers, NEW p \in Steps, p # "work", NEW m, WorkerAt(w, p, 1, m)
  PROVE  RedisHeld' = [RedisHeld EXCEPT ![w] = None]
BY DEF Positions, WorkerAt, RedisHeld

LEMMA HeldRest == ASSUME Positions, NEW w \in Consumers, Rest(w) PROVE RedisHeld' = [RedisHeld EXCEPT ![w] = None]
<1>1. WorkerAt(w, "idle", 1, None) /\ "idle" \in Steps
  BY DEF Rest, Steps
<1> QED  BY <1>1, HeldDrop

LEMMA RedisHeldIs ==
  ASSUME Positions, NEW w \in Consumers
  PROVE  /\ at[w] = "work" => RedisHeld[w] = about[w]
         /\ at[w] # "work" => RedisHeld[w] = None /\ [RedisHeld EXCEPT ![w] = None] = RedisHeld
BY DEF RedisHeld

LEMMA HeldGoesOn ==
  ASSUME Positions, NEW w \in Consumers, at[w] \in {"reclaim", "read"}, NextStream(w)
  PROVE  UNCHANGED RedisHeld
<1>1. at'[w] \notin {"work", "delete"} /\ \A v \in Consumers \ {w} : at'[v] = at[v] /\ about'[v] = about[v]
  BY NextStreamLemma
<1> QED  BY <1>1 DEF RedisHeld

LEMMA RedisProducerAllowed ==
  ASSUME RedisTypeOK, Sound, NEW m \in Messages, Enqueue(m) \/ Withdraw(m) \/ Delete(m) \/ Idles(m)
  PROVE  RedisAllowed
<1>1. UNCHANGED <<RedisHeld, seen, gone>>
  BY DEF Enqueue, Withdraw, Delete, Idles, Producer, RedisHeld
<1>2. RedisOnly(m)
  <2> SUFFICES ASSUME NEW n \in Messages, n # m
               PROVE  (Deliverable(n)' <=> Deliverable(n)) /\ (Leasing(n)' <=> Leasing(n))
    BY DEF RedisOnly
  <2>1. entry'[n] = entry[n] /\ idle'[n] = idle[n]
    BY TypeParts DEF Enqueue, Withdraw, Delete, Idles, Added, Pending, Deleted
  <2> QED  BY <1>1, <2>1, SameEntry
<1>3. Known(m)
  BY DEF Sound
<1>4. CASE Enqueue(m)
  <2>1. CASE producer'[m] = "refused"
    <3>1. UNCHANGED <<entry, seen, idle>> /\ producer[m] = "new" /\ producer' = [producer EXCEPT ![m] = "refused"]
      BY <1>4, <2>1, TypeParts DEF Enqueue, ProducerAt
    <3>2. UNCHANGED <<RedisUsed, RedisDone>>
      BY <1>1, <3>1, TypeParts DEF RedisUsed, RedisDone
    <3>3. UNCHANGED <<RedisLive, RedisLeased>>
      BY <3>1 DEF RedisLive, RedisLeased, Deliverable
    <3> QED  BY <1>1, <3>2, <3>3 DEF RedisAllowed
  <2>2. CASE producer'[m] # "refused"
    <3>1. /\ Added(m) /\ UNCHANGED <<seen, idle>> /\ producer[m] = "new"
          /\ \E q \in {"ok", "failed"} : producer' = [producer EXCEPT ![m] = q]
      BY <1>4, <2>2, TypeParts DEF Enqueue, ProducerAt
    <3>2. m \notin RedisUsed /\ RedisUsed' = RedisUsed \cup {m} /\ UNCHANGED RedisDone
      BY <1>1, <3>1, TypeParts DEF RedisUsed, RedisDone
    <3>3. Deliverable(m)' /\ ~Leasing(m)' /\ ~Leasing(m)
      BY <1>3, <3>1, TypeParts DEF Added, Known, Deliverable, Leasing
    <3>4. RedisLive' = RedisLive \cup {m} /\ UNCHANGED RedisLeased
      BY <1>2, <3>3, RedisOnlyLemma
    <3>5. RedisPromise!Enqueue(m)
      BY <1>1, <3>2, <3>4 DEF RedisPromise!Enqueue
    <3> QED  BY <3>5 DEF RedisAllowed, RedisPromise!Next
  <2> QED  BY <2>1, <2>2
<1>5. CASE Withdraw(m) \/ Delete(m)
  <2>1. m \in RedisUsed /\ UNCHANGED RedisUsed /\ RedisDone' = RedisDone \cup {m} /\ idle'[m] \in {"none", idle[m]}
    BY <1>1, <1>5, TypeParts DEF Withdraw, Delete, ProducerAt, Pending, RedisUsed, RedisDone
  <2>2. CASE Withdraw(m)
    <3>1. ~Leasing(m)' /\ (Deliverable(m)' => Deliverable(m))
      BY <1>1, <2>2, TypeParts DEF Withdraw, Pending, Leasing, Deliverable
    <3>2. RedisLive' \in {RedisLive, RedisLive \ {m}} /\ RedisLeased' = RedisLeased \ {m}
      BY <1>2, <3>1, RedisOnlyLemma
    <3>3. RedisPromise!Remove(m)
      BY <1>1, <2>1, <3>2 DEF RedisPromise!Remove
    <3> QED  BY <3>3 DEF RedisAllowed, RedisPromise!Next
  <2>3. CASE Delete(m) /\ Deleted(m)
    <3>1. ~Leasing(m)' /\ ~Deliverable(m)'
      BY <2>3, TypeParts DEF Deleted, Leasing, Deliverable
    <3>2. RedisLive' = RedisLive \ {m} /\ RedisLeased' = RedisLeased \ {m}
      BY <1>2, <3>1, RedisOnlyLemma
    <3>3. RedisPromise!Remove(m)
      BY <1>1, <2>1, <3>2 DEF RedisPromise!Remove
    <3> QED  BY <3>3 DEF RedisAllowed, RedisPromise!Next
  <2>4. CASE Delete(m) /\ UNCHANGED entry
    <3>1. UNCHANGED <<entry, seen, idle>>
      BY <2>4 DEF Delete
    <3>2. UNCHANGED <<RedisLive, RedisLeased>>
      BY <3>1 DEF RedisLive, RedisLeased, Deliverable
    <3>3. UNCHANGED RedisDone
      BY <1>1, <2>4, TypeParts DEF Delete, ProducerAt, RedisDone
    <3> QED  BY <1>1, <2>1, <3>2, <3>3 DEF RedisAllowed
  <2> QED  BY <1>5, <2>2, <2>3, <2>4 DEF Delete
<1>6. CASE Idles(m)
  <2>1. UNCHANGED <<RedisUsed, RedisDone, entry, seen>> /\ idle[m] = "fresh" /\ idle'[m] = "stale"
    BY <1>6, TypeParts DEF Idles, Pending, RedisUsed, RedisDone
  <2>2. ~Leasing(m)' /\ (Deliverable(m)' <=> Deliverable(m))
    BY <2>1 DEF Leasing, Deliverable
  <2>3. UNCHANGED RedisLive /\ RedisLeased' = RedisLeased \ {m}
    BY <1>2, <2>2, RedisOnlyLemma
  <2>4. RedisPromise!Expire(m) \/ UNCHANGED RedisLeased
    BY <1>1, <2>1, <2>3 DEF RedisPromise!Expire
  <2> QED  BY <1>1, <2>1, <2>3, <2>4 DEF RedisAllowed, RedisPromise!Next
<1> QED  BY <1>4, <1>5, <1>6

\* An entry that becomes pending, for a worker that gets the answer or for nobody.
LEMMA TakeAllowed ==
  ASSUME RedisTypeOK, Sound, NEW w \in Consumers, NEW m \in Messages, UNCHANGED <<entry, producer, gone>>,
         RedisOnly(m), entry[m] # 0, ~Leasing(m), Deliverable(m), m \in seen', idle'[m] = "fresh",
         (at[w] # "work" /\ WorkerAt(w, "work", 1, m)) \/ UNCHANGED RedisHeld
  PROVE  RedisAllowed
<1>1. RedisLive' = RedisLive /\ RedisLeased' = RedisLeased \cup {m} /\ m \in RedisLive \ RedisLeased
  <2>1. Deliverable(m)' /\ Leasing(m)'
    BY DEF Deliverable, Leasing
  <2> QED  BY <2>1, RedisOnlyLemma
<1>2. UNCHANGED <<RedisUsed, RedisDone>>
  BY DEF RedisUsed, RedisDone
<1>3. CASE at[w] # "work" /\ WorkerAt(w, "work", 1, m)
  <2>1. Positions
    BY TypeParts
  <2>2. RedisHeld[w] = None /\ RedisHeld' = [RedisHeld EXCEPT ![w] = m]
    BY <1>3, <2>1, RedisHeldIs, HeldTake
  <2>3. RedisPromise!Claim(w, m)
    BY <1>1, <1>2, <2>2 DEF RedisPromise!Claim
  <2> QED  BY <2>3 DEF RedisAllowed, RedisPromise!Next
<1>4. CASE UNCHANGED RedisHeld
  <2>1. RedisPromise!Renew(m)
    BY <1>1, <1>2, <1>4 DEF RedisPromise!Renew
  <2> QED  BY <2>1 DEF RedisAllowed, RedisPromise!Next
<1> QED  BY <1>3, <1>4

LEMMA ReclaimAllowed == ASSUME RedisTypeOK, Sound, NEW w \in Consumers, Reclaim(w) PROVE RedisAllowed
<1> DEFINE s == stage[w]
<1>1. UNCHANGED <<entry, next, seen, producer, beat, gone>> /\ at[w] = "reclaim" /\ Positions
  BY TypeParts DEF Reclaim
<1>2. CASE NextStream(w) /\ idle' \in {idle, Swept(s)}
  <2>1. UNCHANGED <<RedisUsed, RedisDone, RedisHeld>>
    BY <1>1, <1>2, HeldGoesOn DEF RedisUsed, RedisDone
  <2>2. UNCHANGED <<RedisLive, RedisLeased>>
    BY <1>1, <1>2, SameEntry, SweptEntry, NoneLemma
  <2> QED  BY <2>1, <2>2 DEF RedisAllowed
<1>3. ASSUME NEW m \in Messages, FirstEntry(m, Stale(s)), idle' = [Swept(s) EXCEPT ![m] = "fresh"],
             WorkerAt(w, "work", 1, m) \/ NextStream(w)
      PROVE  RedisAllowed
  <2>1. entry[m] # 0 /\ idle[m] = "stale" /\ m \in seen
    BY <1>3 DEF FirstEntry, Stale, Sound, Known
  <2>2. Deliverable(m) /\ ~Leasing(m) /\ m \in seen'
    BY <1>1, <2>1 DEF Deliverable, Leasing
  <2>3. RedisOnly(m)
    <3> SUFFICES ASSUME NEW n \in Messages, n # m
                 PROVE  (Deliverable(n)' <=> Deliverable(n)) /\ (Leasing(n)' <=> Leasing(n))
      BY DEF RedisOnly
    <3>1. idle'[n] = Swept(s)[n]
      BY <1>3, SweptLemma
    <3> QED  BY <1>1, <3>1, SweptEntry
  <2>4. idle'[m] = "fresh"
    BY <1>3, SweptLemma
  <2>5. (at[w] # "work" /\ WorkerAt(w, "work", 1, m)) \/ UNCHANGED RedisHeld
    BY <1>1, <1>3, HeldGoesOn
  <2> QED  BY <1>1, <2>1, <2>2, <2>3, <2>4, <2>5, TakeAllowed
<1> QED  BY <1>2, <1>3 DEF Reclaim

LEMMA ReadAllowed == ASSUME RedisTypeOK, Sound, NEW w \in Consumers, ReadNew(w) PROVE RedisAllowed
<1>1. UNCHANGED <<entry, next, producer, beat, gone>> /\ at[w] = "read" /\ Positions
  BY TypeParts DEF ReadNew
<1>2. NextStream(w) \/ Rest(w) => UNCHANGED RedisHeld
  BY <1>1, HeldGoesOn, HeldRest, RedisHeldIs
<1>3. CASE (NextStream(w) \/ Rest(w)) /\ UNCHANGED <<seen, idle>>
  <2>1. UNCHANGED <<RedisUsed, RedisDone, RedisLive, RedisLeased>>
    BY <1>1, <1>3 DEF RedisUsed, RedisDone, RedisLive, RedisLeased, Deliverable
  <2> QED  BY <1>2, <1>3, <2>1 DEF RedisAllowed
<1>4. ASSUME NEW m \in Messages, FirstEntry(m, Waiting(stage[w])), seen' = seen \cup {m}, Pending(m, "fresh"),
             WorkerAt(w, "work", 1, m) \/ Rest(w)
      PROVE  RedisAllowed
  <2>1. m \notin seen /\ entry[m] # 0 /\ idle[m] = "none"
    BY <1>4, TypeParts DEF FirstEntry, Waiting, Sound, Known
  <2>2. Deliverable(m) /\ ~Leasing(m) /\ m \in seen'
    BY <1>4, <2>1 DEF Deliverable, Leasing
  <2>3. RedisOnly(m)
    <3> SUFFICES ASSUME NEW n \in Messages, n # m
                 PROVE  (Deliverable(n)' <=> Deliverable(n)) /\ (Leasing(n)' <=> Leasing(n))
      BY DEF RedisOnly
    <3>1. idle'[n] = idle[n] /\ (n \in seen' <=> n \in seen)
      BY <1>4, TypeParts DEF Pending
    <3> QED  BY <1>1, <3>1, SameEntry
  <2>4. idle'[m] = "fresh"
    BY <1>4, TypeParts DEF Pending
  <2>5. (at[w] # "work" /\ WorkerAt(w, "work", 1, m)) \/ UNCHANGED RedisHeld
    BY <1>1, <1>2, <1>4
  <2> QED  BY <1>1, <2>1, <2>2, <2>3, <2>4, <2>5, TakeAllowed
<1> QED  BY <1>3, <1>4 DEF ReadNew

LEMMA RedisWorkerAllowed ==
  ASSUME RedisTypeOK, Sound, NEW w \in Consumers, Start(w) \/ Beat(w) \/ Renew(w) \/ AckEntry(w) \/ AckDelete(w) \/ LeaveEntry(w) \/ WorkerDies(w)
  PROVE  RedisAllowed
<1>1. Positions /\ (\A v \in Consumers : About(v)) /\ \A m \in Messages : Known(m)
  BY TypeParts DEF Sound
<1>2. UNCHANGED RedisUsed
  BY DEF Start, Beat, Renew, AckEntry, AckDelete, LeaveEntry, WorkerDies, redis, RedisUsed
<1>3. CASE UNCHANGED <<entry, seen, idle, producer, gone>> /\ Rest(w)
  <2>1. UNCHANGED <<RedisDone, RedisLive, RedisLeased>> /\ RedisHeld' = [RedisHeld EXCEPT ![w] = None]
    BY <1>1, <1>3, HeldRest DEF RedisDone, RedisLive, RedisLeased, Deliverable
  <2>2. CASE at[w] = "work"
    <3>1. RedisHeld[w] # None
      BY <1>1, <2>2, RedisHeldIs DEF Positions
    <3>2. RedisPromise!Release(w)
      BY <1>2, <2>1, <3>1 DEF RedisPromise!Release, RedisPromise!Drop
    <3> QED  BY <3>2 DEF RedisAllowed, RedisPromise!Next
  <2>3. CASE at[w] # "work"
    BY <1>1, <1>2, <2>1, <2>3, RedisHeldIs DEF RedisAllowed
  <2> QED  BY <2>2, <2>3
<1>4. CASE Start(w) \/ Beat(w)
  <2>1. UNCHANGED <<entry, seen, idle, producer, gone>>
    BY <1>4 DEF Start, Beat, redis
  <2>2. UNCHANGED RedisHeld
    <3>1. CASE Start(w)
      <4>1. WorkerAt(w, "reclaim", 1, None) /\ "reclaim" \in Steps /\ at[w] # "work"
        BY <3>1 DEF Start, Steps
      <4> QED  BY <1>1, <4>1, HeldDrop, RedisHeldIs
    <3>2. CASE Beat(w)
      BY <3>2 DEF Beat, RedisHeld
    <3> QED  BY <1>4, <3>1, <3>2
  <2> QED  BY <1>2, <2>1, <2>2 DEF RedisAllowed, RedisDone, RedisLive, RedisLeased, Deliverable
<1>5. CASE Renew(w)
  <2> PICK m \in Messages : m = beat[w]
    BY <1>5, RedisMessageLemma DEF Renew
  <2>1. UNCHANGED <<entry, seen, producer, gone, RedisHeld, RedisDone>>
    BY <1>5 DEF Renew, RedisHeld, RedisDone
  <2>2. RedisOnly(m)
    <3> SUFFICES ASSUME NEW n \in Messages, n # m
                 PROVE  (Deliverable(n)' <=> Deliverable(n)) /\ (Leasing(n)' <=> Leasing(n))
      BY DEF RedisOnly
    <3>1. idle'[n] = idle[n]
      BY <1>5, TypeParts DEF Renew, Pending
    <3> QED  BY <2>1, <3>1, SameEntry
  <2>3. \/ (Deliverable(m)' <=> Deliverable(m)) /\ (Leasing(m)' <=> Leasing(m))
        \/ Deliverable(m) /\ Deliverable(m)' /\ Leasing(m)'
    BY <1>5, <2>1, TypeParts DEF Renew, Pending, Deliverable, Leasing
  <2>4. \/ UNCHANGED <<RedisLive, RedisLeased>>
        \/ UNCHANGED RedisLive /\ m \in RedisLive /\ RedisLeased' = RedisLeased \cup {m}
    BY <2>2, <2>3, RedisOnlyLemma
  <2>5. RedisPromise!Renew(m) \/ UNCHANGED <<RedisLive, RedisLeased>>
    BY <1>2, <2>1, <2>4 DEF RedisPromise!Renew
  <2> QED  BY <1>2, <2>1, <2>5 DEF RedisAllowed, RedisPromise!Next
<1>6. CASE AckEntry(w) /\ Pending(about[w], "none") /\ gone' = gone \cup {about[w]}
  <2> PICK m \in Messages : m = about[w]
    BY <1>6, RedisMessageLemma DEF AckEntry
  <2>1. UNCHANGED <<entry, seen, producer>> /\ at[w] = "work" /\ m \in seen
    BY <1>1, <1>6 DEF AckEntry, About
  <2>2. RedisHeld[w] = m /\ m # None /\ RedisHeld' = [RedisHeld EXCEPT ![w] = None]
    <3>1. "delete" \in Steps
      BY DEF Steps
    <3> QED  BY <1>1, <1>6, <2>1, <3>1, RedisHeldIs, HeldRest, HeldDrop, NoneAssumption DEF AckEntry
  <2>3. RedisDone' = RedisDone \cup {m}
    BY <1>6, <2>1 DEF RedisDone
  <2>4. RedisOnly(m)
    <3> SUFFICES ASSUME NEW n \in Messages, n # m
                 PROVE  (Deliverable(n)' <=> Deliverable(n)) /\ (Leasing(n)' <=> Leasing(n))
      BY DEF RedisOnly
    <3>1. idle'[n] = idle[n]
      BY <1>6, TypeParts DEF Pending
    <3> QED  BY <2>1, <3>1, SameEntry
  <2>5. ~Deliverable(m)' /\ ~Leasing(m)'
    BY <1>6, <2>1, TypeParts DEF Pending, Deliverable, Leasing
  <2>6. RedisLive' = RedisLive \ {m} /\ RedisLeased' = RedisLeased \ {m}
    BY <2>4, <2>5, RedisOnlyLemma
  <2>7. RedisPromise!Ack(w)
    BY <1>2, <2>2, <2>3, <2>6 DEF RedisPromise!Ack, RedisPromise!Drop
  <2> QED  BY <2>7 DEF RedisAllowed, RedisPromise!Next
<1>7. CASE AckDelete(w) /\ Deleted(about[w])
  <2> PICK m \in Messages : m = about[w]
    BY <1>7, RedisMessageLemma DEF AckDelete
  <2>1. UNCHANGED <<seen, idle, producer, gone, RedisDone>> /\ m \in gone /\ at[w] = "delete"
    BY <1>1, <1>7 DEF AckDelete, About, RedisDone
  <2>2. UNCHANGED RedisHeld
    BY <1>1, <1>7, <2>1, HeldRest, RedisHeldIs DEF AckDelete
  <2>3. \A n \in Messages : (Deliverable(n)' <=> Deliverable(n)) /\ (Leasing(n)' <=> Leasing(n))
    <3>1. ~Deliverable(m) /\ ~Deliverable(m)'
      BY <1>1, <1>7, <2>1, TypeParts DEF Known, Deliverable, Deleted
    <3>2. \A n \in Messages \ {m} : entry'[n] = entry[n]
      BY <1>7, TypeParts DEF Deleted
    <3> QED  BY <2>1, <3>1, <3>2 DEF Deliverable, Leasing
  <2> QED  BY <1>2, <2>1, <2>2, <2>3, NoneLemma DEF RedisAllowed
<1> QED  BY <1>3, <1>4, <1>5, <1>6, <1>7 DEF AckEntry, AckDelete, LeaveEntry, WorkerDies, redis

\* Whatever producers and workers do to the streams, in any order and with any answers lost,
\* is an enqueue, a claim, an expired or a renewed lease, an acknowledgement, a release or a
\* withdrawal, as TaskQueue has them.
THEOREM RedisImplementation == RedisSpec => RedisPromise!Init /\ RedisKeepsPromise
<1>1. RedisInit => RedisPromise!Init
  BY DEF RedisInit, RedisPromise!Init, RedisUsed, RedisDone, RedisLive, RedisLeased, RedisHeld, Deliverable
<1>2. RedisTypeOK /\ Sound /\ [RedisNext]_redisVars => [RedisPromise!Next]_<<RedisUsed, RedisDone, RedisLive, RedisLeased, RedisHeld>>
  <2> SUFFICES ASSUME RedisTypeOK, Sound, [RedisNext]_redisVars PROVE RedisAllowed
    BY DEF RedisAllowed
  <2>1. CASE UNCHANGED redisVars
    BY <2>1 DEF RedisAllowed, redisVars, redis, RedisUsed, RedisDone, RedisLive, RedisLeased, RedisHeld, Deliverable
  <2>2. CASE RedisNext
    BY <2>2, RedisProducerAllowed, ReclaimAllowed, ReadAllowed, RedisWorkerAllowed DEF RedisNext, RedisStep
  <2> QED  BY <2>1, <2>2
<1> QED  BY <1>1, <1>2, InitSound, NextSound, RedisTypeCorrect, PTL DEF RedisSpec, RedisKeepsPromise
=============================================================================
