--------------------------- MODULE VideoJobProofs ---------------------------
(***************************************************************************)
(* Theorems about VideoJob, for every set of workers, every storage mode,  *)
(* every retry budget and every bound on faults and requests.              *)
(***************************************************************************)
EXTENDS VideoJob, TLAPS

\* The locations at which run_video_job, or a callback, uses its job.
Running == {"entry", "cancel1", "pause1", "setup", "open", "cancel2", "pause2",
            "infer", "complete", "archive", "except", "retry", "final", "deliver"}

\* The locations that wait for a persist.
Awaiting == {"entry", "cancel1", "open", "cancel2", "complete", "final"}

\* A worker that runs, and a creation under way, have a job to work on.
HasJob ==
  /\ \A w \in Workers : pc[w] \in Running => Cur(w) # Nil
  /\ \A w \in Workers : out[w] # Nil => pc[w] \in Awaiting
  /\ rpc["create"] \in {"stage", "configure"} => Deref("create") # Nil

TypeInv == TypeOK /\ HasJob

-----------------------------------------------------------------------------
\* What the model writes into a job leaves it a job.
LEMMA JobUpdates ==
  ASSUME NEW j \in Job
  PROVE  /\ \A light \in BOOLEAN : Row(j, light) \in Job
         /\ \A r \in Requests : Applied(r, j) \in Job
         /\ [j EXCEPT !.payload = TRUE] \in Job
         /\ [j EXCEPT !.cancel = TRUE, !.status = "cancelled"] \in Job
         /\ [j EXCEPT !.pause = TRUE, !.status = "paused"] \in Job
         /\ [j EXCEPT !.status = "running", !.attempts = @ + 1] \in Job
         /\ [j EXCEPT !.frames = <<>>, !.partial = TRUE] \in Job
         /\ [j EXCEPT !.status = "queued"] \in Job
         /\ [j EXCEPT !.status = "failed"] \in Job
         /\ \A fs \in Seq(Nat), n \in Nat :
              /\ [j EXCEPT !.frames = fs, !.partial = TRUE, !.ckpt = n] \in Job
              /\ [j EXCEPT !.frames = fs, !.partial = FALSE,
                           !.status = "completed", !.pause = FALSE] \in Job
<1>0. <<>> \in Seq(Nat) /\ j.attempts + 1 \in Nat
  BY DEF Job
<1>1. \A light \in BOOLEAN : Row(j, light) \in Job
  <2>1. \A k \in Job : Lightweight(k) \in Job
    BY <1>0 DEF Lightweight, Job
  <2>2. \A k \in Job : PostgresRow(k) \in Job
    BY DEF PostgresRow, Job
  <2> QED  BY <2>1, <2>2 DEF Row
<1>2. \A r \in Requests : Applied(r, j) \in Job
  BY DEF Applied, Job, Status, Requests, Terminal
<1>3. [j EXCEPT !.status = "running", !.attempts = @ + 1] \in Job
  BY <1>0 DEF Job, Status
<1>4. \A fs \in Seq(Nat), n \in Nat :
              /\ [j EXCEPT !.frames = fs, !.partial = TRUE, !.ckpt = n] \in Job
              /\ [j EXCEPT !.frames = fs, !.partial = FALSE,
                           !.status = "completed", !.pause = FALSE] \in Job
  BY DEF Job, Status
<1>5. /\ [j EXCEPT !.payload = TRUE] \in Job
      /\ [j EXCEPT !.cancel = TRUE, !.status = "cancelled"] \in Job
      /\ [j EXCEPT !.pause = TRUE, !.status = "paused"] \in Job
      /\ [j EXCEPT !.frames = <<>>, !.partial = TRUE] \in Job
      /\ [j EXCEPT !.status = "queued"] \in Job
      /\ [j EXCEPT !.status = "failed"] \in Job
  BY <1>0 DEF Job, Status
<1> QED  BY <1>1, <1>2, <1>3, <1>4, <1>5

LEMMA NewJobType == NewJob \in Job
BY DEF NewJob, Job, Status

LEMMA Homes == /\ "api" \in Procs
               /\ \A w \in Workers : Home(w) \in Procs
               /\ \A w \in Workers : ~InProcess => Home(w) = w /\ w # "api"
BY ModeAssumption, WorkersAssumption DEF Procs, Home

LEMMA SpendType ==
  ASSUME left \in [Kinds -> Nat], NEW k \in Kinds, Spend(k)
  PROVE  left' \in [Kinds -> Nat]
BY DEF Spend

\* The job of a worker that runs is a job.
LEMMA RunningJob ==
  ASSUME TypeInv, NEW w \in Workers, pc[w] \in Running
  PROVE  Cur(w) \in Job
BY Homes DEF TypeInv, TypeOK, StoreType, HasJob, Cur, Maybe

\* Assign gives the worker its job, and leaves the jobs of the others and of
\* the creation under way.
LEMMA AssignJob ==
  ASSUME TypeInv, NEW w \in Workers, NEW j \in Job, NEW entry \in BOOLEAN,
         Assign(w, j, entry), UNCHANGED <<db, rpc, ref>>
  PROVE  /\ StoreType'
         /\ Cur(w)' = j
         /\ \A v \in Workers \ {w} : Cur(v)' = Cur(v)
         /\ rpc["create"] \in {"stage", "configure"} => Deref("create")' # Nil
<1>1. StoreType'
  BY Homes DEF TypeInv, TypeOK, StoreType, Assign, Maybe
<1>2. Cur(w)' = j
  BY Homes, NamesAssumption DEF TypeInv, TypeOK, StoreType, Assign, Cur
<1>3. \A v \in Workers \ {w} : Cur(v)' = Cur(v)
  BY Homes, ModeAssumption DEF TypeInv, TypeOK, StoreType, Assign, Cur
<1>4. rpc["create"] \in {"stage", "configure"} => Deref("create")' # Nil
  BY Homes, NamesAssumption DEF TypeInv, TypeOK, StoreType, HasJob, Assign, Deref
<1> QED  BY <1>1, <1>2, <1>3, <1>4

LEMMA EnqueueType ==
  ASSUME QueueType, Enqueue, UNCHANGED held, rmsg' \in {rmsg, sent + 1}
  PROVE  QueueType'
<1>1. sent \in Nat /\ sent + 1 \in 0..MaxMsgs
  BY BoundsAssumption DEF QueueType, Enqueue
<1>2. 1..sent \subseteq 1..(sent + 1) /\ 0..sent \subseteq 0..(sent + 1)
  BY <1>1
<1>3. live' \subseteq 1..sent' /\ leased' \subseteq live'
  BY <1>1, <1>2 DEF QueueType, Enqueue
<1>4. held' \in [Workers -> 0..sent'] /\ rmsg' \in 0..sent'
  BY <1>1, <1>2 DEF QueueType, Enqueue
<1> QED  BY <1>1, <1>3, <1>4 DEF QueueType, Enqueue

LEMMA HeldType ==
  ASSUME QueueType, NEW w \in Workers, NEW m \in 0..sent
  PROVE  [held EXCEPT ![w] = m] \in [Workers -> 0..sent]
BY DEF QueueType

LEMMA PersistType ==
  ASSUME WorkType, NEW w \in Workers, NEW light \in BOOLEAN, NEW p \in Locations,
         NEW f \in {"except", "release"}, Persist(w, light, p, f)
  PROVE /\ pc' \in [Workers -> Locations]
        /\ out' \in [Workers -> Maybe(Pending)]
BY DEF WorkType, Persist, Go, Pending, Maybe

\* A step of run_video_job that gives the worker a job and stays in the run,
\* awaiting a persist or not, keeps the invariant.
LEMMA AssignStep ==
  ASSUME TypeInv, NEW w \in Workers, NEW j \in Job, NEW entry \in BOOLEAN, NEW p \in Running,
         Assign(w, j, entry), Go(w, p), UNCHANGED <<db, queueVars, sideVars, held, apiVars>>,
         \/ UNCHANGED out /\ out[w] = Nil
         \/ p \in Awaiting /\ \E light \in BOOLEAN, f \in {"except", "release"} : Persist(w, light, p, f),
         loc' \in [Workers -> [frames : Seq(Nat), next : Nat]],
         runs' \in 0..(MaxRetries + 2),
         left' \in [Kinds -> Nat]
  PROVE  TypeInv'
<1> USE DEF TypeInv, TypeOK
<1>1. StoreType' /\ HasJob'
  <2>1. UNCHANGED <<db, rpc, ref>>
    BY DEF apiVars
  <2>2. /\ StoreType'
        /\ Cur(w)' = j
        /\ \A v \in Workers \ {w} : Cur(v)' = Cur(v)
        /\ rpc["create"] \in {"stage", "configure"} => Deref("create")' # Nil
    BY <2>1, AssignJob
  <2>3. pc'[w] = p /\ \A v \in Workers \ {w} : pc'[v] = pc[v] /\ out'[v] = out[v]
    BY DEF WorkType, Go, Persist
  <2>4. out'[w] # Nil => p \in Awaiting
    OBVIOUS
  <2> QED  BY <2>1, <2>2, <2>3, <2>4, NamesAssumption DEF HasJob
<1>2. QueueType' /\ SideType' /\ ApiType'
  BY DEF QueueType, SideType, ApiType, queueVars, sideVars, apiVars
<1>3. WorkType'
  <2>1. pc' \in [Workers -> Locations]
    BY DEF WorkType, Go, Running, Locations
  <2>2. out' \in [Workers -> Maybe(Pending)]
    <3>1. CASE UNCHANGED out
      BY <3>1 DEF WorkType
    <3>2. ASSUME NEW light \in BOOLEAN, NEW f \in {"except", "release"}, Persist(w, light, p, f)
          PROVE  out' \in [Workers -> Maybe(Pending)]
      BY <3>2, PersistType DEF Running, Locations
    <3> QED  BY <3>1, <3>2
  <2> QED  BY <2>1, <2>2 DEF WorkType
<1> QED  BY <1>1, <1>2, <1>3

LEMMA LatestType ==
  ASSUME TypeInv, NEW w \in Workers, pc[w] \in Running, NEW j \in {Cur(w), db},
         NEW entry \in BOOLEAN, Latest(w, j, entry)
  PROVE  j \in Job /\ left' \in [Kinds -> Nat]
<1>1. Cur(w) \in Job
  BY RunningJob
<1>2. "read" \in Kinds
  BY DEF Kinds
<1> QED  BY <1>1, <1>2, SpendType DEF Latest, TypeInv, TypeOK, StoreType, Maybe

-----------------------------------------------------------------------------
(* Every action preserves the invariant.                                   *)

LEMMA CreateType == ASSUME TypeInv, Create PROVE TypeInv'
<1> USE DEF TypeInv, TypeOK
<1>1. StoreType'
  BY JobUpdates, NewJobType, Homes
  DEF Create, ApiGo, At, StoreType, Maybe, storeVars, queueVars, sideVars, workVars, apiVars
<1>2. ApiType'
  BY
  DEF Create, ApiGo, At, ApiType, Requests, HandlerLocations, Maybe, storeVars, queueVars,
      sideVars, workVars, apiVars
<1>3. HasJob'
  BY NewJobType, Homes, NamesAssumption
  DEF Create, ApiGo, At, HasJob, Running, Awaiting, StoreType, ApiType, Requests, Cur,
      Deref, Home, Procs, storeVars, queueVars, sideVars, workVars, apiVars
<1>4. QueueType' /\ SideType' /\ WorkType' /\ left' \in [Kinds -> Nat]
  BY
  DEF Create, QueueType, SideType, WorkType, storeVars, queueVars, sideVars, workVars,
      apiVars
<1> QED  BY <1>1, <1>2, <1>3, <1>4

LEMMA StageInputType == ASSUME TypeInv, StageInput PROVE TypeInv'
<1> USE DEF TypeInv, TypeOK
<1>1. SideType'
  BY DEF StageInput, ApiGo, At, SideType, storeVars, queueVars, sideVars, workVars, apiVars
<1>2. ApiType'
  BY
  DEF StageInput, ApiGo, At, ApiType, Requests, HandlerLocations, Maybe, storeVars,
      queueVars, sideVars, workVars, apiVars
<1>3. left' \in [Kinds -> Nat]
  BY SpendType
  DEF StageInput, ApiGo, At, Kinds, storeVars, queueVars, sideVars, workVars, apiVars
<1>4. HasJob'
  BY
  DEF StageInput, ApiGo, At, HasJob, Running, Awaiting, ApiType, Requests, Cur, Deref,
      storeVars, queueVars, sideVars, workVars, apiVars
<1>5. StoreType' /\ QueueType' /\ WorkType'
  BY
  DEF StageInput, StoreType, QueueType, WorkType, storeVars, queueVars, sideVars, workVars,
      apiVars
<1> QED  BY <1>1, <1>2, <1>3, <1>4, <1>5

LEMMA ConfigureTaskType == ASSUME TypeInv, ConfigureTask PROVE TypeInv'
<1> USE DEF TypeInv, TypeOK
<1>1. Deref("create") \in Job /\ [Deref("create") EXCEPT !.payload = TRUE] \in Job
  BY JobUpdates, Homes
  DEF HasJob, Deref, StoreType, ApiType, Requests, Maybe, ConfigureTask, ApiGo, At,
      ApiPersist
<1>2. StoreType'
  BY <1>1, JobUpdates, Homes, NamesAssumption
  DEF ConfigureTask, ApiGo, At, ApiPersist, StoreType, Maybe, storeVars, queueVars,
      sideVars, workVars, apiVars
<1>3. ApiType'
  BY <1>1, JobUpdates, Homes, NamesAssumption
  DEF ConfigureTask, ApiGo, At, ApiPersist, ApiType, Requests, HandlerLocations, Maybe,
      storeVars, queueVars, sideVars, workVars, apiVars
<1>4. HasJob'
  BY <1>1, JobUpdates, Homes, NamesAssumption
  DEF ConfigureTask, ApiGo, At, ApiPersist, HasJob, Running, Awaiting, StoreType, ApiType,
      Requests, Cur, Deref, Home, Procs, storeVars, queueVars, sideVars, workVars, apiVars
<1>5. QueueType' /\ SideType' /\ WorkType' /\ left' \in [Kinds -> Nat]
  BY
  DEF ConfigureTask, QueueType, SideType, WorkType, storeVars, queueVars, sideVars,
      workVars, apiVars
<1> QED  BY <1>2, <1>3, <1>4, <1>5

LEMMA AuditCreateType == ASSUME TypeInv, AuditCreate PROVE TypeInv'
<1> USE DEF TypeInv, TypeOK
<1>1. ApiType'
  BY
  DEF AuditCreate, ApiGo, At, ApiType, Requests, HandlerLocations, Maybe, storeVars,
      queueVars, sideVars, workVars, apiVars
<1>2. left' \in [Kinds -> Nat]
  BY SpendType
  DEF AuditCreate, ApiGo, At, Kinds, storeVars, queueVars, sideVars, workVars, apiVars
<1>3. HasJob'
  BY
  DEF AuditCreate, ApiGo, At, HasJob, Running, Awaiting, ApiType, Requests, Cur, Deref,
      storeVars, queueVars, sideVars, workVars, apiVars
<1>4. StoreType' /\ QueueType' /\ SideType' /\ WorkType'
  BY
  DEF AuditCreate, StoreType, QueueType, SideType, WorkType, storeVars, queueVars, sideVars,
      workVars, apiVars
<1> QED  BY <1>1, <1>2, <1>3, <1>4

LEMMA EnqueueCreatedType == ASSUME TypeInv, EnqueueCreated PROVE TypeInv'
<1> USE DEF TypeInv, TypeOK
<1>1. QueueType'
  BY EnqueueType DEF EnqueueCreated, QueueType, queueVars, workVars, apiVars
<1>2. ApiType'
  BY
  DEF EnqueueCreated, ApiGo, At, Enqueue, ApiType, Requests, HandlerLocations, Maybe,
      storeVars, queueVars, sideVars, workVars, apiVars
<1>3. left' \in [Kinds -> Nat]
  BY SpendType
  DEF EnqueueCreated, ApiGo, At, Enqueue, Kinds, storeVars, queueVars, sideVars, workVars,
      apiVars
<1>4. HasJob'
  BY
  DEF EnqueueCreated, ApiGo, At, Enqueue, HasJob, Running, Awaiting, ApiType, Requests, Cur,
      Deref, storeVars, queueVars, sideVars, workVars, apiVars
<1>5. StoreType' /\ SideType' /\ WorkType'
  BY
  DEF EnqueueCreated, StoreType, SideType, WorkType, storeVars, queueVars, sideVars,
      workVars, apiVars
<1> QED  BY <1>1, <1>2, <1>3, <1>4, <1>5

LEMMA UnstageInputType == ASSUME TypeInv, UnstageInput PROVE TypeInv'
<1> USE DEF TypeInv, TypeOK
<1>1. SideType'
  BY
  DEF UnstageInput, ApiGo, At, SideType, storeVars, queueVars, sideVars, workVars, apiVars
<1>2. ApiType'
  BY
  DEF UnstageInput, ApiGo, At, ApiType, Requests, HandlerLocations, Maybe, storeVars,
      queueVars, sideVars, workVars, apiVars
<1>3. HasJob'
  BY
  DEF UnstageInput, ApiGo, At, HasJob, Running, Awaiting, ApiType, Requests, Cur, Deref,
      storeVars, queueVars, sideVars, workVars, apiVars
<1>4. StoreType' /\ QueueType' /\ WorkType' /\ left' \in [Kinds -> Nat]
  BY
  DEF UnstageInput, StoreType, QueueType, WorkType, storeVars, queueVars, sideVars,
      workVars, apiVars
<1> QED  BY <1>1, <1>2, <1>3, <1>4

LEMMA RemoveJobType == ASSUME TypeInv, RemoveJob PROVE TypeInv'
<1> USE DEF TypeInv, TypeOK
<1>1. StoreType'
  BY Homes
  DEF RemoveJob, ApiGo, At, StoreType, Maybe, storeVars, queueVars, sideVars, workVars,
      apiVars
<1>2. ApiType'
  BY Homes
  DEF RemoveJob, ApiGo, At, ApiType, Requests, HandlerLocations, Maybe, StoreType,
      storeVars, queueVars, sideVars, workVars, apiVars
<1>3. HasJob'
  <2>1. \A w \in Workers : pc[w] \in Running => Cur(w)' # Nil
    BY Homes, NamesAssumption DEF StoreType, HasJob, RemoveJob, Cur, Home, Maybe
  <2>2. rpc'["create"] = "done"
    BY DEF ApiType, RemoveJob, ApiGo, Requests
  <2> QED  BY <2>1, <2>2 DEF HasJob, RemoveJob, workVars
<1>4. QueueType' /\ SideType' /\ WorkType' /\ left' \in [Kinds -> Nat]
  BY
  DEF RemoveJob, QueueType, SideType, WorkType, storeVars, queueVars, sideVars, workVars,
      apiVars
<1> QED  BY <1>1, <1>2, <1>3, <1>4

LEMMA ApiReadType == ASSUME TypeInv, NEW r \in Requests, ApiRead(r) PROVE TypeInv'
<1> USE DEF TypeInv, TypeOK
<1>1. StoreType' /\ QueueType' /\ SideType' /\ WorkType'
  BY DEF ApiRead, StoreType, QueueType, SideType, WorkType, storeVars, queueVars, sideVars, workVars
<1>2. ApiType'
  BY DEF ApiRead, ApiGo, ApiType, Requests, HandlerLocations, Maybe, StoreType
<1>3. left' \in [Kinds -> Nat]
  BY DEF ApiRead, Kinds, Requests
<1>4. HasJob'
  BY DEF ApiRead, ApiGo, At, HasJob, ApiType, Requests, Cur, Deref, storeVars, workVars
<1> QED  BY <1>1, <1>2, <1>3, <1>4

LEMMA ApiRefreshType == ASSUME TypeInv, NEW r \in Requests, ApiRefresh(r) PROVE TypeInv'
<1> USE DEF TypeInv, TypeOK
<1>0. Deref(r) \in Maybe(Job)
  BY Homes DEF Deref, StoreType, ApiType, Maybe
<1>1. StoreType'
  BY <1>0, Homes DEF ApiRefresh, Reload, StoreType
<1>2. ApiType'
  BY <1>0, Homes
  DEF ApiRefresh, ApiGo, At, Reload, ApiType, Requests, HandlerLocations, Maybe, StoreType
<1>3. left' \in [Kinds -> Nat]
  BY DEF ApiRefresh, Kinds, Requests
<1>4. HasJob'
  <2>1. CASE UNCHANGED <<mem, ref>>
    BY <2>1, Homes DEF ApiRefresh, ApiGo, HasJob, ApiType, Requests, Cur, Deref, workVars
  <2>2. CASE Reload("api", Deref(r)) /\ ~InProcess
    BY <2>2, Homes, NamesAssumption
    DEF ApiRefresh, ApiGo, At, Reload, HasJob, StoreType, ApiType, Requests, Cur, Deref, Maybe, workVars
  <2> QED  BY <2>1, <2>2 DEF ApiRefresh
<1>5. QueueType' /\ SideType' /\ WorkType'
  BY DEF ApiRefresh, QueueType, SideType, WorkType, queueVars, sideVars, workVars
<1> QED  BY <1>1, <1>2, <1>3, <1>4, <1>5

LEMMA RejectType == ASSUME TypeInv, NEW r \in Requests, Reject(r) PROVE TypeInv'
<1> USE DEF TypeInv, TypeOK
<1>1. ApiType'
  BY
  DEF Reject, ApiGo, At, ApiType, Requests, HandlerLocations, Maybe, storeVars, queueVars,
      sideVars, workVars, apiVars
<1>2. HasJob'
  BY
  DEF Reject, ApiGo, At, HasJob, Running, Awaiting, ApiType, Requests, Cur, Deref,
      storeVars, queueVars, sideVars, workVars, apiVars
<1>3. StoreType' /\ QueueType' /\ SideType' /\ WorkType' /\ left' \in [Kinds -> Nat]
  BY
  DEF Reject, StoreType, QueueType, SideType, WorkType, storeVars, queueVars, sideVars,
      workVars, apiVars
<1> QED  BY <1>1, <1>2, <1>3

LEMMA ApplyRequestType == ASSUME TypeInv, NEW r \in Requests, ApplyRequest(r) PROVE TypeInv'
<1> USE DEF TypeInv, TypeOK
<1>1. mem["api"] \in Job /\ Applied(r, mem["api"]) \in Job
  BY JobUpdates, Homes DEF ApplyRequest, Rejected, StoreType, Maybe
<1>2. StoreType'
  BY <1>1, JobUpdates, Homes, NamesAssumption
  DEF ApplyRequest, ApiGo, At, StoreType, Maybe, storeVars, queueVars, sideVars, workVars,
      apiVars
<1>3. ApiType'
  BY
  DEF ApplyRequest, ApiGo, At, ApiType, Requests, HandlerLocations, Maybe, AfterApply,
      storeVars, queueVars, sideVars, workVars, apiVars
<1>4. HasJob'
  BY <1>1, JobUpdates, Homes, NamesAssumption
  DEF ApplyRequest, ApiGo, At, HasJob, Running, Awaiting, StoreType, ApiType, Requests, Cur,
      Deref, Home, storeVars, queueVars, sideVars, workVars, apiVars
<1>5. QueueType' /\ SideType' /\ WorkType' /\ left' \in [Kinds -> Nat]
  BY
  DEF ApplyRequest, QueueType, SideType, WorkType, storeVars, queueVars, sideVars, workVars,
      apiVars
<1> QED  BY <1>2, <1>3, <1>4, <1>5

LEMMA AuditRequestType == ASSUME TypeInv, NEW r \in Requests, AuditRequest(r) PROVE TypeInv'
<1> USE DEF TypeInv, TypeOK
<1>1. ApiType'
  BY
  DEF AuditRequest, ApiGo, At, ApiType, Requests, HandlerLocations, Maybe, storeVars,
      queueVars, sideVars, workVars, apiVars
<1>2. left' \in [Kinds -> Nat]
  BY SpendType
  DEF AuditRequest, ApiGo, At, Kinds, storeVars, queueVars, sideVars, workVars, apiVars
<1>3. HasJob'
  BY
  DEF AuditRequest, ApiGo, At, HasJob, Running, Awaiting, ApiType, Requests, Cur, Deref,
      storeVars, queueVars, sideVars, workVars, apiVars
<1>4. StoreType' /\ QueueType' /\ SideType' /\ WorkType'
  BY
  DEF AuditRequest, StoreType, QueueType, SideType, WorkType, storeVars, queueVars,
      sideVars, workVars, apiVars
<1> QED  BY <1>1, <1>2, <1>3, <1>4

LEMMA RestoreJobType == ASSUME TypeInv, NEW r \in Requests, RestoreJob(r) PROVE TypeInv'
<1> USE DEF TypeInv, TypeOK
<1>1. prev[r] # Nil => prev[r] \in Job
  BY DEF ApiType, Maybe
<1>2. StoreType'
  BY <1>1, JobUpdates, Homes, NamesAssumption
  DEF RestoreJob, ApiGo, At, ApiPersist, StoreType, Maybe, storeVars, queueVars, sideVars,
      workVars, apiVars
<1>3. ApiType'
  <2>1. rpc' \in [Requests -> HandlerLocations] /\ prev' = prev
    BY DEF RestoreJob, ApiGo, ApiType, HandlerLocations
  <2>2. ref' \in [Requests -> Maybe(Job) \cup {Entry}]
    BY <1>1 DEF RestoreJob, ApiPersist, ApiType, Maybe
  <2> QED  BY <2>1, <2>2 DEF ApiType
<1>4. HasJob'
  BY <1>1, JobUpdates, Homes, NamesAssumption
  DEF RestoreJob, ApiGo, At, ApiPersist, HasJob, Running, Awaiting, StoreType, ApiType,
      Requests, Cur, Deref, Home, storeVars, queueVars, sideVars, workVars, apiVars
<1>5. QueueType' /\ SideType' /\ WorkType' /\ left' \in [Kinds -> Nat]
  BY
  DEF RestoreJob, QueueType, SideType, WorkType, storeVars, queueVars, sideVars, workVars,
      apiVars
<1> QED  BY <1>2, <1>3, <1>4, <1>5

LEMMA MarkCancelledType == ASSUME TypeInv, MarkCancelled PROVE TypeInv'
<1> USE DEF TypeInv, TypeOK
<1>1. QueueType'
  BY
  DEF MarkCancelled, ApiGo, At, QueueType, storeVars, queueVars, sideVars, workVars, apiVars
<1>2. ApiType'
  BY
  DEF MarkCancelled, ApiGo, At, ApiType, Requests, HandlerLocations, Maybe, storeVars,
      queueVars, sideVars, workVars, apiVars
<1>3. HasJob'
  BY
  DEF MarkCancelled, ApiGo, At, HasJob, Running, Awaiting, ApiType, Requests, Cur, Deref,
      storeVars, queueVars, sideVars, workVars, apiVars
<1>4. StoreType' /\ SideType' /\ WorkType' /\ left' \in [Kinds -> Nat]
  BY
  DEF MarkCancelled, StoreType, SideType, WorkType, storeVars, queueVars, sideVars,
      workVars, apiVars
<1> QED  BY <1>1, <1>2, <1>3, <1>4

LEMMA UnmarkCancelledType == ASSUME TypeInv, UnmarkCancelled PROVE TypeInv'
<1> USE DEF TypeInv, TypeOK
<1>1. QueueType'
  BY
  DEF UnmarkCancelled, ApiGo, At, QueueType, storeVars, queueVars, sideVars, workVars,
      apiVars
<1>2. ApiType'
  BY
  DEF UnmarkCancelled, ApiGo, At, ApiType, Requests, HandlerLocations, Maybe, storeVars,
      queueVars, sideVars, workVars, apiVars
<1>3. HasJob'
  BY
  DEF UnmarkCancelled, ApiGo, At, HasJob, Running, Awaiting, ApiType, Requests, Cur, Deref,
      storeVars, queueVars, sideVars, workVars, apiVars
<1>4. StoreType' /\ SideType' /\ WorkType' /\ left' \in [Kinds -> Nat]
  BY
  DEF UnmarkCancelled, StoreType, SideType, WorkType, storeVars, queueVars, sideVars,
      workVars, apiVars
<1> QED  BY <1>1, <1>2, <1>3, <1>4

LEMMA EnqueueResumedType == ASSUME TypeInv, EnqueueResumed PROVE TypeInv'
<1> USE DEF TypeInv, TypeOK
<1>1. QueueType'
  BY EnqueueType DEF EnqueueResumed, QueueType, queueVars, workVars
<1>2. ApiType'
  BY
  DEF EnqueueResumed, ApiGo, At, Enqueue, ApiType, Requests, HandlerLocations, Maybe,
      storeVars, queueVars, sideVars, workVars, apiVars
<1>3. left' \in [Kinds -> Nat]
  BY SpendType
  DEF EnqueueResumed, ApiGo, At, Enqueue, Kinds, storeVars, queueVars, sideVars, workVars,
      apiVars
<1>4. HasJob'
  BY
  DEF EnqueueResumed, ApiGo, At, Enqueue, HasJob, Running, Awaiting, ApiType, Requests, Cur,
      Deref, storeVars, queueVars, sideVars, workVars, apiVars
<1>5. StoreType' /\ SideType' /\ WorkType'
  BY
  DEF EnqueueResumed, StoreType, SideType, WorkType, storeVars, queueVars, sideVars,
      workVars, apiVars
<1> QED  BY <1>1, <1>2, <1>3, <1>4, <1>5

LEMMA RemoveResumedType == ASSUME TypeInv, RemoveResumed PROVE TypeInv'
<1> USE DEF TypeInv, TypeOK
<1>1. QueueType'
  BY
  DEF RemoveResumed, ApiGo, At, QueueType, storeVars, queueVars, sideVars, workVars, apiVars
<1>2. ApiType'
  BY
  DEF RemoveResumed, ApiGo, At, ApiType, Requests, HandlerLocations, Maybe, storeVars,
      queueVars, sideVars, workVars, apiVars
<1>3. HasJob'
  BY
  DEF RemoveResumed, ApiGo, At, HasJob, Running, Awaiting, ApiType, Requests, Cur, Deref,
      storeVars, queueVars, sideVars, workVars, apiVars
<1>4. StoreType' /\ SideType' /\ WorkType'
  BY
  DEF RemoveResumed, StoreType, SideType, WorkType, storeVars, queueVars, sideVars,
      workVars, apiVars
<1>5. left' \in [Kinds -> Nat]
  BY SpendType DEF RemoveResumed, Kinds
<1> QED  BY <1>1, <1>2, <1>3, <1>4, <1>5

LEMMA SnapshotType == ASSUME TypeInv, NEW w \in Workers, Snapshot(w) PROVE TypeInv'
<1> USE DEF TypeInv, TypeOK
<1>1. WorkType'
  <2> DEFINE j == IF Postgres THEN Cur(w) ELSE mem[Home(w)]
  <2>1. out[w] \in Pending /\ pc[w] \in Running
    BY DEF Snapshot, WorkType, Maybe, HasJob, Running, Awaiting
  <2>2. j \in Maybe(Job)
    BY <2>1, RunningJob, Homes DEF StoreType, Maybe
  <2>3. (IF j = Nil THEN Nil ELSE Row(j, out[w].light)) \in Job \cup {Nil, Entry}
    BY <2>1, <2>2, JobUpdates DEF Maybe, Pending
  <2>4. [out[w] EXCEPT !.row = IF j = Nil THEN Nil ELSE Row(j, out[w].light)] \in Pending
    BY <2>1, <2>3 DEF Pending
  <2>5. out' \in [Workers -> Maybe(Pending)]
    BY <2>4 DEF WorkType, Snapshot, Maybe
  <2> QED  BY <2>5 DEF WorkType, Snapshot
<1>2. HasJob'
  BY NamesAssumption
  DEF Snapshot, HasJob, Running, Awaiting, WorkType, Cur, Deref, storeVars, queueVars,
      sideVars, workVars, apiVars
<1>3. StoreType' /\ QueueType' /\ SideType' /\ ApiType' /\ left' \in [Kinds -> Nat]
  BY
  DEF Snapshot, StoreType, QueueType, SideType, ApiType, storeVars, queueVars, sideVars,
      workVars, apiVars
<1> QED  BY <1>1, <1>2, <1>3

LEMMA WriteOutType == ASSUME TypeInv, NEW w \in Workers, WriteOut(w) PROVE TypeInv'
<1> USE DEF TypeInv, TypeOK
<1>1. StoreType'
  BY
  DEF WriteOut, Go, StoreType, Maybe, WorkType, Pending, storeVars, queueVars, sideVars,
      workVars, apiVars
<1>2. WorkType'
  BY
  DEF WriteOut, Go, WorkType, Locations, Maybe, Pending, storeVars, queueVars, sideVars,
      workVars, apiVars
<1>3. left' \in [Kinds -> Nat]
  BY SpendType DEF WriteOut, Go, Kinds, storeVars, queueVars, sideVars, workVars, apiVars
<1>4. HasJob'
  BY
  DEF WriteOut, Go, HasJob, Running, Awaiting, WorkType, Pending, Maybe, Cur, Deref,
      storeVars, queueVars, sideVars, workVars, apiVars
<1>5. QueueType' /\ SideType' /\ ApiType'
  BY
  DEF WriteOut, QueueType, SideType, ApiType, storeVars, queueVars, sideVars, workVars,
      apiVars
<1> QED  BY <1>1, <1>2, <1>3, <1>4, <1>5

LEMMA ClaimType == ASSUME TypeInv, NEW w \in Workers, NEW m \in live, Claim(w, m) PROVE TypeInv'
<1> USE DEF TypeInv, TypeOK
<1>1. QueueType'
  <2>1. m \in 0..sent /\ sent \in Nat
    BY DEF QueueType
  <2>2. [held EXCEPT ![w] = m] \in [Workers -> 0..sent]
    BY <2>1, HeldType
  <2> QED  BY <2>1, <2>2 DEF QueueType, Claim, queueVars, apiVars
<1>2. WorkType'
  BY
  DEF Claim, Ready, Go, WorkType, Locations, Maybe, storeVars, queueVars, sideVars,
      workVars, apiVars
<1>3. HasJob'
  BY
  DEF Claim, Ready, Go, HasJob, Running, Awaiting, WorkType, Cur, Deref, storeVars,
      queueVars, sideVars, workVars, apiVars
<1>4. StoreType' /\ SideType' /\ ApiType' /\ left' \in [Kinds -> Nat]
  BY
  DEF Claim, StoreType, SideType, ApiType, storeVars, queueVars, sideVars, workVars, apiVars
<1> QED  BY <1>1, <1>2, <1>3, <1>4

LEMMA ReadJobType == ASSUME TypeInv, NEW w \in Workers, ReadJob(w) PROVE TypeInv'
<1> USE DEF TypeInv, TypeOK
<1>1. StoreType' /\ WorkType'
  BY DEF ReadJob, Go, StoreType, WorkType, Locations, Maybe
<1>2. left' \in [Kinds -> Nat]
  BY SpendType DEF ReadJob, Kinds
<1>3. HasJob'
  BY DEF ReadJob, Ready, Go, HasJob, Running, Awaiting, WorkType, StoreType, Cur, Deref, apiVars
<1>4. QueueType' /\ SideType' /\ ApiType'
  BY DEF ReadJob, QueueType, SideType, ApiType, queueVars, sideVars, apiVars
<1> QED  BY <1>1, <1>2, <1>3, <1>4

LEMMA InstallJobType == ASSUME TypeInv, NEW w \in Workers, InstallJob(w) PROVE TypeInv'
<1> USE DEF TypeInv, TypeOK
<1>0. Cur(w) \in Maybe(Job)
  BY Homes DEF Cur, StoreType, Maybe
<1>1. StoreType'
  BY <1>0, Homes DEF InstallJob, Reload, StoreType, Maybe
<1>2. WorkType'
  BY DEF InstallJob, Go, WorkType, Locations, Route
<1>3. ApiType'
  BY Homes DEF InstallJob, Reload, ApiType, Maybe, StoreType
<1>4. HasJob'
  <2>1. rpc["create"] \in {"stage", "configure"} => Deref("create")' # Nil
    BY Homes, NamesAssumption
    DEF StoreType, ApiType, Requests, HasJob, InstallJob, Reload, Deref, Maybe
  <2>2. \A v \in Workers \ {w} : Cur(v)' = Cur(v)
    BY Homes, ModeAssumption DEF StoreType, InstallJob, Reload, Cur
  <2>3. pc'[w] \in Running => Cur(w)' # Nil
    BY <1>0, Homes, NamesAssumption DEF StoreType, WorkType, InstallJob, Reload, Cur, Go, Running
  <2>4. \A v \in Workers \ {w} : pc'[v] = pc[v]
    BY DEF WorkType, InstallJob, Go
  <2>5. out[w] = Nil /\ out' = out /\ rpc' = rpc
    BY DEF InstallJob, Ready
  <2> QED  BY <2>1, <2>2, <2>3, <2>4, <2>5 DEF HasJob
<1>5. QueueType' /\ SideType' /\ left' \in [Kinds -> Nat]
  BY DEF InstallJob, QueueType, SideType, queueVars, sideVars
<1> QED  BY <1>1, <1>2, <1>3, <1>4, <1>5

LEMMA EnterRunType == ASSUME TypeInv, NEW w \in Workers, EnterRun(w) PROVE TypeInv'
<1> DEFINE j == Cur(w)
<1>1. j \in Job /\ out[w] = Nil
  BY RunningJob DEF EnterRun, Ready, Running
<1>2. PICK k \in Job, p \in {"final", "cancel1"} :
        Update(w, k) /\ Persist(w, FALSE, p, "release")
  BY <1>1, JobUpdates DEF EnterRun
<1>3. /\ loc' \in [Workers -> [frames : Seq(Nat), next : Nat]]
      /\ runs' \in 0..(MaxRetries + 2)
      /\ left' \in [Kinds -> Nat]
  <2>1. runs \in 0..(MaxRetries + 2) /\ runs' \in {runs, IF runs > MaxRetries + 1 THEN runs ELSE runs + 1}
    BY DEF TypeInv, TypeOK, WorkType, EnterRun
  <2>2. runs' \in 0..(MaxRetries + 2)
    BY <2>1, BoundsAssumption
  <2> QED  BY <2>2 DEF TypeInv, TypeOK, WorkType, EnterRun
<1>4. Assign(w, k, own[w] = Entry) /\ Go(w, p)
  BY <1>2 DEF Update, Persist
<1> QED  BY <1>2, <1>3, <1>4, AssignStep DEF EnterRun, Running, Awaiting

LEMMA CheckCancelType ==
  ASSUME TypeInv, NEW w \in Workers, NEW p \in Running, NEW next \in Running,
         CheckCancel(w, p, next)
  PROVE  TypeInv'
<1> DEFINE f == IF p = "except" THEN "release" ELSE "except"
<1>1. PICK j \in {Cur(w), db}, entry \in BOOLEAN :
        /\ Latest(w, j, entry)
        /\ IF j.cancel \/ mark
           THEN /\ Assign(w, [j EXCEPT !.cancel = TRUE, !.status = "cancelled"], entry)
                /\ Persist(w, FALSE, "final", f)
           ELSE Assign(w, j, entry) /\ Go(w, next) /\ UNCHANGED out
  BY DEF CheckCancel
<1>2. j \in Job /\ left' \in [Kinds -> Nat]
  BY <1>1, LatestType DEF CheckCancel, Ready
<1>3. [j EXCEPT !.cancel = TRUE, !.status = "cancelled"] \in Job
  BY <1>2, JobUpdates
<1>4. PICK k \in Job, q \in Running :
        /\ Assign(w, k, entry) /\ Go(w, q)
        /\ \/ UNCHANGED out
           \/ q \in Awaiting /\ Persist(w, FALSE, q, f)
  BY <1>1, <1>2, <1>3 DEF Persist, Running, Awaiting
<1>5. /\ loc' \in [Workers -> [frames : Seq(Nat), next : Nat]]
      /\ runs' \in 0..(MaxRetries + 2)
      /\ out[w] = Nil /\ f \in {"except", "release"}
      /\ UNCHANGED <<db, queueVars, sideVars, held, apiVars>>
  BY DEF TypeInv, TypeOK, WorkType, CheckCancel, Ready
<1> QED  BY <1>2, <1>4, <1>5, AssignStep

LEMMA CheckPauseType ==
  ASSUME TypeInv, NEW w \in Workers, NEW p \in Running, NEW next \in Running,
         CheckPause(w, p, next)
  PROVE  TypeInv'
<1>1. PICK j \in {Cur(w), db}, entry \in BOOLEAN :
        /\ Latest(w, j, entry)
        /\ IF j.pause \/ j.status = "paused"
           THEN /\ Assign(w, [j EXCEPT !.pause = TRUE, !.status = "paused"], entry)
                /\ Persist(w, TRUE, "final", "except")
           ELSE Assign(w, j, entry) /\ Go(w, next) /\ UNCHANGED out
  BY DEF CheckPause
<1>2. j \in Job /\ left' \in [Kinds -> Nat]
  BY <1>1, LatestType DEF CheckPause, Ready
<1>3. [j EXCEPT !.pause = TRUE, !.status = "paused"] \in Job
  BY <1>2, JobUpdates
<1>4. PICK k \in Job, q \in Running :
        /\ Assign(w, k, entry) /\ Go(w, q)
        /\ \/ UNCHANGED out
           \/ q \in Awaiting /\ Persist(w, TRUE, q, "except")
  BY <1>1, <1>2, <1>3 DEF Persist, Running, Awaiting
<1>5. /\ loc' \in [Workers -> [frames : Seq(Nat), next : Nat]]
      /\ runs' \in 0..(MaxRetries + 2)
      /\ out[w] = Nil
      /\ UNCHANGED <<db, queueVars, sideVars, held, apiVars>>
  BY DEF TypeInv, TypeOK, WorkType, CheckPause, Ready
<1> QED  BY <1>2, <1>4, <1>5, AssignStep

LEMMA SetUpType == ASSUME TypeInv, NEW w \in Workers, SetUp(w) PROVE TypeInv'
<1> DEFINE j  == Cur(w)
           fs == IF j.partial THEN j.frames ELSE <<>>
           j2 == IF fs = <<>> THEN [j EXCEPT !.frames = <<>>, !.partial = TRUE] ELSE j
<1>1. j \in Job
  BY RunningJob DEF SetUp, Ready, Running
<1>2. fs \in Seq(Nat) /\ j.ckpt \in Nat /\ j2 \in Job
  <2>1. fs \in Seq(Nat) /\ j.ckpt \in Nat
    BY <1>1 DEF Job
  <2>2. [j EXCEPT !.frames = <<>>, !.partial = TRUE] \in Job
    BY <1>1, JobUpdates
  <2> QED  BY <1>1, <2>1, <2>2
<1>3. [frames |-> fs, next |-> j.ckpt] \in [frames : Seq(Nat), next : Nat]
  BY <1>2
<1>4. /\ loc' \in [Workers -> [frames : Seq(Nat), next : Nat]]
      /\ runs' \in 0..(MaxRetries + 2)
      /\ left' \in [Kinds -> Nat]
      /\ UNCHANGED <<db, queueVars, sideVars, held, apiVars>>
  BY <1>3 DEF TypeInv, TypeOK, WorkType, SetUp
<1>5. Assign(w, j2, own[w] = Entry) /\ Persist(w, TRUE, "open", "except") /\ Go(w, "open")
  BY DEF SetUp, Update, Persist
<1> QED  BY <1>2, <1>4, <1>5, AssignStep DEF Running, Awaiting

LEMMA OpenInputType == ASSUME TypeInv, NEW w \in Workers, OpenInput(w) PROVE TypeInv'
<1> USE DEF TypeInv, TypeOK
<1>1. WorkType'
  BY
  DEF OpenInput, Ready, Go, NextBatch, WorkType, Locations, Maybe, storeVars, queueVars,
      sideVars, workVars, apiVars
<1>2. HasJob'
  BY
  DEF OpenInput, Ready, Go, NextBatch, HasJob, Running, Awaiting, WorkType, Cur, Deref,
      storeVars, queueVars, sideVars, workVars, apiVars
<1>3. StoreType' /\ QueueType' /\ SideType' /\ ApiType' /\ left' \in [Kinds -> Nat]
  BY
  DEF OpenInput, StoreType, QueueType, SideType, ApiType, storeVars, queueVars, sideVars,
      workVars, apiVars
<1> QED  BY <1>1, <1>2, <1>3

LEMMA InferBatchType == ASSUME TypeInv, NEW w \in Workers, InferBatch(w) PROVE TypeInv'
<1> DEFINE n  == loc[w].next + 1
           fs == Append(loc[w].frames, n)
           j  == [Cur(w) EXCEPT !.frames = fs, !.partial = TRUE, !.ckpt = n]
<1>1. Cur(w) \in Job /\ out[w] = Nil
  BY RunningJob DEF InferBatch, Ready, Running
<1>2. n \in Nat /\ fs \in Seq(Nat)
  BY DEF TypeInv, TypeOK, WorkType
<1>3. j \in Job /\ [frames |-> fs, next |-> n] \in [frames : Seq(Nat), next : Nat]
  BY <1>1, <1>2, JobUpdates
<1>4. /\ loc' \in [Workers -> [frames : Seq(Nat), next : Nat]]
      /\ runs' \in 0..(MaxRetries + 2)
      /\ left' \in [Kinds -> Nat]
      /\ UNCHANGED <<db, queueVars, sideVars, held, apiVars>>
  BY <1>3 DEF TypeInv, TypeOK, WorkType, InferBatch
<1>5. /\ Assign(w, j, own[w] = Entry) /\ Go(w, NextBatch(n))
      /\ UNCHANGED out \/ Persist(w, InProcess, NextBatch(n), "except")
  BY DEF InferBatch, Update, Persist
<1>6. NextBatch(n) \in Running /\ NextBatch(n) \in Awaiting
  BY DEF NextBatch, Running, Awaiting
<1> QED  BY <1>1, <1>3, <1>4, <1>5, <1>6, AssignStep, ModeAssumption

LEMMA InferFailsType == ASSUME TypeInv, NEW w \in Workers, InferFails(w) PROVE TypeInv'
<1> USE DEF TypeInv, TypeOK
<1>1. WorkType'
  BY
  DEF InferFails, Ready, Go, WorkType, Locations, Maybe, storeVars, queueVars, sideVars,
      workVars, apiVars
<1>2. left' \in [Kinds -> Nat]
  BY SpendType
  DEF InferFails, Ready, Go, Kinds, storeVars, queueVars, sideVars, workVars, apiVars
<1>3. HasJob'
  BY
  DEF InferFails, Ready, Go, HasJob, Running, Awaiting, WorkType, Cur, Deref, storeVars,
      queueVars, sideVars, workVars, apiVars
<1>4. StoreType' /\ QueueType' /\ SideType' /\ ApiType'
  BY
  DEF InferFails, StoreType, QueueType, SideType, ApiType, storeVars, queueVars, sideVars,
      workVars, apiVars
<1> QED  BY <1>1, <1>2, <1>3, <1>4

LEMMA CompleteType == ASSUME TypeInv, NEW w \in Workers, Complete(w) PROVE TypeInv'
<1>1. Cur(w) \in Job /\ out[w] = Nil /\ loc[w].frames \in Seq(Nat)
  BY RunningJob DEF Complete, Ready, Running, TypeInv, TypeOK, WorkType
<1>2. CASE loc[w].frames = <<>> \/ ~input
  <2>1. pc' \in [Workers -> Locations]
    BY <1>2 DEF TypeInv, TypeOK, WorkType, Complete, Go, Locations
  <2>2. HasJob'
    BY <1>1, <1>2 DEF TypeInv, TypeOK, WorkType, HasJob, Complete, Ready, Go, Running, Cur, Deref, apiVars
  <2> QED  BY <1>2, <2>1, <2>2 DEF TypeInv, TypeOK, StoreType, QueueType, SideType, WorkType,
                  ApiType, Complete, queueVars, sideVars, apiVars
<1>3. CASE ~(loc[w].frames = <<>> \/ ~input)
  <2> DEFINE j == [Cur(w) EXCEPT !.frames = loc[w].frames, !.partial = FALSE,
                                 !.status = "completed", !.pause = FALSE]
  <2>1. j \in Job
    BY <1>1, JobUpdates
  <2>2. Assign(w, j, own[w] = Entry) /\ Go(w, "archive")
    BY <1>3 DEF Complete, Update
  <2>3. /\ loc' \in [Workers -> [frames : Seq(Nat), next : Nat]]
        /\ runs' \in 0..(MaxRetries + 2)
        /\ left' \in [Kinds -> Nat]
        /\ UNCHANGED <<db, queueVars, sideVars, held, out, apiVars>>
    BY DEF TypeInv, TypeOK, WorkType, Complete
  <2> QED  BY <1>1, <2>1, <2>2, <2>3, AssignStep DEF Running
<1> QED  BY <1>2, <1>3

LEMMA ArchiveType == ASSUME TypeInv, NEW w \in Workers, Archive(w) PROVE TypeInv'
<1> USE DEF TypeInv, TypeOK
<1>1. SideType'
  BY
  DEF Archive, Ready, Go, Persist, SideType, storeVars, queueVars, sideVars, workVars,
      apiVars
<1>2. WorkType'
  <2>1. pc' \in [Workers -> Locations] /\ out' \in [Workers -> Maybe(Pending)]
    <3>1. CASE Persist(w, FALSE, "final", "except")
      BY <3>1, PersistType DEF Locations
    <3>2. CASE Go(w, "except") /\ UNCHANGED out
      BY <3>2 DEF WorkType, Go, Locations
    <3> QED  BY <3>1, <3>2 DEF Archive
  <2> QED  BY <2>1 DEF WorkType, Archive
<1>3. left' \in [Kinds -> Nat]
  BY SpendType
  DEF Archive, Ready, Go, Persist, Kinds, storeVars, queueVars, sideVars, workVars, apiVars
<1>4. HasJob'
  BY
  DEF Archive, Ready, Go, Persist, HasJob, Running, Awaiting, WorkType, Cur, Deref,
      storeVars, queueVars, sideVars, workVars, apiVars
<1>5. StoreType' /\ QueueType' /\ ApiType'
  BY
  DEF Archive, StoreType, QueueType, ApiType, storeVars, queueVars, sideVars, workVars,
      apiVars
<1> QED  BY <1>1, <1>2, <1>3, <1>4, <1>5

LEMMA RetryType == ASSUME TypeInv, NEW w \in Workers, Retry(w) PROVE TypeInv'
<1>1. Cur(w) \in Job
  BY RunningJob DEF Retry, Ready, Running
<1>2. PICK j \in Job, p \in {"entry", "final"} :
        Update(w, j) /\ Persist(w, FALSE, p, "release")
  BY <1>1, JobUpdates DEF Retry
<1>3. /\ loc' \in [Workers -> [frames : Seq(Nat), next : Nat]]
      /\ runs' \in 0..(MaxRetries + 2)
      /\ left' \in [Kinds -> Nat]
      /\ UNCHANGED <<db, queueVars, sideVars, held, apiVars>>
  BY DEF TypeInv, TypeOK, WorkType, Retry
<1>4. Assign(w, j, own[w] = Entry) /\ Go(w, p)
  BY <1>2 DEF Update, Persist
<1> QED  BY <1>2, <1>3, <1>4, AssignStep DEF Running, Awaiting

LEMMA FinishType == ASSUME TypeInv, NEW w \in Workers, Finish(w) PROVE TypeInv'
<1> USE DEF TypeInv, TypeOK
<1>1. WorkType'
  BY
  DEF Finish, Ready, Go, WorkType, Locations, Maybe, storeVars, queueVars, sideVars,
      workVars, apiVars
<1>2. HasJob'
  BY
  DEF Finish, Ready, Go, HasJob, Running, Awaiting, WorkType, Cur, Deref, storeVars,
      queueVars, sideVars, workVars, apiVars
<1>3. StoreType' /\ QueueType' /\ SideType' /\ ApiType' /\ left' \in [Kinds -> Nat]
  BY
  DEF Finish, StoreType, QueueType, SideType, ApiType, storeVars, queueVars, sideVars,
      workVars, apiVars
<1> QED  BY <1>1, <1>2, <1>3

LEMMA DeliverType == ASSUME TypeInv, NEW w \in Workers, Deliver(w) PROVE TypeInv'
<1> USE DEF TypeInv, TypeOK
<1>1. SideType'
  <2>1. Cur(w).status \in Status
    BY RunningJob DEF Deliver, Ready, Running, Job
  <2> QED  BY <2>1 DEF SideType, Deliver
<1>2. WorkType'
  BY
  DEF Deliver, Ready, Go, WorkType, Locations, Maybe, storeVars, queueVars, sideVars,
      workVars, apiVars
<1>3. HasJob'
  BY
  DEF Deliver, Ready, Go, HasJob, Running, Awaiting, WorkType, Cur, Deref, storeVars,
      queueVars, sideVars, workVars, apiVars
<1>4. StoreType' /\ QueueType' /\ ApiType' /\ left' \in [Kinds -> Nat]
  BY
  DEF Deliver, StoreType, QueueType, ApiType, storeVars, queueVars, sideVars, workVars,
      apiVars
<1> QED  BY <1>1, <1>2, <1>3, <1>4

LEMMA DeleteInputType == ASSUME TypeInv, NEW w \in Workers, DeleteInput(w) PROVE TypeInv'
<1> USE DEF TypeInv, TypeOK
<1>1. SideType'
  BY DEF DeleteInput, Ready, Go, SideType, storeVars, queueVars, sideVars, workVars, apiVars
<1>2. WorkType'
  BY
  DEF DeleteInput, Ready, Go, WorkType, Locations, Maybe, storeVars, queueVars, sideVars,
      workVars, apiVars
<1>3. HasJob'
  BY
  DEF DeleteInput, Ready, Go, HasJob, Running, Awaiting, WorkType, Cur, Deref, storeVars,
      queueVars, sideVars, workVars, apiVars
<1>4. StoreType' /\ QueueType' /\ ApiType' /\ left' \in [Kinds -> Nat]
  BY
  DEF DeleteInput, StoreType, QueueType, ApiType, storeVars, queueVars, sideVars, workVars,
      apiVars
<1> QED  BY <1>1, <1>2, <1>3, <1>4

LEMMA ClearCancelledType == ASSUME TypeInv, NEW w \in Workers, ClearCancelled(w) PROVE TypeInv'
<1> USE DEF TypeInv, TypeOK
<1>1. QueueType'
  BY
  DEF ClearCancelled, Ready, Go, QueueType, storeVars, queueVars, sideVars, workVars,
      apiVars
<1>2. WorkType'
  BY
  DEF ClearCancelled, Ready, Go, WorkType, Locations, Maybe, storeVars, queueVars, sideVars,
      workVars, apiVars
<1>3. HasJob'
  BY
  DEF ClearCancelled, Ready, Go, HasJob, Running, Awaiting, WorkType, Cur, Deref, storeVars,
      queueVars, sideVars, workVars, apiVars
<1>4. StoreType' /\ SideType' /\ ApiType' /\ left' \in [Kinds -> Nat]
  BY
  DEF ClearCancelled, StoreType, SideType, ApiType, storeVars, queueVars, sideVars,
      workVars, apiVars
<1> QED  BY <1>1, <1>2, <1>3, <1>4

LEMMA AckType == ASSUME TypeInv, NEW w \in Workers, Ack(w) PROVE TypeInv'
<1> USE DEF TypeInv, TypeOK
<1>1. QueueType'
  <2>0. 0 \in 0..sent
    BY BoundsAssumption DEF QueueType
  <2>1. [held EXCEPT ![w] = 0] \in [Workers -> 0..sent]
    BY <2>0, HeldType
  <2> QED  BY <2>1 DEF QueueType, Ack, queueVars, apiVars
<1>2. WorkType'
  BY
  DEF Ack, Ready, Go, WorkType, Locations, Maybe, storeVars, queueVars, sideVars, workVars,
      apiVars
<1>3. HasJob'
  BY
  DEF Ack, Ready, Go, HasJob, Running, Awaiting, WorkType, Cur, Deref, storeVars, queueVars,
      sideVars, workVars, apiVars
<1>4. StoreType' /\ SideType' /\ ApiType' /\ left' \in [Kinds -> Nat]
  BY
  DEF Ack, StoreType, SideType, ApiType, storeVars, queueVars, sideVars, workVars, apiVars
<1> QED  BY <1>1, <1>2, <1>3, <1>4

LEMMA ReleaseType == ASSUME TypeInv, NEW w \in Workers, Release(w) PROVE TypeInv'
<1> USE DEF TypeInv, TypeOK
<1>1. QueueType'
  <2>0. 0 \in 0..sent
    BY BoundsAssumption DEF QueueType
  <2>1. [held EXCEPT ![w] = 0] \in [Workers -> 0..sent]
    BY <2>0, HeldType
  <2>2. leased' \subseteq leased /\ UNCHANGED <<sent, live, mark, rmsg>> /\ held' = [held EXCEPT ![w] = 0]
    BY DEF Release, apiVars
  <2> QED  BY <2>1, <2>2 DEF QueueType
<1>2. WorkType'
  BY
  DEF Release, Ready, Go, WorkType, Locations, Maybe, storeVars, queueVars, sideVars,
      workVars, apiVars
<1>3. HasJob'
  BY
  DEF Release, Ready, Go, HasJob, Running, Awaiting, WorkType, Cur, Deref, storeVars,
      queueVars, sideVars, workVars, apiVars
<1>4. StoreType' /\ SideType' /\ ApiType' /\ left' \in [Kinds -> Nat]
  BY
  DEF Release, StoreType, SideType, ApiType, storeVars, queueVars, sideVars, workVars,
      apiVars
<1> QED  BY <1>1, <1>2, <1>3, <1>4

LEMMA LeaseExpiresType == ASSUME TypeInv, NEW m \in leased, LeaseExpires(m) PROVE TypeInv'
<1> USE DEF TypeInv, TypeOK
<1>1. QueueType'
  BY DEF LeaseExpires, QueueType, storeVars, queueVars, sideVars, workVars, apiVars
<1>2. left' \in [Kinds -> Nat]
  BY SpendType DEF LeaseExpires, Kinds, storeVars, queueVars, sideVars, workVars, apiVars
<1>3. StoreType' /\ SideType' /\ WorkType' /\ ApiType' /\ HasJob'
  BY
  DEF LeaseExpires, StoreType, SideType, WorkType, ApiType, HasJob, storeVars, queueVars,
      sideVars, workVars, apiVars, Cur, Deref
<1> QED  BY <1>1, <1>2, <1>3

LEMMA ReappearType == ASSUME TypeInv, NEW m \in 1..sent, Reappear(m) PROVE TypeInv'
<1> USE DEF TypeInv, TypeOK
<1>1. QueueType'
  BY DEF Reappear, QueueType, storeVars, queueVars, sideVars, workVars, apiVars
<1>2. left' \in [Kinds -> Nat]
  BY SpendType DEF Reappear, Kinds
<1>3. StoreType' /\ SideType' /\ WorkType' /\ ApiType' /\ HasJob'
  BY
  DEF Reappear, StoreType, SideType, WorkType, ApiType, HasJob, storeVars, queueVars,
      sideVars, workVars, apiVars, Cur, Deref
<1> QED  BY <1>1, <1>2, <1>3

LEMMA CrashType == ASSUME TypeInv, NEW p \in Procs, Crash(p) PROVE TypeInv'
<1> USE DEF TypeInv, TypeOK
<1>1. StoreType'
  BY DEF Crash, Dead, StoreType, Maybe, storeVars, queueVars, sideVars, workVars, apiVars
<1>2. QueueType'
  BY DEF Crash, Dead, QueueType, storeVars, queueVars, sideVars, workVars, apiVars
<1>3. WorkType'
  BY
  DEF Crash, Dead, WorkType, Locations, Maybe, storeVars, queueVars, sideVars, workVars,
      apiVars
<1>4. ApiType'
  BY
  DEF Crash, Dead, ApiType, Requests, HandlerLocations, Maybe, storeVars, queueVars,
      sideVars, workVars, apiVars
<1>5. left' \in [Kinds -> Nat]
  BY SpendType DEF Crash, Dead, Kinds, storeVars, queueVars, sideVars, workVars, apiVars
<1>6. HasJob'
  BY Homes, NamesAssumption
  DEF Crash, Dead, HasJob, Running, Awaiting, WorkType, StoreType, ApiType, Requests, Cur,
      Deref, Home, Procs, storeVars, queueVars, sideVars, workVars, apiVars
<1>7. SideType'
  BY DEF Crash, SideType, storeVars, queueVars, sideVars, workVars, apiVars
<1> QED  BY <1>1, <1>2, <1>3, <1>4, <1>5, <1>6, <1>7

-----------------------------------------------------------------------------
LEMMA TypeInit == Init => TypeInv
<1> SUFFICES ASSUME Init PROVE TypeInv
  OBVIOUS
<1>1. StoreType /\ SideType /\ ApiType
  BY DEF Init, StoreType, SideType, ApiType, Maybe, Requests, HandlerLocations
<1>2. QueueType
  <2>1. 0 \in 0..MaxMsgs /\ 0 \in 0..0
    BY BoundsAssumption
  <2>2. held \in [Workers -> 0..0]
    BY <2>1 DEF Init
  <2> QED  BY <2>1, <2>2 DEF Init, QueueType
<1>3. WorkType
  <2>1. <<>> \in Seq(Nat) /\ 0 \in 0..(MaxRetries + 2)
    BY BoundsAssumption
  <2> QED  BY <2>1 DEF Init, WorkType, Maybe, Locations
<1>4. HasJob /\ left \in [Kinds -> Nat]
  BY BoundsAssumption DEF Init, HasJob, Running, Requests
<1> QED  BY <1>1, <1>2, <1>3, <1>4 DEF TypeInv, TypeOK

LEMMA TypeNext == TypeInv /\ [Next]_vars => TypeInv'
<1> SUFFICES ASSUME TypeInv, [Next]_vars PROVE TypeInv'
  OBVIOUS
<1>1. CASE CreateStep
  BY <1>1, CreateType, StageInputType, ConfigureTaskType, AuditCreateType, EnqueueCreatedType,
     UnstageInputType, RemoveJobType
  DEF CreateStep
<1>2. ASSUME NEW r \in Requests, RequestStep(r) PROVE TypeInv'
  BY <1>2, ApiReadType, ApiRefreshType, RejectType, ApplyRequestType, AuditRequestType, RestoreJobType
  DEF RequestStep
<1>3. CASE HandlerStep
  BY <1>3, MarkCancelledType, UnmarkCancelledType, EnqueueResumedType, RemoveResumedType
  DEF HandlerStep
<1>4. ASSUME NEW w \in Workers, WorkerStep(w) PROVE TypeInv'
  <2>1. CASE RunStep(w)
    <3>1. {"cancel1", "pause1", "setup", "cancel2", "pause2", "infer", "except", "retry"}
            \subseteq Running
      BY DEF Running
    <3> QED  BY <2>1, <3>1, EnterRunType, CheckCancelType, CheckPauseType, SetUpType, OpenInputType,
                InferBatchType, InferFailsType, CompleteType, ArchiveType, RetryType DEF RunStep
  <2>2. CASE \E m \in live : Claim(w, m)
    BY <2>2, ClaimType
  <2> QED  BY <1>4, <2>1, <2>2, SnapshotType, WriteOutType, ReadJobType, InstallJobType, FinishType, DeliverType,
              DeleteInputType, ClearCancelledType, AckType, ReleaseType DEF WorkerStep
<1>5. ASSUME NEW m \in leased, LeaseExpires(m) PROVE TypeInv'
  BY <1>5, LeaseExpiresType
<1>6. ASSUME NEW m \in 1..sent, Reappear(m) PROVE TypeInv'
  BY <1>6, ReappearType
<1>7. ASSUME NEW p \in Procs, Crash(p) PROVE TypeInv'
  BY <1>7, CrashType
<1>8. CASE UNCHANGED vars
  <2>1. HasJob'
    BY <1>8 DEF TypeInv, HasJob, Cur, Deref, vars, storeVars, workVars, apiVars
  <2> QED  BY <1>8, <2>1 DEF TypeInv, TypeOK, StoreType, QueueType, SideType, WorkType, ApiType,
              vars, storeVars, queueVars, sideVars, workVars, apiVars
<1> QED  BY <1>1, <1>2, <1>3, <1>4, <1>5, <1>6, <1>7, <1>8 DEF Next

\* In every reachable state the store, the queue, the workers and the handlers
\* are in states their code expects: in particular a worker that runs a job
\* has one, although the API process, a failed read or a crash may have taken
\* it out of VIDEO_JOBS (refresh_video_job, remove_video_job).
THEOREM TypeCorrect == Spec => []TypeOK
<1>1. Spec => []TypeInv
  BY TypeInit, TypeNext, PTL DEF Spec
<1>2. TypeInv => TypeOK
  BY DEF TypeInv
<1> QED  BY <1>1, <1>2, PTL
-----------------------------------------------------------------------------
(***************************************************************************)
(* With external workers a job that is reported as completed, in its row   *)
(* or in a callback, has its analysis archive, whatever processes crash,   *)
(* leases lapse, reads, writes, archives and audits fail, and whoever      *)
(* cancels, pauses and resumes the job meanwhile.                          *)
(***************************************************************************)
\* Where a worker may hold a completed job that has no archive yet.
Unarchived == {"archive", "except", "retry"}

Sound(j) == Is(j, "completed") => archived

\* Every copy of the job that may reach the store is sound.
ArchiveInv ==
  /\ Sound(db) /\ Sound(mem["api"])
  /\ \A r \in Requests : Sound(prev[r]) /\ (ref[r] # Entry => Sound(ref[r]))
  /\ \A w \in Workers : out[w] # Nil /\ out[w].row # Entry => Sound(out[w].row)
  /\ \A w \in Workers : pc[w] \notin Unarchived => Sound(Cur(w)) /\ Sound(mem[w])
  /\ "completed" \in told => archived

-----------------------------------------------------------------------------
LEMMA ExternalHome ==
  ASSUME ~InProcess
  PROVE  /\ Procs = {"api"} \cup Workers
         /\ \A w \in Workers : Home(w) = w /\ w # "api"
BY WorkersAssumption DEF Procs, Home

\* What is written into a job or its row does not complete it.
LEMMA StatusKept ==
  ASSUME NEW j \in Job
  PROVE  /\ \A light \in BOOLEAN : Row(j, light).status = j.status
         /\ \A r \in Requests : Applied(r, j).status = "completed" => j.status = "completed"
<1>1. \A light \in BOOLEAN : Row(j, light).status = j.status
  BY DEF Row, Lightweight, PostgresRow, Job
<1>2. \A r \in Requests : Applied(r, j).status = "completed" => j.status = "completed"
  BY DEF Applied, Job, Requests
<1> QED  BY <1>1, <1>2

LEMMA NotCompleted ==
  ASSUME NEW j \in Job
  PROVE  /\ [j EXCEPT !.cancel = TRUE, !.status = "cancelled"].status # "completed"
         /\ [j EXCEPT !.pause = TRUE, !.status = "paused"].status # "completed"
         /\ [j EXCEPT !.status = "running", !.attempts = @ + 1].status # "completed"
         /\ [j EXCEPT !.status = "queued"].status # "completed"
         /\ [j EXCEPT !.status = "failed"].status # "completed"
BY DEF Job

\* A step that moves workers without leaving Unarchived keeps the invariant.
LEMMA ArchiveFrame ==
  ASSUME ArchiveInv, UNCHANGED <<storeVars, out, ref, prev, archived, told>>,
         \A w \in Workers : pc'[w] \notin Unarchived => pc[w] \notin Unarchived
  PROVE  ArchiveInv'
BY DEF ArchiveInv, Sound, Cur, storeVars

\* A step of run_video_job that gives the worker a sound job, or one it may
\* hold unarchived, keeps the invariant.
LEMMA AssignArchive ==
  ASSUME ~InProcess, TypeInv, ArchiveInv, NEW w \in Workers, NEW j \in Job,
         NEW entry \in BOOLEAN, NEW p, Assign(w, j, entry), Go(w, p),
         p \notin Unarchived => Sound(j),
         UNCHANGED <<db, archived, told, ref, prev>>,
         \/ UNCHANGED out
         \/ \E light \in BOOLEAN, f \in {"except", "release"} : Persist(w, light, p, f)
  PROVE  ArchiveInv'
<1> USE ExternalHome DEF TypeInv, TypeOK
<1>1. Cur(w)' = j /\ \A v \in Workers \ {w} : Cur(v)' = Cur(v)
  BY NamesAssumption DEF StoreType, Assign, Cur
<1>2. mem'["api"] = mem["api"] /\ \A v \in Workers \ {w} : mem'[v] = mem[v]
  BY DEF StoreType, Assign
<1>3. mem'[w] \in {j, Nil}
  BY DEF StoreType, Assign
<1>4. pc'[w] = p /\ \A v \in Workers \ {w} : pc'[v] = pc[v] /\ out'[v] = out[v]
  BY DEF WorkType, Go, Persist
<1>5. out'[w] = out[w] \/ out'[w].row = Entry
  BY DEF WorkType, Persist
<1>6. \A v \in Workers : pc'[v] \notin Unarchived => Sound(Cur(v))' /\ Sound(mem[v])'
  BY <1>1, <1>2, <1>3, <1>4 DEF ArchiveInv, Sound, Is
<1> QED  BY <1>2, <1>4, <1>5, <1>6 DEF ArchiveInv, Sound
-----------------------------------------------------------------------------
(* The API process: its copies come from the store and from each other.    *)

LEMMA CreateStepArchive ==
  ASSUME ~InProcess, TypeInv, ArchiveInv, CreateStep PROVE ArchiveInv'
<1> USE ExternalHome DEF TypeInv, TypeOK
<1>1. CASE Create
  <2>1. Row(NewJob, FALSE).status = "queued" /\ NewJob.status = "queued"
    BY StatusKept, NewJobType DEF NewJob
  <2>2. mem'["api"] = NewJob /\ \A w \in Workers : mem'[w] = mem[w] /\ Cur(w)' = Cur(w)
    BY <1>1 DEF StoreType, Create, Cur
  <2> QED  BY <1>1, <2>1, <2>2 DEF ArchiveInv, Sound, Is, Create, ApiType, Requests, workVars, sideVars
<1>2. CASE ConfigureTask
  <2> DEFINE j == [Deref("create") EXCEPT !.payload = TRUE]
  <2>1. Deref("create") \in Job /\ Sound(Deref("create"))
    BY <1>2 DEF ConfigureTask, At, HasJob, Deref, StoreType, ApiType, Requests, Maybe, ArchiveInv
  <2>2. j \in Job /\ j.status = Deref("create").status
    <3>1. j \in Job
      BY <2>1, JobUpdates
    <3>2. j.status = Deref("create").status
      BY <2>1 DEF Job
    <3> QED  BY <3>1, <3>2
  <2>3. Sound(j) /\ Sound(Row(j, FALSE)) /\ (mem["api"] # Nil => Sound(Row(mem["api"], FALSE)))
    BY <2>1, <2>2, StatusKept, NamesAssumption DEF Sound, Is, ArchiveInv, StoreType, Maybe
  <2>4. \A w \in Workers : mem'[w] = mem[w] /\ Cur(w)' = Cur(w)
    BY <1>2 DEF StoreType, ConfigureTask, ApiPersist, Cur
  <2>5. mem'["api"] \in {mem["api"], j}
    BY <1>2 DEF StoreType, ConfigureTask, ApiPersist
  <2>6. Sound(db)' /\ Sound(mem["api"])'
    BY <1>2, <2>3, <2>5 DEF ConfigureTask, ApiPersist, ArchiveInv, Sound, Is, sideVars
  <2>7. \A r \in Requests : ref'[r] # Entry => ref'[r] \in {ref[r], j} /\ (ref'[r] = ref[r] => ref[r] # Entry)
    BY <1>2 DEF ConfigureTask, ApiPersist, ApiType, Requests
  <2> QED  BY <1>2, <2>3, <2>4, <2>6, <2>7
           DEF ConfigureTask, ArchiveInv, Sound, workVars, sideVars
<1>3. CASE RemoveJob
  <2>1. mem'["api"] = Nil /\ \A w \in Workers : mem'[w] = mem[w] /\ Cur(w)' = Cur(w)
    BY <1>3 DEF StoreType, RemoveJob, Cur
  <2> QED  BY <1>3, <2>1 DEF RemoveJob, ArchiveInv, Sound, Is, workVars, sideVars
<1>4. CASE StageInput \/ AuditCreate \/ EnqueueCreated \/ UnstageInput
  BY <1>4, ArchiveFrame DEF StageInput, AuditCreate, EnqueueCreated, UnstageInput, workVars, sideVars
<1> QED  BY <1>1, <1>2, <1>3, <1>4 DEF CreateStep

LEMMA RequestStepArchive ==
  ASSUME ~InProcess, TypeInv, ArchiveInv, NEW r \in Requests, RequestStep(r) PROVE ArchiveInv'
<1> USE ExternalHome DEF TypeInv, TypeOK
<1>1. CASE ApiRefresh(r)
  <2>1. mem'["api"] \in {mem["api"], Deref(r)} /\ \A w \in Workers : mem'[w] = mem[w] /\ Cur(w)' = Cur(w)
    BY <1>1 DEF StoreType, ApiRefresh, Reload, Cur
  <2>2. Sound(Deref(r)) /\ Sound(mem["api"])
    BY DEF ArchiveInv, Deref
  <2>3. Sound(mem["api"])'
    BY <1>1, <2>1, <2>2 DEF ApiRefresh, Sound, sideVars
  <2>4. \A q \in Requests : ref'[q] # Entry => Sound(ref'[q])
    BY <1>1 DEF ApiRefresh, Reload, ArchiveInv
  <2>5. \A q \in Requests : prev'[q] \in {prev[q], mem'["api"]}
    BY <1>1 DEF ApiRefresh, ApiType
  <2> QED  BY <1>1, <2>1, <2>3, <2>4, <2>5 DEF ApiRefresh, ArchiveInv, Sound, workVars, sideVars
<1>5. CASE ApiRead(r)
  <2>1. \A q \in Requests : ref'[q] \in {ref[q], db, Nil} /\ (q # r => ref'[q] = ref[q])
    BY <1>5 DEF ApiRead, ApiType
  <2>2. \A q \in Requests : ref'[q] # Entry => Sound(ref'[q])
    BY <2>1 DEF ArchiveInv, Sound, Is
  <2> QED  BY <1>5, <2>2 DEF ApiRead, ArchiveInv, Sound, Cur, storeVars, workVars, sideVars
<1>2. CASE ApplyRequest(r)
  <2> DEFINE j == Applied(r, mem["api"])
  <2>1. mem["api"] \in Job
    BY <1>2 DEF ApplyRequest, Rejected, StoreType, Maybe
  <2>2. j \in Job /\ Sound(j)
    <3>1. j \in Job /\ (j.status = "completed" => mem["api"].status = "completed")
      BY <2>1, JobUpdates, StatusKept
    <3> QED  BY <2>1, <3>1, NamesAssumption DEF Sound, Is, ArchiveInv
  <2>3. \A light \in BOOLEAN : Sound(Row(j, light))
    BY <2>2, StatusKept, NamesAssumption DEF Sound, Is
  <2>4. mem'["api"] = j /\ \A w \in Workers : mem'[w] = mem[w] /\ Cur(w)' = Cur(w)
    BY <1>2 DEF StoreType, ApplyRequest, Cur
  <2>5. db' \in {db, Row(j, r # "cancel")}
    BY <1>2 DEF ApplyRequest
  <2>6. Sound(db)'
    BY <1>2, <2>3, <2>5 DEF ApplyRequest, ArchiveInv, Sound, Is, sideVars
  <2>7. \A q \in Requests : ref'[q] # Entry => ref[q] # Entry /\ ref'[q] = ref[q]
    BY <1>2 DEF ApplyRequest, ApiType
  <2> QED  BY <1>2, <2>2, <2>4, <2>6, <2>7 DEF ApplyRequest, ArchiveInv, Sound, workVars, sideVars
<1>3. CASE RestoreJob(r)
  <2>1. CASE Deref(r) = Nil \/ prev[r] = Nil
    BY <1>3, <2>1, ArchiveFrame DEF RestoreJob, storeVars, workVars, sideVars
  <2>2. CASE ~(Deref(r) = Nil \/ prev[r] = Nil)
    <3> DEFINE j == prev[r]
    <3>1. j \in Job /\ Sound(j)
      BY <2>2 DEF ApiType, Maybe, ArchiveInv
    <3>2. Sound(Row(j, FALSE)) /\ (mem["api"] # Nil => Sound(Row(mem["api"], FALSE)))
      BY <3>1, StatusKept, NamesAssumption DEF Sound, Is, ArchiveInv, StoreType, Maybe
    <3>3. ApiPersist(r, j, FALSE)
      BY <1>3, <2>2 DEF RestoreJob
    <3>4. \A w \in Workers : mem'[w] = mem[w] /\ Cur(w)' = Cur(w)
      BY <1>3, <3>3 DEF StoreType, RestoreJob, ApiPersist, Cur
    <3>5. mem'["api"] \in {mem["api"], j}
      BY <3>3 DEF StoreType, ApiPersist
    <3>6. Sound(db)' /\ Sound(mem["api"])'
      BY <1>3, <3>1, <3>2, <3>3, <3>5 DEF RestoreJob, ApiPersist, ArchiveInv, Sound, Is, sideVars
    <3>7. \A q \in Requests : ref'[q] # Entry => ref'[q] \in {ref[q], j} /\ (ref'[q] = ref[q] => ref[q] # Entry)
      BY <3>3 DEF ApiPersist, ApiType
    <3> QED  BY <1>3, <3>1, <3>4, <3>6, <3>7 DEF RestoreJob, ArchiveInv, Sound, workVars, sideVars
  <2> QED  BY <2>1, <2>2
<1>4. CASE Reject(r) \/ AuditRequest(r)
  BY <1>4, ArchiveFrame DEF Reject, AuditRequest, workVars, sideVars
<1> QED  BY <1>1, <1>2, <1>3, <1>4, <1>5 DEF RequestStep

LEMMA HandlerStepArchive ==
  ASSUME TypeInv, ArchiveInv, HandlerStep PROVE ArchiveInv'
<1>1. CASE MarkCancelled
  <2>1. \A q \in Requests : ref'[q] # Entry => ref'[q] = Nil \/ (ref[q] # Entry /\ ref'[q] = ref[q])
    BY <1>1 DEF MarkCancelled, TypeInv, TypeOK, ApiType
  <2> QED  BY <1>1, <2>1 DEF MarkCancelled, ArchiveInv, Sound, Is, Cur, storeVars, workVars, sideVars
<1>2. CASE UnmarkCancelled \/ EnqueueResumed \/ RemoveResumed
  BY <1>2, ArchiveFrame DEF UnmarkCancelled, EnqueueResumed, RemoveResumed, workVars, sideVars
<1> QED  BY <1>1, <1>2 DEF HandlerStep
-----------------------------------------------------------------------------
(* The workers.                                                            *)

LEMMA PersistArchive ==
  ASSUME ~InProcess, TypeInv, ArchiveInv, NEW w \in Workers, Snapshot(w) \/ WriteOut(w)
  PROVE  ArchiveInv'
<1> USE ExternalHome DEF TypeInv, TypeOK
<1>1. pc[w] \in Running /\ pc[w] \notin Unarchived /\ out[w] \in Pending
  BY DEF Snapshot, WriteOut, HasJob, Awaiting, Running, Unarchived, WorkType, Maybe
<1>2. CASE Snapshot(w)
  <2> DEFINE j == IF Postgres THEN Cur(w) ELSE mem[Home(w)]
             row == IF j = Nil THEN Nil ELSE Row(j, out[w].light)
  <2>1. Sound(j) /\ j \in Maybe(Job)
    BY <1>1, RunningJob DEF ArchiveInv, StoreType, Maybe
  <2>2. Sound(row)
    BY <1>1, <2>1, StatusKept, NamesAssumption DEF Sound, Is, Maybe, Pending
  <2>3. out'[w].row = row /\ \A v \in Workers \ {w} : out'[v] = out[v]
    BY <1>1, <1>2 DEF Snapshot, WorkType, Pending
  <2> QED  BY <1>2, <2>2, <2>3 DEF Snapshot, ArchiveInv, Sound, Cur, storeVars, sideVars, apiVars
<1>3. CASE WriteOut(w)
  <2>1. db' \in {db, out[w].row} /\ out[w] # Nil /\ out[w].row # Entry
    BY <1>3 DEF WriteOut
  <2>2. Sound(db)'
    BY <1>3, <2>1 DEF WriteOut, ArchiveInv, Sound, sideVars
  <2>3. out'[w] = Nil /\ \A v \in Workers \ {w} : out'[v] = out[v]
    BY <1>3 DEF WriteOut, WorkType
  <2>4. \A v \in Workers : pc'[v] \notin Unarchived => pc[v] \notin Unarchived
    BY <1>1, <1>3 DEF WriteOut, Go, WorkType
  <2> QED  BY <1>3, <2>2, <2>3, <2>4 DEF WriteOut, ArchiveInv, Sound, Cur, sideVars, apiVars
<1> QED  BY <1>2, <1>3

LEMMA RefreshArchive ==
  ASSUME ~InProcess, TypeInv, ArchiveInv, NEW w \in Workers, ReadJob(w) \/ InstallJob(w)
  PROVE  ArchiveInv'
<1> USE ExternalHome DEF TypeInv, TypeOK
<1>1. pc[w] \notin Unarchived /\ \A v \in Workers \ {w} : pc'[v] = pc[v]
  BY DEF ReadJob, InstallJob, Ready, Go, WorkType, Unarchived
<1>2. CASE ReadJob(w)
  <2>1. own'[w] \in {db, Nil} /\ \A v \in Workers \ {w} : own'[v] = own[v]
    BY <1>2 DEF ReadJob, StoreType
  <2>2. own'[w] # Entry
    BY <2>1, NamesAssumption DEF StoreType, Maybe
  <2>3. Cur(w)' \in {db, Nil} /\ \A v \in Workers \ {w} : Cur(v)' = Cur(v)
    BY <1>2, <2>1, <2>2 DEF ReadJob, Cur
  <2> QED  BY <1>1, <1>2, <2>3 DEF ReadJob, ArchiveInv, Sound, Is, sideVars, apiVars
<1>3. CASE InstallJob(w)
  <2>1. Sound(Cur(w))
    BY <1>1 DEF ArchiveInv
  <2>2. /\ mem'["api"] = mem["api"] /\ mem'[w] = Cur(w) /\ Cur(w)' \in {Cur(w), Nil}
        /\ \A v \in Workers \ {w} : mem'[v] = mem[v] /\ Cur(v)' = Cur(v)
        /\ ref' = ref
    BY <1>3, NamesAssumption DEF StoreType, InstallJob, Reload, Cur
  <2> QED  BY <1>1, <1>3, <2>1, <2>2 DEF InstallJob, ArchiveInv, Sound, Is, sideVars
<1> QED  BY <1>2, <1>3

LEMMA EnterRunArchive ==
  ASSUME ~InProcess, TypeInv, ArchiveInv, NEW w \in Workers, EnterRun(w)
  PROVE  ArchiveInv'
<1>1. Cur(w) \in Job
  BY RunningJob DEF EnterRun, Ready, Running
<1>2. PICK k \in Job, p \in {"final", "cancel1"} :
        k.status # "completed" /\ Update(w, k) /\ Persist(w, FALSE, p, "release")
  BY <1>1, JobUpdates, NotCompleted DEF EnterRun
<1>3. Assign(w, k, own[w] = Entry) /\ Go(w, p)
  BY <1>2 DEF Update, Persist
<1>4. Sound(k)
  BY <1>2 DEF Sound, Is
<1> QED  BY <1>2, <1>3, <1>4, AssignArchive DEF EnterRun, sideVars, apiVars

LEMMA CheckArchive ==
  ASSUME ~InProcess, TypeInv, ArchiveInv, NEW w \in Workers, NEW p \in Running, NEW next \in Running,
         p \in Unarchived => next \in Unarchived,
         CheckCancel(w, p, next) \/ CheckPause(w, p, next)
  PROVE  ArchiveInv'
<1>1. PICK j \in {Cur(w), db}, entry \in BOOLEAN :
        /\ Latest(w, j, entry)
        /\ \/ Assign(w, j, entry) /\ Go(w, next) /\ UNCHANGED out
           \/ \E k \in {[j EXCEPT !.cancel = TRUE, !.status = "cancelled"],
                        [j EXCEPT !.pause = TRUE, !.status = "paused"]} :
                /\ Assign(w, k, entry)
                /\ \E light \in BOOLEAN, f \in {"except", "release"} : Persist(w, light, "final", f)
  BY DEF CheckCancel, CheckPause
<1>2. pc[w] = p /\ UNCHANGED <<db, archived, told, ref, prev>>
  BY DEF CheckCancel, CheckPause, Ready, sideVars, apiVars
<1>3. j \in Job
  BY <1>1, <1>2, LatestType
<1>4. CASE Assign(w, j, entry) /\ Go(w, next) /\ UNCHANGED out
  <2>1. next \notin Unarchived => Sound(j)
    BY <1>2 DEF ArchiveInv
  <2> QED  BY <1>2, <1>3, <1>4, <2>1, AssignArchive
<1>5. ASSUME NEW k \in {[j EXCEPT !.cancel = TRUE, !.status = "cancelled"],
                        [j EXCEPT !.pause = TRUE, !.status = "paused"]},
             Assign(w, k, entry),
             NEW light \in BOOLEAN, NEW f \in {"except", "release"}, Persist(w, light, "final", f)
      PROVE  ArchiveInv'
  <2>1. k \in Job
    BY <1>3, JobUpdates
  <2>2. Sound(k)
    BY <1>3 DEF Job, Sound, Is
  <2>3. Go(w, "final")
    BY <1>5 DEF Persist
  <2> QED  BY <1>2, <1>5, <2>1, <2>2, <2>3, AssignArchive
<1> QED  BY <1>1, <1>4, <1>5

LEMMA BatchArchive ==
  ASSUME ~InProcess, TypeInv, ArchiveInv, NEW w \in Workers, SetUp(w) \/ InferBatch(w)
  PROVE  ArchiveInv'
<1>1. /\ Cur(w) \in Job /\ pc[w] \notin Unarchived /\ loc[w].next + 1 \in Nat
      /\ Append(loc[w].frames, loc[w].next + 1) \in Seq(Nat)
  <2>1. Cur(w) \in Job /\ pc[w] \notin Unarchived
    BY RunningJob DEF SetUp, InferBatch, Ready, Running, Unarchived
  <2>2. loc[w].next + 1 \in Nat /\ loc[w].frames \in Seq(Nat)
    BY DEF TypeInv, TypeOK, WorkType
  <2> QED  BY <2>1, <2>2
<1>2. /\ [Cur(w) EXCEPT !.frames = <<>>, !.partial = TRUE] \in Job
      /\ [Cur(w) EXCEPT !.frames = Append(loc[w].frames, loc[w].next + 1), !.partial = TRUE,
                        !.ckpt = loc[w].next + 1] \in Job
  BY <1>1, JobUpdates
<1>3. PICK k \in Job, p \in Running :
        /\ k.status = Cur(w).status /\ Assign(w, k, own[w] = Entry) /\ Go(w, p)
        /\ UNCHANGED out \/ \E light \in BOOLEAN : Persist(w, light, p, "except")
  <2>1. CASE SetUp(w)
    BY <1>1, <1>2, <2>1 DEF SetUp, Update, Persist, Running, Job
  <2>2. CASE InferBatch(w)
    BY <1>1, <1>2, <2>2, ModeAssumption DEF InferBatch, Update, Persist, Running, NextBatch, Job
  <2> QED  BY <2>1, <2>2
<1>4. Sound(k)
  BY <1>1, <1>3, NamesAssumption DEF ArchiveInv, Sound, Is
<1>5. UNCHANGED <<db, archived, told, ref, prev>>
  BY DEF SetUp, InferBatch, sideVars, apiVars
<1> QED  BY <1>3, <1>4, <1>5, AssignArchive

LEMMA CompleteArchive ==
  ASSUME ~InProcess, TypeInv, ArchiveInv, NEW w \in Workers, Complete(w)
  PROVE  ArchiveInv'
<1>1. Cur(w) \in Job /\ loc[w].frames \in Seq(Nat)
  BY RunningJob DEF Complete, Ready, Running, TypeInv, TypeOK, WorkType
<1>2. CASE loc[w].frames = <<>> \/ ~input
  BY <1>2, ArchiveFrame DEF Complete, Go, Unarchived, TypeInv, TypeOK, WorkType, storeVars, sideVars, apiVars
<1>3. CASE ~(loc[w].frames = <<>> \/ ~input)
  <2>1. [Cur(w) EXCEPT !.frames = loc[w].frames, !.partial = FALSE,
                       !.status = "completed", !.pause = FALSE] \in Job
    BY <1>1, JobUpdates
  <2> QED  BY <1>3, <2>1, AssignArchive DEF Complete, Update, Unarchived, sideVars, apiVars
<1> QED  BY <1>2, <1>3

LEMMA ArchiveArchive ==
  ASSUME TypeInv, ArchiveInv, NEW w \in Workers, Archive(w) PROVE ArchiveInv'
<1> USE DEF TypeInv, TypeOK
<1>1. CASE archived' = TRUE /\ Persist(w, FALSE, "final", "except")
  BY <1>1 DEF Archive, ArchiveInv, Sound, storeVars, apiVars
<1>2. CASE Go(w, "except") /\ UNCHANGED <<out, archived>>
  BY <1>2, ArchiveFrame DEF Archive, Go, Unarchived, WorkType, apiVars
<1> QED  BY <1>1, <1>2 DEF Archive

LEMMA RetryArchive ==
  ASSUME ~InProcess, TypeInv, ArchiveInv, NEW w \in Workers, Retry(w) PROVE ArchiveInv'
<1>1. Cur(w) \in Job
  BY RunningJob DEF Retry, Ready, Running
<1>2. PICK j \in Job, p \in {"entry", "final"} :
        j.status # "completed" /\ Update(w, j) /\ Persist(w, FALSE, p, "release")
  BY <1>1, JobUpdates, NotCompleted DEF Retry
<1>3. Assign(w, j, own[w] = Entry) /\ Go(w, p)
  BY <1>2 DEF Update, Persist
<1>4. Sound(j)
  BY <1>2 DEF Sound, Is
<1> QED  BY <1>2, <1>3, <1>4, AssignArchive DEF Retry, sideVars, apiVars

LEMMA DeliverArchive ==
  ASSUME TypeInv, ArchiveInv, NEW w \in Workers, Deliver(w) PROVE ArchiveInv'
<1> USE DEF TypeInv, TypeOK
<1>1. Cur(w) \in Job /\ Sound(Cur(w))
  BY RunningJob DEF Deliver, Ready, Running, Unarchived, ArchiveInv
<1>2. "completed" \in told' => archived
  BY <1>1, NamesAssumption DEF Deliver, Sound, Is, ArchiveInv
<1>3. \A v \in Workers : pc'[v] \notin Unarchived => pc[v] \notin Unarchived
  BY DEF Deliver, Ready, Go, Unarchived, WorkType
<1> QED  BY <1>2, <1>3 DEF Deliver, ArchiveInv, Sound, Cur, storeVars, apiVars

\* The steps that only move the worker.
LEMMA MoveArchive ==
  ASSUME TypeInv, ArchiveInv, NEW w \in Workers,
         \/ \E m \in live : Claim(w, m)
         \/ OpenInput(w) \/ InferFails(w) \/ Finish(w)
         \/ DeleteInput(w) \/ ClearCancelled(w) \/ Ack(w) \/ Release(w)
  PROVE  ArchiveInv'
<1>1. /\ UNCHANGED <<storeVars, out, ref, prev, archived, told>>
      /\ pc[w] \notin Unarchived /\ \E p : Go(w, p)
  BY DEF Claim, OpenInput, InferFails, Finish, DeleteInput, ClearCancelled, Ack, Release,
         Ready, Unarchived, sideVars, apiVars
<1>2. \A v \in Workers : pc'[v] \notin Unarchived => pc[v] \notin Unarchived
  BY <1>1 DEF Go, TypeInv, TypeOK, WorkType
<1> QED  BY <1>1, <1>2, ArchiveFrame

LEMMA CrashArchive ==
  ASSUME ~InProcess, TypeInv, ArchiveInv, NEW p \in Procs, Crash(p) PROVE ArchiveInv'
<1> USE ExternalHome DEF TypeInv, TypeOK
<1>1. \A q \in Procs : mem'[q] = IF q = p THEN db ELSE mem[q]
  BY DEF Crash, StoreType
<1>2. \A w \in Workers : IF w = p THEN pc'[w] = "idle" /\ own'[w] = Nil /\ out'[w] = Nil
                         ELSE pc'[w] = pc[w] /\ own'[w] = own[w] /\ out'[w] = out[w]
  BY DEF Crash, Dead
<1>3. \A w \in Workers : pc'[w] \notin Unarchived => Sound(Cur(w))' /\ Sound(mem[w])'
  BY <1>1, <1>2, NamesAssumption DEF Crash, ArchiveInv, Sound, Is, Cur, sideVars
<1>4. \A r \in Requests : Sound(prev[r])' /\ (ref'[r] # Entry => Sound(ref[r])')
  BY DEF Crash, ArchiveInv, Sound, Is, ApiType, sideVars
<1> QED  BY <1>1, <1>2, <1>3, <1>4 DEF Crash, ArchiveInv, Sound, sideVars

-----------------------------------------------------------------------------
LEMMA ArchiveInit == ASSUME ~InProcess PROVE Init => ArchiveInv
BY ExternalHome, NamesAssumption DEF Init, ArchiveInv, Sound, Is, Cur

LEMMA ArchiveNext == ASSUME ~InProcess PROVE TypeInv /\ ArchiveInv /\ [Next]_vars => ArchiveInv'
<1> SUFFICES ASSUME TypeInv, ArchiveInv, [Next]_vars PROVE ArchiveInv'
  OBVIOUS
<1>1. ASSUME NEW w \in Workers, WorkerStep(w) PROVE ArchiveInv'
  <2>1. CASE RunStep(w)
    <3>1. {"cancel1", "pause1", "setup", "cancel2", "pause2", "infer", "except", "retry"}
            \subseteq Running
      BY DEF Running
    <3>2. "retry" \in Unarchived /\ {"cancel1", "pause1", "cancel2", "pause2"} \cap Unarchived = {}
      BY DEF Unarchived
    <3> QED  BY <2>1, <3>1, <3>2, EnterRunArchive, CheckArchive, BatchArchive, MoveArchive,
                CompleteArchive, ArchiveArchive, RetryArchive DEF RunStep
  <2> QED  BY <1>1, <2>1, PersistArchive, RefreshArchive, MoveArchive, DeliverArchive DEF WorkerStep
<1>2. ASSUME NEW m \in leased, LeaseExpires(m) PROVE ArchiveInv'
  BY <1>2, ArchiveFrame DEF LeaseExpires, workVars, sideVars, apiVars
<1>3. ASSUME NEW m \in 1..sent, Reappear(m) PROVE ArchiveInv'
  BY <1>3, ArchiveFrame DEF Reappear, workVars, sideVars, apiVars
<1>4. CASE UNCHANGED vars
  BY <1>4, ArchiveFrame DEF vars, workVars, sideVars, apiVars
<1> QED  BY <1>1, <1>2, <1>3, <1>4, CreateStepArchive, RequestStepArchive, HandlerStepArchive, CrashArchive
         DEF Next

\* With external workers (VIDEO_JOB_WORKER_IN_PROCESS off), run_video_job's
\* order of archive and persist, and the refreshes of cancellation_requested,
\* keep every completed row and every completed callback backed by an archive.
THEOREM ArchiveTheorem == ASSUME ~InProcess PROVE Spec => []CompletedHasArchive
<1>1. ArchiveInv => CompletedHasArchive
  BY DEF ArchiveInv, CompletedHasArchive, Sound
<1>2. Spec => [](TypeInv /\ ArchiveInv)
  <2>1. Init => TypeInv /\ ArchiveInv
    BY TypeInit, ArchiveInit
  <2>2. (TypeInv /\ ArchiveInv) /\ [Next]_vars => (TypeInv /\ ArchiveInv)'
    BY TypeNext, ArchiveNext
  <2> QED  BY <2>1, <2>2, PTL DEF Spec
<1> QED  BY <1>1, <1>2, PTL

-----------------------------------------------------------------------------
(***************************************************************************)
(* One process: with the worker in the process of the API, whatever        *)
(* batches fail, leases lapse, uploads and enqueues are refused and        *)
(* cancellations come, as long as no persist, archive or audit record      *)
(* fails, the process lives and nobody pauses the job.  (A pause and a     *)
(* crash lose the frames of a lightweight row, a failing archive and a     *)
(* rolled back cancellation take a completed job back.)                    *)
(***************************************************************************)
Barred   == {"archive", "crash", "read", "write", "audit", "pause", "resume"}
Ordinary == InProcess /\ \A k \in Barred : Quota[k] = 0

Shared     == mem["api"]
UpTo(n)    == [i \in 1..n |-> i]
Fresh(j)   == j.frames = <<>> /\ j.ckpt = 0 /\ ~j.partial
Steady(j)  == /\ j.ckpt \in 0..NBatches /\ j.frames = UpTo(j.ckpt)
              /\ ~j.partial => j.ckpt = 0
Exact(j)   == Is(j, "completed") => j.frames = UpTo(NBatches)
Stored(j)  == IF j = Nil THEN Nil ELSE Row(j, FALSE)
Ended(j)   == j # Nil /\ j.status \in Terminal

\* Where the worker has no run, and where it is in one that has not ended.
Quiet  == {"idle", "refresh", "install", "deliver", "rmInput", "clear", "ack"}
Active == {"entry", "cancel1", "pause1", "setup", "open", "cancel2", "pause2",
           "infer", "complete", "except", "retry"}
Going  == {"queued", "running", "cancelled"}

\* No handler rolls back.
Handlers == /\ \A k \in Barred : left[k] = 0
            /\ rpc["pause"] = "idle" /\ rpc["resume"] = "idle"
            /\ rpc["cancel"] \in {"idle", "apply", "mark", "marked", "audit"}
            /\ rpc["create"] # "restore"

\* The worker has nothing to do before the job is created, and from then on it
\* has a message and the input until the end has been told.
Creation(w) ==
  /\ rpc["create"] \notin {"idle", "done"} => Shared # Nil
  /\ rpc["create"] \in {"stage", "configure"} => ref["create"] = Entry
  /\ rpc["create"] \in {"configure", "audit", "enqueue"} => input
  /\ sent = 0 => /\ live = {} /\ pc[w] = "idle" /\ told = {}
                 /\ rpc["create"] \in {"idle", "done"} => Shared = Nil
                 /\ Shared # Nil => Shared.status \in {"queued", "cancelled"}
  /\ sent # 0 => /\ rpc["create"] = "done" /\ Shared # Nil
                 /\ told = {} => live # {} /\ input

Shown(w) ==
  /\ Shared # Nil => /\ ~Shared.pause /\ Shared.status # "paused"
                     /\ Shared.cancel => Shared.status # "running"
  /\ Exact(Shared) /\ Exact(db)
  /\ told # {} => pc[w] \in Quiet /\ Ended(Shared) /\ told = {Shared.status}

\* What a worker has read is the row, or was, before the job was cancelled.
Copied(j) == \/ j = db
             \/ /\ told = {} /\ Is(Shared, "cancelled")
                /\ j.status = "queued" /\ ~j.cancel /\ ~j.pause /\ Fresh(j)

\* Without a run the row is what the process holds: a new job or an ended one.
Idling(w) == pc[w] \in Quiet =>
  /\ out[w] = Nil /\ db = Stored(Shared)
  /\ Shared # Nil => \/ Shared.status \in Terminal
                     \/ Shared.status = "queued" /\ ~Shared.cancel /\ Fresh(Shared)
  /\ pc[w] = "install" => own[w] \in Job /\ Copied(own[w])
  /\ pc[w] \notin {"idle", "refresh", "install"} => Ended(Shared)
  /\ pc[w] = "deliver" => own[w] = Entry
  /\ pc[w] \in {"rmInput", "clear", "ack"} => told # {}

\* In a run the process's copy holds the frames of the batches before the
\* checkpoint, and what is on its way to the store has not ended otherwise.
Working(w) == pc[w] \in Active =>
  /\ own[w] = Entry /\ Shared # Nil /\ Shared.status \in Going /\ Steady(Shared)
  /\ out[w] # Nil => out[w].row = Entry \/ (out[w].row # Nil /\ out[w].row.status \in Going)
  /\ pc[w] \in {"open", "cancel2", "pause2", "infer", "complete"} =>
       /\ loc[w].next \in 0..NBatches /\ loc[w].frames = UpTo(loc[w].next)
       /\ pc[w] \in {"cancel2", "pause2", "infer"} => loc[w].next < NBatches
       /\ pc[w] = "complete" => loc[w].next = NBatches

\* The end of a run is written as it is.
Ending(w) ==
  /\ pc[w] = "archive" => own[w] = Entry /\ Is(Shared, "completed")
  /\ pc[w] = "final" =>
       /\ own[w] = Entry /\ Ended(Shared)
       /\ out[w] = Nil => db = Stored(Shared)
       /\ out[w] # Nil => ~out[w].light /\ out[w].row \in {Entry, Stored(Shared)}

Ordered(w) == /\ Handlers /\ Creation(w) /\ Shown(w) /\ Idling(w) /\ Working(w) /\ Ending(w)
              /\ pc[w] \in Quiet \cup Active \cup {"archive", "final"}

Alone(w) == Ordinary /\ Workers = {w} /\ TypeInv /\ Ordered(w)

LEMMA OneProcess ==
  ASSUME NEW w \in Workers, Alone(w)
  PROVE  /\ Home(w) = "api" /\ Procs = {"api"} /\ \A v \in Workers : v = w
         /\ Cur(w) = IF own[w] = Entry THEN Shared ELSE own[w]
         /\ Shared \in Maybe(Job) /\ db \in Maybe(Job)
BY Homes DEF Alone, Ordinary, Home, Procs, Cur, Shared, TypeInv, TypeOK, StoreType

LEMMA BarredStay ==
  ASSUME NEW w \in Workers, Alone(w), NEW k \in Kinds, Spend(k)
  PROVE  k \notin Barred /\ \A b \in Barred : left'[b] = 0
BY DEF Alone, Ordered, Handlers, Spend, TypeInv, TypeOK, Barred, Kinds

\* What is stored of a job has its status and its frames.
LEMMA StoredJob ==
  ASSUME NEW j \in Job
  PROVE  /\ Row(j, FALSE) \in Job /\ Row(j, FALSE).status = j.status /\ Row(j, FALSE).frames = j.frames
         /\ (Row(j, FALSE).pause => j.pause) /\ Row(j, FALSE).cancel = j.cancel
         /\ Fresh(j) => Fresh(Row(j, FALSE))
         /\ Row(Row(j, FALSE), FALSE) = Row(j, FALSE)
         /\ \A light \in BOOLEAN : Row(j, light) \in Job /\ Row(j, light).status = j.status
<1>1. \A light \in BOOLEAN : Row(j, light) \in Job
  BY JobUpdates
<1>2. Row(j, FALSE) = IF Postgres THEN PostgresRow(j) ELSE j
  BY DEF Row
<1>3. /\ PostgresRow(j).status = j.status /\ PostgresRow(j).frames = j.frames
      /\ ~PostgresRow(j).pause /\ PostgresRow(j).cancel = j.cancel
      /\ PostgresRow(PostgresRow(j)) = PostgresRow(j)
      /\ Fresh(j) => Fresh(PostgresRow(j))
  BY DEF PostgresRow, Job, Fresh
<1>4. \A light \in BOOLEAN : Row(j, light).status = j.status
  BY DEF Row, Lightweight, PostgresRow, Job
<1> QED
  BY <1>1, <1>2, <1>3, <1>4 DEF Row

\* Steps of a run: only the worker and the process's copy change.
LEMMA RunLemma ==
  ASSUME NEW w \in Workers, Alone(w),
         pc[w] \in Active \cup {"archive"}, pc'[w] \in Active \cup {"archive", "final"},
         UNCHANGED <<db, sent, live, input, told, rpc, ref>>,
         \A k \in Barred : left'[k] = 0,
         Shared' # Nil, ~Shared'.pause, Shared'.status # "paused", Exact(Shared'),
         Shared'.cancel => Shared'.status # "running",
         Working(w)', Ending(w)'
  PROVE  Ordered(w)'
<1> USE DEF Alone, Ordered
<1>1. pc[w] \notin Quiet /\ pc'[w] \notin Quiet /\ sent # 0 /\ told = {}
  BY DEF Active, Quiet, Creation, Shown
<1>2. Handlers'
  BY DEF Handlers
<1>3. Creation(w)'
  BY <1>1 DEF Creation
<1>4. Shown(w)' /\ Idling(w)'
  BY <1>1 DEF Shown, Idling
<1> QED
  BY <1>2, <1>3, <1>4

\* A run goes on with job j, awaiting a full persist, a lightweight one or none.
LEMMA GoOn ==
  ASSUME NEW w \in Workers, Alone(w), pc[w] \in Active,
         NEW j \in Job, NEW p \in Active, Update(w, j), Go(w, p),
         j.status \in Going, ~j.pause, Steady(j), j.cancel => j.status # "running",
         \/ UNCHANGED out /\ out[w] = Nil
         \/ \E light \in BOOLEAN, f \in {"except", "release"} : Persist(w, light, p, f),
         p \in {"open", "cancel2", "pause2", "infer", "complete"} =>
           /\ loc'[w].next \in 0..NBatches /\ loc'[w].frames = UpTo(loc'[w].next)
           /\ p \in {"cancel2", "pause2", "infer"} => loc'[w].next < NBatches
           /\ p = "complete" => loc'[w].next = NBatches,
         UNCHANGED <<db, queueVars, sideVars, apiVars>>, \A k \in Barred : left'[k] = 0
  PROVE  Ordered(w)'
<1> USE OneProcess DEF Alone, TypeInv, TypeOK
<1>1. own[w] = Entry
  BY DEF Ordered, Working
<1>2. Shared' = j /\ own'[w] = Entry /\ pc'[w] = p
  BY <1>1 DEF Update, Assign, Go, StoreType, WorkType, Shared
<1>3. out'[w] # Nil => out'[w].row = Entry
  BY DEF Persist, WorkType
<1>4. Working(w)' /\ Ending(w)'
  BY <1>2, <1>3, NamesAssumption DEF Working, Ending, Active
<1>5. UNCHANGED <<db, sent, live, input, told, rpc, ref>>
  BY DEF queueVars, sideVars, apiVars
<1>6. j # Nil /\ Exact(j) /\ j.status # "paused"
  BY NamesAssumption DEF Exact, Is, Going
<1> QED
  BY <1>2, <1>4, <1>5, <1>6, RunLemma

\* A run ends with job j, which is written in full.
LEMMA RunEnds ==
  ASSUME NEW w \in Workers, Alone(w), pc[w] \in Active,
         NEW j \in Job, Update(w, j), NEW f \in {"except", "release"}, Persist(w, FALSE, "final", f),
         j.status \in {"cancelled", "failed"}, ~j.pause,
         UNCHANGED <<db, queueVars, sideVars, apiVars>>, \A k \in Barred : left'[k] = 0
  PROVE  Ordered(w)'
<1> USE OneProcess DEF Alone, TypeInv, TypeOK
<1>1. own[w] = Entry
  BY DEF Ordered, Working
<1>2. Shared' = j /\ own'[w] = Entry /\ pc'[w] = "final"
  BY <1>1 DEF Update, Assign, Persist, Go, StoreType, WorkType, Shared
<1>3. out'[w].row = Entry /\ ~out'[w].light /\ out'[w] # Nil
  <2>1. out'[w] = [row |-> Entry, light |-> FALSE, fail |-> f]
    BY DEF Persist, WorkType
  <2>2. out'[w].row = Entry /\ out'[w].light = FALSE
    BY <2>1
  <2>3. [row |-> Entry, light |-> FALSE, fail |-> f] \in Pending
    BY DEF Pending
  <2>4. Nil \notin Pending
    BY NamesAssumption
  <2> QED
    BY ONLY <2>1, <2>2, <2>3, <2>4
<1>4. Working(w)' /\ Ending(w)'
  BY <1>2, <1>3, NamesAssumption DEF Working, Ending, Active, Ended, Terminal
<1>5. UNCHANGED <<db, sent, live, input, told, rpc, ref>>
  BY DEF queueVars, sideVars, apiVars
<1>6. j # Nil /\ Exact(j) /\ j.status # "paused"
  BY NamesAssumption DEF Exact, Is
<1> QED
  BY <1>2, <1>4, <1>5, <1>6, RunLemma

-----------------------------------------------------------------------------
(* The steps of a run.                                                     *)

LEMMA EnterRunOrdered ==
  ASSUME NEW w \in Workers, Alone(w), EnterRun(w) PROVE Ordered(w)'
<1> USE DEF Alone
<1>1. /\ pc[w] = "entry" /\ pc[w] \in Active
      /\ own[w] = Entry /\ Shared \in Job /\ Shared.status \in Going /\ Steady(Shared) /\ ~Shared.pause
      /\ Cur(w) = Shared /\ (Shared.cancel => Shared.status # "running") /\ Shared.status # "paused"
  BY OneProcess, NamesAssumption DEF EnterRun, Ready, Ordered, Working, Shown, Active, Maybe, Going
<1>2. UNCHANGED <<db, queueVars, sideVars, apiVars, left, loc>>
  BY DEF EnterRun
<1>3. \A k \in Barred : left'[k] = 0
  BY <1>2 DEF Ordered, Handlers
<1>4. CASE Shared.cancel \/ Shared.status = "cancelled"
  <2> DEFINE j == [Shared EXCEPT !.cancel = TRUE, !.status = "cancelled"]
  <2>1. Update(w, j) /\ Persist(w, FALSE, "final", "release")
    BY <1>1, <1>4 DEF EnterRun
  <2>2. j \in Job /\ j.status = "cancelled" /\ ~j.pause
    BY <1>1 DEF Job, Status
  <2> HIDE DEF j
  <2> QED
    BY <1>1, <1>2, <1>3, <2>1, <2>2, RunEnds
<1>5. CASE ~(Shared.cancel \/ Shared.status = "cancelled")
  <2> DEFINE j == [Shared EXCEPT !.status = "running", !.attempts = @ + 1]
  <2>1. Update(w, j) /\ Persist(w, FALSE, "cancel1", "release")
    BY <1>1, <1>5 DEF EnterRun
  <2>2. j \in Job
    BY <1>1, JobUpdates
  <2>3. j.status \in Going /\ ~j.pause /\ Steady(j) /\ ~j.cancel
    BY <1>1, <1>5 DEF Job, Going, Steady
  <2> HIDE DEF j
  <2>4. Go(w, "cancel1") /\ "cancel1" \in Active
    BY <2>1 DEF Persist, Active
  <2> QED
    BY <1>1, <1>2, <1>3, <2>1, <2>2, <2>3, <2>4, GoOn
<1> QED
  BY <1>4, <1>5

\* The looks at the cancellation and at the pause.
LEMMA CheckOrdered ==
  ASSUME NEW w \in Workers, Alone(w), NEW p \in Active, NEW next \in Active,
         next \in {"pause1", "setup", "retry"} \/ (p \in {"cancel2", "pause2"} /\ next \in {"pause2", "infer"}),
         CheckCancel(w, p, next) \/ CheckPause(w, p, next)
  PROVE  Ordered(w)'
<1> USE DEF Alone
<1>1. /\ pc[w] = p /\ out[w] = Nil
      /\ own[w] = Entry /\ Shared \in Job /\ Shared.status \in Going /\ Steady(Shared) /\ ~Shared.pause
      /\ Cur(w) = Shared /\ (Shared.cancel => Shared.status # "running") /\ Shared.status # "paused"
  BY OneProcess, NamesAssumption
  DEF CheckCancel, CheckPause, Ready, Ordered, Working, Shown, Maybe, Going
<1>2. UNCHANGED <<db, queueVars, sideVars, apiVars, loc>>
  BY DEF CheckCancel, CheckPause
<1>3. PICK j \in {Cur(w), db}, entry \in BOOLEAN :
        /\ Latest(w, j, entry)
        /\ \/ Assign(w, j, entry) /\ Go(w, next) /\ UNCHANGED out
           \/ /\ Assign(w, [j EXCEPT !.cancel = TRUE, !.status = "cancelled"], entry)
              /\ \E f \in {"except", "release"} : Persist(w, FALSE, "final", f)
           \/ j.pause \/ j.status = "paused"
  BY DEF CheckCancel, CheckPause
<1>4. j = Shared /\ entry = TRUE /\ UNCHANGED left
  BY <1>1, <1>3 DEF Latest, Ordinary
<1>5. \A k \in Barred : left'[k] = 0
  BY <1>4 DEF Ordered, Handlers
<1>6. CASE Assign(w, j, entry) /\ Go(w, next) /\ UNCHANGED out
  <2>1. Update(w, Shared)
    BY <1>1, <1>4, <1>6 DEF Update
  <2>2. next \in {"open", "cancel2", "pause2", "infer", "complete"} =>
           /\ loc'[w].next \in 0..NBatches /\ loc'[w].frames = UpTo(loc'[w].next)
           /\ next \in {"cancel2", "pause2", "infer"} => loc'[w].next < NBatches
           /\ next = "complete" => loc'[w].next = NBatches
    BY <1>1, <1>2 DEF Ordered, Working
  <2> QED
    BY <1>1, <1>2, <1>5, <1>6, <2>1, <2>2, GoOn
<1>7. ASSUME Assign(w, [j EXCEPT !.cancel = TRUE, !.status = "cancelled"], entry),
             NEW f \in {"except", "release"}, Persist(w, FALSE, "final", f)
      PROVE  Ordered(w)'
  <2> DEFINE k == [Shared EXCEPT !.cancel = TRUE, !.status = "cancelled"]
  <2>1. Update(w, k)
    BY <1>1, <1>4, <1>7 DEF Update
  <2>2. k \in Job /\ k.status = "cancelled" /\ ~k.pause
    BY <1>1 DEF Job, Status
  <2> HIDE DEF k
  <2> QED
    BY <1>1, <1>2, <1>5, <1>7, <2>1, <2>2, RunEnds
<1> QED
  BY <1>1, <1>3, <1>4, <1>6, <1>7

LEMMA SetUpOrdered ==
  ASSUME NEW w \in Workers, Alone(w), SetUp(w) PROVE Ordered(w)'
<1> USE DEF Alone
<1>1. /\ pc[w] = "setup" /\ pc[w] \in Active
      /\ own[w] = Entry /\ Shared \in Job /\ Shared.status \in Going /\ Steady(Shared) /\ ~Shared.pause
      /\ Cur(w) = Shared /\ (Shared.cancel => Shared.status # "running")
  BY OneProcess, NamesAssumption DEF SetUp, Ready, Ordered, Working, Shown, Active, Maybe
<1> DEFINE frames == IF Shared.partial THEN Shared.frames ELSE <<>>
           j == IF frames = <<>> THEN [Shared EXCEPT !.frames = <<>>, !.partial = TRUE] ELSE Shared
<1>2. /\ loc'[w] = [frames |-> frames, next |-> Shared.ckpt]
      /\ Update(w, j) /\ Persist(w, TRUE, "open", "except") /\ Go(w, "open")
      /\ UNCHANGED <<db, queueVars, sideVars, apiVars, left>>
  BY <1>1 DEF SetUp, Persist, TypeInv, TypeOK, WorkType
<1>3. UpTo(0) = <<>>
  BY DEF UpTo
<1>4. frames = UpTo(Shared.ckpt) /\ Shared.ckpt \in 0..NBatches
  BY <1>1, <1>3 DEF Steady
<1>5. j \in Job
  BY <1>1, JobUpdates
<1>6. j.status \in Going /\ ~j.pause /\ Steady(j) /\ (j.cancel => j.status # "running")
  BY <1>1, <1>4 DEF Steady, Job
<1>7. \A k \in Barred : left'[k] = 0
  BY <1>2 DEF Ordered, Handlers
<1>8. loc'[w].next \in 0..NBatches /\ loc'[w].frames = UpTo(loc'[w].next)
  BY <1>2, <1>4
<1> HIDE DEF j, frames
<1>9. "open" \in Active
  BY DEF Active
<1> QED
  BY <1>1, <1>2, <1>5, <1>6, <1>7, <1>8, <1>9, GoOn

\* The location after a batch, and what is known there.
LEMMA NextLocation ==
  ASSUME NEW n \in 0..NBatches
  PROVE  /\ NextBatch(n) \in {"cancel2", "complete"}
         /\ NextBatch(n) = "cancel2" => n < NBatches
         /\ NextBatch(n) = "complete" => n = NBatches
BY BoundsAssumption DEF NextBatch

LEMMA BatchOrdered ==
  ASSUME NEW w \in Workers, Alone(w), OpenInput(w) \/ InferBatch(w) \/ InferFails(w)
  PROVE  Ordered(w)'
<1> USE DEF Alone
<1>1. /\ pc[w] \in {"open", "infer"} /\ pc[w] \in Active /\ out[w] = Nil
      /\ own[w] = Entry /\ Shared \in Job /\ Shared.status \in Going /\ Steady(Shared) /\ ~Shared.pause
      /\ Cur(w) = Shared /\ (Shared.cancel => Shared.status # "running")
      /\ loc[w].next \in 0..NBatches /\ loc[w].frames = UpTo(loc[w].next)
      /\ pc[w] = "infer" => loc[w].next < NBatches
  BY OneProcess, NamesAssumption
  DEF OpenInput, InferBatch, InferFails, Ready, Ordered, Working, Shown, Active, Maybe
<1>2. UNCHANGED <<db, queueVars, sideVars, apiVars>>
  BY DEF OpenInput, InferBatch, InferFails, storeVars
<1>3. \A k \in Barred : left'[k] = 0
  <2>1. "infer" \in Kinds
    BY DEF Kinds
  <2>2. left' = left \/ Spend("infer")
    BY DEF OpenInput, InferBatch, InferFails
  <2> QED
    BY <2>1, <2>2, BarredStay DEF Ordered, Handlers
<1>4. ASSUME NEW p \in {"cancel2", "complete", "except"}, Go(w, p), UNCHANGED <<storeVars, out, loc>>,
             p = "cancel2" => loc[w].next < NBatches, p = "complete" => loc[w].next = NBatches
      PROVE  Ordered(w)'
  <2>1. Update(w, Shared)
    BY <1>1, <1>4, OneProcess DEF Update, Assign, storeVars, TypeInv, TypeOK, StoreType, Shared
  <2>2. p \in Active
    BY DEF Active
  <2> QED
    BY <1>1, <1>2, <1>3, <1>4, <2>1, <2>2, GoOn
<1>5. CASE OpenInput(w)
  <2>1. \E p \in {"cancel2", "complete", "except"} :
          /\ Go(w, p) /\ UNCHANGED <<storeVars, out, loc>>
          /\ p = "cancel2" => loc[w].next < NBatches
          /\ p = "complete" => loc[w].next = NBatches
    BY <1>1, <1>5, NextLocation DEF OpenInput
  <2> QED
    BY <1>4, <2>1
<1>6. CASE InferFails(w)
  BY <1>4, <1>6 DEF InferFails
<1>7. CASE InferBatch(w)
  <2> DEFINE n == loc[w].next + 1
             fs == Append(loc[w].frames, n)
             j == [Shared EXCEPT !.frames = fs, !.partial = TRUE, !.ckpt = n]
  <2>1. n \in 0..NBatches /\ n \in Nat /\ loc[w].next < NBatches
    BY <1>1, <1>7, BoundsAssumption DEF InferBatch, Ready
  <2>2. fs = UpTo(n)
    <3>1. loc[w].next \in Nat /\ UpTo(loc[w].next) \in Seq(Nat)
      BY <1>1 DEF TypeInv, TypeOK, WorkType
    <3>2. Len(UpTo(loc[w].next)) = loc[w].next
      BY <3>1 DEF UpTo
    <3> QED
      BY <1>1, <3>1, <3>2 DEF UpTo
  <2>3. /\ loc'[w] = [frames |-> fs, next |-> n] /\ Update(w, j)
        /\ \/ Persist(w, InProcess, NextBatch(n), "except")
           \/ Go(w, NextBatch(n)) /\ UNCHANGED out
        /\ Go(w, NextBatch(n)) /\ UNCHANGED left
    BY <1>1, <1>7 DEF InferBatch, Persist, TypeInv, TypeOK, WorkType
  <2>4. fs \in Seq(Nat)
    BY <1>1, <2>1 DEF TypeInv, TypeOK, WorkType
  <2> HIDE DEF fs, n
  <2>5. j \in Job
    BY <1>1, <2>1, <2>4, JobUpdates
  <2>6. j.status \in Going /\ ~j.pause /\ Steady(j) /\ (j.cancel => j.status # "running")
    BY <1>1, <2>1, <2>2 DEF Steady, Job
  <2> HIDE DEF j
  <2>7. loc'[w].next = n /\ loc'[w].frames = UpTo(n)
    BY <2>2, <2>3
  <2>8. /\ NextBatch(n) \in Active /\ NextBatch(n) \in {"cancel2", "complete"}
        /\ NextBatch(n) = "cancel2" => n < NBatches
        /\ NextBatch(n) = "complete" => n = NBatches
    BY <2>1, NextLocation DEF Active
  <2>9. InProcess \in BOOLEAN
    BY ModeAssumption
  <2> QED
    BY <1>1, <1>2, <1>3, <2>1, <2>3, <2>5, <2>6, <2>7, <2>8, <2>9, GoOn
<1> QED
  BY <1>5, <1>6, <1>7

LEMMA CompleteOrdered ==
  ASSUME NEW w \in Workers, Alone(w), Complete(w) PROVE Ordered(w)'
<1> USE DEF Alone
<1>1. /\ pc[w] = "complete" /\ pc[w] \in Active /\ out[w] = Nil
      /\ own[w] = Entry /\ Shared \in Job /\ Shared.status \in Going /\ Steady(Shared) /\ ~Shared.pause
      /\ Cur(w) = Shared /\ (Shared.cancel => Shared.status # "running")
      /\ loc[w].frames = UpTo(NBatches) /\ loc[w].frames \in Seq(Nat)
  BY OneProcess, NamesAssumption
  DEF Complete, Ready, Ordered, Working, Shown, Active, Maybe, TypeInv, TypeOK, WorkType
<1>2. UNCHANGED <<db, queueVars, sideVars, apiVars, left, loc>>
  BY DEF Complete
<1>3. \A k \in Barred : left'[k] = 0
  BY <1>2 DEF Ordered, Handlers
<1>4. CASE Go(w, "except") /\ UNCHANGED <<mem, own, out>>
  <2>1. Update(w, Shared)
    BY <1>1, <1>4, OneProcess DEF Update, Assign, TypeInv, TypeOK, StoreType, Shared
  <2>2. "except" \in Active
    BY DEF Active
  <2> QED
    BY <1>1, <1>2, <1>3, <1>4, <2>1, <2>2, GoOn
<1>5. CASE Update(w, [Shared EXCEPT !.frames = loc[w].frames, !.partial = FALSE,
                                    !.status = "completed", !.pause = FALSE]) /\ Go(w, "archive")
  <2> DEFINE j == [Shared EXCEPT !.frames = loc[w].frames, !.partial = FALSE,
                                 !.status = "completed", !.pause = FALSE]
  <2>1. j \in Job
    BY <1>1, BoundsAssumption, JobUpdates
  <2>2. j.frames = UpTo(NBatches) /\ j.status = "completed" /\ ~j.pause /\ j # Nil
    BY <1>1, <2>1, NamesAssumption DEF Job
  <2> HIDE DEF j
  <2>3. Shared' = j /\ own'[w] = Entry /\ pc'[w] = "archive"
    BY <1>1, <1>5, OneProcess DEF j, Update, Assign, Go, TypeInv, TypeOK, StoreType, WorkType, Shared
  <2>4. Working(w)' /\ Ending(w)'
    BY <2>2, <2>3 DEF Working, Ending, Active, Is
  <2>5. UNCHANGED <<db, sent, live, input, told, rpc, ref>>
    BY <1>2 DEF queueVars, sideVars, apiVars
  <2> QED
    BY <1>1, <1>3, <2>2, <2>3, <2>4, <2>5, RunLemma DEF Exact
<1> QED
  BY <1>1, <1>4, <1>5 DEF Complete

LEMMA ArchiveOrdered ==
  ASSUME NEW w \in Workers, Alone(w), Archive(w) PROVE Ordered(w)'
<1> USE DEF Alone, TypeInv, TypeOK
<1>1. ~Spend("archive")
  BY DEF Ordered, Handlers, Barred, Spend
<1>2. /\ pc[w] = "archive" /\ Persist(w, FALSE, "final", "except")
      /\ UNCHANGED <<storeVars, queueVars, input, told, apiVars, left>>
  BY <1>1 DEF Archive, Ready
<1>3. Shared' = Shared /\ own'[w] = own[w] /\ pc'[w] = "final"
  BY <1>2 DEF Persist, Go, WorkType, storeVars, Shared
<1>4. out'[w].row = Entry /\ ~out'[w].light /\ out'[w] # Nil
  <2>1. out'[w] = [row |-> Entry, light |-> FALSE, fail |-> "except"]
    BY <1>2 DEF Persist, WorkType
  <2>2. out'[w].row = Entry /\ out'[w].light = FALSE
    BY <2>1
  <2>3. [row |-> Entry, light |-> FALSE, fail |-> "except"] \in Pending
    BY DEF Pending
  <2>4. Nil \notin Pending
    BY NamesAssumption
  <2> QED
    BY ONLY <2>1, <2>2, <2>3, <2>4
<1>5. own[w] = Entry /\ Shared # Nil /\ Shared.status = "completed" /\ ~Shared.pause /\ Exact(Shared)
  BY <1>2 DEF Ordered, Ending, Shown, Is
<1>6. Working(w)' /\ Ending(w)'
  BY <1>3, <1>4, <1>5 DEF Working, Ending, Active, Ended, Terminal
<1>7. UNCHANGED <<db, sent, live, input, told, rpc, ref>> /\ \A k \in Barred : left'[k] = 0
  BY <1>2 DEF queueVars, storeVars, apiVars, Ordered, Handlers
<1> QED
  BY <1>2, <1>3, <1>5, <1>6, <1>7, RunLemma

LEMMA RetryOrdered ==
  ASSUME NEW w \in Workers, Alone(w), Retry(w) PROVE Ordered(w)'
<1> USE DEF Alone
<1>1. /\ pc[w] = "retry" /\ pc[w] \in Active
      /\ own[w] = Entry /\ Shared \in Job /\ Shared.status \in Going /\ Steady(Shared) /\ ~Shared.pause
      /\ Cur(w) = Shared /\ (Shared.cancel => Shared.status # "running")
  BY OneProcess, NamesAssumption DEF Retry, Ready, Ordered, Working, Shown, Active, Maybe
<1>2. UNCHANGED <<db, queueVars, sideVars, apiVars, left, loc>>
  BY DEF Retry
<1>3. \A k \in Barred : left'[k] = 0
  BY <1>2 DEF Ordered, Handlers
<1>4. ASSUME NEW j \in Job, j = [Shared EXCEPT !.status = "queued"],
             Update(w, j), Persist(w, FALSE, "entry", "release")
      PROVE  Ordered(w)'
  <2>1. j.status \in Going /\ ~j.pause /\ Steady(j) /\ j.status # "running"
    BY <1>1, <1>4 DEF Going, Steady, Job
  <2>2. Go(w, "entry") /\ "entry" \in Active
    BY <1>4 DEF Persist, Active
  <2> QED
    BY <1>1, <1>2, <1>3, <1>4, <2>1, <2>2, GoOn
<1>5. ASSUME NEW j \in Job, j = [Shared EXCEPT !.status = "failed"],
             Update(w, j), Persist(w, FALSE, "final", "release")
      PROVE  Ordered(w)'
  <2>1. j.status = "failed" /\ ~j.pause
    BY <1>1, <1>5 DEF Job
  <2> QED
    BY <1>1, <1>2, <1>3, <1>5, <2>1, RunEnds
<1>6. [Shared EXCEPT !.status = "queued"] \in Job /\ [Shared EXCEPT !.status = "failed"] \in Job
  BY <1>1, JobUpdates
<1> QED
  BY <1>1, <1>4, <1>5, <1>6 DEF Retry

-----------------------------------------------------------------------------
(* Persists, and the worker between its runs.                              *)

LEMMA PersistOrdered ==
  ASSUME NEW w \in Workers, Alone(w), Snapshot(w) \/ WriteOut(w)
  PROVE  Ordered(w)'
<1> USE DEF Alone
<1>1. /\ out[w] # Nil /\ out[w] \in Pending /\ pc[w] \in Awaiting
      /\ UNCHANGED <<mem, own, pc, loc, sent, live, input, told, rpc, ref, left>>
  <2>1. ~Spend("write")
    BY DEF Ordered, Handlers, Barred, Spend
  <2> QED
    BY <2>1 DEF Snapshot, WriteOut, TypeInv, TypeOK, WorkType, HasJob, Maybe,
                storeVars, queueVars, sideVars, apiVars
<1>2. /\ own[w] = Entry /\ Shared \in Job /\ Cur(w) = Shared /\ pc[w] \notin Quiet
      /\ pc[w] \in Active \cup {"final"}
  BY <1>1, OneProcess, NamesAssumption
  DEF Awaiting, Active, Quiet, Ordered, Working, Ending, Ended, Maybe
<1>3. /\ pc[w] \in Active /\ pc[w] # "final" =>
           /\ Shared.status \in Going
           /\ out[w].row = Entry \/ (out[w].row # Nil /\ out[w].row.status \in Going)
      /\ pc[w] = "final" => ~out[w].light /\ out[w].row \in {Entry, Stored(Shared)}
  BY <1>1 DEF Ordered, Working, Ending
<1>4. Shared' = Shared /\ Handlers' /\ Creation(w)'
  BY <1>1 DEF Ordered, Handlers, Creation, Shared
<1>5. Stored(Shared) = Row(Shared, FALSE) /\ Stored(Shared) \in Job
      /\ Stored(Shared).status = Shared.status /\ Stored(Shared).frames = Shared.frames
  BY <1>2, StoredJob, NamesAssumption DEF Stored
<1>6. CASE Snapshot(w)
  <2>1. out[w].light \in BOOLEAN /\ UNCHANGED db
    BY <1>1, <1>6 DEF Snapshot, Pending, storeVars
  <2>2. out'[w] = [out[w] EXCEPT !.row = Row(Shared, out[w].light)]
    <3>1. (IF Postgres THEN Cur(w) ELSE mem[Home(w)]) = Shared /\ Shared # Nil
      BY <1>2, OneProcess, NamesAssumption DEF Shared
    <3> QED
      BY <1>6, <3>1 DEF Snapshot, TypeInv, TypeOK, WorkType
  <2>3. /\ out'[w].row = Row(Shared, out[w].light) /\ out'[w].light = out[w].light
        /\ Row(Shared, out[w].light) \in Job /\ Row(Shared, out[w].light).status = Shared.status
    BY <1>1, <1>2, <2>1, <2>2, StoredJob DEF Pending
  <2>4. Working(w)'
    BY <1>1, <1>3, <1>4, <2>3, NamesAssumption DEF Ordered, Working, Active
  <2>5. Ending(w)'
    <3>1. pc[w] = "final" => out'[w].row = Stored(Shared) /\ ~out'[w].light
      <4>1. pc[w] = "final" => out[w].light = FALSE
        BY <1>3, <2>1
      <4> QED
        BY <1>5, <2>3, <4>1
    <3>2. pc[w] # "archive" /\ (pc[w] = "final" => Ended(Shared))
      BY <1>2 DEF Active, Ordered, Ending
    <3>3. out'[w] # Nil
      <4>1. \A r \in Pending, j \in Job : [r EXCEPT !.row = j] \in Pending
        BY DEF Pending
      <4>2. Nil \notin Pending
        BY NamesAssumption
      <4> QED
        BY ONLY <1>1, <1>2, <2>1, <2>2, <2>3, <4>1, <4>2
    <3> QED
      BY <1>1, <1>2, <1>4, <3>1, <3>2, <3>3 DEF Ending
  <2>6. Shown(w)' /\ Idling(w)'
    BY <1>1, <1>2, <1>4, <2>1 DEF Ordered, Shown, Idling
  <2> QED
    BY <1>1, <1>4, <2>4, <2>5, <2>6 DEF Ordered
<1>7. CASE WriteOut(w)
  <2>1. db' = out[w].row /\ out[w].row # Entry /\ out'[w] = Nil
    <3>1. ~Spend("write")
      BY DEF Ordered, Handlers, Barred, Spend
    <3> QED
      BY <1>7, <3>1 DEF WriteOut, TypeInv, TypeOK, WorkType
  <2>2. Exact(db')
    <3>1. CASE pc[w] = "final"
      <4>1. db' = Stored(Shared) /\ Exact(Shared)
        BY <1>3, <2>1, <3>1 DEF Ordered, Shown
      <4> QED
        BY <1>2, <1>5, <4>1, NamesAssumption DEF Exact, Is
    <3>2. CASE pc[w] # "final"
      BY <1>2, <1>3, <2>1, <3>2 DEF Exact, Is, Going
    <3> QED
      BY <3>1, <3>2
  <2>3. Working(w)'
    BY <1>1, <1>4, <2>1 DEF Ordered, Working
  <2>4. Ending(w)'
    BY <1>1, <1>3, <1>4, <2>1 DEF Ordered, Ending
  <2>5. Shown(w)' /\ Idling(w)'
    BY <1>1, <1>2, <1>4, <2>2 DEF Ordered, Shown, Idling
  <2> QED
    BY <1>1, <1>4, <2>3, <2>4, <2>5 DEF Ordered
<1> QED
  BY <1>6, <1>7

\* A step of the worker that begins and ends between two runs.
LEMMA QuietLemma ==
  ASSUME NEW w \in Workers, Alone(w), pc[w] \in Quiet, pc'[w] \in Quiet,
         UNCHANGED <<db, mem, own, out, sent, rpc, ref, left>>, sent # 0,
         told' = {} => live' # {} /\ input',
         told' # {} => told' = {Shared.status} /\ Ended(Shared),
         pc'[w] # "install", pc'[w] \notin {"idle", "refresh"} => Ended(Shared),
         pc'[w] = "deliver" => own[w] = Entry,
         pc'[w] \in {"rmInput", "clear", "ack"} => told' # {}
  PROVE  Ordered(w)'
<1> USE DEF Alone, Ordered
<1>1. Shared' = Shared /\ Handlers'
  BY DEF Shared, Handlers
<1>2. Creation(w)'
  BY <1>1 DEF Creation
<1>3. Shown(w)'
  BY <1>1 DEF Shown
<1>4. Idling(w)'
  BY <1>1 DEF Idling
<1>5. Working(w)' /\ Ending(w)'
  BY DEF Working, Ending, Quiet, Active
<1> QED
  BY <1>1, <1>2, <1>3, <1>4, <1>5

LEMMA QuietOrdered ==
  ASSUME NEW w \in Workers, Alone(w),
         (\E m \in live : Claim(w, m)) \/ Deliver(w) \/ DeleteInput(w) \/ ClearCancelled(w) \/ Ack(w)
  PROVE  Ordered(w)'
<1> USE DEF Alone
<1>1. /\ pc[w] \in {"idle", "deliver", "rmInput", "clear", "ack"} /\ pc[w] \in Quiet
      /\ UNCHANGED <<db, mem, own, out, sent, rpc, ref, left>>
  BY DEF Claim, Deliver, DeleteInput, ClearCancelled, Ack, Ready, Quiet, storeVars, queueVars, apiVars
<1>2. sent # 0 /\ Shared # Nil /\ (told = {} => live # {} /\ input)
  BY DEF Claim, Deliver, DeleteInput, ClearCancelled, Ack, Ready, Ordered, Creation
<1>3. /\ told # {} => told = {Shared.status} /\ Ended(Shared)
      /\ pc[w] \notin {"idle", "refresh", "install"} => Ended(Shared)
      /\ pc[w] = "deliver" => Cur(w) = Shared
      /\ pc[w] \in {"rmInput", "clear", "ack"} => told # {}
  BY <1>1, OneProcess DEF Ordered, Shown, Idling
<1>4. CASE \E m \in live : Claim(w, m)
  <2>1. pc'[w] = "refresh" /\ UNCHANGED <<live, input, told>>
    BY <1>4 DEF Claim, Go, TypeInv, TypeOK, WorkType, sideVars
  <2> QED
    BY <1>1, <1>2, <1>3, <2>1, QuietLemma DEF Quiet
<1>5. CASE Deliver(w)
  <2>1. pc[w] = "deliver" /\ pc'[w] = "rmInput" /\ told' = told \cup {Shared.status}
    BY <1>3, <1>5 DEF Deliver, Ready, Go, TypeInv, TypeOK, WorkType
  <2>2. told' = {Shared.status} /\ Ended(Shared) /\ told' # {}
    BY <1>3, <2>1
  <2> QED
    BY <1>1, <1>2, <2>1, <2>2, QuietLemma DEF Quiet
<1>6. CASE DeleteInput(w) \/ ClearCancelled(w) \/ Ack(w)
  <2>1. /\ pc[w] \in {"rmInput", "clear", "ack"} /\ pc'[w] \in {"clear", "ack", "idle"}
        /\ told' = told
    BY <1>6 DEF DeleteInput, ClearCancelled, Ack, Ready, Go, TypeInv, TypeOK, WorkType, sideVars
  <2> QED
    BY <1>1, <1>2, <1>3, <2>1, QuietLemma DEF Quiet
<1> QED
  BY <1>4, <1>5, <1>6

LEMMA ReadOrdered ==
  ASSUME NEW w \in Workers, Alone(w), ReadJob(w) PROVE Ordered(w)'
<1> USE DEF Alone
<1>1. pc[w] = "refresh" /\ pc[w] \in Quiet /\ ~Spend("read")
  BY DEF ReadJob, Ready, Quiet, Ordered, Handlers, Barred, Spend
<1>2. sent # 0 /\ Shared \in Job /\ db \in Job
  <2>1. sent # 0 /\ Shared # Nil /\ Shared \in Job
    BY <1>1, OneProcess DEF Ordered, Creation, Maybe
  <2>2. db = Row(Shared, FALSE)
    BY <1>1, <2>1 DEF Ordered, Idling, Stored
  <2> QED
    BY <2>1, <2>2, StoredJob
<1>3. /\ own'[w] = db /\ pc'[w] = "install"
      /\ UNCHANGED <<db, mem, sent, live, input, told, out, loc, rpc, ref, left>>
  BY <1>1 DEF ReadJob, Go, TypeInv, TypeOK, StoreType, WorkType, queueVars, sideVars, apiVars
<1>4. Shared' = Shared /\ Handlers' /\ Creation(w)'
  BY <1>2, <1>3 DEF Ordered, Handlers, Creation, Shared
<1>5. Shown(w)' /\ Idling(w)'
  BY <1>1, <1>2, <1>3, <1>4 DEF Ordered, Shown, Idling, Quiet, Copied
<1>6. Working(w)' /\ Ending(w)'
  BY <1>3 DEF Working, Ending, Active
<1> QED
  BY <1>3, <1>4, <1>5, <1>6 DEF Ordered, Quiet

\* What a worker installs is the row, or a queued job of before the cancellation.
LEMMA Installed ==
  ASSUME NEW w \in Workers, Alone(w), InstallJob(w)
  PROVE  LET j == own[w]
         IN  /\ pc[w] = "install" /\ sent # 0 /\ j \in Job /\ j # Nil /\ Shared \in Job
             /\ ~j.pause /\ j.status # "paused" /\ Exact(j) /\ out[w] = Nil /\ Exact(db)
             /\ \/ /\ j = db /\ Stored(j) = j /\ j.status = Shared.status /\ j.cancel = Shared.cancel
                   /\ j.status \in Terminal \/ (j.status = "queued" /\ ~j.cancel /\ Fresh(j))
                   /\ told # {} => Ended(j) /\ told = {j.status}
                \/ told = {} /\ Is(Shared, "cancelled") /\ j.status = "queued" /\ ~j.cancel /\ Fresh(j)
             /\ Shared' = j /\ own'[w] = Entry /\ pc'[w] = Route(j)
             /\ UNCHANGED <<db, sent, live, told, input, out, rpc, left>>
<1> USE DEF Alone
<1> DEFINE j == own[w]
<1>1. pc[w] = "install" /\ pc[w] \in Quiet
  BY DEF InstallJob, Ready, Quiet
<1>2. sent # 0 /\ Shared \in Job
  BY <1>1, OneProcess DEF Ordered, Creation, Maybe
<1>3. j \in Job /\ Copied(j) /\ j # Nil /\ j # Entry /\ out[w] = Nil /\ Exact(db)
  BY <1>1, NamesAssumption DEF Ordered, Idling, Shown
<1>4. /\ db = Row(Shared, FALSE)
      /\ Shared.status \in Terminal \/ (Shared.status = "queued" /\ ~Shared.cancel /\ Fresh(Shared))
      /\ ~Shared.pause /\ Shared.status # "paused"
      /\ told # {} => Ended(Shared) /\ told = {Shared.status}
  BY <1>1, <1>2, NamesAssumption DEF Ordered, Idling, Shown, Stored
<1> DEFINE Same  == /\ j = db /\ Stored(j) = j /\ j.status = Shared.status /\ j.cancel = Shared.cancel
                    /\ j.status \in Terminal \/ (j.status = "queued" /\ ~j.cancel /\ Fresh(j))
                    /\ told # {} => Ended(j) /\ told = {j.status}
           Stale == told = {} /\ Is(Shared, "cancelled") /\ j.status = "queued" /\ ~j.cancel /\ Fresh(j)
<1>5. ASSUME j = db PROVE Same
  <2>1. /\ db.status = Shared.status /\ db.cancel = Shared.cancel /\ (db.pause => Shared.pause)
        /\ (Fresh(Shared) => Fresh(db)) /\ Row(db, FALSE) = db
    BY ONLY <1>2, <1>4, StoredJob
  <2>2. Stored(db) = db
    BY ONLY <2>1 DEF Stored
  <2>3. Same
    BY ONLY <1>2, <1>3, <1>4, <1>5, <2>1, <2>2 DEF Ended
  <2> QED
    BY ONLY <2>3
<1>6. ASSUME j # db PROVE Stale
  <2>1. told = {} /\ Is(Shared, "cancelled") /\ j.status = "queued" /\ ~j.cancel /\ ~j.pause /\ Fresh(j)
    BY <1>3, <1>6 DEF Copied
  <2> QED
    BY <2>1
<1>7. Cur(w) = j
  BY <1>3, OneProcess
<1>8. /\ Shared' = j /\ own'[w] = Entry /\ pc'[w] = Route(j)
      /\ UNCHANGED <<db, sent, live, told, input, out, rpc, left>>
  BY <1>3, <1>7, OneProcess
  DEF InstallJob, Reload, Go, TypeInv, TypeOK, StoreType, WorkType, queueVars, sideVars, Shared
<1>9. ~j.pause /\ j.status # "paused" /\ Exact(j)
  <2>1. ~db.pause /\ db.status # "paused"
    BY ONLY <1>2, <1>4, StoredJob
  <2> QED
    BY <1>3, <2>1 DEF Copied, Exact, Is
<1>10. Same \/ Stale
  BY <1>5, <1>6
<1> QED
  BY <1>1, <1>2, <1>3, <1>8, <1>9, <1>10

LEMMA InstallOrdered ==
  ASSUME NEW w \in Workers, Alone(w), InstallJob(w) PROVE Ordered(w)'
<1> USE DEF Alone
<1> DEFINE j == own[w]
<1>1. /\ pc[w] = "install" /\ sent # 0 /\ j \in Job /\ j # Nil
      /\ ~j.pause /\ j.status # "paused" /\ Exact(j) /\ out[w] = Nil /\ Exact(db)
      /\ \/ /\ j = db /\ Stored(j) = j
            /\ j.status \in Terminal \/ (j.status = "queued" /\ ~j.cancel /\ Fresh(j))
            /\ told # {} => Ended(j) /\ told = {j.status}
         \/ told = {} /\ j.status = "queued" /\ ~j.cancel /\ Fresh(j)
      /\ Shared' = j /\ own'[w] = Entry /\ pc'[w] = Route(j)
      /\ UNCHANGED <<db, sent, live, told, input, out, rpc, left>>
  BY Installed
<1>2. rpc["create"] = "done" /\ (told = {} => live # {} /\ input)
  BY <1>1 DEF Ordered, Creation
<1>3. Handlers' /\ Creation(w)'
  BY <1>1, <1>2 DEF Ordered, Handlers, Creation
<1> HIDE DEF j
<1>4. CASE j.status \in Terminal
  <2>1. Route(j) = "deliver" /\ j = db /\ Stored(j) = j /\ j.status # "running"
    BY <1>1, <1>4 DEF Route, Terminal
  <2>2. Shown(w)' /\ Idling(w)'
    BY <1>1, <1>4, <2>1 DEF Shown, Idling, Ended, Quiet
  <2>3. Working(w)' /\ Ending(w)'
    BY <1>1, <2>1 DEF Working, Ending, Active
  <2> QED
    BY <1>1, <1>3, <2>1, <2>2, <2>3 DEF Ordered, Quiet
<1>5. CASE j.status \notin Terminal
  <2>1. /\ j.status = "queued" /\ ~j.cancel /\ Fresh(j) /\ Route(j) = "entry"
        /\ told = {}
    BY <1>1, <1>5 DEF Route, Ended, Terminal
  <2>2. Steady(j)
    BY <2>1, BoundsAssumption DEF Steady, Fresh, UpTo
  <2>3. Working(w)' /\ Ending(w)'
    BY <1>1, <2>1, <2>2 DEF Working, Ending, Active, Going
  <2>4. Shown(w)' /\ Idling(w)'
    BY <1>1, <2>1 DEF Shown, Idling, Quiet
  <2> QED
    BY <1>1, <1>3, <2>1, <2>3, <2>4 DEF Ordered, Active
<1> QED
  BY <1>4, <1>5

LEMMA FinishOrdered ==
  ASSUME NEW w \in Workers, Alone(w), Finish(w) PROVE Ordered(w)'
<1> USE DEF Alone
<1>1. /\ pc[w] = "final" /\ out[w] = Nil
      /\ UNCHANGED <<db, mem, own, out, loc, sent, live, input, told, rpc, ref, left>>
  BY DEF Finish, Ready, storeVars, queueVars, sideVars, apiVars
<1>2. own[w] = Entry /\ Ended(Shared) /\ db = Stored(Shared) /\ told = {}
  BY <1>1 DEF Ordered, Ending, Shown, Quiet
<1>3. pc'[w] = "deliver" /\ Shared' = Shared
  BY <1>1, <1>2, OneProcess DEF Finish, Go, Ended, Terminal, TypeInv, TypeOK, WorkType, Shared
<1>4. Handlers' /\ Creation(w)'
  BY <1>1, <1>3 DEF Ordered, Handlers, Creation
<1>5. Shown(w)' /\ Idling(w)'
  BY <1>1, <1>2, <1>3 DEF Ordered, Shown, Idling, Ended
<1>6. Working(w)' /\ Ending(w)'
  BY <1>3 DEF Working, Ending, Active
<1> QED
  BY <1>3, <1>4, <1>5, <1>6 DEF Ordered, Quiet

-----------------------------------------------------------------------------
(* The API's handlers, and the leases.                                     *)

\* A step that concerns neither the job nor the worker.
LEMMA AsideLemma ==
  ASSUME NEW w \in Workers, Alone(w), UNCHANGED <<db, mem, own, pc, out, loc, told>>,
         Handlers', Creation(w)'
  PROVE  Ordered(w)'
<1> USE DEF Alone, Ordered
<1>1. Shared' = Shared
  BY DEF Shared
<1> QED
  BY <1>1 DEF Shown, Idling, Copied, Working, Ending

\* A step of a handler: it moves the handler and may spend what is not barred.
LEMMA HandlerLemma ==
  ASSUME NEW w \in Workers, Alone(w), NEW r \in Requests, NEW p \in HandlerLocations, ApiGo(r, p),
         r \in {"create", "cancel"}, p # "restore",
         r = "cancel" => p \in {"idle", "apply", "mark", "marked", "audit"},
         \A k \in Barred : left'[k] = 0
  PROVE  /\ Handlers'
         /\ rpc'[r] = p /\ \A q \in Requests : q # r => rpc'[q] = rpc[q]
<1>1. rpc'[r] = p /\ \A q \in Requests : q # r => rpc'[q] = rpc[q]
  BY DEF Alone, TypeInv, TypeOK, ApiType, ApiGo
<1>2. {"create", "cancel", "pause", "resume"} = Requests
  BY DEF Requests
<1> QED
  BY <1>1, <1>2 DEF Alone, Ordered, Handlers

\* Before anything is sent the worker is idle, and the creation may change the
\* job as it likes as long as the row follows.
LEMMA UnsentLemma ==
  ASSUME NEW w \in Workers, Alone(w), sent = 0, UNCHANGED <<queueVars, told, pc, out, loc>>,
         Handlers', db' = Stored(Shared'),
         Shared' # Nil => /\ Shared' \in Job /\ ~Shared'.pause
                          /\ \/ Shared'.status = "cancelled"
                             \/ Shared'.status = "queued" /\ ~Shared'.cancel /\ Fresh(Shared'),
         rpc'["create"] \in {"idle", "done"} <=> Shared' = Nil,
         rpc'["create"] \in {"stage", "configure"} => ref'["create"] = Entry,
         rpc'["create"] \in {"configure", "audit", "enqueue"} => input'
  PROVE  Ordered(w)'
<1> USE DEF Alone
<1>1. pc[w] = "idle" /\ live = {} /\ told = {} /\ out[w] = Nil
  BY DEF Ordered, Creation, Idling, Quiet
<1>2. Creation(w)'
  BY <1>1 DEF Creation, queueVars
<1>3. Idling(w)' /\ Working(w)' /\ Ending(w)'
  BY <1>1 DEF Idling, Working, Ending, Quiet, Active, Terminal
<1>4. Exact(Shared') /\ Exact(db')
  BY StoredJob, NamesAssumption DEF Exact, Is, Stored
<1>5. Shown(w)'
  BY <1>1, <1>4 DEF Shown
<1> QED
  BY <1>1, <1>2, <1>3, <1>5 DEF Ordered, Quiet

\* What is known of the job before anything is sent.
LEMMA Unsent ==
  ASSUME NEW w \in Workers, Alone(w), rpc["create"] # "done"
  PROVE  /\ sent = 0 /\ db = Stored(Shared) /\ told = {} /\ live = {}
         /\ pc[w] = "idle" /\ out[w] = Nil
         /\ rpc["create"] = "idle" <=> Shared = Nil
         /\ Shared # Nil => /\ Shared \in Job /\ ~Shared.pause
                            /\ \/ Shared.status = "cancelled"
                               \/ Shared.status = "queued" /\ ~Shared.cancel /\ Fresh(Shared)
<1> USE DEF Alone
<1>1. sent = 0 /\ told = {} /\ live = {} /\ pc[w] = "idle" /\ (rpc["create"] = "idle" <=> Shared = Nil)
  BY DEF Ordered, Creation
<1>2. db = Stored(Shared) /\ out[w] = Nil
  BY <1>1 DEF Ordered, Idling, Quiet
<1>3. ASSUME Shared # Nil
      PROVE  /\ Shared \in Job /\ ~Shared.pause
             /\ \/ Shared.status = "cancelled"
                \/ Shared.status = "queued" /\ ~Shared.cancel /\ Fresh(Shared)
  <2>1. Shared.status \in {"queued", "cancelled"} /\ ~Shared.pause
    BY <1>1, <1>3 DEF Ordered, Creation, Shown
  <2>2. Shared.status \in Terminal \/ (Shared.status = "queued" /\ ~Shared.cancel /\ Fresh(Shared))
    BY <1>1, <1>3 DEF Ordered, Idling, Quiet
  <2> QED
    BY <1>3, <2>1, <2>2, OneProcess DEF Maybe, Terminal
<1> QED
  BY <1>1, <1>2, <1>3

LEMMA CreateOrdered ==
  ASSUME NEW w \in Workers, Alone(w), CreateStep PROVE Ordered(w)'
<1> USE DEF Alone
<1>1. "create" \in Requests /\ "stage" \in Kinds /\ "send" \in Kinds
      /\ {"stage", "configure", "audit", "enqueue", "unstage", "remove", "done"} \subseteq HandlerLocations
  BY DEF Requests, Kinds, HandlerLocations
<1>2. rpc["create"] # "done" /\ ~Spend("audit")
  <2>1. rpc["create"] \in {"idle", "stage", "configure", "audit", "enqueue", "unstage", "remove"}
    BY DEF CreateStep, Create, StageInput, ConfigureTask, AuditCreate, EnqueueCreated, UnstageInput,
           RemoveJob, At
  <2>2. ~Spend("audit")
    BY DEF Ordered, Handlers, Barred, Spend
  <2> QED
    BY <2>1, <2>2
<1>3. \A k \in Barred : left'[k] = 0
  <2>1. left' = left \/ Spend("stage") \/ Spend("send")
    BY <1>2 DEF CreateStep, Create, StageInput, ConfigureTask, AuditCreate, EnqueueCreated,
                UnstageInput, RemoveJob
  <2> QED
    BY <1>1, <2>1, BarredStay DEF Ordered, Handlers
<1>4. ASSUME NEW p \in {"stage", "configure", "audit", "enqueue", "unstage", "remove", "done"},
             ApiGo("create", p)
      PROVE  Handlers' /\ rpc'["create"] = p
  BY <1>1, <1>3, <1>4, HandlerLemma
<1>5. CASE Create
  <2>1. /\ Shared' = NewJob /\ db' = Row(NewJob, FALSE) /\ ref'["create"] = Entry
        /\ UNCHANGED <<queueVars, told, pc, out, loc>>
    BY <1>5, Homes DEF Create, TypeInv, TypeOK, StoreType, ApiType, Requests, Shared, sideVars, workVars
  <2>2. NewJob \in Job /\ NewJob # Nil /\ ~NewJob.pause /\ NewJob.status = "queued"
        /\ ~NewJob.cancel /\ Fresh(NewJob)
    BY NewJobType, NamesAssumption DEF NewJob, Fresh
  <2>3. Handlers' /\ rpc'["create"] = "stage"
    BY <1>4, <1>5 DEF Create
  <2> QED
    BY <1>2, <2>1, <2>2, <2>3, Unsent, UnsentLemma DEF Stored
<1>6. CASE StageInput \/ AuditCreate \/ UnstageInput
  <2>1. /\ UNCHANGED <<storeVars, queueVars, told, pc, out, loc, ref>>
        /\ \/ rpc["create"] = "stage" /\ ApiGo("create", "configure") /\ input'
           \/ rpc["create"] = "stage" /\ ApiGo("create", "remove")
           \/ rpc["create"] = "audit" /\ ApiGo("create", "enqueue") /\ input' = input
           \/ rpc["create"] = "unstage" /\ ApiGo("create", "remove")
    BY <1>2, <1>6 DEF StageInput, AuditCreate, UnstageInput, At, sideVars, workVars
  <2>2. /\ Handlers' /\ rpc'["create"] \in {"configure", "enqueue", "remove"}
        /\ rpc["create"] # "idle"
        /\ rpc'["create"] = "configure" => rpc["create"] = "stage"
        /\ rpc'["create"] \in {"configure", "enqueue"} => input'
    BY <1>4, <2>1 DEF Ordered, Creation
  <2>3. Shared' = Shared /\ db' = db
    BY <2>1 DEF storeVars, Shared
  <2>4. rpc'["create"] \in {"stage", "configure"} => ref'["create"] = Entry
    BY <2>1, <2>2 DEF Ordered, Creation
  <2> QED
    BY <2>1, <2>2, <2>3, <2>4, <1>2, Unsent, UnsentLemma
<1>7. CASE ConfigureTask
  <2> DEFINE j == [Shared EXCEPT !.payload = TRUE]
  <2>1. rpc["create"] = "configure" /\ ref["create"] = Entry /\ input /\ Shared # Nil
    BY <1>7 DEF ConfigureTask, At, Ordered, Creation
  <2>2. Shared \in Job /\ Deref("create") = Shared
    BY <2>1, OneProcess DEF Maybe, Deref, Shared
  <2>3. j \in Job /\ j.pause = Shared.pause /\ j.status = Shared.status /\ j.cancel = Shared.cancel
        /\ (Fresh(Shared) => Fresh(j)) /\ j # Nil
    <3>1. j \in Job
      BY <2>2, JobUpdates
    <3>2. /\ j.pause = Shared.pause /\ j.status = Shared.status /\ j.cancel = Shared.cancel
          /\ (Fresh(Shared) => Fresh(j))
      BY <2>2 DEF Job, Fresh
    <3> QED
      BY <3>1, <3>2, NamesAssumption
  <2>4. /\ ApiPersist("create", j, FALSE) /\ UNCHANGED <<queueVars, told, input, pc, out, loc>>
        /\ ApiGo("create", "audit")
    BY <1>7, <2>2 DEF ConfigureTask, sideVars, workVars
  <2> HIDE DEF j
  <2>5. Shared' = j /\ db' = Row(j, FALSE)
    BY <2>1, <2>3, <2>4, Homes DEF ApiPersist, TypeInv, TypeOK, StoreType, Shared
  <2>6. Handlers' /\ rpc'["create"] = "audit"
    BY <1>4, <2>4
  <2> QED
    BY <1>2, <2>1, <2>3, <2>4, <2>5, <2>6, Unsent, UnsentLemma DEF Stored
<1>8. CASE RemoveJob
  <2>1. rpc["create"] = "remove" /\ Shared # Nil
    BY <1>8 DEF RemoveJob, At, Ordered, Creation
  <2>2. Shared' = Nil /\ db' = Nil /\ UNCHANGED <<queueVars, told, input, pc, out, loc>>
    BY <1>8, <2>1, Homes DEF RemoveJob, TypeInv, TypeOK, StoreType, Shared, sideVars, workVars
  <2>3. Handlers' /\ rpc'["create"] = "done"
    BY <1>4, <1>8 DEF RemoveJob
  <2> QED
    BY <1>2, <2>2, <2>3, Unsent, UnsentLemma DEF Stored
<1>9. CASE EnqueueCreated
  <2>1. /\ rpc["create"] = "enqueue" /\ input /\ Shared # Nil
        /\ UNCHANGED <<storeVars, sideVars, workVars, ref>>
    BY <1>9 DEF EnqueueCreated, At, Ordered, Creation
  <2>2. UNCHANGED <<db, mem, own, pc, out, loc, told, input>> /\ Shared' = Shared
    BY <2>1 DEF storeVars, sideVars, workVars, Shared
  <2>3. CASE Enqueue /\ ApiGo("create", "done")
    <3>1. Handlers' /\ rpc'["create"] = "done"
      BY <1>4, <2>3
    <3>2. sent' = 1 /\ live' # {}
      BY <1>2, <2>3, Unsent DEF Enqueue
    <3>3. Creation(w)'
      BY <2>1, <2>2, <3>1, <3>2 DEF Creation
    <3> QED
      BY <2>2, <3>1, <3>3, AsideLemma
  <2>4. CASE ApiGo("create", "unstage") /\ UNCHANGED queueVars
    <3>1. Handlers' /\ rpc'["create"] = "unstage"
      BY <1>4, <2>4
    <3> QED
      BY <1>2, <2>1, <2>2, <2>4, <3>1, Unsent, UnsentLemma
  <2> QED
    BY <1>9, <2>3, <2>4 DEF EnqueueCreated
<1> QED
  BY <1>5, <1>6, <1>7, <1>8, <1>9 DEF CreateStep

\* A step of the cancel handler that leaves the job as it is.
LEMMA RequestAside ==
  ASSUME NEW w \in Workers, Alone(w),
         UNCHANGED <<storeVars, sent, live, sideVars, pc, out, loc>>, ref'["create"] = ref["create"],
         NEW p \in {"idle", "apply", "mark", "marked", "audit"}, ApiGo("cancel", p),
         \A k \in Barred : left'[k] = 0
  PROVE  Ordered(w)'
<1>1. {"create", "cancel"} \subseteq Requests /\ p \in HandlerLocations
  BY DEF Requests, HandlerLocations
<1>2. Handlers' /\ rpc'["create"] = rpc["create"]
  BY <1>1, HandlerLemma
<1>3. Shared' = Shared /\ UNCHANGED <<db, mem, own, input, told>>
  BY DEF Shared, storeVars, sideVars
<1>4. Creation(w)'
  BY <1>2, <1>3 DEF Alone, Ordered, Creation
<1> QED
  BY <1>2, <1>3, <1>4, AsideLemma

\* Only a cancellation is ever under way, and it is never undone.
LEMMA OnlyCancel ==
  ASSUME NEW w \in Workers, Alone(w), NEW r \in Requests
  PROVE  /\ ~RestoreJob(r) /\ ~UnmarkCancelled /\ ~EnqueueResumed /\ ~RemoveResumed
         /\ ~Spend("audit") /\ ~Spend("crash") /\ ~Release(w) /\ ~ApiRead(r)
         /\ ApiRefresh(r) \/ Reject(r) \/ ApplyRequest(r) \/ AuditRequest(r) => r = "cancel"
<1>1. /\ left["pause"] = 0 /\ left["resume"] = 0 /\ left["audit"] = 0 /\ left["crash"] = 0
      /\ rpc["pause"] = "idle" /\ rpc["resume"] = "idle" /\ rpc["create"] # "restore"
      /\ rpc["cancel"] \in {"idle", "apply", "mark", "marked", "audit"}
  BY DEF Alone, Ordered, Handlers, Barred
<1>2. r \in {"create", "cancel", "pause", "resume"}
  BY DEF Requests
<1>3. pc[w] # "release"
  BY DEF Alone, Ordered, Quiet, Active
<1>4. ~RestoreJob(r) /\ ~UnmarkCancelled /\ ~EnqueueResumed /\ ~RemoveResumed
  BY <1>1, <1>2 DEF RestoreJob, UnmarkCancelled, EnqueueResumed, RemoveResumed, At
<1>5. ~Spend("audit") /\ ~Spend("crash") /\ ~Release(w) /\ ~ApiRead(r)
  BY <1>1, <1>3 DEF Spend, Release, Ready, ApiRead, Alone, Ordinary
<1>6. ApiRefresh(r) \/ Reject(r) \/ ApplyRequest(r) \/ AuditRequest(r) => r = "cancel"
  BY <1>1, <1>2 DEF ApiRefresh, Reject, ApplyRequest, AuditRequest, At
<1> QED
  BY <1>4, <1>5, <1>6

\* The cancellation of a job that has not ended ends it, in a run or before one.
LEMMA CancelApplied ==
  ASSUME NEW w \in Workers, Alone(w), ApplyRequest("cancel")
  PROVE  /\ Shared \in Job
         /\ IF Shared.status \in Terminal
            THEN UNCHANGED <<mem, db>>
            ELSE /\ Shared' = [Shared EXCEPT !.cancel = TRUE, !.pause = FALSE, !.status = "cancelled"]
                 /\ db' = Row(Shared', FALSE)
<1> USE DEF Alone
<1>1. Shared \in Job
  BY OneProcess DEF ApplyRequest, Rejected, Shared, Maybe
<1>2. CASE Shared.status \in Terminal
  <2>1. Applied("cancel", Shared) = Shared
    BY <1>2 DEF Applied
  <2> QED
    BY <1>1, <1>2, <2>1, Homes DEF ApplyRequest, Shared, TypeInv, TypeOK, StoreType
<1>3. CASE Shared.status \notin Terminal
  <2> DEFINE k == [Shared EXCEPT !.cancel = TRUE, !.pause = FALSE, !.status = "cancelled"]
  <2>1. Applied("cancel", Shared) = k
    BY <1>3 DEF Applied
  <2>2. k # Shared
    <3>1. k.status = "cancelled" /\ "cancelled" \in Terminal
      BY <1>1 DEF Job, Terminal
    <3> QED
      BY <1>3, <3>1
  <2> HIDE DEF k
  <2>3. Shared' = k /\ db' = Row(k, FALSE)
    BY <2>1, <2>2, Homes DEF ApplyRequest, Shared, TypeInv, TypeOK, StoreType
  <2> QED
    BY <1>1, <1>3, <2>3 DEF k
<1> QED
  BY <1>2, <1>3

LEMMA ApplyOrdered ==
  ASSUME NEW w \in Workers, Alone(w), ApplyRequest("cancel") PROVE Ordered(w)'
<1> USE DEF Alone
<1>1. /\ ApiGo("cancel", "mark") /\ ref'["create"] = ref["create"]
      /\ UNCHANGED <<own, sent, live, sideVars, pc, out, loc, left, input, told>>
  BY DEF ApplyRequest, AfterApply, TypeInv, TypeOK, ApiType, Requests, queueVars, workVars, sideVars
<1>2. \A k \in Barred : left'[k] = 0
  BY <1>1 DEF Ordered, Handlers
<1>3. CASE Shared.status \in Terminal
  <2>1. UNCHANGED storeVars
    BY <1>1, <1>3, CancelApplied DEF storeVars
  <2> QED
    BY <1>1, <1>2, <2>1, RequestAside
<1>4. CASE Shared.status \notin Terminal
  <2>1. Shared \in Job /\ db' = Row(Shared', FALSE)
        /\ Shared' = [Shared EXCEPT !.cancel = TRUE, !.pause = FALSE, !.status = "cancelled"]
    BY <1>4, CancelApplied
  <2>2. /\ Shared' \in Job /\ Shared'.status = "cancelled" /\ ~Shared'.pause
        /\ Steady(Shared) => Steady(Shared')
    BY <2>1 DEF Job, Status, Steady
  <2>3. /\ Shared' # Nil /\ db' = Stored(Shared') /\ db'.status = "cancelled"
        /\ Exact(Shared') /\ Exact(db') /\ Ended(Shared')
    BY <2>1, <2>2, StoredJob, NamesAssumption DEF Stored, Exact, Is, Ended, Terminal
  <2>4. Handlers' /\ rpc'["create"] = rpc["create"]
    <3>1. {"create", "cancel"} \subseteq Requests /\ "mark" \in HandlerLocations
      BY DEF Requests, HandlerLocations
    <3> QED
      BY <1>1, <1>2, <3>1, HandlerLemma
  <2>5. told = {} /\ pc[w] \notin {"archive", "final"} /\ Shared # Nil
    BY <1>4, <2>1, NamesAssumption DEF Ordered, Shown, Ending, Ended, Is, Terminal
  <2>6. Creation(w)'
    BY <1>1, <2>2, <2>3, <2>4, <2>5 DEF Ordered, Creation
  <2>7. Shown(w)'
    BY <1>1, <2>2, <2>3, <2>5 DEF Shown
  <2>8. Idling(w)'
    <3>1. pc[w] = "install" => own[w] \in Job /\ Copied(own[w])'
      <4>1. ASSUME pc[w] = "install", own[w] = db
            PROVE  own[w].status = "queued" /\ ~own[w].cancel /\ ~own[w].pause /\ Fresh(own[w])
        <5>1. /\ db = Row(Shared, FALSE) /\ Shared.status = "queued" /\ ~Shared.cancel
              /\ ~Shared.pause /\ Fresh(Shared)
          BY <1>4, <2>5, <4>1 DEF Ordered, Idling, Shown, Quiet, Stored
        <5>2. db.status = "queued" /\ ~db.cancel /\ ~db.pause /\ Fresh(db)
          BY <2>1, <5>1, StoredJob
        <5> QED
          BY <4>1, <5>2
      <4>2. pc[w] = "install" => own[w] \in Job /\ Copied(own[w])
        BY DEF Ordered, Idling, Quiet
      <4> QED
        BY <1>1, <2>2, <2>3, <2>5, <4>1, <4>2 DEF Copied, Is
    <3> QED
      BY <1>1, <1>4, <2>2, <2>3, <2>5, <3>1 DEF Ordered, Idling, Ended, Terminal
  <2>9. Working(w)' /\ Ending(w)'
    BY <1>1, <2>2, <2>3, <2>5 DEF Ordered, Working, Ending, Going
  <2> QED
    BY <1>1, <2>4, <2>6, <2>7, <2>8, <2>9 DEF Ordered
<1> QED
  BY <1>3, <1>4

LEMMA RequestOrdered ==
  ASSUME NEW w \in Workers, Alone(w), NEW r \in Requests, RequestStep(r) \/ HandlerStep
  PROVE  Ordered(w)'
<1> USE DEF Alone
<1>1. CASE ApiRefresh(r)
  <2>1. r = "cancel" /\ InProcess
    BY <1>1, OnlyCancel DEF Ordinary
  <2>2. /\ UNCHANGED <<mem, ref>> /\ left' = [left EXCEPT !["cancel"] = @ - 1]
        /\ ApiGo("cancel", "apply") /\ UNCHANGED <<storeVars, sent, live, sideVars, pc, out, loc>>
    BY <1>1, <2>1 DEF ApiRefresh, storeVars, queueVars, workVars
  <2>3. \A k \in Barred : left'[k] = 0
    BY <2>2 DEF Ordered, Handlers, Barred, TypeInv, TypeOK
  <2> QED
    BY <2>2, <2>3, RequestAside
<1>2. CASE Reject(r) \/ AuditRequest(r)
  <2>1. r = "cancel" /\ ~Spend("audit")
    BY <1>2, OnlyCancel
  <2>2. ApiGo("cancel", "idle") /\ UNCHANGED <<storeVars, sent, live, sideVars, pc, out, loc, ref, left>>
    BY <1>2, <2>1 DEF Reject, AuditRequest, queueVars, workVars
  <2>3. \A k \in Barred : left'[k] = 0
    BY <2>2 DEF Ordered, Handlers
  <2> QED
    BY <2>2, <2>3, RequestAside
<1>3. CASE ApplyRequest(r)
  BY <1>3, OnlyCancel, ApplyOrdered
<1>4. CASE MarkCancelled
  <2>1. /\ ApiGo("cancel", "marked") \/ ApiGo("cancel", "audit")
        /\ ref'["create"] = ref["create"]
        /\ UNCHANGED <<storeVars, sent, live, sideVars, pc, out, loc, left>>
    BY <1>4 DEF MarkCancelled, TypeInv, TypeOK, ApiType, Requests, workVars
  <2>2. \A k \in Barred : left'[k] = 0
    BY <2>1 DEF Ordered, Handlers
  <2> QED
    BY <2>1, <2>2, RequestAside
<1> QED
  BY <1>1, <1>2, <1>3, <1>4, OnlyCancel DEF RequestStep, HandlerStep

LEMMA LeaseOrdered ==
  ASSUME NEW w \in Workers, Alone(w),
         (\E m \in leased : LeaseExpires(m)) \/ (\E m \in 1..sent : Reappear(m))
  PROVE  Ordered(w)'
<1> USE DEF Alone
<1>1. "stall" \in Kinds
  BY DEF Kinds
<1>2. \A k \in Barred : left'[k] = 0
  <2>1. UNCHANGED left \/ Spend("stall")
    BY DEF LeaseExpires, Reappear
  <2> QED
    BY <1>1, <2>1, BarredStay DEF Ordered, Handlers
<1>3. /\ UNCHANGED <<db, mem, own, pc, out, loc, told, sent, input, rpc, ref>>
      /\ live' = live \/ (sent # 0 /\ live' # {})
  <2>1. ASSUME NEW m \in leased, LeaseExpires(m)
        PROVE  UNCHANGED <<db, mem, own, pc, out, loc, told, sent, input, rpc, ref, live>>
    BY <2>1 DEF LeaseExpires, storeVars, sideVars, workVars, apiVars
  <2>2. ASSUME NEW m \in 1..sent, Reappear(m)
        PROVE  /\ UNCHANGED <<db, mem, own, pc, out, loc, told, sent, input, rpc, ref>>
               /\ sent # 0 /\ live' # {}
    BY <2>2 DEF Reappear, storeVars, sideVars, workVars, apiVars, TypeInv, TypeOK, QueueType
  <2> QED
    BY <2>1, <2>2
<1>4. Handlers' /\ Shared' = Shared
  BY <1>2, <1>3 DEF Ordered, Handlers, Shared
<1>5. Creation(w)'
  BY <1>3, <1>4 DEF Ordered, Creation
<1> QED
  BY <1>3, <1>4, <1>5, AsideLemma

-----------------------------------------------------------------------------
LEMMA OrderedInit == ASSUME NEW w \in Workers, Ordinary PROVE Init => Ordered(w)
BY NamesAssumption, Homes
DEF Init, Ordinary, Ordered, Handlers, Creation, Shown, Idling, Working, Ending, Shared, Stored,
    Exact, Is, Quiet, Active, Barred, Requests, Kinds

LEMMA OrderedNext == ASSUME NEW w \in Workers, Alone(w), [Next]_vars PROVE Ordered(w)'
<1>1. CASE WorkerStep(w)
  <2>1. CASE RunStep(w)
    <3>1. {"cancel1", "pause1", "setup", "cancel2", "pause2", "infer", "except", "retry"} \subseteq Active
      BY DEF Active
    <3>2. /\ CheckCancel(w, "cancel1", "pause1") \/ CheckPause(w, "pause1", "setup") => Ordered(w)'
          /\ CheckCancel(w, "cancel2", "pause2") \/ CheckPause(w, "pause2", "infer") => Ordered(w)'
          /\ CheckCancel(w, "except", "retry") => Ordered(w)'
      BY <3>1, CheckOrdered
    <3> QED
      BY <2>1, <3>2, EnterRunOrdered, SetUpOrdered, BatchOrdered, CompleteOrdered,
         ArchiveOrdered, RetryOrdered DEF RunStep
  <2> QED
    BY <1>1, <2>1, PersistOrdered, QuietOrdered, ReadOrdered, InstallOrdered, FinishOrdered, OnlyCancel DEF WorkerStep, Requests
<1>2. ASSUME NEW p \in Procs, Crash(p) PROVE FALSE
  BY <1>2, OnlyCancel DEF Crash, Requests
<1>3. ASSUME NEW r \in Requests, RequestStep(r) \/ HandlerStep PROVE Ordered(w)'
  BY <1>3, RequestOrdered
<1>4. CASE UNCHANGED vars
  <2>1. UNCHANGED <<storeVars, sent, live, sideVars, pc, out, loc, rpc, ref, left>>
    BY <1>4 DEF vars, queueVars, workVars, apiVars
  <2>2. UNCHANGED <<db, mem, own, input, told>> /\ Shared' = Shared
    BY <2>1 DEF storeVars, sideVars, Shared
  <2>3. Handlers' /\ Creation(w)'
    BY <2>1, <2>2 DEF Alone, Ordered, Handlers, Creation
  <2> QED
    BY <2>1, <2>2, <2>3, AsideLemma
<1>5. "create" \in Requests /\ \A v \in Workers : v = w
  BY OneProcess DEF Requests
<1> QED
  BY <1>1, <1>2, <1>3, <1>4, <1>5, CreateOrdered, LeaseOrdered DEF Next

LEMMA AloneAlways == ASSUME NEW w \in Workers, Workers = {w}, Ordinary PROVE Spec => []Alone(w)
<1>1. Init => Alone(w)
  BY TypeInit, OrderedInit DEF Alone
<1>2. Alone(w) /\ [Next]_vars => Alone(w)'
  BY TypeNext, OrderedNext DEF Alone
<1> QED
  BY <1>1, <1>2, PTL DEF Spec

LEMMA TheWorker == ASSUME Ordinary PROVE \E w \in Workers : Workers = {w}
BY ModeAssumption DEF Ordinary

\* What Ordered says of an ended job and of one that is to run.
LEMMA Outlook ==
  ASSUME NEW w \in Workers, Alone(w)
  PROVE  JobIsExact /\ JobCanRun
<1> USE DEF Alone, Ordered
<1>1. View = Shared
  BY DEF View, Shared, Ordinary
<1>2. JobIsExact
  <2>1. FramesExact
    BY DEF FramesExact, Shown, Exact, UpTo
  <2>2. CallbackAgrees
    BY <1>1 DEF CallbackAgrees, Shown, Ended, Is
  <2> QED
    BY <2>1, <2>2 DEF JobIsExact
<1>3. ASSUME At("create", "done"), db # Nil, db.status \in {"queued", "running", "paused"}
      PROVE  live # {} /\ input
  <2>1. told # {} => Ended(Shared) /\ db = Stored(Shared)
    BY DEF Shown, Idling
  <2>2. Ended(Shared) /\ db = Stored(Shared) => db.status \in Terminal
    BY StoredJob, OneProcess DEF Ended, Stored, Maybe
  <2>3. told = {}
    BY <1>3, <2>1, <2>2 DEF Terminal
  <2>4. sent # 0
    <3>1. ASSUME sent = 0 PROVE db = Nil
      <4>1. Shared = Nil /\ pc[w] \in Quiet
        BY <1>3, <3>1 DEF Creation, At, Quiet
      <4> QED
        BY <4>1 DEF Idling, Stored
    <3> QED
      BY <1>3, <3>1
  <2> QED
    BY <2>3, <2>4 DEF Creation
<1>4. JobCanRun
  BY <1>3 DEF JobCanRun, NoStrandedJob, InputWhileNeeded
<1> QED
  BY <1>2, <1>4

\* With everything in one process a completed job has the frames of every
\* batch, once each and in order, however often run_video_job was tried again
\* and whenever it was persisted, and the callback that was sent tells the
\* status the job has and keeps.
THEOREM OneProcessIsExact == ASSUME Ordinary PROVE Spec => []JobIsExact
<1>1. PICK w \in Workers : Workers = {w}
  BY TheWorker
<1>2. Spec => []Alone(w)
  BY <1>1, AloneAlways
<1>3. Alone(w) => JobIsExact
  BY Outlook
<1> QED
  BY <1>2, <1>3, PTL

\* A job that is to run has a message and its input, so that no lapse of a
\* lease, failed batch, failed upload or enqueue, or cancellation strands it.
THEOREM OneProcessCanRun == ASSUME Ordinary PROVE Spec => []JobCanRun
<1>1. PICK w \in Workers : Workers = {w}
  BY TheWorker
<1>2. Spec => []Alone(w)
  BY <1>1, AloneAlways
<1>3. Alone(w) => JobCanRun
  BY Outlook
<1> QED
  BY <1>2, <1>3, PTL

-----------------------------------------------------------------------------
(* What a step may never do to the status that a client is shown.          *)

KeepsEnd(w) == /\ Is(Shared, "completed") => Is(Shared', "completed")
               /\ Shared # Nil /\ Shared.cancel =>
                    Shared' = Nil \/ Shared'.cancel \/ StaleInstall(w)

LEMMA SameStatus ==
  ASSUME NEW w \in Workers,
         Shared' = Shared \/ (/\ Shared # Nil /\ Shared' # Nil /\ Shared'.status = Shared.status
                              /\ Shared'.cancel = Shared.cancel)
  PROVE  KeepsEnd(w)
BY DEF KeepsEnd, Is

LEMMA RunKeepsEnd ==
  ASSUME NEW w \in Workers, Alone(w), RunStep(w) PROVE KeepsEnd(w)
<1> USE OneProcess DEF Alone
<1>1. CASE Archive(w)
  BY <1>1, SameStatus DEF Archive, Shared, storeVars
<1>2. CASE OpenInput(w) \/ InferFails(w)
  BY <1>2, SameStatus DEF OpenInput, InferFails, Shared, storeVars
<1>3. ASSUME pc[w] \in Active, Shared.cancel => Shared'.cancel
      PROVE  KeepsEnd(w)
  <2>1. ~Is(Shared, "completed")
    BY <1>3 DEF Ordered, Working, Going, Is
  <2> QED
    BY <1>3, <2>1 DEF KeepsEnd, Is
<1>4. ASSUME pc[w] \in Active
      PROVE  /\ own[w] = Entry /\ Shared \in Job /\ Cur(w) = Shared
             /\ \A j : Update(w, j) \/ Assign(w, j, TRUE) => Shared' = j
  <2>1. own[w] = Entry /\ Shared # Nil /\ Shared \in Job
    BY <1>4 DEF Ordered, Working, Maybe
  <2>2. ASSUME NEW j, Update(w, j) \/ Assign(w, j, TRUE) PROVE Shared' = j
    BY <2>1, <2>2 DEF Update, Assign, Shared, TypeInv, TypeOK, StoreType
  <2> QED
    BY <2>1, <2>2
<1>5. CASE EnterRun(w)
  <2>1. pc[w] \in Active
    BY <1>5 DEF EnterRun, Ready, Active
  <2>2. CASE Shared.cancel
    <3>1. Update(w, [Shared EXCEPT !.cancel = TRUE, !.status = "cancelled"])
      BY <1>4, <1>5, <2>1, <2>2 DEF EnterRun
    <3>2. [Shared EXCEPT !.cancel = TRUE, !.status = "cancelled"].cancel
      BY <1>4, <2>1 DEF Job
    <3> QED
      BY <1>3, <1>4, <2>1, <3>1, <3>2
  <2> QED
    BY <1>3, <2>1, <2>2
<1>6. ASSUME NEW p \in Active, NEW next \in Active, CheckCancel(w, p, next) \/ CheckPause(w, p, next)
      PROVE  KeepsEnd(w)
  <2>1. pc[w] \in Active
    BY <1>6 DEF CheckCancel, CheckPause, Ready
  <2>2. PICK j \in {Cur(w), db}, entry \in BOOLEAN :
          /\ Latest(w, j, entry)
          /\ \/ Assign(w, j, entry)
             \/ Assign(w, [j EXCEPT !.cancel = TRUE, !.status = "cancelled"], entry)
             \/ Assign(w, [j EXCEPT !.pause = TRUE, !.status = "paused"], entry)
    BY <1>6 DEF CheckCancel, CheckPause
  <2>3. j = Shared /\ entry = TRUE
    BY <1>4, <2>1, <2>2 DEF Latest, Ordinary
  <2>4. /\ [Shared EXCEPT !.cancel = TRUE, !.status = "cancelled"].cancel
        /\ [Shared EXCEPT !.pause = TRUE, !.status = "paused"].cancel = Shared.cancel
    BY <1>4, <2>1 DEF Job
  <2>5. Shared.cancel => Shared'.cancel
    BY <1>4, <2>1, <2>2, <2>3, <2>4
  <2> QED
    BY <1>3, <2>1, <2>5
<1>7. CASE SetUp(w) \/ InferBatch(w)
  <2>1. pc[w] \in Active
    BY <1>7 DEF SetUp, InferBatch, Ready, Active
  <2>2. ASSUME SetUp(w) PROVE Shared'.cancel = Shared.cancel
    <3>1. \/ Update(w, Shared)
          \/ Update(w, [Shared EXCEPT !.frames = <<>>, !.partial = TRUE])
      BY <1>4, <2>1, <2>2 DEF SetUp
    <3>2. [Shared EXCEPT !.frames = <<>>, !.partial = TRUE].cancel = Shared.cancel
      BY <1>4, <2>1 DEF Job
    <3> QED
      BY <1>4, <2>1, <3>1, <3>2
  <2>3. ASSUME InferBatch(w) PROVE Shared'.cancel = Shared.cancel
    <3> DEFINE fs == Append(loc[w].frames, loc[w].next + 1)
               j  == [Shared EXCEPT !.frames = fs, !.partial = TRUE, !.ckpt = loc[w].next + 1]
    <3>1. Update(w, j)
      BY <1>4, <2>1, <2>3 DEF InferBatch
    <3>2. j.cancel = Shared.cancel
      BY <1>4, <2>1 DEF Job
    <3> HIDE DEF j
    <3> QED
      BY <1>4, <2>1, <3>1, <3>2
  <2>4. Shared'.cancel = Shared.cancel
    BY <1>7, <2>2, <2>3
  <2> QED
    BY <1>3, <2>1, <2>4
<1>8. CASE Complete(w)
  <2>1. pc[w] \in Active
    BY <1>8 DEF Complete, Ready, Active
  <2>2. CASE UNCHANGED mem
    BY <2>2, SameStatus DEF Shared
  <2>3. CASE Update(w, [Shared EXCEPT !.frames = loc[w].frames, !.partial = FALSE,
                                      !.status = "completed", !.pause = FALSE])
    <3>1. Shared'.cancel = Shared.cancel
      BY <1>4, <2>1, <2>3 DEF Job
    <3> QED
      BY <1>3, <2>1, <3>1
  <2> QED
    BY <1>4, <1>8, <2>1, <2>2, <2>3 DEF Complete
<1>9. CASE Retry(w)
  <2>1. pc[w] \in Active
    BY <1>9 DEF Retry, Ready, Active
  <2>2. \/ Update(w, [Shared EXCEPT !.status = "queued"])
        \/ Update(w, [Shared EXCEPT !.status = "failed"])
    BY <1>4, <1>9, <2>1 DEF Retry
  <2>3. Shared'.cancel = Shared.cancel
    BY <1>4, <2>1, <2>2 DEF Job
  <2> QED
    BY <1>3, <2>1, <2>3
<1>10. {"cancel1", "pause1", "setup", "cancel2", "pause2", "infer", "except", "retry"} \subseteq Active
  BY DEF Active
<1> QED
  BY <1>1, <1>2, <1>5, <1>6, <1>7, <1>8, <1>9, <1>10 DEF RunStep

LEMMA WorkerKeepsEnd ==
  ASSUME NEW w \in Workers, Alone(w), WorkerStep(w) PROVE KeepsEnd(w)
<1>1. CASE RunStep(w)
  BY <1>1, RunKeepsEnd
<1>2. CASE InstallJob(w)
  <2>1. /\ pc[w] = "install" /\ own[w] # Nil /\ own[w] \in Job /\ Shared' = own[w] /\ Shared # Nil
        /\ \/ own[w].status = Shared.status /\ own[w].cancel = Shared.cancel
           \/ Is(Shared, "cancelled") /\ ~own[w].cancel
        /\ pc'[w] = Route(own[w])
    BY <1>2, Installed, NamesAssumption
  <2>2. pc'[w] # "install" /\ Cur(w) = own[w]
    BY <2>1, NamesAssumption DEF Route, Cur
  <2>3. CASE own[w].status = Shared.status /\ own[w].cancel = Shared.cancel
    BY <2>1, <2>3, SameStatus
  <2>4. CASE Is(Shared, "cancelled") /\ ~own[w].cancel
    BY <2>1, <2>2, <2>4 DEF KeepsEnd, StaleInstall, Is
  <2> QED
    BY <2>1, <2>3, <2>4
<1>3. CASE UNCHANGED mem
  BY <1>3, SameStatus DEF Shared
<1>4. RunStep(w) \/ InstallJob(w) \/ UNCHANGED mem
  BY OnlyCancel
  DEF WorkerStep, Snapshot, WriteOut, Claim, ReadJob, Finish, Deliver, DeleteInput, ClearCancelled, Ack,
      storeVars, Requests
<1> QED
  BY <1>1, <1>2, <1>3, <1>4

LEMMA ApiKeepsEnd ==
  ASSUME NEW w \in Workers, Alone(w),
         CreateStep \/ HandlerStep \/ \E r \in Requests : RequestStep(r)
  PROVE  KeepsEnd(w)
<1> USE DEF Alone
<1>1. CASE UNCHANGED mem
  BY <1>1, SameStatus DEF Shared
<1>2. CASE Create \/ RemoveJob \/ ConfigureTask
  <2>1. rpc["create"] \in {"idle", "configure", "remove"}
    BY <1>2 DEF Create, RemoveJob, ConfigureTask, At
  <2>2. Shared # Nil => Shared \in Job /\ Shared.status \in {"queued", "cancelled"}
    BY <2>1, Unsent
  <2>3. CASE Create
    <3>1. Shared = Nil
      BY <2>3, Unsent DEF Create, At
    <3> QED
      BY <3>1 DEF KeepsEnd, Is
  <2>4. CASE RemoveJob
    <3>1. Shared' = Nil
      BY <2>4, Homes DEF RemoveJob, Shared, TypeInv, TypeOK, StoreType
    <3> QED
      BY <2>2, <3>1 DEF KeepsEnd, Is
  <2>5. CASE ConfigureTask
    <3>1. ref["create"] = Entry /\ Shared # Nil
      BY <2>5 DEF ConfigureTask, At, Ordered, Creation
    <3>2. Shared' = [Shared EXCEPT !.payload = TRUE]
      BY <2>5, <3>1, Homes DEF ConfigureTask, ApiPersist, Deref, Shared, TypeInv, TypeOK, StoreType
    <3>3. /\ [Shared EXCEPT !.payload = TRUE].status = Shared.status
          /\ [Shared EXCEPT !.payload = TRUE].cancel = Shared.cancel
      BY <2>2, <3>1 DEF Job
    <3> QED
      BY <2>2, <3>1, <3>2, <3>3 DEF KeepsEnd, Is
  <2> QED
    BY <1>2, <2>3, <2>4, <2>5
<1>3. CASE ApplyRequest("cancel")
  <2>1. Shared \in Job
    BY <1>3, CancelApplied
  <2>2. CASE Shared.status \in Terminal
    BY <1>3, <2>2, CancelApplied, SameStatus DEF Shared
  <2>3. CASE Shared.status \notin Terminal
    <3>1. Shared' = [Shared EXCEPT !.cancel = TRUE, !.pause = FALSE, !.status = "cancelled"]
      BY <1>3, <2>3, CancelApplied
    <3>2. Shared'.cancel
      BY <2>1, <3>1 DEF Job
    <3> QED
      BY <2>3, <3>2 DEF KeepsEnd, Is, Terminal
  <2> QED
    BY <2>2, <2>3
<1>4. ASSUME NEW r \in Requests, RequestStep(r) PROVE UNCHANGED mem \/ ApplyRequest("cancel")
  BY <1>4, OnlyCancel
  DEF RequestStep, ApiRefresh, Reject, AuditRequest, Ordinary, storeVars
<1>5. HandlerStep => UNCHANGED mem
  BY OnlyCancel DEF HandlerStep, MarkCancelled, storeVars, Requests
<1>6. CreateStep => UNCHANGED mem \/ Create \/ RemoveJob \/ ConfigureTask
  BY DEF CreateStep, StageInput, AuditCreate, EnqueueCreated, UnstageInput, storeVars
<1> QED
  BY <1>1, <1>2, <1>3, <1>4, <1>5, <1>6

LEMMA StepKeepsEnd ==
  ASSUME NEW w \in Workers, Alone(w), [Next]_vars PROVE KeepsEnd(w)
<1>1. ASSUME NEW p \in Procs, Crash(p) PROVE FALSE
  BY <1>1, OnlyCancel DEF Crash, Requests
<1>2. CASE (\E m \in leased : LeaseExpires(m)) \/ (\E m \in 1..sent : Reappear(m)) \/ UNCHANGED vars
  <2>1. UNCHANGED mem
    BY <1>2 DEF LeaseExpires, Reappear, vars, storeVars
  <2> QED
    BY <2>1, SameStatus DEF Shared
<1>3. \A v \in Workers : v = w
  BY OneProcess
<1> QED
  BY <1>1, <1>2, <1>3, WorkerKeepsEnd, ApiKeepsEnd DEF Next

\* No cancellation, late persist, retry or second delivery of the message
\* turns a completed job into anything else.
THEOREM OneProcessEnds == ASSUME Ordinary PROVE Spec => CompletedIsFinal
<1>1. PICK w \in Workers : Workers = {w}
  BY TheWorker
<1>2. Spec => []Alone(w)
  BY <1>1, AloneAlways
<1>3. Alone(w) /\ [Next]_vars => [Is(View, "completed") => Is(View', "completed")]_vars
  BY StepKeepsEnd DEF KeepsEnd, View, Shared, Alone, Ordinary
<1> QED
  BY <1>2, <1>3, PTL DEF Spec, CompletedIsFinal

\* A cancellation that is stored is kept until the job is removed: the locked
\* transition, the looks of run_video_job, its retry and its late persists leave
\* it, and no run begins.  All that can undo it is a worker's install of a copy
\* that it read before, when load_video_jobs_state did not hold VIDEO_JOBS_LOCK.
THEOREM OneProcessCancels == ASSUME Ordinary PROVE Spec => CancelIsKept
<1>1. PICK w \in Workers : Workers = {w}
  BY TheWorker
<1>2. Spec => []Alone(w)
  BY <1>1, AloneAlways
<1>3. ASSUME Alone(w), [Next]_vars, View # Nil, View.cancel
      PROVE  \/ View' = Nil
             \/ View'.cancel /\ ~Is(View', "running")
             \/ \E v \in Workers : StaleInstall(v)
  <2>1. View = Shared /\ View' = Shared'
    BY <1>3 DEF View, Shared, Alone, Ordinary
  <2>2. Shared' = Nil \/ Shared'.cancel \/ StaleInstall(w)
    BY <1>3, <2>1, StepKeepsEnd DEF KeepsEnd
  <2>3. Shared' # Nil /\ Shared'.cancel => Shared'.status # "running"
    <3>1. Ordered(w)'
      BY <1>3, OrderedNext
    <3> QED
      BY <3>1 DEF Ordered, Shown
  <2> QED
    BY <2>1, <2>2, <2>3 DEF Is
<1>4. Alone(w) /\ [Next]_vars => [CancelKept]_vars
  BY <1>3 DEF CancelKept
<1> QED
  BY <1>2, <1>4, PTL DEF Spec, CancelIsKept

(***************************************************************************)
(* A pause: with the worker in the process of the API over the file store, *)
(* whatever batches, archives, uploads and leases fail, and however often  *)
(* the job is paused and resumed, as long as no persist fails, the process *)
(* lives and nobody cancels the job.                                       *)
(***************************************************************************)
Calm == InProcess /\ ~Postgres /\ \A k \in {"cancel", "crash", "write"} : Quota[k] = 0

Due(j)  == j # Nil /\ j.status \in {"queued", "running"}
Full(j) == j # Nil /\ j.payload /\ ~j.cancel
Run     == Active \cup {"archive"}

\* The job is configured; a message of it is still to be enqueued; or there is one that
\* the worker does not hold.
Begun  == sent # 0 \/ rpc["create"] \in {"audit", "enqueue"}
Coming == rpc["resume"] = "enqueue" \/ rpc["create"] # "done"
Fed(w) == Coming \/ \E m \in live : m # held[w]

\* The snapshot that the worker waits for is taken.
Taken(w) == out[w] # Nil /\ out[w].row # Entry

\* No handler rolls back.
Callers == /\ rpc["cancel"] = "idle" /\ ~mark
           /\ rpc["pause"] \in {"idle", "apply", "audit"}
           /\ rpc["resume"] \in {"idle", "apply", "enqueue", "audit"}
           /\ rpc["create"] \in {"idle", "stage", "configure", "remove", "audit", "enqueue", "done"}

\* Before it is configured a job cannot be resumed, and nobody works on it; from then on
\* every copy of it can be resumed, and its input is there until it has ended.
Made(w) ==
  /\ sent # 0 => rpc["create"] \in {"audit", "enqueue", "done"}
  /\ sent = 0 => pc[w] = "idle"
  /\ ~Begun =>
       /\ rpc["resume"] \in {"idle", "apply"}
       /\ rpc["create"] \in {"idle", "done"} => Shared = Nil /\ db = Nil
       /\ rpc["create"] \notin {"idle", "done"} =>
            /\ Shared # Nil /\ db # Nil /\ ~Shared.payload /\ ~Shared.cancel /\ ref["create"] = Entry
            /\ rpc["create"] = "configure" => input
  /\ Begun => Full(Shared) /\ Full(db) /\ (input \/ Ended(db))

\* An end is in memory first, and is written before the worker goes on.  What the worker
\* has read may be paused, or not, before the row was, but has ended with it.
Ends(w) ==
  /\ Ended(db) => Ended(Shared) /\ out[w] = Nil /\ pc[w] \notin Run
  /\ Ended(Shared) => \/ Ended(db) \/ pc[w] \in {"archive", "except", "retry"}
                      \/ pc[w] = "final" /\ out[w] # Nil
  /\ pc[w] = "archive" => Ended(Shared)
  /\ Taken(w) => Full(out[w].row) /\ (Ended(out[w].row) <=> pc[w] = "final" /\ Ended(Shared))
  /\ pc[w] \notin {"idle", "refresh", "install"} => own[w] = Entry
  /\ pc[w] = "install" => own[w] \in Job /\ Full(own[w]) /\ (Ended(own[w]) <=> Ended(db))
  /\ pc[w] \in {"deliver", "rmInput", "clear"} => Ended(db)

\* A job that is to run has a message, and one besides the message that is about to be
\* acknowledged: for a run that was paused, and for a paused copy of before a resume.
Posts(w) ==
  /\ pc[w] # "idle" => held[w] \in live
  /\ Due(db) => Coming \/ live # {}
  /\ pc[w] = "ack" /\ Due(db) => Fed(w)
  /\ pc[w] = "install" /\ ~Due(own[w]) /\ Due(db) => Fed(w)
  /\ pc[w] = "final" => /\ Due(Shared) => Fed(w)
                        /\ out[w] = Nil /\ Due(db) => Fed(w)
                        /\ Taken(w) /\ Due(out[w].row) => Fed(w)

Whole(w) == Callers /\ Made(w) /\ Ends(w) /\ Posts(w)


Here(w) == Calm /\ Workers = {w} /\ TypeInv /\ (\A k \in Kinds : left[k] <= Quota[k]) /\ Whole(w)

\* There is one process, and one worker in it.
LEMMA CalmFacts ==
  ASSUME NEW w \in Workers, Here(w)
  PROVE  /\ Home(w) = "api" /\ Procs = {"api"} /\ \A v \in Workers : v = w
         /\ Cur(w) = IF own[w] = Entry THEN Shared ELSE own[w]
         /\ Shared \in Maybe(Job) /\ db \in Maybe(Job) /\ out[w] \in Maybe(Pending)
         /\ live \subseteq 1..sent /\ held[w] \in 0..sent /\ sent \in Nat /\ pc[w] \in Locations
         /\ \A k \in {"cancel", "crash", "write"} : left[k] = 0 /\ ~Spend(k)
<1> USE DEF Here
<1>1. /\ Home(w) = "api" /\ Procs = {"api"} /\ \A v \in Workers : v = w
      /\ Cur(w) = IF own[w] = Entry THEN Shared ELSE own[w]
      /\ Shared \in Maybe(Job) /\ db \in Maybe(Job)
  BY Homes DEF Calm, Home, Procs, Cur, Shared, TypeInv, TypeOK, StoreType
<1>2. out[w] \in Maybe(Pending) /\ pc[w] \in Locations
  BY DEF TypeInv, TypeOK, WorkType
<1>3. sent \in Nat /\ live \subseteq 1..sent /\ held[w] \in 0..sent
  BY BoundsAssumption DEF TypeInv, TypeOK, QueueType
<1>4. ASSUME NEW k \in {"cancel", "crash", "write"} PROVE left[k] = 0 /\ ~Spend(k)
  <2>1. k \in Kinds /\ left[k] \in Nat /\ left[k] <= Quota[k] /\ Quota[k] = 0
    BY DEF Kinds, Calm, TypeInv, TypeOK
  <2> QED
    BY <2>1 DEF Spend
<1> QED
  BY <1>1, <1>2, <1>3, <1>4

\* The store keeps the status of a job, and that it can be resumed.
LEMMA CalmRow ==
  ASSUME Calm, NEW j \in Job, NEW light \in BOOLEAN
  PROVE  /\ Row(j, light) \in Job /\ Row(j, light).status = j.status
         /\ Row(j, light).payload = j.payload /\ Row(j, light).cancel = j.cancel
<1>1. Row(j, light) \in Job
  BY JobUpdates
<1> QED
  BY <1>1 DEF Calm, Row, Lightweight, Job

\* A job in a run is one that can be resumed, with its message, and not at its end.
LEMMA AtRun ==
  ASSUME NEW w \in Workers, Here(w), pc[w] # "idle"
  PROVE  /\ sent # 0 /\ Begun /\ Shared \in Job /\ db \in Job /\ Full(Shared) /\ Full(db)
         /\ held[w] \in live /\ (input \/ Ended(db))
         /\ pc[w] \notin {"refresh", "install"} => own[w] = Entry /\ Cur(w) = Shared
         /\ pc[w] \in Run => ~Ended(db) /\ input /\ (Ended(Shared) => pc[w] \in {"archive", "except", "retry"})
<1> USE DEF Here, Whole, Made, Ends, Posts, Begun
<1>1. /\ sent # 0 /\ Begun /\ Full(Shared) /\ Full(db) /\ held[w] \in live /\ (input \/ Ended(db))
      /\ pc[w] \notin {"refresh", "install"} => own[w] = Entry
  OBVIOUS
<1>2. Shared \in Job /\ db \in Job
  BY <1>1, CalmFacts DEF Full, Maybe
<1>3. pc[w] \notin {"refresh", "install"} => Cur(w) = Shared
  BY <1>1, CalmFacts
<1>4. pc[w] \in Run => ~Ended(db) /\ (Ended(Shared) => pc[w] \in {"archive", "except", "retry"})
  BY DEF Run, Active
<1> QED
  BY <1>1, <1>2, <1>3, <1>4

\* A persist that the worker begins.
LEMMA Persisted ==
  ASSUME NEW w \in Workers, Here(w), NEW light, NEW p, NEW f \in {"except", "release"},
         light \in BOOLEAN, Persist(w, light, p, f)
  PROVE  pc'[w] = p /\ out'[w] # Nil /\ out'[w].row = Entry
<1>1. pc'[w] = p /\ out'[w] = [row |-> Entry, light |-> light, fail |-> f]
  BY DEF Persist, Go, Here, TypeInv, TypeOK, WorkType
<1>2. [row |-> Entry, light |-> light, fail |-> f] \in Pending
  BY DEF Pending
<1>3. Nil \notin Pending
  BY NamesAssumption
<1>4. out'[w].row = Entry
  BY <1>1
<1> QED
  BY ONLY <1>1, <1>2, <1>3, <1>4

\* The worker changes its job in a run.
LEMMA Updated ==
  ASSUME NEW w \in Workers, Here(w), own[w] = Entry, NEW j, Update(w, j) \/ Assign(w, j, TRUE)
  PROVE  Shared' = j /\ own'[w] = Entry
BY CalmFacts DEF Update, Assign, Here, TypeInv, TypeOK, StoreType, Shared

\* A step of a run keeps the job, its message and its input.
LEMMA RunKept ==
  ASSUME NEW w \in Workers, Here(w), pc[w] \in Run, NEW p \in Run \cup {"final"}, pc'[w] = p,
         Shared' # Nil, Shared'.payload, ~Shared'.cancel, own'[w] = Entry,
         out'[w] # Nil => out'[w].row = Entry,
         p = "final" => out'[w] # Nil /\ ~Due(Shared'),
         Ended(Shared') => p \in {"archive", "except", "retry", "final"},
         p = "archive" => Ended(Shared'),
         UNCHANGED <<db, sent, live, held, mark, input, rpc>>
  PROVE  Whole(w)'
<1>1. /\ sent # 0 /\ Begun /\ Full(db) /\ held[w] \in live /\ (input \/ Ended(db)) /\ ~Ended(db)
  BY AtRun DEF Run, Active
<1>2. p \notin {"idle", "ack", "deliver", "rmInput", "clear", "refresh", "install"}
  BY DEF Run, Active
<1> USE DEF Here, Whole
<1>3. Callers'
  BY DEF Callers
<1>4. Made(w)'
  BY <1>1 DEF Made, Begun, Full, Ended
<1>5. Ends(w)'
  BY <1>1, <1>2 DEF Ends, Taken, Ended
<1>6. Posts(w)'
  BY <1>1, <1>2 DEF Posts, Taken, Coming, Due
<1> QED
  BY <1>3, <1>4, <1>5, <1>6

LEMMA EnterRunKept ==
  ASSUME NEW w \in Workers, Here(w), EnterRun(w) PROVE Whole(w)'
<1>1. pc[w] = "entry" /\ pc[w] \in Run /\ {"cancel1"} \subseteq Run
  BY DEF EnterRun, Ready, Run, Active
<1>2. /\ Shared \in Job /\ Full(Shared) /\ own[w] = Entry /\ Cur(w) = Shared /\ ~Ended(Shared)
  BY <1>1, AtRun
<1>3. UNCHANGED <<db, sent, live, held, mark, input, rpc>>
  BY DEF EnterRun, queueVars, sideVars, apiVars
<1>4. ~(Shared.cancel \/ Shared.status = "cancelled")
  BY <1>2 DEF Full, Ended, Terminal
<1>5. ASSUME Update(w, [Shared EXCEPT !.pause = TRUE, !.status = "paused"]),
             Persist(w, FALSE, "final", "release")
      PROVE  Whole(w)'
  <2>1. Shared' = [Shared EXCEPT !.pause = TRUE, !.status = "paused"] /\ own'[w] = Entry
    BY <1>2, <1>5, Updated
  <2>2. pc'[w] = "final" /\ out'[w] # Nil /\ out'[w].row = Entry
    BY <1>5, Persisted
  <2>3. Shared' \in Job /\ Shared'.status = "paused" /\ Shared'.payload /\ ~Shared'.cancel /\ Shared' # Nil
    BY <1>2, <2>1, NamesAssumption DEF Job, Status, Full
  <2> QED
    BY <1>1, <1>3, <2>1, <2>2, <2>3, RunKept DEF Due, Ended, Terminal
<1>6. ASSUME Update(w, [Shared EXCEPT !.status = "running", !.attempts = @ + 1]),
             Persist(w, FALSE, "cancel1", "release")
      PROVE  Whole(w)'
  <2>1. Shared' = [Shared EXCEPT !.status = "running", !.attempts = @ + 1] /\ own'[w] = Entry
    BY <1>2, <1>6, Updated
  <2>2. pc'[w] = "cancel1" /\ out'[w] # Nil /\ out'[w].row = Entry
    BY <1>6, Persisted
  <2>3. Shared' \in Job
    BY <1>2, <2>1, JobUpdates
  <2>4. Shared'.status = "running" /\ Shared'.payload /\ ~Shared'.cancel /\ Shared' # Nil
    BY <1>2, <2>1, <2>3, NamesAssumption DEF Job, Full
  <2> QED
    BY <1>1, <1>3, <2>1, <2>2, <2>4, RunKept DEF Ended, Terminal
<1> QED
  BY <1>2, <1>4, <1>5, <1>6 DEF EnterRun

LEMMA CheckKept ==
  ASSUME NEW w \in Workers, Here(w), NEW next \in Active,
         NEW p \in {"cancel1", "pause1", "cancel2", "pause2", "except"}, p = "except" => next = "retry",
         CheckCancel(w, p, next) \/ (p # "except" /\ CheckPause(w, p, next))
  PROVE  Whole(w)'
<1>1. pc[w] = p /\ out[w] = Nil /\ p \in Run /\ next \in Run /\ next # "archive"
  BY DEF CheckCancel, CheckPause, Ready, Run, Active
<1>2. /\ Shared \in Job /\ Full(Shared) /\ own[w] = Entry /\ Cur(w) = Shared
      /\ Ended(Shared) => p = "except"
  BY <1>1, AtRun DEF Active
<1>3. UNCHANGED <<db, sent, live, held, mark, input, rpc>>
  BY DEF CheckCancel, CheckPause, queueVars, sideVars, apiVars
<1>4. PICK j \in {Cur(w), db}, entry \in BOOLEAN :
        /\ Latest(w, j, entry)
        /\ \/ Assign(w, j, entry) /\ Go(w, next) /\ UNCHANGED out
           \/ j.cancel \/ mark
           \/ /\ p # "except"
              /\ Assign(w, [j EXCEPT !.pause = TRUE, !.status = "paused"], entry)
              /\ Persist(w, TRUE, "final", "except")
  BY DEF CheckCancel, CheckPause
<1>5. j = Shared /\ entry = TRUE
  BY <1>2, <1>4 DEF Latest, Here, Calm
<1>6. ~(j.cancel \/ mark)
  BY <1>2, <1>5 DEF Full, Here, Whole, Callers
<1>7. CASE Assign(w, j, entry) /\ Go(w, next) /\ UNCHANGED out
  <2>1. Shared' = Shared /\ own'[w] = Entry
    BY <1>2, <1>5, <1>7, Updated
  <2>2. pc'[w] = next /\ out'[w] = Nil
    BY <1>1, <1>7 DEF Go, Here, TypeInv, TypeOK, WorkType
  <2> QED
    BY <1>1, <1>2, <1>3, <2>1, <2>2, RunKept DEF Full, Run, Active
<1>8. ASSUME p # "except", Assign(w, [j EXCEPT !.pause = TRUE, !.status = "paused"], entry),
             Persist(w, TRUE, "final", "except")
      PROVE  Whole(w)'
  <2>1. Shared' = [Shared EXCEPT !.pause = TRUE, !.status = "paused"] /\ own'[w] = Entry
    BY <1>2, <1>5, <1>8, Updated
  <2>2. pc'[w] = "final" /\ out'[w] # Nil /\ out'[w].row = Entry
    BY <1>8, Persisted
  <2>3. Shared' \in Job /\ Shared'.status = "paused" /\ Shared'.payload /\ ~Shared'.cancel /\ Shared' # Nil
    BY <1>2, <2>1, NamesAssumption DEF Job, Status, Full
  <2> QED
    BY <1>1, <1>3, <2>1, <2>2, <2>3, RunKept DEF Due, Ended, Terminal
<1> QED
  BY <1>4, <1>6, <1>7, <1>8

\* The worker gives its job other frames, or none, and goes on.
LEMMA GoesOn ==
  ASSUME NEW w \in Workers, Here(w), pc[w] \in Run, NEW j \in Job, Shared' = j, own'[w] = Entry,
         j.status = Shared.status, j.payload = Shared.payload, j.cancel = Shared.cancel,
         NEW p \in Run \ {"archive"}, pc'[w] = p, out'[w] # Nil => out'[w].row = Entry,
         pc[w] \in {"archive", "except", "retry"} => p \in {"except", "retry"},
         UNCHANGED <<db, sent, live, held, mark, input, rpc>>
  PROVE  Whole(w)'
<1>1. Full(Shared) /\ (Ended(Shared) => pc[w] \in {"archive", "except", "retry"})
  BY AtRun DEF Run, Active
<1>2. j # Nil /\ j.payload /\ ~j.cancel /\ p # "final"
  BY <1>1, NamesAssumption DEF Full, Run, Active
<1>3. Ended(j) => p \in {"archive", "except", "retry", "final"}
  BY <1>1 DEF Ended, Full
<1> QED
  BY <1>2, <1>3, RunKept

LEMMA BatchKept ==
  ASSUME NEW w \in Workers, Here(w), SetUp(w) \/ OpenInput(w) \/ InferBatch(w) \/ InferFails(w)
  PROVE  Whole(w)'
<1>1. /\ pc[w] \in {"setup", "open", "infer"} /\ pc[w] \in Run /\ out[w] = Nil
      /\ {"open", "cancel2", "complete", "except"} \subseteq Run \ {"archive"}
      /\ \A n : NextBatch(n) \in {"cancel2", "complete"}
  BY DEF SetUp, OpenInput, InferBatch, InferFails, Ready, Run, Active, NextBatch
<1>2. Shared \in Job /\ own[w] = Entry /\ Cur(w) = Shared
  BY <1>1, AtRun
<1>3. UNCHANGED <<db, sent, live, held, mark, input, rpc>>
  BY DEF SetUp, OpenInput, InferBatch, InferFails, storeVars, queueVars, sideVars, apiVars
<1>4. ASSUME NEW p \in {"cancel2", "complete", "except"}, Go(w, p), UNCHANGED <<mem, own, out>>
      PROVE  Whole(w)'
  <2>1. Shared' = Shared /\ own'[w] = Entry /\ pc'[w] = p /\ out'[w] = Nil
    BY <1>1, <1>2, <1>4 DEF Shared, Go, Here, TypeInv, TypeOK, WorkType
  <2> QED
    BY <1>1, <1>2, <1>3, <2>1, GoesOn
<1>5. CASE OpenInput(w) \/ InferFails(w)
  BY <1>1, <1>4, <1>5 DEF OpenInput, InferFails, storeVars
<1>6. CASE SetUp(w)
  <2> DEFINE frames == IF Shared.partial THEN Shared.frames ELSE <<>>
  <2>1. PICK j \in Job : /\ Update(w, j) /\ Persist(w, TRUE, "open", "except")
                         /\ j.status = Shared.status /\ j.payload = Shared.payload /\ j.cancel = Shared.cancel
    <3>1. [Shared EXCEPT !.frames = <<>>, !.partial = TRUE] \in Job
      BY <1>2, JobUpdates
    <3>2. CASE frames = <<>>
      BY <1>2, <1>6, <3>1, <3>2 DEF SetUp, Job
    <3>3. CASE frames # <<>>
      BY <1>2, <1>6, <3>3 DEF SetUp
    <3> QED
      BY <3>2, <3>3
  <2>2. pc'[w] = "open" /\ out'[w].row = Entry
    BY <2>1, Persisted
  <2>3. Shared' = j /\ own'[w] = Entry
    BY <1>2, <2>1, Updated
  <2> QED
    BY <1>1, <1>3, <2>1, <2>2, <2>3, GoesOn
<1>7. CASE InferBatch(w)
  <2> DEFINE n  == loc[w].next + 1
             fs == Append(loc[w].frames, n)
             j  == [Shared EXCEPT !.frames = fs, !.partial = TRUE, !.ckpt = n]
  <2>1. n \in Nat /\ fs \in Seq(Nat)
    BY DEF Here, TypeInv, TypeOK, WorkType
  <2>2. /\ Update(w, j)
        /\ \/ Persist(w, InProcess, NextBatch(n), "except")
           \/ Go(w, NextBatch(n)) /\ UNCHANGED out
    BY <1>2, <1>7 DEF InferBatch
  <2> HIDE DEF n, fs
  <2>3. j \in Job /\ j.status = Shared.status /\ j.payload = Shared.payload /\ j.cancel = Shared.cancel
    <3>1. j \in Job
      BY <1>2, <2>1, JobUpdates
    <3>2. j.status = Shared.status /\ j.payload = Shared.payload /\ j.cancel = Shared.cancel
      BY <1>2 DEF Job
    <3> QED
      BY <3>1, <3>2
  <2> HIDE DEF j
  <2>4. Shared' = j /\ own'[w] = Entry
    BY <1>2, <2>2, Updated
  <2>5. InProcess \in BOOLEAN
    BY ModeAssumption
  <2>6. pc'[w] = NextBatch(n) /\ (out'[w] # Nil => out'[w].row = Entry)
    <3>1. Persist(w, InProcess, NextBatch(n), "except") => pc'[w] = NextBatch(n) /\ out'[w].row = Entry
      BY <2>5, Persisted
    <3>2. Go(w, NextBatch(n)) /\ UNCHANGED out => pc'[w] = NextBatch(n) /\ out'[w] = Nil
      BY <1>1 DEF Go, Here, TypeInv, TypeOK, WorkType
    <3> QED
      BY <2>2, <3>1, <3>2
  <2>7. NextBatch(n) \in Run \ {"archive"}
    BY <1>1
  <2> QED
    BY <1>1, <1>3, <2>3, <2>4, <2>6, <2>7, GoesOn
<1> QED
  BY <1>5, <1>6, <1>7

LEMMA CompleteKept ==
  ASSUME NEW w \in Workers, Here(w), Complete(w) \/ Archive(w) PROVE Whole(w)'
<1>1. /\ pc[w] \in {"complete", "archive"} /\ pc[w] \in Run /\ out[w] = Nil
      /\ "except" \in Run \ {"archive"} /\ "archive" \in Run
  BY DEF Complete, Archive, Ready, Run, Active
<1>2. Shared \in Job /\ own[w] = Entry /\ Cur(w) = Shared /\ Full(Shared)
  BY <1>1, AtRun
<1>3. UNCHANGED <<db, sent, live, held, mark, input, rpc>>
  BY DEF Complete, Archive, storeVars, queueVars, sideVars, apiVars
<1>4. ASSUME Go(w, "except"), UNCHANGED <<mem, own, out>> PROVE Whole(w)'
  <2>1. Shared' = Shared /\ own'[w] = Entry /\ pc'[w] = "except" /\ out'[w] = Nil
    BY <1>1, <1>2, <1>4 DEF Shared, Go, Here, TypeInv, TypeOK, WorkType
  <2> QED
    BY <1>1, <1>2, <1>3, <2>1, GoesOn
<1>5. ASSUME Go(w, "archive"), UNCHANGED out,
             Update(w, [Shared EXCEPT !.frames = loc[w].frames, !.partial = FALSE,
                                      !.status = "completed", !.pause = FALSE])
      PROVE  Whole(w)'
  <2>1. /\ Shared' = [Shared EXCEPT !.frames = loc[w].frames, !.partial = FALSE,
                                    !.status = "completed", !.pause = FALSE]
        /\ own'[w] = Entry /\ pc'[w] = "archive" /\ out'[w] = Nil
    BY <1>1, <1>2, <1>5, Updated DEF Go, Here, TypeInv, TypeOK, WorkType
  <2>2. loc[w].frames \in Seq(Nat)
    BY DEF Here, TypeInv, TypeOK, WorkType
  <2>3. Shared' \in Job
    BY <1>2, <2>1, <2>2, BoundsAssumption, JobUpdates
  <2>4. Shared'.status = "completed" /\ Shared'.payload /\ ~Shared'.cancel /\ Shared' # Nil
    BY <1>2, <2>1, <2>3, NamesAssumption DEF Job, Full
  <2> QED
    BY <1>1, <1>3, <2>1, <2>4, RunKept DEF Ended, Terminal
<1>6. ASSUME pc[w] = "archive", Persist(w, FALSE, "final", "except"), UNCHANGED <<mem, own>>
      PROVE  Whole(w)'
  <2>1. Shared' = Shared /\ own'[w] = Entry /\ pc'[w] = "final" /\ out'[w] # Nil /\ out'[w].row = Entry
    BY <1>2, <1>6, Persisted DEF Shared
  <2>2. Ended(Shared)
    BY <1>6 DEF Here, Whole, Ends
  <2>3. ~Due(Shared)
    BY <2>2 DEF Due, Ended, Terminal
  <2> QED
    BY <1>1, <1>2, <1>3, <2>1, <2>2, <2>3, RunKept DEF Full
<1> QED
  BY <1>2, <1>4, <1>5, <1>6 DEF Complete, Archive, Ready, storeVars

LEMMA RetryKept ==
  ASSUME NEW w \in Workers, Here(w), Retry(w) PROVE Whole(w)'
<1>1. pc[w] = "retry" /\ pc[w] \in Run /\ "entry" \in Run
  BY DEF Retry, Ready, Run, Active
<1>2. Shared \in Job /\ own[w] = Entry /\ Cur(w) = Shared /\ Full(Shared)
  BY <1>1, AtRun
<1>3. UNCHANGED <<db, sent, live, held, mark, input, rpc>>
  BY DEF Retry, queueVars, sideVars, apiVars
<1>4. ASSUME NEW st \in {"queued", "failed"}, Update(w, [Shared EXCEPT !.status = st]),
             NEW p \in {"entry", "final"}, p = IF st = "queued" THEN "entry" ELSE "final",
             Persist(w, FALSE, p, "release")
      PROVE  Whole(w)'
  <2>1. /\ Shared' = [Shared EXCEPT !.status = st] /\ own'[w] = Entry
        /\ pc'[w] = p /\ out'[w] # Nil /\ out'[w].row = Entry
    BY <1>2, <1>4, Persisted, Updated
  <2>2. Shared' \in Job /\ Shared'.status = st /\ Shared'.payload /\ ~Shared'.cancel /\ Shared' # Nil
    BY <1>2, <1>4, <2>1, NamesAssumption DEF Job, Status, Full
  <2> QED
    BY <1>1, <1>3, <1>4, <2>1, <2>2, RunKept DEF Due, Ended, Terminal
<1> QED
  BY <1>2, <1>4 DEF Retry



\* A persist takes its snapshot, or reaches the store.
LEMMA WrittenKept ==
  ASSUME NEW w \in Workers, Here(w), Snapshot(w) \/ WriteOut(w) PROVE Whole(w)'
<1> USE DEF Here, Whole
<1>1. /\ out[w] # Nil /\ out[w] \in Pending /\ pc[w] \in Awaiting
      /\ UNCHANGED <<mem, own, pc, held, sent, live, mark, input, rpc, ref>> /\ Shared' = Shared
  BY CalmFacts DEF Snapshot, WriteOut, TypeInv, TypeOK, WorkType, HasJob, Maybe, Shared,
              storeVars, queueVars, sideVars, apiVars
<1>2. /\ pc[w] \notin {"idle", "refresh", "install", "ack", "archive", "deliver", "rmInput", "clear", "except", "retry"}
      /\ pc[w] = "final" \/ pc[w] \in Run
  BY <1>1 DEF Awaiting, Run, Active
<1>3. /\ sent # 0 /\ Begun /\ Shared \in Job /\ Full(Shared) /\ held[w] \in live
      /\ own[w] = Entry /\ Cur(w) = Shared /\ ~Ended(db) /\ input
      /\ Ended(Shared) => pc[w] = "final"
  BY <1>1, <1>2, AtRun DEF Ends
<1>4. Callers' /\ Begun' /\ (Coming' = Coming) /\ (Fed(w)' = Fed(w))
  BY <1>1, <1>3 DEF Callers, Begun, Coming, Fed
<1>5. CASE Snapshot(w)
  <2>1. out[w].light \in BOOLEAN /\ UNCHANGED db
    BY <1>1, <1>5 DEF Snapshot, Pending, storeVars
  <2>2. PICK row \in Job : /\ out'[w] = [out[w] EXCEPT !.row = row]
                           /\ row.status = Shared.status /\ row.payload = Shared.payload /\ row.cancel = Shared.cancel
    <3>1. (IF Postgres THEN Cur(w) ELSE mem[Home(w)]) = Shared /\ Shared # Nil
      BY <1>3, CalmFacts, NamesAssumption DEF Shared
    <3>2. out'[w] = [out[w] EXCEPT !.row = Row(Shared, out[w].light)]
      BY <1>5, <3>1 DEF Snapshot, TypeInv, TypeOK, WorkType
    <3> QED
      BY <1>3, <2>1, <3>2, CalmRow
  <2>3. out'[w].row = row /\ row # Nil
    BY <1>1, <2>2, NamesAssumption DEF Pending
  <2>4. Full(row) /\ (Ended(row) <=> Ended(Shared)) /\ (Due(row) <=> Due(Shared))
    BY <1>3, <2>2, <2>3 DEF Full, Ended, Due
  <2>5. Made(w)'
    BY <1>1, <1>3, <1>4, <2>1 DEF Made, Full, Ended
  <2>6. out'[w] # Nil
    <3>1. [out[w] EXCEPT !.row = row] \in Pending
      BY <1>1 DEF Pending
    <3>2. Nil \notin Pending
      BY NamesAssumption
    <3> QED
      BY ONLY <2>2, <3>1, <3>2
  <2>7. Ends(w)'
    BY <1>1, <1>2, <1>3, <2>1, <2>3, <2>4, <2>6 DEF Ends, Taken, Ended, Full
  <2>8. Posts(w)'
    BY <1>1, <1>2, <1>3, <1>4, <2>1, <2>3, <2>4, <2>6 DEF Posts, Taken, Due
  <2> QED
    BY <1>4, <2>5, <2>7, <2>8
<1>6. CASE WriteOut(w)
  <2>1. db' = out[w].row /\ out'[w] = Nil /\ Taken(w)
    BY <1>1, <1>6, CalmFacts DEF WriteOut, Taken, TypeInv, TypeOK, WorkType
  <2>2. Full(db') /\ (Ended(db') <=> pc[w] = "final" /\ Ended(Shared)) /\ (pc[w] = "final" /\ Due(db') => Fed(w))
    BY <2>1 DEF Ends, Posts
  <2>3. Made(w)'
    BY <1>1, <1>3, <1>4, <2>2 DEF Made, Full
  <2>4. Ends(w)'
    BY <1>1, <1>2, <1>3, <2>1, <2>2 DEF Ends, Taken, Ended, Run, Active
  <2>5. Posts(w)'
    BY <1>1, <1>2, <1>3, <1>4, <2>1, <2>2 DEF Posts, Taken, Due
  <2> QED
    BY <1>4, <2>3, <2>4, <2>5
<1> QED
  BY <1>5, <1>6

\* The worker between its runs.
LEMMA BetweenKept ==
  ASSUME NEW w \in Workers, Here(w), NEW p, pc'[w] = p,
         pc[w] \in {"idle", "final", "deliver", "rmInput", "clear", "release"},
         p \in {"idle", "refresh", "deliver", "ack", "release", "rmInput", "clear"},
         UNCHANGED <<db, mem, own, out, sent, live, rpc, ref>>, out[w] = Nil, ~mark',
         sent # 0, p # "idle" => held'[w] \in live, pc[w] # "idle" \/ p = "refresh",
         input' = input \/ Ended(db),
         p \in {"deliver", "rmInput", "clear"} => Ended(db), p = "ack" /\ Due(db) => Fed(w) /\ held' = held
  PROVE  Whole(w)'
<1> USE DEF Here, Whole
<1>1. Shared' = Shared /\ Begun /\ Begun' /\ Coming' = Coming
  BY DEF Shared, Begun, Coming
<1>2. Callers'
  BY DEF Callers
<1>3. Made(w)'
  BY <1>1 DEF Made, Full, Ended
<1>4. Ends(w)'
  BY <1>1 DEF Ends, Taken, Ended, Run, Active
<1>5. Posts(w)'
  BY <1>1 DEF Posts, Taken, Due, Fed
<1> QED
  BY <1>2, <1>3, <1>4, <1>5

LEMMA QuietKept ==
  ASSUME NEW w \in Workers, Here(w),
         \/ \E m \in live : Claim(w, m)
         \/ Finish(w) \/ Deliver(w) \/ DeleteInput(w) \/ ClearCancelled(w) \/ Release(w)
  PROVE  Whole(w)'
<1> USE DEF Here, Whole
<1>1. /\ pc[w] \in {"idle", "final", "deliver", "rmInput", "clear", "release"} /\ out[w] = Nil
      /\ UNCHANGED <<db, mem, own, out, sent, live, rpc, ref>>
  BY DEF Claim, Finish, Deliver, DeleteInput, ClearCancelled, Release, Ready, storeVars, queueVars, sideVars, apiVars
<1>2. pc \in [Workers -> Locations] /\ held \in [Workers -> 0..sent] /\ ~mark
  BY DEF TypeInv, TypeOK, WorkType, QueueType, Callers
<1>3. pc[w] # "idle" => sent # 0 /\ held[w] \in live /\ Full(Shared) /\ (pc[w] \in {"deliver", "rmInput", "clear"} => Ended(db))
  BY AtRun DEF Ends
<1>4. CASE \E m \in live : Claim(w, m)
  <2>1. PICK m \in live : Claim(w, m)
    BY <1>4
  <2>2. pc'[w] = "refresh" /\ held'[w] = m /\ UNCHANGED <<mark, input>>
    BY <1>2, <2>1 DEF Claim, Go, sideVars
  <2>3. sent # 0
    BY CalmFacts
  <2> QED
    BY <1>1, <1>2, <2>2, <2>3, BetweenKept
<1>5. CASE Finish(w)
  <2>1. PICK p : /\ pc'[w] = p /\ pc[w] = "final" /\ UNCHANGED <<held, mark, input>>
                 /\ p = IF Shared.status = "paused" THEN "ack"
                        ELSE IF Shared.status \in Terminal THEN "deliver" ELSE "release"
    BY <1>2, <1>3, <1>5, CalmFacts DEF Finish, Ready, Go, queueVars, sideVars, Shared, Full
  <2>2. p = "deliver" => Ended(db)
    BY <1>1, <1>3, <2>1 DEF Ends, Ended, Full
  <2>3. p = "ack" /\ Due(db) => Fed(w)
    BY <1>1, <2>1 DEF Posts
  <2> QED
    BY <1>1, <1>2, <1>3, <2>1, <2>2, <2>3, BetweenKept
<1>6. CASE Deliver(w) \/ DeleteInput(w) \/ ClearCancelled(w)
  <2>1. PICK p \in {"rmInput", "clear", "ack"} : pc'[w] = p
    BY <1>2, <1>6 DEF Deliver, DeleteInput, ClearCancelled, Go
  <2>2. /\ pc[w] \in {"deliver", "rmInput", "clear"} /\ UNCHANGED held /\ ~mark'
        /\ Ended(db) /\ ~Due(db)
    BY <1>2, <1>3, <1>6 DEF Deliver, DeleteInput, ClearCancelled, Ready, queueVars, Ended, Due, Terminal
  <2> QED
    BY <1>1, <1>2, <1>3, <2>1, <2>2, BetweenKept
<1>7. CASE Release(w)
  <2>1. pc'[w] = "idle" /\ pc[w] = "release" /\ UNCHANGED <<mark, input>>
    BY <1>2, <1>7 DEF Release, Ready, Go, sideVars
  <2> QED
    BY <1>1, <1>2, <1>3, <2>1, BetweenKept
<1> QED
  BY <1>4, <1>5, <1>6, <1>7

\* The acknowledgement leaves the job another message if it is to run.
LEMMA AckKept ==
  ASSUME NEW w \in Workers, Here(w), Ack(w) PROVE Whole(w)'
<1> USE DEF Here, Whole
<1>1. /\ pc[w] = "ack" /\ out[w] = Nil /\ pc'[w] = "idle" /\ live' \in {live, live \ {held[w]}}
      /\ UNCHANGED <<db, mem, own, out, sent, mark, input, rpc, ref>>
  BY DEF Ack, Ready, Go, storeVars, sideVars, apiVars, TypeInv, TypeOK, WorkType
<1>2. sent # 0 /\ Begun /\ Begun' /\ Coming' = Coming /\ Shared' = Shared
  BY <1>1, AtRun DEF Begun, Coming, Shared
<1>3. Due(db) => Coming \/ live' # {}
  BY <1>1 DEF Posts, Fed
<1>4. Callers' /\ Made(w)'
  BY <1>1, <1>2 DEF Callers, Made, Full, Ended
<1>5. Ends(w)'
  BY <1>1, <1>2 DEF Ends, Taken, Ended, Run, Active
<1>6. Posts(w)'
  BY <1>1, <1>2, <1>3 DEF Posts, Taken, Due
<1> QED
  BY <1>4, <1>5, <1>6

LEMMA ReadKept ==
  ASSUME NEW w \in Workers, Here(w), ReadJob(w) PROVE Whole(w)'
<1> USE DEF Here, Whole
<1>1. pc[w] = "refresh" /\ out[w] = Nil
  BY DEF ReadJob, Ready
<1>2. sent # 0 /\ db \in Job /\ Full(db) /\ held[w] \in live
  BY <1>1, AtRun
<1>3. /\ own'[w] = db /\ pc'[w] = "install"
      /\ UNCHANGED <<db, mem, sent, live, mark, held, input, out, rpc, ref>> /\ Shared' = Shared
  BY DEF ReadJob, Go, Calm, Shared, queueVars, sideVars, apiVars, TypeInv, TypeOK, StoreType, WorkType
<1>4. Callers' /\ Made(w)' /\ Coming' = Coming
  BY <1>2, <1>3 DEF Callers, Made, Begun, Coming, Full, Ended
<1>5. Ends(w)'
  BY <1>1, <1>2, <1>3 DEF Ends, Taken, Ended, Full, Run, Active
<1>6. Posts(w)'
  BY <1>1, <1>2, <1>3, <1>4 DEF Posts, Taken, Due
<1> QED
  BY <1>4, <1>5, <1>6

LEMMA InstallKept ==
  ASSUME NEW w \in Workers, Here(w), InstallJob(w) PROVE Whole(w)'
<1> USE DEF Here, Whole
<1> DEFINE j == own[w]
<1>1. pc[w] = "install" /\ out[w] = Nil
  BY DEF InstallJob, Ready
<1>2. /\ sent # 0 /\ Begun /\ db \in Job /\ Full(db) /\ held[w] \in live /\ (input \/ Ended(db))
      /\ j \in Job /\ Full(j) /\ (Ended(j) <=> Ended(db)) /\ (~Due(j) /\ Due(db) => Fed(w))
  BY <1>1, AtRun DEF Ends, Posts
<1>3. /\ Shared' = j /\ own'[w] = Entry /\ pc'[w] = Route(j)
      /\ UNCHANGED <<db, sent, live, mark, held, input, out, rpc>>
  <2>1. Cur(w) = j /\ j # Nil
    BY <1>2, CalmFacts, NamesAssumption DEF Full
  <2>2. Reload("api", j) /\ own' = [own EXCEPT ![w] = Entry] /\ Go(w, Route(j))
    BY <2>1, CalmFacts DEF InstallJob
  <2> QED
    BY <2>2, CalmFacts DEF InstallJob, Reload, Go, Shared, queueVars, sideVars, TypeInv, TypeOK, StoreType, WorkType
<1> HIDE DEF j
<1>4. /\ Ended(j) => pc'[w] = "deliver"
      /\ ~Ended(j) => pc'[w] = IF Due(j) THEN "entry" ELSE "ack"
  BY <1>2, <1>3 DEF Route, Ended, Due, Full, Terminal, Job, Status
<1>5. Begun' /\ Coming' = Coming /\ Fed(w)' = Fed(w) /\ pc'[w] \in {"deliver", "ack", "entry"}
  BY <1>2, <1>3, <1>4 DEF Begun, Coming, Fed
<1>6. Callers' /\ Made(w)'
  BY <1>2, <1>3, <1>5 DEF Callers, Made, Full, Ended
<1>7. Ends(w)'
  BY <1>1, <1>2, <1>3, <1>4, <1>5 DEF Ends, Taken, Ended, Run, Active
<1>8. Posts(w)'
  BY <1>1, <1>2, <1>3, <1>4, <1>5 DEF Posts, Taken, Due
<1> QED
  BY <1>6, <1>7, <1>8

\* A handler, or the queue, lets a message come, or leaves the messages as they are.
LEMMA CallKept ==
  ASSUME NEW w \in Workers, Here(w), UNCHANGED <<db, mem, own, pc, held, out>>, live \subseteq live',
         Callers', Made(w)', Coming => Coming' \/ \E m \in live' : m \notin 0..sent
  PROVE  Whole(w)'
<1> USE DEF Here, Whole
<1>1. Shared' = Shared /\ (Fed(w) => Fed(w)')
  BY CalmFacts DEF Shared, Fed
<1>2. Ends(w)'
  BY <1>1 DEF Ends, Taken, Ended
<1>3. Coming \/ live # {} => Coming' \/ live' # {}
  OBVIOUS
<1>4. Posts(w)'
  BY <1>1, <1>3 DEF Posts, Taken, Due
<1> QED
  BY <1>2, <1>4

\* A handler that changes the job before it is configured.
LEMMA NewKept ==
  ASSUME NEW w \in Workers, Here(w), sent = 0, UNCHANGED <<sent, live, pc, out>>,
         Callers', Made(w)', Shared' = Nil <=> db' = Nil, Shared' # Nil => Shared'.status = db'.status,
         Coming' \/ db' = Nil
  PROVE  Whole(w)'
<1> USE DEF Here, Whole
<1>1. pc[w] = "idle" /\ out[w] = Nil
  BY DEF Made, TypeInv, HasJob, Awaiting
<1>2. Ends(w)'
  BY <1>1 DEF Ends, Taken, Ended, Run, Active
<1>3. Posts(w)'
  BY <1>1 DEF Posts, Due
<1> QED
  BY <1>2, <1>3

LEMMA CreateKept ==
  ASSUME NEW w \in Workers, Here(w), CreateStep, ~RolledBack' PROVE Whole(w)'
<1> USE DEF Here, Whole
<1>1. rpc \in [Requests -> HandlerLocations] /\ "create" \in Requests /\ \A r \in Requests : r # "create" => r \in Requests
  BY DEF TypeInv, TypeOK, ApiType, Requests
<1>2. ASSUME NEW x, ApiGo("create", x)
      PROVE  /\ rpc'["create"] = x /\ rpc'["cancel"] = rpc["cancel"]
             /\ rpc'["pause"] = rpc["pause"] /\ rpc'["resume"] = rpc["resume"]
  BY <1>1, <1>2 DEF ApiGo, Requests
<1>3. ASSUME NEW k \in {"audit", "send"}, Spend(k) PROVE FALSE
  <2>1. k \in Kinds /\ left[k] \in Nat /\ left[k] <= Quota[k] /\ left'[k] = left[k] - 1 /\ Quota[k] \in Nat
    BY <1>3, BoundsAssumption DEF Spend, TypeInv, TypeOK, Kinds
  <2> QED
    BY <2>1 DEF RolledBack
<1>4. CASE Create
  <2>1. /\ Shared' = NewJob /\ db' = Row(NewJob, FALSE) /\ ref'["create"] = Entry /\ rpc["create"] = "idle"
        /\ UNCHANGED <<sent, live, pc, out, mark, input>>
    BY <1>4, CalmFacts DEF Create, At, Shared, TypeInv, TypeOK, StoreType, ApiType, Requests, queueVars, sideVars, workVars
  <2>2. NewJob \in Job /\ db' \in Job /\ db'.status = NewJob.status /\ ~NewJob.payload /\ ~NewJob.cancel
    BY <2>1, NewJobType, CalmRow DEF NewJob
  <2>3. sent = 0 /\ ~Begun
    BY <2>1 DEF Made, Begun
  <2>4. rpc'["create"] = "stage" /\ rpc'["resume"] = rpc["resume"] /\ Callers' /\ Coming' /\ ~Begun'
    BY <1>2, <1>4, <2>1, <2>3 DEF Create, Callers, Coming, Begun
  <2>5. Shared' # Nil /\ db' # Nil /\ ~Shared'.payload /\ ~Shared'.cancel
    BY <2>1, <2>2, NamesAssumption
  <2>6. Made(w)'
    BY <2>1, <2>3, <2>4, <2>5 DEF Made
  <2> QED
    BY <2>1, <2>2, <2>3, <2>4, <2>5, <2>6, NewKept
<1>5. CASE StageInput
  <2>1. rpc["create"] = "stage" /\ UNCHANGED <<db, mem, own, pc, held, out, sent, live, mark, ref>>
    BY <1>5 DEF StageInput, At, storeVars, queueVars, workVars
  <2>2. \/ rpc'["create"] = "configure" /\ input'
        \/ rpc'["create"] = "remove"
    BY <1>2, <1>5 DEF StageInput
  <2>3. sent = 0 /\ ~Begun /\ ~Begun' /\ Shared' = Shared /\ rpc'["resume"] = rpc["resume"]
    BY <1>2, <1>5, <2>1, <2>2 DEF Made, Begun, Shared, StageInput
  <2>4. Callers' /\ Coming'
    BY <1>2, <1>5, <2>1, <2>2 DEF StageInput, Callers, Coming
  <2>5. Made(w)'
    BY <2>1, <2>2, <2>3 DEF Made
  <2> QED
    BY <2>1, <2>4, <2>5, CallKept
<1>6. CASE ConfigureTask
  <2>1. /\ rpc["create"] = "configure" /\ rpc'["create"] = "audit" /\ rpc'["resume"] = rpc["resume"]
        /\ UNCHANGED <<sent, live, pc, out, mark, input>>
    BY <1>2, <1>6 DEF ConfigureTask, At, queueVars, sideVars, workVars
  <2>2. sent = 0 /\ ~Begun /\ Shared \in Job /\ ~Shared.cancel /\ ref["create"] = Entry /\ input
    BY <2>1, CalmFacts DEF Made, Begun, Maybe
  <2>3. Shared' = [Shared EXCEPT !.payload = TRUE] /\ db' = Row(Shared', FALSE)
    <3>1. ApiPersist("create", [Shared EXCEPT !.payload = TRUE], FALSE)
      BY <1>6, <2>2 DEF ConfigureTask, Deref, Shared
    <3>2. Shared' = [Shared EXCEPT !.payload = TRUE]
      BY <2>2, <3>1, CalmFacts DEF ApiPersist, Shared, TypeInv, TypeOK, StoreType
    <3>3. Shared' # Nil
      BY <2>2, <3>2, JobUpdates, NamesAssumption
    <3> QED
      BY <3>1, <3>2, <3>3 DEF ApiPersist, Calm, Shared
  <2>4. /\ Shared' \in Job /\ Shared'.payload /\ ~Shared'.cancel
        /\ db' \in Job /\ db'.status = Shared'.status /\ db'.payload /\ ~db'.cancel
    <3>1. Shared' \in Job
      BY <2>2, <2>3, JobUpdates
    <3>2. Shared'.payload /\ ~Shared'.cancel
      BY <2>2, <2>3 DEF Job
    <3> QED
      BY <2>3, <3>1, <3>2, CalmRow
  <2>5. Callers' /\ Coming' /\ Begun'
    BY <1>2, <1>6, <2>1 DEF ConfigureTask, Callers, Coming, Begun
  <2>6. Made(w)'
    BY <2>1, <2>2, <2>4, <2>5, NamesAssumption DEF Made, Full
  <2> QED
    BY <2>1, <2>2, <2>4, <2>5, <2>6, NewKept, NamesAssumption
<1>7. CASE AuditCreate
  <2>1. /\ rpc["create"] = "audit" /\ rpc'["create"] = "enqueue" /\ rpc'["resume"] = rpc["resume"]
        /\ UNCHANGED <<db, mem, own, pc, held, out, sent, live, mark, input, ref>> /\ Shared' = Shared
    BY <1>2, <1>3, <1>7 DEF AuditCreate, At, storeVars, queueVars, sideVars, workVars, Shared
  <2>2. Callers' /\ Coming' /\ Begun /\ Begun'
    BY <1>2, <1>3, <1>7, <2>1 DEF AuditCreate, Callers, Coming, Begun
  <2>3. Made(w)'
    BY <2>1, <2>2 DEF Made, Full, Ended
  <2> QED
    BY <2>1, <2>2, <2>3, CallKept
<1>8. CASE EnqueueCreated
  <2>1. /\ rpc["create"] = "enqueue" /\ rpc'["create"] = "done" /\ rpc'["resume"] = rpc["resume"]
        /\ UNCHANGED <<db, mem, own, pc, held, out, mark, input, ref>> /\ Shared' = Shared
        /\ sent' = sent + 1 /\ live' = live \cup {sent + 1}
    BY <1>2, <1>3, <1>8 DEF EnqueueCreated, Enqueue, At, storeVars, sideVars, workVars, Shared
  <2>2. sent' # 0 /\ sent + 1 \in live' /\ sent + 1 \notin 0..sent
    BY <2>1, CalmFacts
  <2>3. Callers' /\ Begun /\ Begun'
    BY <1>2, <1>3, <1>8, <2>1, <2>2 DEF EnqueueCreated, Enqueue, Callers, Begun
  <2>4. Made(w)'
    BY <2>1, <2>2, <2>3 DEF Made, Full, Ended
  <2> QED
    BY <2>1, <2>2, <2>3, <2>4, CallKept
<1>9. CASE RemoveJob
  <2>1. rpc["create"] = "remove" /\ rpc'["create"] = "done" /\ rpc'["resume"] = rpc["resume"]
        /\ UNCHANGED <<sent, live, pc, out, mark, input>>
    BY <1>2, <1>9 DEF RemoveJob, At, queueVars, sideVars, workVars
  <2>2. sent = 0 /\ ~Begun /\ ~Begun' /\ Shared # Nil
    BY <2>1 DEF Made, Begun
  <2>3. Shared' = Nil /\ db' = Nil
    BY <1>9, <2>2, CalmFacts DEF RemoveJob, Shared, TypeInv, TypeOK, StoreType
  <2>4. Callers'
    BY <1>2, <1>9, <2>1 DEF RemoveJob, Callers
  <2>5. Made(w)'
    BY <2>1, <2>2, <2>3 DEF Made
  <2> QED
    BY <2>1, <2>2, <2>3, <2>4, <2>5, NewKept
<1>10. CASE UnstageInput
  BY <1>10 DEF UnstageInput, At, Callers
<1> QED
  BY <1>4, <1>5, <1>6, <1>7, <1>8, <1>9, <1>10 DEF CreateStep

\* A pause and a resume change a job that has not ended, in memory and in the store at once.
LEMMA ApplyKept ==
  ASSUME NEW w \in Workers, Here(w), NEW r \in Requests, ApplyRequest(r) PROVE Whole(w)'
<1> USE DEF Here, Whole
<1>1. r \in {"pause", "resume"} /\ rpc[r] = "apply"
  BY DEF ApplyRequest, At, Callers, Requests
<1>2. /\ Shared \in Job /\ ~Ended(Shared) /\ (r = "resume" => Shared.status = "paused" /\ Shared.payload)
      /\ Shared' = Applied(r, Shared) /\ ref'["create"] = ref["create"]
      /\ db' = IF Applied(r, Shared) = Shared THEN db ELSE Row(Applied(r, Shared), r # "cancel")
      /\ UNCHANGED <<own, sent, live, mark, input, pc, held, out>>
  <2>1. /\ mem["api"] = Shared /\ ~Rejected(r)
        /\ mem' = [mem EXCEPT !["api"] = Applied(r, Shared)]
        /\ db' = IF Applied(r, Shared) = Shared THEN db ELSE Row(Applied(r, Shared), r # "cancel")
        /\ ref' = [ref EXCEPT ![r] = Entry] /\ UNCHANGED <<own, sent, live, mark, input, pc, held, out>>
    BY DEF ApplyRequest, Shared, queueVars, sideVars, workVars
  <2>2. Shared \in Job /\ ~Ended(Shared) /\ (r = "resume" => Shared.status = "paused" /\ Shared.payload)
    BY <1>1, <2>1, CalmFacts DEF Rejected, Ended, Maybe, Terminal
  <2>3. Shared' = Applied(r, Shared) /\ ref'["create"] = ref["create"]
    BY <1>1, <2>1, CalmFacts DEF Shared, TypeInv, TypeOK, StoreType, ApiType, Requests
  <2> QED
    BY <2>1, <2>2, <2>3
<1>3. /\ Shared' \in Job /\ Shared'.payload = Shared.payload /\ Shared'.cancel = Shared.cancel
      /\ Shared'.status = IF r = "pause" THEN "paused" ELSE "queued"
  <2>1. Shared' \in Job
    BY <1>2, JobUpdates
  <2> QED
    BY <1>1, <1>2, <2>1 DEF Applied, Job
<1>4. /\ rpc'[r] = AfterApply(r) /\ \A x \in Requests : x # r => rpc'[x] = rpc[x]
      /\ {"create", "cancel", "pause", "resume"} = Requests
      /\ AfterApply(r) = IF r = "pause" THEN "audit" ELSE "enqueue"
  BY <1>1 DEF ApplyRequest, ApiGo, AfterApply, TypeInv, TypeOK, ApiType, Requests
<1>5. Callers' /\ Begun' = Begun /\ rpc'["create"] = rpc["create"] /\ (Coming => Coming') /\ (r = "resume" => Coming')
  BY <1>1, <1>2, <1>4 DEF Callers, Begun, Coming
<1>6. \/ Shared' = Shared /\ db' = db /\ r = "pause"
      \/ db' \in Job /\ db'.status = Shared'.status /\ db'.payload = Shared.payload /\ db'.cancel = Shared.cancel
  <2>1. (r # "cancel") \in BOOLEAN
    OBVIOUS
  <2>2. Applied(r, Shared) = Shared => r = "pause"
    BY <1>1, <1>2, <1>3
  <2> QED
    BY <1>2, <1>3, <2>1, <2>2, CalmRow
<1>7. ~Ended(db)
  BY <1>2 DEF Ends
<1>8. CASE Shared' = Shared /\ db' = db /\ r = "pause"
  <2>1. Made(w)'
    BY <1>1, <1>2, <1>4, <1>5, <1>8 DEF Made, Full, Ended
  <2>2. mem' = mem
    BY <1>2, <1>8, CalmFacts DEF ApplyRequest, Shared, TypeInv, TypeOK, StoreType
  <2> QED
    BY <1>2, <1>5, <1>8, <2>1, <2>2, CallKept
<1>9. CASE db' \in Job /\ db'.status = Shared'.status /\ db'.payload = Shared.payload /\ db'.cancel = Shared.cancel
  <2>1. Begun => Full(Shared) /\ input
    BY <1>7 DEF Made
  <2>2. ~Begun => r = "pause" /\ sent = 0 /\ rpc["create"] \notin {"idle", "done"} /\ ~Shared.payload /\ ~Shared.cancel
    <3> SUFFICES ASSUME ~Begun
                 PROVE  r = "pause" /\ sent = 0 /\ rpc["create"] \notin {"idle", "done"} /\ ~Shared.payload /\ ~Shared.cancel
      OBVIOUS
    <3>1. sent = 0 /\ Shared # Nil
      BY <1>2, NamesAssumption DEF Begun
    <3>2. rpc["create"] \notin {"idle", "done"} /\ ~Shared.payload /\ ~Shared.cancel
      BY <3>1 DEF Made
    <3> QED
      BY <1>1, <1>2, <3>1, <3>2
  <2>3. Made(w)'
    <3>1. CASE Begun
      BY <1>2, <1>3, <1>5, <1>9, <2>1, <3>1, NamesAssumption DEF Made, Full
    <3>2. CASE ~Begun
      <4>1. Shared' # Nil /\ db' # Nil /\ ~Shared'.payload /\ ~Shared'.cancel /\ ref'["create"] = Entry
        BY <1>2, <1>3, <1>9, <2>2, <3>2, NamesAssumption DEF Made
      <4>2. rpc'["resume"] = rpc["resume"] /\ rpc'["create"] = rpc["create"]
        BY <1>4, <1>5, <2>2, <3>2
      <4> QED
        BY <1>2, <1>5, <2>2, <3>2, <4>1, <4>2 DEF Made
    <3> QED
      BY <3>1, <3>2
  <2>4. ~Ended(Shared') /\ ~Ended(db') /\ (Due(db') \/ Due(Shared') => r = "resume")
    <3>1. Shared'.status \in {"paused", "queued"} /\ (Shared'.status = "queued" => r = "resume")
      BY <1>1, <1>3
    <3>2. db'.status = Shared'.status
      BY <1>9
    <3> HIDE DEF Here, Whole
    <3> QED
      BY ONLY <3>1, <3>2 DEF Ended, Due, Terminal
  <2>5. Ends(w)'
    BY <1>2, <1>7, <2>4 DEF Ends, Taken, Ended, Full
  <2>6. Coming => Fed(w)'
    BY <1>5 DEF Fed
  <2>7. Fed(w) => Fed(w)'
    BY <1>2, <1>5 DEF Fed
  <2>8. Posts(w)'
    BY <1>2, <1>5, <2>4, <2>7 DEF Posts, Taken, Fed, Due
  <2> QED
    BY <1>5, <2>3, <2>5, <2>8
<1> QED
  BY <1>6, <1>8, <1>9

\* The other steps of the handlers only move on, and a resume enqueues its message.
LEMMA HandlerKept ==
  ASSUME NEW w \in Workers, Here(w), NEW r \in Requests, RequestStep(r) \/ HandlerStep, ~RolledBack'
  PROVE  Whole(w)'
<1> USE DEF Here, Whole
<1>1. rpc \in [Requests -> HandlerLocations] /\ {"create", "cancel", "pause", "resume"} = Requests
  BY DEF TypeInv, TypeOK, ApiType, Requests
<1>2. ASSUME NEW k \in {"audit", "send"}, Spend(k) PROVE FALSE
  <2>1. k \in Kinds /\ left[k] \in Nat /\ left[k] <= Quota[k] /\ left'[k] = left[k] - 1 /\ Quota[k] \in Nat
    BY <1>2, BoundsAssumption DEF Spend, TypeInv, TypeOK, Kinds
  <2> QED
    BY <2>1 DEF RolledBack
<1>3. ASSUME NEW q \in {"pause", "resume"}, NEW x \in {"idle", "apply"}, ApiGo(q, x), rpc[q] # "enqueue",
             UNCHANGED <<db, mem, own, pc, held, out, sent, live, mark, input, ref>>
      PROVE  Whole(w)'
  <2>1. /\ rpc'[q] = x /\ \A y \in Requests : y # q => rpc'[y] = rpc[y]
        /\ Shared' = Shared /\ Begun' = Begun /\ (Coming => Coming')
    BY <1>1, <1>3 DEF ApiGo, Begun, Coming, Shared
  <2>2. Callers'
    BY <1>1, <1>3, <2>1 DEF Callers
  <2>3. Made(w)'
    BY <1>1, <1>3, <2>1 DEF Made, Full, Ended
  <2> QED
    BY <1>3, <2>1, <2>2, <2>3, CallKept
<1>4. CASE ApiRefresh(r)
  <2>1. r \in {"pause", "resume"} /\ At(r, "idle")
    BY <1>1, <1>4, CalmFacts DEF ApiRefresh, Calm
  <2>2. ApiGo(r, "apply") /\ UNCHANGED <<db, mem, own, pc, held, out, sent, live, mark, input, ref>>
    BY <1>4 DEF ApiRefresh, Calm, queueVars, sideVars, workVars
  <2> QED
    BY <1>3, <2>1, <2>2 DEF At
<1>5. CASE Reject(r) \/ AuditRequest(r)
  <2>1. r \in {"pause", "resume"} /\ rpc[r] # "enqueue"
    BY <1>1, <1>5 DEF Reject, AuditRequest, At, Callers
  <2>2. ApiGo(r, "idle") /\ UNCHANGED <<db, mem, own, pc, held, out, sent, live, mark, input, ref>>
    BY <1>2, <1>5 DEF Reject, AuditRequest, storeVars, queueVars, sideVars, workVars
  <2> QED
    BY <1>3, <2>1, <2>2
<1>6. CASE EnqueueResumed
  <2>1. /\ rpc["resume"] = "enqueue" /\ ApiGo("resume", "audit") /\ sent' = sent + 1 /\ live' = live \cup {sent + 1}
        /\ UNCHANGED <<db, mem, own, pc, held, out, mark, input, ref>>
    BY <1>2, <1>6 DEF EnqueueResumed, At, Enqueue, storeVars, sideVars, workVars
  <2>2. /\ rpc'["resume"] = "audit" /\ \A y \in Requests : y # "resume" => rpc'[y] = rpc[y]
        /\ sent' # 0 /\ sent + 1 \in live' /\ sent + 1 \notin 0..sent /\ Shared' = Shared
    BY <1>1, <2>1, CalmFacts DEF ApiGo, Shared
  <2>3. Begun /\ Begun' /\ Callers'
    BY <1>1, <2>1, <2>2 DEF Made, Begun, Callers
  <2>4. Made(w)'
    BY <1>1, <2>1, <2>2, <2>3 DEF Made, Begun, Full, Ended
  <2> QED
    BY <2>1, <2>2, <2>3, <2>4, CallKept
<1>7. ~RestoreJob(r) /\ ~MarkCancelled /\ ~UnmarkCancelled /\ ~RemoveResumed /\ ~ApiRead(r)
  BY <1>1 DEF ApiRead, Calm, RestoreJob, MarkCancelled, UnmarkCancelled, RemoveResumed, At, Callers
<1> QED
  BY <1>4, <1>5, <1>6, <1>7, ApplyKept DEF RequestStep, HandlerStep

LEMMA LeaseKept ==
  ASSUME NEW w \in Workers, Here(w),
         (\E m \in leased : LeaseExpires(m)) \/ (\E m \in 1..sent : Reappear(m)) \/ UNCHANGED vars
  PROVE  Whole(w)'
<1> USE DEF Here, Whole
<1>1. UNCHANGED <<db, mem, own, pc, held, out, sent, mark, input, rpc, ref>> /\ live \subseteq live'
  BY DEF LeaseExpires, Reappear, vars, storeVars, queueVars, sideVars, workVars, apiVars
<1>2. Shared' = Shared /\ Begun' = Begun /\ Coming' = Coming /\ Callers'
  BY <1>1 DEF Shared, Begun, Coming, Callers
<1>3. Made(w)'
  BY <1>1, <1>2 DEF Made, Full, Ended
<1> QED
  BY <1>1, <1>2, <1>3, CallKept

-----------------------------------------------------------------------------
\* Nothing is ever put back into the quota.
Spent == \A k \in Kinds : left[k] <= Quota[k]

LEMMA SpentNext == ASSUME TypeInv, Spent, [Next]_vars PROVE Spent' /\ (RolledBack => RolledBack')
<1>1. left \in [Kinds -> Nat] /\ \A k \in Kinds : left[k] \in Nat /\ Quota[k] \in Nat
  BY BoundsAssumption DEF TypeInv, TypeOK
<1>2. ASSUME \A k \in Kinds : left'[k] \in Nat /\ left'[k] <= left[k] PROVE Spent' /\ (RolledBack => RolledBack')
  <2>1. ASSUME NEW k \in Kinds PROVE left'[k] <= Quota[k] /\ (left[k] # Quota[k] => left'[k] # Quota[k])
    BY <1>1, <1>2 DEF Spent
  <2>2. {"audit", "send"} \subseteq Kinds
    BY DEF Kinds
  <2> QED
    BY <2>1, <2>2 DEF Spent, RolledBack
<1>3. ASSUME UNCHANGED left PROVE \A k \in Kinds : left'[k] \in Nat /\ left'[k] <= left[k]
  BY <1>1, <1>3
<1>4. ASSUME NEW j \in Kinds, Spend(j) PROVE \A k \in Kinds : left'[k] \in Nat /\ left'[k] <= left[k]
  BY <1>1, <1>4 DEF Spend
<1>5. UNCHANGED left \/ (\E j \in Kinds : Spend(j)) \/ (\E r \in Requests : ApiRefresh(r) \/ ApiRead(r))
  <2> USE DEF Kinds
  <2>1. ASSUME CreateStep PROVE UNCHANGED left \/ \E j \in Kinds : Spend(j)
    BY <2>1 DEF CreateStep, Create, StageInput, ConfigureTask, AuditCreate, EnqueueCreated, UnstageInput, RemoveJob
  <2>2. ASSUME NEW r \in Requests, RequestStep(r), ~ApiRefresh(r), ~ApiRead(r) PROVE UNCHANGED left \/ \E j \in Kinds : Spend(j)
    BY <2>2 DEF RequestStep, Reject, ApplyRequest, AuditRequest, RestoreJob
  <2>3. ASSUME HandlerStep PROVE UNCHANGED left \/ \E j \in Kinds : Spend(j)
    BY <2>3 DEF HandlerStep, MarkCancelled, UnmarkCancelled, EnqueueResumed, RemoveResumed
  <2>4. ASSUME NEW w \in Workers, WorkerStep(w) PROVE UNCHANGED left \/ \E j \in Kinds : Spend(j)
    <3>1. ASSUME RunStep(w) PROVE UNCHANGED left \/ \E j \in Kinds : Spend(j)
      <4>1. ASSUME NEW p, NEW n, CheckCancel(w, p, n) \/ CheckPause(w, p, n)
            PROVE  UNCHANGED left \/ Spend("read")
        BY <4>1 DEF CheckCancel, CheckPause, Latest
      <4> QED
        BY <3>1, <4>1 DEF RunStep, EnterRun, SetUp, OpenInput, InferBatch, InferFails, Complete, Archive, Retry
    <3> QED
      BY <2>4, <3>1 DEF WorkerStep, Snapshot, WriteOut, Claim, ReadJob, InstallJob, Finish, Deliver, DeleteInput,
                        ClearCancelled, Ack, Release
  <2>5. ASSUME (\E m \in leased : LeaseExpires(m)) \/ (\E m \in 1..sent : Reappear(m)) \/ (\E p \in Procs : Crash(p))
               \/ UNCHANGED vars
        PROVE  UNCHANGED left \/ \E j \in Kinds : Spend(j)
    BY <2>5 DEF LeaseExpires, Reappear, Crash, vars
  <2> QED
    BY <2>1, <2>2, <2>3, <2>4, <2>5 DEF Next
<1>6. ASSUME NEW r \in Requests, ApiRefresh(r) \/ ApiRead(r)
      PROVE  \A k \in Kinds : left'[k] \in Nat /\ left'[k] <= left[k]
  <2>1. ASSUME ApiRefresh(r) PROVE UNCHANGED left \/ (left[r] > 0 /\ left' = [left EXCEPT ![r] = @ - 1])
    BY <2>1 DEF ApiRefresh
  <2>2. ASSUME ApiRead(r)
        PROVE  \/ left[r] > 0 /\ left' = [left EXCEPT ![r] = @ - 1]
               \/ left[r] > 0 /\ left["read"] > 0 /\ left' = [left EXCEPT ![r] = @ - 1, !["read"] = @ - 1]
    BY <2>2 DEF ApiRead
  <2>3. r \in Kinds /\ "read" \in Kinds /\ r # "read"
    <3>1. r # "create"
      BY <1>6 DEF ApiRefresh, ApiRead
    <3> QED
      BY <3>1 DEF Requests, Kinds
  <2>4. CASE left[r] > 0 /\ left' = [left EXCEPT ![r] = @ - 1]
    <3> SUFFICES ASSUME NEW k \in Kinds PROVE left'[k] \in Nat /\ left'[k] <= left[k]
      OBVIOUS
    <3>1. left'[k] = IF k = r THEN left[r] - 1 ELSE left[k]
      BY <1>1, <2>4
    <3> QED
      BY <1>1, <2>3, <2>4, <3>1
  <2>5. CASE left[r] > 0 /\ left["read"] > 0 /\ left' = [left EXCEPT ![r] = @ - 1, !["read"] = @ - 1]
    <3> SUFFICES ASSUME NEW k \in Kinds PROVE left'[k] \in Nat /\ left'[k] <= left[k]
      OBVIOUS
    <3>1. left'[k] = IF k = "read" THEN left["read"] - 1 ELSE IF k = r THEN left[r] - 1 ELSE left[k]
      BY <1>1, <2>3, <2>5
    <3> QED
      BY <1>1, <2>3, <2>5, <3>1
  <2> QED
    BY <1>3, <1>6, <2>1, <2>2, <2>4, <2>5
<1> QED
  BY <1>2, <1>3, <1>4, <1>5, <1>6

LEMMA WholeNext ==
  ASSUME NEW w \in Workers, Here(w), [Next]_vars, ~RolledBack' PROVE Whole(w)'
<1>1. CASE WorkerStep(w)
  <2>1. CASE RunStep(w)
    <3>1. {"pause1", "setup", "pause2", "infer", "retry"} \subseteq Active
      BY DEF Active
    <3>2. /\ CheckCancel(w, "cancel1", "pause1") \/ CheckPause(w, "pause1", "setup") => Whole(w)'
          /\ CheckCancel(w, "cancel2", "pause2") \/ CheckPause(w, "pause2", "infer") => Whole(w)'
          /\ CheckCancel(w, "except", "retry") => Whole(w)'
      BY <3>1, CheckKept
    <3> QED
      BY <2>1, <3>2, EnterRunKept, BatchKept, CompleteKept, RetryKept DEF RunStep
  <2> QED
    BY <1>1, <2>1, WrittenKept, QuietKept, AckKept, ReadKept, InstallKept DEF WorkerStep
<1>2. ASSUME NEW p \in Procs, Crash(p) PROVE FALSE
  BY <1>2, CalmFacts DEF Crash
<1>3. "create" \in Requests /\ \A v \in Workers : v = w
  BY CalmFacts DEF Requests
<1> QED
  BY <1>1, <1>2, <1>3, CreateKept, HandlerKept, LeaseKept DEF Next

Settled(w) == TypeInv /\ Spent /\ (~RolledBack => Whole(w))

LEMMA SettledNext ==
  ASSUME Calm, NEW w \in Workers, Workers = {w}, Settled(w), [Next]_vars PROVE Settled(w)'
<1>1. TypeInv' /\ Spent' /\ (RolledBack => RolledBack')
  BY TypeNext, SpentNext DEF Settled
<1>2. ASSUME ~RolledBack' PROVE Whole(w)'
  BY <1>1, <1>2, WholeNext DEF Settled, Here, Spent
<1> QED
  BY <1>1, <1>2 DEF Settled

LEMMA SettledInit == ASSUME Calm, NEW w \in Workers, Init PROVE Settled(w)
<1>1. TypeInv
  BY TypeInit
<1>2. Spent
  BY BoundsAssumption DEF Init, Spent
<1>3. Shared = Nil /\ db = Nil /\ pc[w] = "idle" /\ out[w] = Nil /\ sent = 0 /\ ~mark
  BY Homes DEF Init, Shared
<1>4. Callers /\ ~Begun
  BY <1>3 DEF Init, Callers, Begun, Requests
<1>5. Made(w) /\ Ends(w) /\ Posts(w)
  BY <1>3, <1>4 DEF Init, Made, Ends, Posts, Ended, Due, Taken, Run, Active, Requests
<1> QED
  BY <1>1, <1>2, <1>4, <1>5 DEF Settled, Whole

\* What the invariant says of a paused job and of one that is to run.
LEMMA SettledKeeps == ASSUME NEW w \in Workers, Settled(w) PROVE PauseKeepsJob
<1> SUFFICES ASSUME ~RolledBack PROVE PausedIsResumable /\ JobCanRun
  BY DEF PauseKeepsJob
<1> USE DEF Settled, Whole
<1>1. At("create", "done") /\ db # Nil => Begun
  BY DEF Made, At
<1>2. PausedIsResumable
  BY <1>1 DEF PausedIsResumable, Is, Made, Full
<1>3. NoStrandedJob
  BY DEF NoStrandedJob, At, Posts, Due, Coming
<1>4. InputWhileNeeded
  BY <1>1 DEF InputWhileNeeded, Made, Ended, Terminal
<1> QED
  BY <1>2, <1>3, <1>4 DEF JobCanRun

\* As long as no handler is rolled back, a job that is paused and resumed, any number of
\* times and at any point of a run, can be resumed whenever it is paused, keeps its input
\* until it has ended, and has a message whenever it is to run: a resume whose message comes
\* while the paused run still holds the old one loses neither.
THEOREM PausesKeep == ASSUME Calm PROVE Spec => []PauseKeepsJob
<1>1. PICK w \in Workers : Workers = {w}
  BY ModeAssumption DEF Calm
<1>2. Init => Settled(w)
  BY SettledInit
<1>3. Settled(w) /\ [Next]_vars => Settled(w)'
  BY <1>1, SettledNext
<1>4. Settled(w) => PauseKeepsJob
  BY SettledKeeps
<1> QED
  BY <1>2, <1>3, <1>4, PTL DEF Spec

=============================================================================
