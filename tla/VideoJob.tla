------------------------------ MODULE VideoJob ------------------------------
(***************************************************************************)
(* The life of one video job: the row in the job store, the copies of it   *)
(* that the API process and the workers keep in VIDEO_JOBS, the task       *)
(* queue's messages, and the handlers that create, cancel, pause, resume   *)
(* and run it (portrait_jobs.py, portrait_video_job_worker.py,             *)
(* routes_portrait_jobs.py, postgres_jobs.py).                             *)
(*                                                                         *)
(* A handler is cut at every `await`: what lies between two awaits, and    *)
(* what runs under VIDEO_JOBS_LOCK, is one step.  A persist that a worker  *)
(* awaits is two more steps: a thread takes the snapshot under the lock,   *)
(* and writes it after the lock is released.  A worker's look at the row   *)
(* and at the cancellation marker is one step.  A definition called a      *)
(* mutant is a deliberate error, used to show that a property can fail.    *)
(*                                                                         *)
(* A video is NBatches sampled batches; a result is the sequence of the    *)
(* batches whose frames it holds.                                          *)
(***************************************************************************)
EXTENDS Naturals, Sequences, FiniteSets

CONSTANTS
  Workers,     (* video job workers                                        *)
  InProcess,   (* VIDEO_JOB_WORKER_IN_PROCESS                              *)
  Postgres,    (* PORTRAIT_STORAGE_BACKEND = "postgres"                    *)
  MaxRetries,  (* VIDEO_JOB_MAX_RETRIES                                    *)
  NBatches,    (* batches of the video; the last one ends with its end     *)
  Quota,       (* bound on every fault and on every request, by kind       *)
  MaxMsgs,     (* bound on the messages ever enqueued                      *)
  Nil,         (* no value                                                 *)
  Entry        (* a `job` variable denotes the object VIDEO_JOBS holds     *)

Kinds == {"infer", "archive", "crash", "stall", "read", "write", "audit",
          "stage", "send", "cancel", "pause", "resume"}

ASSUME WorkersAssumption == Workers # {} /\ "api" \notin Workers
ASSUME ModeAssumption    == /\ InProcess \in BOOLEAN /\ Postgres \in BOOLEAN
                            /\ InProcess => \E w \in Workers : Workers = {w}
ASSUME BoundsAssumption  == /\ MaxRetries \in Nat
                            /\ NBatches \in Nat \ {0}
                            /\ MaxMsgs \in Nat \ {0}
                            /\ Quota \in [Kinds -> Nat]

VARIABLES
  db,       (* the job's row in the store, or Nil                          *)
  mem,      (* VIDEO_JOBS of each process                                  *)
  own,      (* a worker's `job`: Entry, or an object VIDEO_JOBS does not   *)
            (* hold, because it lost it or it is only read yet             *)
  sent,     (* messages enqueued so far                                    *)
  live,     (* messages not acknowledged                                   *)
  leased,   (* live messages hidden by an unexpired lease                  *)
  mark,     (* the queue's cancellation marker for the job                 *)
  input,    (* the staged input file exists                                *)
  archived, (* the analysis archive of the job exists                      *)
  told,     (* statuses that a terminal webhook event carried              *)
  pc,       (* where each worker is                                        *)
  held,     (* the message each worker holds, or 0                         *)
  out,      (* the persist a worker awaits, with its snapshot, or Nil      *)
  loc,      (* run_video_job's locals: all_frames and the next batch       *)
  rpc,      (* where each API handler is                                   *)
  ref,      (* the object an API handler holds: Entry, a detached copy     *)
  prev,     (* the deepcopy an API handler would roll back to              *)
  rmsg,     (* the message the resume handler enqueued                     *)
  left,     (* what is left of Quota                                       *)
  runs      (* how often run_video_job set the job to running, counted     *)
            (* up to one more than the budget                              *)

storeVars == <<db, mem, own>>
queueVars == <<sent, live, leased, mark>>
sideVars  == <<input, archived, told>>
workVars  == <<pc, held, out, loc, runs>>
apiVars   == <<rpc, ref, prev, rmsg>>
vars == <<storeVars, queueVars, sideVars, workVars, apiVars, left>>

Requests == {"create", "cancel", "pause", "resume"}
Procs    == IF InProcess THEN {"api"} ELSE {"api"} \cup Workers
Home(w)  == IF InProcess THEN "api" ELSE w

Status   == {"queued", "running", "paused", "completed", "failed", "cancelled"}
Terminal == {"completed", "failed", "cancelled"}

Job == [status : Status, cancel : BOOLEAN, pause : BOOLEAN, attempts : Nat,
        ckpt : Nat, frames : Seq(Nat), partial : BOOLEAN, payload : BOOLEAN]

\* A persist in flight: Entry stands for a snapshot that is not taken yet.
Pending == [row : Job \cup {Nil, Entry}, light : BOOLEAN, fail : {"except", "release"}]

ASSUME NamesAssumption == /\ Nil # Entry
                          /\ Nil \notin Job \cup Pending /\ Entry \notin Job

NewJob == [status |-> "queued", cancel |-> FALSE, pause |-> FALSE,
           attempts |-> 0, ckpt |-> 0, frames |-> <<>>, partial |-> FALSE,
           payload |-> FALSE]

(***************************************************************************)
(* What the store keeps of a job.  A lightweight persist drops the frames; *)
(* the postgres row has no column for the attempts, the pause flag, the    *)
(* checkpoint and the task payload.                                        *)
(***************************************************************************)
Lightweight(j) == [j EXCEPT !.frames = <<>>]
PostgresRow(j) == [j EXCEPT !.attempts = 0, !.pause = FALSE, !.ckpt = 0,
                            !.payload = FALSE]
Row(j, light) == LET r == IF light THEN Lightweight(j) ELSE j
                 IN  IF Postgres THEN PostgresRow(r) ELSE r

Spend(k) == left[k] > 0 /\ left' = [left EXCEPT ![k] = @ - 1]

-----------------------------------------------------------------------------
(* The API process.                                                        *)

\* The record an API handler's `job` variable denotes.
Deref(r) == IF ref[r] = Entry THEN mem["api"] ELSE ref[r]

\* VIDEO_JOBS of process p is reloaded: objects handed out before it are
\* no longer the ones the dictionary holds.
Reload(p, j) ==
  /\ mem' = [mem EXCEPT ![p] = j]
  /\ ref' = IF p = "api"
            THEN [r \in Requests |-> IF ref[r] = Entry THEN mem["api"] ELSE ref[r]]
            ELSE ref

\* A handler changes the object it holds to j and persists it: postgres
\* writes that object, the file backend writes what VIDEO_JOBS holds.
ApiPersist(r, j, light) ==
  /\ mem' = IF ref[r] = Entry THEN [mem EXCEPT !["api"] = j] ELSE mem
  /\ ref' = IF ref[r] = Entry THEN ref ELSE [ref EXCEPT ![r] = j]
  /\ db' = IF Postgres THEN Row(j, light)
           ELSE IF mem'["api"] = Nil THEN Nil ELSE Row(mem'["api"], light)

At(r, p)     == rpc[r] = p
ApiGo(r, p)  == rpc' = [rpc EXCEPT ![r] = p]
Enqueue      == /\ sent < MaxMsgs
                /\ sent' = sent + 1
                /\ live' = live \cup {sent + 1}
                /\ UNCHANGED <<leased, mark>>

\* create_video_job
Create ==
  /\ At("create", "idle")
  /\ ApiGo("create", "stage")
  /\ mem' = [mem EXCEPT !["api"] = NewJob]
  /\ db' = Row(NewJob, FALSE)
  /\ ref' = [ref EXCEPT !["create"] = Entry]
  /\ UNCHANGED <<own, queueVars, sideVars, workVars, prev, rmsg, left>>

\* stage_video_upload stores the input, or rejects the upload.
StageInput ==
  /\ At("create", "stage")
  /\ \/ input' = TRUE /\ ApiGo("create", "configure") /\ UNCHANGED left
     \/ Spend("stage") /\ ApiGo("create", "remove") /\ UNCHANGED input
  /\ UNCHANGED <<storeVars, queueVars, archived, told, workVars, ref, prev, rmsg>>

\* configure_video_job_task
ConfigureTask ==
  /\ At("create", "configure")
  /\ ApiPersist("create", [Deref("create") EXCEPT !.payload = TRUE], FALSE)
  /\ ApiGo("create", "audit")
  /\ UNCHANGED <<own, queueVars, sideVars, workVars, prev, rmsg, left>>

\* The creation's audit event, then the enqueue; either may fail.
AuditCreate ==
  /\ At("create", "audit")
  /\ \/ ApiGo("create", "enqueue") /\ UNCHANGED left
     \/ Spend("audit") /\ ApiGo("create", "unstage")
  /\ UNCHANGED <<storeVars, queueVars, sideVars, workVars, ref, prev, rmsg>>

\* Mutant: the handler answers although the enqueue failed.
EnqueueCreatedIgnoresFailure ==
  /\ At("create", "enqueue") /\ ApiGo("create", "done")
  /\ \/ Enqueue /\ UNCHANGED left
     \/ Spend("send") /\ UNCHANGED queueVars
  /\ UNCHANGED <<storeVars, sideVars, workVars, ref, prev, rmsg>>

EnqueueCreated ==
  /\ At("create", "enqueue")
  /\ \/ Enqueue /\ ApiGo("create", "done") /\ UNCHANGED left
     \/ Spend("send") /\ ApiGo("create", "unstage") /\ UNCHANGED queueVars
  /\ UNCHANGED <<storeVars, sideVars, workVars, ref, prev, rmsg>>

\* The roll back of a failed creation: delete_video_job_input, then
\* remove_video_job, which finds nothing when the entry is not in memory.
UnstageInput ==
  /\ At("create", "unstage")
  /\ input' = FALSE
  /\ ApiGo("create", "remove")
  /\ UNCHANGED <<storeVars, queueVars, archived, told, workVars, ref, prev, rmsg, left>>

RemoveJob ==
  /\ At("create", "remove")
  /\ mem' = [mem EXCEPT !["api"] = Nil]
  /\ db' = IF mem["api"] = Nil THEN db ELSE Nil
  /\ ref' = [r \in Requests |-> IF ref[r] = Entry THEN mem["api"] ELSE ref[r]]
  /\ own' = [w \in Workers |-> IF InProcess /\ own[w] = Entry THEN mem["api"] ELSE own[w]]
  /\ ApiGo("create", "done")
  /\ UNCHANGED <<queueVars, sideVars, workVars, prev, rmsg, left>>

\* refresh_video_job_view: with external workers every request first reads
\* the store, and installs what it read under the lock afterwards.  A failed
\* postgres read loads an empty table.
ApiRead(r) ==
  /\ r # "create" /\ At(r, "idle") /\ left[r] > 0
  /\ \/ /\ ref' = [ref EXCEPT ![r] = db]
        /\ left' = [left EXCEPT ![r] = @ - 1]
     \/ /\ Postgres /\ left["read"] > 0
        /\ ref' = [ref EXCEPT ![r] = Nil]
        /\ left' = [left EXCEPT ![r] = @ - 1, !["read"] = @ - 1]
  /\ ~InProcess
  /\ ApiGo(r, "install")
  /\ UNCHANGED <<storeVars, queueVars, sideVars, workVars, prev, rmsg>>

\* VIDEO_JOBS becomes what was read, which a save in between has made stale;
\* with the worker in process there is nothing to load.  The handler then
\* copies the job for its roll back.
ApiRefresh(r) ==
  /\ r # "create"
  /\ \/ /\ InProcess /\ At(r, "idle") /\ left[r] > 0
        /\ left' = [left EXCEPT ![r] = @ - 1]
        /\ UNCHANGED <<mem, ref>>
     \/ /\ ~InProcess /\ At(r, "install")
        /\ Reload("api", Deref(r))
        /\ UNCHANGED left
  /\ prev' = [prev EXCEPT ![r] = mem'["api"]]
  /\ ApiGo(r, "apply")
  /\ UNCHANGED <<db, own, queueVars, sideVars, workVars, rmsg>>

\* A job that is missing, or in a state the request does not accept.
Rejected(r) ==
  LET j == mem["api"]
  IN  j # Nil => \/ r = "pause" /\ j.status \in Terminal
                 \/ r = "resume" /\ (j.status # "paused" \/ ~j.payload)

Reject(r) ==
  /\ r # "create" /\ At(r, "apply") /\ Rejected(r)
  /\ ApiGo(r, "idle")
  /\ UNCHANGED <<storeVars, queueVars, sideVars, workVars, ref, prev, rmsg, left>>

\* Mutant: request_cancel_video_job without its terminal check.
AppliedToTerminal(r, j) ==
  CASE r = "cancel" -> [j EXCEPT !.cancel = TRUE, !.pause = FALSE, !.status = "cancelled"]
    [] r = "pause"  -> [j EXCEPT !.pause = TRUE, !.status = "paused"]
    [] r = "resume" -> [j EXCEPT !.pause = FALSE, !.status = "queued"]

\* What request_cancel_video_job, request_pause_video_job and
\* resume_video_job make of the job; a terminal job is left as it is by the
\* first, a paused one by the second.
Applied(r, j) ==
  CASE r = "cancel" /\ j.status \notin Terminal ->
         [j EXCEPT !.cancel = TRUE, !.pause = FALSE, !.status = "cancelled"]
    [] r = "pause" /\ j.status # "paused" ->
         [j EXCEPT !.pause = TRUE, !.status = "paused"]
    [] r = "resume" -> [j EXCEPT !.pause = FALSE, !.status = "queued"]
    [] OTHER -> j

AfterApply(r) == CASE r = "cancel" -> "mark"
                   [] r = "pause"  -> "audit"
                   [] r = "resume" -> "enqueue"

ApplyRequest(r) ==
  LET j == mem["api"]
  IN  /\ r # "create" /\ At(r, "apply") /\ ~Rejected(r)
      /\ mem' = [mem EXCEPT !["api"] = Applied(r, j)]
      /\ db' = IF Applied(r, j) = j THEN db ELSE Row(Applied(r, j), r # "cancel")
      /\ ref' = [ref EXCEPT ![r] = Entry]
      /\ ApiGo(r, AfterApply(r))
      /\ UNCHANGED <<own, queueVars, sideVars, workVars, prev, rmsg, left>>

\* The cancel handler looks the job up again and leaves the marker that
\* workers poll.
MarkCancelled ==
  LET j == mem["api"]
  IN  /\ At("cancel", "mark")
      /\ ref' = [ref EXCEPT !["cancel"] = IF j = Nil THEN Nil ELSE Entry]
      /\ IF j # Nil /\ j.cancel
         THEN mark' = TRUE /\ ApiGo("cancel", "marked")
         ELSE mark' = mark /\ ApiGo("cancel", "audit")
      /\ UNCHANGED <<storeVars, sent, live, leased, sideVars, workVars, prev, rmsg, left>>

\* Mutant: the resume handler trusts the message of the paused run.
EnqueueResumedNothing ==
  /\ At("resume", "enqueue") /\ ApiGo("resume", "audit")
  /\ UNCHANGED <<storeVars, queueVars, sideVars, workVars, ref, prev, rmsg, left>>

EnqueueResumed ==
  /\ At("resume", "enqueue")
  /\ \/ Enqueue /\ rmsg' = sent + 1 /\ ApiGo("resume", "audit") /\ UNCHANGED left
     \/ Spend("send") /\ ApiGo("resume", "restore") /\ UNCHANGED <<queueVars, rmsg>>
  /\ UNCHANGED <<storeVars, sideVars, workVars, ref, prev>>

\* The audit record of a request; when it fails the handler rolls back.
AuditRequest(r) ==
  /\ r # "create" /\ rpc[r] \in {"audit", "marked"}
  /\ \/ ApiGo(r, "idle") /\ UNCHANGED left
     \/ /\ Spend("audit")
        /\ ApiGo(r, IF At(r, "marked") THEN "unmark"
                    ELSE IF r = "resume" THEN "unsend" ELSE "restore")
  /\ UNCHANGED <<storeVars, queueVars, sideVars, workVars, ref, prev, rmsg>>

UnmarkCancelled ==
  /\ At("cancel", "unmark")
  /\ mark' = FALSE
  /\ ApiGo("cancel", "restore")
  /\ UNCHANGED <<storeVars, sent, live, leased, sideVars, workVars, ref, prev, rmsg, left>>

\* TASK_QUEUE.remove; the spool looks into one directory after the other and
\* may miss a message that moves.
RemoveResumed ==
  /\ At("resume", "unsend")
  /\ \/ live' = live \ {rmsg} /\ leased' = leased \ {rmsg} /\ UNCHANGED left
     \/ rmsg \in live /\ Spend("stall") /\ UNCHANGED <<live, leased>>
  /\ ApiGo("resume", "restore")
  /\ UNCHANGED <<storeVars, sent, mark, sideVars, workVars, ref, prev, rmsg>>

\* rollback_video_job_snapshot
RestoreJob(r) ==
  /\ At(r, "restore")
  /\ IF Deref(r) = Nil \/ prev[r] = Nil
     THEN UNCHANGED <<db, mem, ref>>
     ELSE ApiPersist(r, prev[r], FALSE)
  /\ ApiGo(r, "idle")
  /\ UNCHANGED <<own, queueVars, sideVars, workVars, prev, rmsg, left>>

-----------------------------------------------------------------------------
(* The worker: run_worker_once, process_video_job_message, run_video_job.  *)

Ready(w, p) == pc[w] = p /\ out[w] = Nil
Go(w, p)    == pc' = [pc EXCEPT ![w] = p]
Cur(w)      == IF own[w] = Entry THEN mem[Home(w)] ELSE own[w]

\* The worker's `job` becomes j, an entry of VIDEO_JOBS or an object that
\* VIDEO_JOBS no longer holds.
Assign(w, j, entry) ==
  /\ mem' = IF entry THEN [mem EXCEPT ![Home(w)] = j]
            ELSE IF InProcess THEN mem ELSE [mem EXCEPT ![w] = Nil]
  /\ own' = [own EXCEPT ![w] = IF entry THEN Entry ELSE j]

Update(w, j) == Assign(w, j, own[w] = Entry)

\* The worker awaits a persist, to go on at p once it is written, or at f if
\* the write raises.
Persist(w, light, p, f) ==
  /\ out' = [out EXCEPT ![w] = [row |-> Entry, light |-> light, fail |-> f]]
  /\ Go(w, p)

\* The thread takes the snapshot: postgres of the object, the file backend of
\* what VIDEO_JOBS holds.
Snapshot(w) ==
  LET j == IF Postgres THEN Cur(w) ELSE mem[Home(w)]
  IN  /\ out[w] # Nil /\ out[w].row = Entry
      /\ out' = [out EXCEPT ![w] = [@ EXCEPT !.row = IF j = Nil THEN Nil ELSE Row(j, out[w].light)]]
      /\ UNCHANGED <<storeVars, queueVars, sideVars, pc, held, loc, runs, apiVars, left>>

\* The snapshot reaches the store, or the write raises.
WriteOut(w) ==
  /\ out[w] # Nil /\ out[w].row # Entry
  /\ out' = [out EXCEPT ![w] = Nil]
  /\ \/ db' = out[w].row /\ UNCHANGED <<pc, left>>
     \/ Spend("write") /\ Go(w, out[w].fail) /\ UNCHANGED db
  /\ UNCHANGED <<mem, own, queueVars, sideVars, held, loc, runs, apiVars>>

\* TASK_QUEUE.claim of a message no unexpired lease hides.
Claim(w, m) ==
  /\ Ready(w, "idle") /\ m \in live \ leased
  /\ leased' = leased \cup {m}
  /\ held' = [held EXCEPT ![w] = m]
  /\ Go(w, "refresh")
  /\ UNCHANGED <<storeVars, sent, live, mark, sideVars, out, loc, runs, apiVars, left>>

\* refresh_video_job at the start of process_video_job_message reads the row,
\* or the whole file.  A postgres read that fails returns None, exactly as a
\* missing row does.
ReadJob(w) ==
  /\ Ready(w, "refresh")
  /\ \/ own' = [own EXCEPT ![w] = db] /\ UNCHANGED left
     \/ db # Nil /\ Postgres /\ Spend("read") /\ own' = [own EXCEPT ![w] = Nil]
  /\ Go(w, "install")
  /\ UNCHANGED <<db, mem, queueVars, sideVars, held, out, loc, runs, apiVars>>

Route(j) == IF j.cancel \/ j.status \in Terminal THEN "deliver"
            ELSE IF j.status = "paused" THEN "ack" ELSE "entry"

\* Under the lock, which it did not hold while it read, it puts what it read
\* into VIDEO_JOBS, over whatever the API saved in between.
InstallJob(w) ==
  LET j == Cur(w)
  IN  /\ Ready(w, "install")
      /\ Reload(Home(w), j)
      /\ own' = [own EXCEPT ![w] = IF j = Nil THEN Nil ELSE Entry]
      /\ Go(w, IF j = Nil THEN "rmInput" ELSE Route(j))
      /\ UNCHANGED <<db, queueVars, sideVars, held, out, loc, runs, rpc, prev, rmsg, left>>

\* Mutant: the transition does not look at what landed before it.
EnterRunBlindly(w) ==
  /\ Ready(w, "entry")
  /\ Update(w, [Cur(w) EXCEPT !.status = "running", !.attempts = @ + 1])
  /\ Persist(w, FALSE, "cancel1", "release")
  /\ runs' = IF runs > MaxRetries + 1 THEN runs ELSE runs + 1
  /\ UNCHANGED <<db, queueVars, sideVars, held, loc, apiVars, left>>

\* The locked transition at the top of run_video_job's loop.
EnterRun(w) ==
  LET j         == Cur(w)
      cancelled == j.cancel \/ j.status = "cancelled"
      paused    == ~cancelled /\ (j.pause \/ j.status = "paused")
  IN  /\ Ready(w, "entry")
      /\ \/ /\ cancelled
            /\ Update(w, [j EXCEPT !.cancel = TRUE, !.status = "cancelled"])
            /\ Persist(w, FALSE, "final", "release")
            /\ runs' = runs
         \/ /\ paused
            /\ Update(w, [j EXCEPT !.pause = TRUE, !.status = "paused"])
            /\ Persist(w, FALSE, "final", "release")
            /\ runs' = runs
         \/ /\ ~cancelled /\ ~paused
            /\ Update(w, [j EXCEPT !.status = "running", !.attempts = @ + 1])
            /\ Persist(w, FALSE, "cancel1", "release")
            /\ runs' = IF runs > MaxRetries + 1 THEN runs ELSE runs + 1
      /\ UNCHANGED <<db, queueVars, sideVars, held, loc, apiVars, left>>

\* What cancellation_requested and pause_requested look at: an external
\* worker reads the row and keeps its old object, which VIDEO_JOBS then no
\* longer holds, when it gets none.
Latest(w, j, entry) ==
  \/ InProcess /\ j = Cur(w) /\ entry = (own[w] = Entry) /\ UNCHANGED left
  \/ ~InProcess /\ db # Nil /\ j = db /\ entry /\ UNCHANGED left
  \/ ~InProcess /\ db = Nil /\ j = Cur(w) /\ ~entry /\ UNCHANGED left
  \/ ~InProcess /\ Postgres /\ db # Nil /\ j = Cur(w) /\ ~entry /\ Spend("read")

\* `if await cancellation_requested()` at location p, going on at next.
CheckCancel(w, p, next) ==
  /\ Ready(w, p)
  /\ \E j \in {Cur(w), db}, entry \in BOOLEAN :
       /\ Latest(w, j, entry)
       /\ IF j.cancel \/ mark
          THEN /\ Assign(w, [j EXCEPT !.cancel = TRUE, !.status = "cancelled"], entry)
               /\ Persist(w, FALSE, "final", IF p = "except" THEN "release" ELSE "except")
          ELSE Assign(w, j, entry) /\ Go(w, next) /\ UNCHANGED out
  /\ UNCHANGED <<db, queueVars, sideVars, held, loc, runs, apiVars>>

\* `if await pause_requested()` at location p, going on at next.
CheckPause(w, p, next) ==
  /\ Ready(w, p)
  /\ \E j \in {Cur(w), db}, entry \in BOOLEAN :
       /\ Latest(w, j, entry)
       /\ IF j.pause \/ j.status = "paused"
          THEN /\ Assign(w, [j EXCEPT !.pause = TRUE, !.status = "paused"], entry)
               /\ Persist(w, TRUE, "final", "except")
          ELSE Assign(w, j, entry) /\ Go(w, next) /\ UNCHANGED out
  /\ UNCHANGED <<db, queueVars, sideVars, held, loc, runs, apiVars>>

NextBatch(n) == IF n < NBatches THEN "cancel2" ELSE "complete"

\* Mutant: the decoder starts at the beginning whatever the partial result.
SetUpFromStart(w) ==
  LET j      == Cur(w)
      frames == IF j.partial THEN j.frames ELSE <<>>
  IN  /\ Ready(w, "setup")
      /\ loc' = [loc EXCEPT ![w] = [frames |-> frames, next |-> 0]]
      /\ Update(w, [j EXCEPT !.frames = frames, !.partial = TRUE])
      /\ Persist(w, TRUE, "open", "except")
      /\ UNCHANGED <<db, queueVars, sideVars, held, runs, apiVars, left>>

\* run_video_job picks up a partial result and the checkpoint, and persists
\* a lightweight progress record.
SetUp(w) ==
  LET j      == Cur(w)
      frames == IF j.partial THEN j.frames ELSE <<>>
      j2     == IF frames = <<>> THEN [j EXCEPT !.frames = <<>>, !.partial = TRUE] ELSE j
  IN  /\ Ready(w, "setup")
      /\ loc' = [loc EXCEPT ![w] = [frames |-> frames, next |-> j.ckpt]]
      /\ Update(w, j2)
      /\ Persist(w, TRUE, "open", "except")
      /\ UNCHANGED <<db, queueVars, sideVars, held, runs, apiVars, left>>

\* The decoder opens the staged input at the checkpoint; a file deleted later
\* stays readable through the open handle.
OpenInput(w) ==
  /\ Ready(w, "open")
  /\ Go(w, IF input THEN NextBatch(loc[w].next) ELSE "except")
  /\ UNCHANGED <<storeVars, queueVars, sideVars, held, out, loc, runs, apiVars, left>>

\* A batch is inferred, its frames join the result and the checkpoint moves;
\* the progress is persisted when the interval has passed.
InferBatch(w) ==
  LET n  == loc[w].next + 1
      fs == Append(loc[w].frames, n)
      j  == [Cur(w) EXCEPT !.frames = fs, !.partial = TRUE, !.ckpt = n]
  IN  /\ Ready(w, "infer")
      /\ loc' = [loc EXCEPT ![w] = [frames |-> fs, next |-> n]]
      /\ Update(w, j)
      /\ \/ Persist(w, InProcess, NextBatch(n), "except")
         \/ Go(w, NextBatch(n)) /\ UNCHANGED out
      /\ UNCHANGED <<db, queueVars, sideVars, held, runs, apiVars, left>>

InferFails(w) ==
  /\ Ready(w, "infer")
  /\ Spend("infer")
  /\ Go(w, "except")
  /\ UNCHANGED <<storeVars, queueVars, sideVars, held, out, loc, runs, apiVars>>

\* All batches are in: the archive takes its copy of the input, which fails
\* when the file is gone, and no frames is an error; else the job becomes
\* completed in memory, before the archive is written.
Complete(w) ==
  /\ Ready(w, "complete")
  /\ IF loc[w].frames = <<>> \/ ~input
     THEN Go(w, "except") /\ UNCHANGED <<mem, own>>
     ELSE /\ Update(w, [Cur(w) EXCEPT !.frames = loc[w].frames, !.partial = FALSE,
                                      !.status = "completed", !.pause = FALSE])
          /\ Go(w, "archive")
  /\ UNCHANGED <<db, queueVars, sideVars, held, out, loc, runs, apiVars, left>>

\* Mutant: a failing archive is logged and passed over.
ArchiveBestEffort(w) ==
  /\ Ready(w, "archive")
  /\ \/ archived' = TRUE /\ UNCHANGED left
     \/ archived' = archived /\ Spend("archive")
  /\ Persist(w, FALSE, "final", "except")
  /\ UNCHANGED <<storeVars, queueVars, input, told, held, loc, runs, apiVars>>

Archive(w) ==
  /\ Ready(w, "archive")
  /\ \/ /\ archived' = TRUE
        /\ Persist(w, FALSE, "final", "except")
        /\ UNCHANGED left
     \/ /\ Spend("archive") /\ Go(w, "except")
        /\ UNCHANGED <<out, archived>>
  /\ UNCHANGED <<storeVars, queueVars, input, told, held, loc, runs, apiVars>>



\* The exception handler after its cancellation check: another attempt, or
\* failure once the attempts exceed max_retries.
Retry(w) ==
  LET j == Cur(w)
  IN  /\ Ready(w, "retry")
      /\ IF j.attempts <= MaxRetries
         THEN Update(w, [j EXCEPT !.status = "queued"]) /\ Persist(w, FALSE, "entry", "release")
         ELSE Update(w, [j EXCEPT !.status = "failed"]) /\ Persist(w, FALSE, "final", "release")
      /\ UNCHANGED <<db, queueVars, sideVars, held, loc, runs, apiVars, left>>

\* After run_video_job: paused jobs are acknowledged, terminal ones reported;
\* anything else is an error that releases the message.
Finish(w) ==
  LET j == mem[Home(w)]
  IN  /\ Ready(w, "final")
      /\ Go(w, IF j = Nil THEN "release"
               ELSE IF j.status = "paused" THEN "ack"
               ELSE IF j.status \in Terminal THEN "deliver" ELSE "release")
      /\ UNCHANGED <<storeVars, queueVars, sideVars, held, out, loc, runs, apiVars, left>>

\* deliver_job_terminal_event reports the status of the worker's copy.
Deliver(w) ==
  /\ Ready(w, "deliver")
  /\ told' = told \cup {Cur(w).status}
  /\ Go(w, "rmInput")
  /\ UNCHANGED <<storeVars, queueVars, input, archived, held, out, loc, runs, apiVars, left>>

DeleteInput(w) ==
  /\ Ready(w, "rmInput")
  /\ input' = FALSE
  /\ Go(w, "clear")
  /\ UNCHANGED <<storeVars, queueVars, archived, told, held, out, loc, runs, apiVars, left>>

ClearCancelled(w) ==
  /\ Ready(w, "clear")
  /\ mark' = FALSE
  /\ Go(w, "ack")
  /\ UNCHANGED <<storeVars, sent, live, leased, sideVars, held, out, loc, runs, apiVars, left>>

\* Mutant: the acknowledgement leaves the lease behind.
AckKeepsLease(w) ==
  /\ Ready(w, "ack") /\ Go(w, "idle")
  /\ live' = live \ {held[w]}
  /\ held' = [held EXCEPT ![w] = 0]
  /\ UNCHANGED <<storeVars, sent, leased, mark, sideVars, out, loc, runs, apiVars, left>>

\* TASK_QUEUE.ack; a message whose lease lapsed may be in the spool's pending
\* directory again, where it is not found.
Ack(w) ==
  /\ Ready(w, "ack")
  /\ \/ live' = live \ {held[w]} /\ leased' = leased \ {held[w]}
     \/ held[w] \in live \ leased /\ UNCHANGED <<live, leased>>
  /\ held' = [held EXCEPT ![w] = 0]
  /\ Go(w, "idle")
  /\ UNCHANGED <<storeVars, sent, mark, sideVars, out, loc, runs, apiVars, left>>

\* TASK_QUEUE.release after an exception: the spool makes the message visible
\* again, redis leaves that to the visibility timeout.
Release(w) ==
  /\ Ready(w, "release")
  /\ leased' \in {leased, leased \ {held[w]}}
  /\ held' = [held EXCEPT ![w] = 0]
  /\ Go(w, "idle")
  /\ UNCHANGED <<storeVars, sent, live, mark, sideVars, out, loc, runs, apiVars, left>>

-----------------------------------------------------------------------------
(* Faults.                                                                 *)

\* Mutant: only a lease that some worker still holds ever lapses.
LeaseExpiresWhileHeld(m) ==
  /\ m \in leased /\ (\E w \in Workers : held[w] = m) /\ Spend("stall")
  /\ leased' = leased \ {m}
  /\ UNCHANGED <<storeVars, sent, live, mark, sideVars, workVars, apiVars>>

\* The lease of a message lapses: at once when nobody holds it, and while a
\* worker holds it only if that worker's heartbeats stall.
LeaseExpires(m) ==
  /\ m \in leased
  /\ \/ (\A w \in Workers : held[w] # m) /\ UNCHANGED left
     \/ (\E w \in Workers : held[w] = m) /\ Spend("stall")
  /\ leased' = leased \ {m}
  /\ UNCHANGED <<storeVars, sent, live, mark, sideVars, workVars, apiVars>>

\* A claim or a release of the spool that races an acknowledgement writes the
\* message once more.
Reappear(m) ==
  /\ m \notin live /\ Spend("stall")
  /\ live' = live \cup {m} /\ leased' \in {leased, leased \cup {m}}
  /\ UNCHANGED <<storeVars, sent, mark, sideVars, workVars, apiVars>>

\* A process dies and starts again; it loads VIDEO_JOBS from the store.
Dead(p) == {w \in Workers : Home(w) = p}

Crash(p) ==
  /\ Spend("crash")
  /\ mem' = [mem EXCEPT ![p] = db]
  /\ own' = [w \in Workers |-> IF w \in Dead(p) THEN Nil ELSE own[w]]
  /\ pc'   = [w \in Workers |-> IF w \in Dead(p) THEN "idle" ELSE pc[w]]
  /\ held' = [w \in Workers |-> IF w \in Dead(p) THEN 0 ELSE held[w]]
  /\ out'  = [w \in Workers |-> IF w \in Dead(p) THEN Nil ELSE out[w]]
  /\ IF p = "api"
     THEN /\ rpc' = [r \in Requests |-> IF r = "create" /\ rpc[r] # "idle" THEN "done" ELSE "idle"]
          /\ ref' = [r \in Requests |-> Nil]
          /\ prev' = [r \in Requests |-> Nil]
     ELSE UNCHANGED <<rpc, ref, prev>>
  /\ UNCHANGED <<db, queueVars, sideVars, loc, runs, rmsg>>

-----------------------------------------------------------------------------
Init ==
  /\ db = Nil
  /\ mem = [p \in Procs |-> Nil]
  /\ own = [w \in Workers |-> Nil]
  /\ sent = 0 /\ live = {} /\ leased = {} /\ mark = FALSE
  /\ input = FALSE /\ archived = FALSE /\ told = {}
  /\ pc = [w \in Workers |-> "idle"]
  /\ held = [w \in Workers |-> 0]
  /\ out = [w \in Workers |-> Nil]
  /\ loc = [w \in Workers |-> [frames |-> <<>>, next |-> 0]]
  /\ runs = 0
  /\ rpc = [r \in Requests |-> "idle"]
  /\ ref = [r \in Requests |-> Nil]
  /\ prev = [r \in Requests |-> Nil]
  /\ rmsg = 0
  /\ left = Quota

CreateStep == \/ Create \/ StageInput \/ ConfigureTask \/ AuditCreate
              \/ EnqueueCreated \/ UnstageInput \/ RemoveJob

RequestStep(r) == \/ ApiRead(r) \/ ApiRefresh(r) \/ Reject(r) \/ ApplyRequest(r)
                  \/ AuditRequest(r) \/ RestoreJob(r)

HandlerStep == \/ MarkCancelled \/ UnmarkCancelled
               \/ EnqueueResumed \/ RemoveResumed

RunStep(w) ==
  \/ EnterRun(w)
  \/ CheckCancel(w, "cancel1", "pause1") \/ CheckPause(w, "pause1", "setup")
  \/ SetUp(w) \/ OpenInput(w)
  \/ CheckCancel(w, "cancel2", "pause2") \/ CheckPause(w, "pause2", "infer")
  \/ InferBatch(w) \/ InferFails(w) \/ Complete(w) \/ Archive(w)
  \/ CheckCancel(w, "except", "retry") \/ Retry(w)

WorkerStep(w) ==
  \/ Snapshot(w) \/ WriteOut(w)
  \/ \E m \in live : Claim(w, m)
  \/ ReadJob(w) \/ InstallJob(w) \/ RunStep(w) \/ Finish(w)
  \/ Deliver(w) \/ DeleteInput(w) \/ ClearCancelled(w) \/ Ack(w) \/ Release(w)

Next == \/ CreateStep
        \/ \E r \in Requests : RequestStep(r)
        \/ HandlerStep
        \/ \E w \in Workers : WorkerStep(w)
        \/ \E m \in leased : LeaseExpires(m)
        \/ \E m \in 1..sent : Reappear(m)
        \/ \E p \in Procs : Crash(p)

Spec == Init /\ [][Next]_vars

(***************************************************************************)
(* Fairness.  Handlers and workers are coroutines of an event loop that    *)
(* runs each of them again once its await is over, and every lease has a   *)
(* finite visibility timeout.                                              *)
(***************************************************************************)
HandlersRun == /\ WF_vars(CreateStep) /\ WF_vars(HandlerStep)
               /\ \A r \in {"cancel", "pause", "resume"} :
                    WF_vars(~At(r, "idle") /\ RequestStep(r))

Fairness == /\ HandlersRun
            /\ \A w \in Workers : WF_vars(WorkerStep(w))
            /\ WF_vars(\E m \in leased : LeaseExpires(m))

FairSpec == Spec /\ Fairness

-----------------------------------------------------------------------------
(* Properties.                                                             *)

Locations == {"idle", "refresh", "install", "entry", "cancel1", "pause1", "setup", "open",
              "cancel2", "pause2", "infer", "complete", "archive", "except",
              "retry", "final", "deliver", "rmInput", "clear", "ack", "release"}

HandlerLocations == {"idle", "stage", "configure", "audit", "enqueue", "unstage",
                     "remove", "done", "install", "apply", "mark", "marked", "unmark",
                     "unsend", "restore"}

Maybe(S) == S \cup {Nil}

StoreType == /\ db \in Maybe(Job) /\ mem \in [Procs -> Maybe(Job)]
             /\ own \in [Workers -> Maybe(Job) \cup {Entry}]
QueueType == /\ sent \in 0..MaxMsgs /\ live \subseteq 1..sent /\ leased \subseteq live
             /\ held \in [Workers -> 0..sent] /\ rmsg \in 0..sent /\ mark \in BOOLEAN
SideType  == input \in BOOLEAN /\ archived \in BOOLEAN /\ told \subseteq Status
WorkType  == /\ pc \in [Workers -> Locations] /\ out \in [Workers -> Maybe(Pending)]
             /\ loc \in [Workers -> [frames : Seq(Nat), next : Nat]]
             /\ runs \in 0..(MaxRetries + 2)
ApiType   == /\ rpc \in [Requests -> HandlerLocations]
             /\ ref \in [Requests -> Maybe(Job) \cup {Entry}]
             /\ prev \in [Requests -> Maybe(Job)]

\* Every variable has its type: the row, every process's copy, every snapshot
\* on its way to the store and every roll-back copy is a job or nothing, and
\* every message a handler or a worker holds was enqueued.
TypeOK == StoreType /\ QueueType /\ SideType /\ WorkType /\ ApiType /\ left \in [Kinds -> Nat]

Is(j, s) == j # Nil /\ j.status = s

\* What a client is shown: the API process's copy, which every request
\* reloads from the store when the workers are other processes.
View == IF InProcess THEN mem["api"] ELSE db

\* run_video_job writes the archive before it persists the completed job: a
\* row that says completed, and a callback that says so, has its archive.
CompletedHasArchive ==
  (Is(db, "completed") \/ "completed" \in told) => archived

\* The frames of a completed job are those of every batch of its video, once
\* each and in order, whatever failed and was retried on the way.
FramesExact == Is(db, "completed") => db.frames = [n \in 1..NBatches |-> n]

\* VIDEO_JOB_MAX_RETRIES bounds how often the video is analysed.
RetryBudget == runs <= MaxRetries + 1

\* A job that is neither terminal nor paused, and whose creation is over, has
\* a message that some worker holds or will claim.
NoStrandedJob ==
  (At("create", "done") /\ At("resume", "idle") /\ db # Nil /\ db.status \in {"queued", "running"})
    => live # {}

\* Nothing turns a completed row into anything else.
CompletedIsFinal == [][Is(View, "completed") => Is(View', "completed")]_vars

\* A cancellation that has landed is never overwritten by running.
CancelNotOverwritten == [][Is(View, "cancelled") => ~Is(View', "running")]_vars

\* A worker installs, in this step, a copy that it read before the cancellation
\* was stored: load_video_jobs_state reads outside VIDEO_JOBS_LOCK.
StaleInstall(w) == /\ pc[w] = "install" /\ pc'[w] # "install"
                   /\ Cur(w) # Nil /\ ~Cur(w).cancel

\* A job that a client has cancelled stays cancelled until it is removed, whatever
\* a worker reads, persists, retries or is given again: the request is not forgotten
\* and no run begins, not even by way of a job that was queued in between.  The one
\* step that may undo it is the install of a copy that was read before.
CancelKept ==
  View # Nil /\ View.cancel =>
    \/ View' = Nil
    \/ View'.cancel /\ ~Is(View', "running")
    \/ \E w \in Workers : StaleInstall(w)

CancelIsKept == [][CancelKept]_vars

\* What deliver_job_terminal_event told the tenant stays the truth about the
\* job: no later step gives the job another status.
CallbackAgrees == \A s \in told : Is(View, s)

\* What becomes of a job is what its row and its callback say: a completed job
\* has every frame, and the callback agrees with it.
JobIsExact == FramesExact /\ CallbackAgrees

\* A staged input outlives every run that may still need it.
InputWhileNeeded ==
  (db # Nil /\ db.status \in {"queued", "running", "paused"} /\ At("create", "done")) => input

\* A job that is to run has what it needs: a message, and its input.
JobCanRun == NoStrandedJob /\ InputWhileNeeded

\* A paused job keeps what resume_video_job needs to enqueue it again.
PausedIsResumable == Is(db, "paused") /\ At("create", "done") => db.payload

\* Some handler was rolled back: its audit record or its enqueue failed.
RolledBack == \E k \in {"audit", "send"} : left[k] # Quota[k]

\* As long as no handler is rolled back, a pause and a resume, at any point of
\* a run, lose nothing: the job can be resumed, its input is there, and a job
\* that is to run has a message.
PauseKeepsJob == RolledBack \/ (PausedIsResumable /\ JobCanRun)

\* As long as the store can be read and no cancellation is rolled back, an
\* enqueued job ends or is paused, whatever else fails, and its messages are all
\* consumed.
EventuallySettles ==
  [](\A k \in {"read", "audit"} : left[k] = Quota[k]) =>
    (sent > 0 ~> /\ db = Nil \/ db.status \in Terminal \cup {"paused"}
                 /\ live = {})

=============================================================================
