------------------------------- MODULE Uploads -------------------------------
(***************************************************************************)
(* Videos that are uploaded in parts (portrait_video_uploads) and become    *)
(* the input of a video job (routes_portrait_jobs), in the process of the   *)
(* API: its sessions are in memory and in a file, the parts and the inputs  *)
(* in directories.                                                         *)
(*                                                                         *)
(* Each call works under the lock, but a request makes several: it purges   *)
(* what has expired, removes files after the lock, creates a job, completes *)
(* the upload, queues the job, and undoes all that in as many steps.        *)
(***************************************************************************)
EXTENDS Integers, FiniteSets, FiniteSetsExt, Sequences, SequencesExt, TLC

CONSTANTS
  Tasks,     (* clients, one request at a time                             *)
  Ids,       (* numbers of upload sessions: 1..n                           *)
  Jobs,      (* numbers of jobs: 1..n                                      *)
  Size,      (* total_bytes of the video, in units                         *)
  Workloads, (* the requests of each task                                  *)
  TTL, MaxTime, MaxFaults, MaxCrashes, (* bounds                           *)
  Nil        (* no value                                                   *)

VARIABLES
  now, mem, disk, (* the time; the sessions in memory and in the file      *)
  files,    (* part files: upload, part number and what is in them         *)
  inputs,   (* inputs of jobs: the job that names the file, what is in it  *)
  jobs,     (* the jobs there are, and what has become of them             *)
  queue,    (* messages: the job, the job that its input is named after,   *)
            (* and the upload it came from                                 *)
  running,  (* messages a worker has claimed                               *)
  todo, task, used, (* requests; where they are; numbers used so far       *)
  shared,   (* jobs whose input was the input of another one              *)
  left      (* what is left of the bounds                                  *)

vars == <<now, mem, disk, files, inputs, jobs, queue, running, todo, task, used, shared, left>>

Idle == [pc |-> "idle", id |-> Nil, job |-> Nil, ref |-> Nil, sent |-> FALSE, gone |-> {}, alone |-> TRUE]

Init ==
  /\ now = 0 /\ mem = [u \in Ids |-> Nil] /\ disk = mem
  /\ files = {} /\ inputs = {} /\ jobs = [j \in Jobs |-> Nil] /\ queue = {} /\ running = {}
  /\ todo \in Workloads /\ task = [t \in Tasks |-> Idle]
  /\ used = [ids |-> 0, jobs |-> 0] /\ shared = {}
  /\ left = [faults |-> MaxFaults, crashes |-> MaxCrashes]

Doing(t) == Head(todo[t])
At(t, p) == todo[t] # <<>> /\ task[t].pc = p
Mine(t)  == mem[task[t].id]

-----------------------------------------------------------------------------
(* Parts: their number, range, and whether they hold what belongs there.   *)
Overlap(a, b) == a.from < b.from + b.len /\ b.from < a.from + a.len
InOrder(parts) == SetToSortSeq(parts, LAMBDA a, b : a.from < b.from)

\* Whether the parts cover the video without a gap, in order of their offsets.
Complete(parts) ==
  LET s == InOrder(parts)
  IN /\ \A i \in 1..Len(s) : s[i].from = IF i = 1 THEN 0 ELSE s[i - 1].from + s[i - 1].len
     /\ FoldLeft(LAMBDA n, x : n + x.len, 0, s) = Size

FileOf(u, part) == [upload |-> u, number |-> part.number, good |-> part.good]

-----------------------------------------------------------------------------
(* Steps of a request.                                                     *)
Goes(t, step)  == task' = [task EXCEPT ![t] = step] /\ UNCHANGED todo
GoesTo(t, p)   == Goes(t, [task[t] EXCEPT !.pc = p])
Returns(t, id) == /\ task' = [task EXCEPT ![t] = [Idle EXCEPT !.id = id]]
                  /\ todo' = [todo EXCEPT ![t] = Tail(@)]
Refused(t)     == Returns(t, task[t].id)

Fault == left.faults > 0 /\ left' = [left EXCEPT !.faults = @ - 1]

\* The sessions in memory become s, and the file with them unless the write fails.
Saves(s)  == mem' = s /\ disk' = s /\ UNCHANGED left
Unsaved(s) == mem' = s /\ UNCHANGED disk /\ Fault

\* purge_expired_upload_sessions, at the beginning of every call but an abort, and the
\* files, after the lock.
Expired == {u \in Ids : mem[u] # Nil /\ mem[u].status \in {"uploading", "aborted"} /\ mem[u].expires <= now}
Without(set) == [u \in Ids |-> IF u \in set THEN Nil ELSE mem[u]]

Purge(t) ==
  /\ At(t, "idle") /\ Doing(t).op # "abort"
  /\ IF Expired = {} THEN GoesTo(t, "call") /\ UNCHANGED <<mem, disk, left>>
     ELSE \/ Saves(Without(Expired)) /\ Goes(t, [task[t] EXCEPT !.pc = "sweep", !.gone = Expired])
          \/ Unsaved(Without(Expired)) /\ Refused(t)
  /\ UNCHANGED <<now, files, inputs, jobs, queue, running, used, shared>>

Sweep(t) ==
  /\ At(t, "sweep")
  /\ files' = {f \in files : f.upload \notin task[t].gone}
  /\ Goes(t, [task[t] EXCEPT !.pc = "call", !.gone = {}])
  /\ UNCHANGED <<now, mem, disk, inputs, jobs, queue, running, used, shared, left>>

Call(t, op) == At(t, "call") /\ Doing(t).op = op

-----------------------------------------------------------------------------
(* create_upload_session: the key is looked up, and the session appended,   *)
(* under the lock but not in one go.                                        *)
Create(t) ==
  /\ Call(t, "create")
  /\ LET same == {u \in Ids : mem[u] # Nil /\ mem[u].key = Doing(t).key}
     IN IF Doing(t).key # Nil /\ same # {}
        THEN Returns(t, Min(same))
        ELSE Goes(t, [task[t] EXCEPT !.pc = "append",
               !.alone = \A o \in Tasks \ {t} : ~(At(o, "append") /\ Doing(o).key = Doing(t).key)])
  /\ UNCHANGED <<now, mem, disk, files, inputs, jobs, queue, running, used, shared, left>>

Open(t) ==
  /\ At(t, "append")
  /\ LET u == used.ids + 1
         session == [key |-> Doing(t).key, status |-> "uploading", parts |-> {}, ref |-> Nil, job |-> Nil,
                     expires |-> now + TTL, swept |-> FALSE,
                     alone |-> task[t].alone /\ \A o \in Tasks \ {t} : ~(At(o, "append") /\ Doing(o).key = Doing(t).key)]
     IN /\ u \in Ids /\ used' = [used EXCEPT !.ids = u]
        /\ \/ Saves([mem EXCEPT ![u] = session]) /\ Returns(t, u)
           \/ Fault /\ Refused(t) /\ UNCHANGED <<mem, disk>>
  /\ UNCHANGED <<now, files, inputs, jobs, queue, running, shared>>

\* put_upload_part: the file is in place before the session is saved.
Put(t) ==
  /\ Call(t, "put")
  /\ LET new == Doing(t).part
         s   == Mine(t)
         ok  == /\ task[t].id # Nil /\ s # Nil /\ s.status = "uploading"
                /\ new.from + new.len <= Size
                /\ \A p \in s.parts : p.number # new.number /\ ~Overlap(p, new)
         to  == [mem EXCEPT ![task[t].id].parts = @ \cup {new}, ![task[t].id].expires = now + TTL]
     IN IF ok
        THEN \/ Saves(to) /\ Refused(t) /\ files' = files \cup {FileOf(task[t].id, new)}
             \/ Unsaved(to) /\ Refused(t) /\ files' = files \cup {FileOf(task[t].id, new)}
        ELSE Refused(t) /\ UNCHANGED <<mem, disk, files, left>>
  /\ UNCHANGED <<now, inputs, jobs, queue, running, used, shared>>

\* abort_upload_session, whatever the status is; the parts go after the lock.
Abort(t) ==
  /\ At(t, "idle") /\ Doing(t).op = "abort"
  /\ IF task[t].id # Nil /\ Mine(t) # Nil
     THEN LET s == [mem EXCEPT ![task[t].id].status = "aborted", ![task[t].id].swept = TRUE]
          IN \/ Saves(s) /\ GoesTo(t, "clear")
             \/ Unsaved(s) /\ Refused(t)
     ELSE Refused(t) /\ UNCHANGED <<mem, disk, left>>
  /\ UNCHANGED <<now, files, inputs, jobs, queue, running, used, shared>>

Clear(t) ==
  /\ At(t, "clear")
  /\ files' = {f \in files : f.upload # task[t].id}
  /\ Refused(t)
  /\ UNCHANGED <<now, mem, disk, inputs, jobs, queue, running, used, shared, left>>

-----------------------------------------------------------------------------
(* v1_complete_video_upload                                                *)

\* A completed upload whose job is there is answered at once; else a job is created.
Look(t) ==
  /\ Call(t, "complete")
  /\ IF task[t].id = Nil \/ Mine(t) = Nil \/ (Mine(t).status = "completed" /\ Mine(t).job # Nil /\ jobs[Mine(t).job] # Nil)
     THEN Refused(t)
     ELSE GoesTo(t, "job")
  /\ UNCHANGED <<now, mem, disk, files, inputs, jobs, queue, running, used, shared, left>>

CreateJob(t) ==
  /\ At(t, "job")
  /\ LET j == used.jobs + 1
     IN /\ j \in Jobs /\ used' = [used EXCEPT !.jobs = j]
        /\ \/ jobs' = [jobs EXCEPT ![j] = "queued"] /\ Goes(t, [task[t] EXCEPT !.pc = "assemble", !.job = j])
              /\ UNCHANGED left
           \/ Fault /\ Refused(t) /\ UNCHANGED jobs
  /\ UNCHANGED <<now, mem, disk, files, inputs, queue, running, shared>>

\* complete_upload_session (its purge finds what Purge found, or leaves it to the next
\* call): what is completed is returned as it is, with the input of another job; else
\* the parts are joined, and must have the digest that the client has announced.
Assemble(t) ==
  /\ At(t, "assemble")
  /\ LET s == Mine(t)
         j == task[t].job
         there == \A p \in s.parts : FileOf(task[t].id, p) \in files
         to == [mem EXCEPT ![task[t].id].status = "completed", ![task[t].id].ref = j, ![task[t].id].job = j]
     IN IF s # Nil /\ s.status = "completed" /\ s.ref # Nil
        THEN /\ Goes(t, [task[t] EXCEPT !.pc = "queue", !.ref = s.ref])
             /\ shared' = shared \cup {j, s.ref}
             /\ UNCHANGED <<mem, disk, inputs, left>>
        ELSE /\ IF s # Nil /\ Complete(s.parts) /\ there /\ (\A p \in s.parts : p.good)
                THEN /\ inputs' = inputs \cup {j}
                     /\ \/ Saves(to) /\ Goes(t, [task[t] EXCEPT !.pc = "queue", !.ref = j])
                        \/ Unsaved(to) /\ GoesTo(t, "undoJob")
                ELSE GoesTo(t, "undoJob") /\ UNCHANGED <<mem, disk, inputs, left>>
             /\ UNCHANGED shared
  /\ UNCHANGED <<now, files, jobs, queue, running, used>>

\* Configuring the task and queueing it, which may fail.
Enqueue(t) ==
  /\ At(t, "queue")
  /\ \/ queue' = queue \cup {[job |-> task[t].job, ref |-> task[t].ref, upload |-> task[t].id]}
        /\ Goes(t, [task[t] EXCEPT !.pc = "audit", !.sent = TRUE]) /\ UNCHANGED left
     \/ Fault /\ GoesTo(t, "undoInput") /\ UNCHANGED queue
  /\ UNCHANGED <<now, mem, disk, files, inputs, jobs, running, used, shared>>

Audit(t) ==
  /\ At(t, "audit")
  /\ \/ Refused(t) /\ UNCHANGED left
     \/ Fault /\ GoesTo(t, "undoMessage")
  /\ UNCHANGED <<now, mem, disk, files, inputs, jobs, queue, running, used, shared>>

\* The message, the input, the upload and the job are taken back in turn; a failing step
\* leaves the rest.
UndoMessage(t) ==
  /\ At(t, "undoMessage")
  /\ queue' = {q \in queue : q.job # task[t].job}
  /\ GoesTo(t, "undoInput")
  /\ UNCHANGED <<now, mem, disk, files, inputs, jobs, running, used, shared, left>>

UndoInput(t) ==
  /\ At(t, "undoInput")
  /\ inputs' = inputs \ {task[t].ref}
  /\ GoesTo(t, "reopen")
  /\ UNCHANGED <<now, mem, disk, files, jobs, queue, running, used, shared, left>>

\* Mutant: whoever undoes opens the upload again, even if another job was made of it.
ReopenAnyones(t) ==
  /\ At(t, "reopen")
  /\ IF Mine(t) = Nil THEN Refused(t) /\ UNCHANGED <<mem, disk, left>>
     ELSE /\ Saves([mem EXCEPT ![task[t].id].status = "uploading", ![task[t].id].ref = Nil, ![task[t].id].job = Nil])
          /\ GoesTo(t, "undoJob")
  /\ UNCHANGED <<now, files, inputs, jobs, queue, running, used, shared>>

\* reopen_completed_upload: only the upload that was completed for this job.
Reopen(t) ==
  /\ At(t, "reopen")
  /\ LET s == [mem EXCEPT ![task[t].id].status = "uploading", ![task[t].id].ref = Nil, ![task[t].id].job = Nil]
     IN IF Mine(t) = Nil THEN Refused(t) /\ UNCHANGED <<mem, disk, left>>
        ELSE IF Mine(t).job # task[t].job THEN GoesTo(t, "undoJob") /\ UNCHANGED <<mem, disk, left>>
        ELSE \/ Saves(s) /\ GoesTo(t, "undoJob")
             \/ Unsaved(s) /\ Refused(t)
  /\ UNCHANGED <<now, files, inputs, jobs, queue, running, used, shared>>

UndoJob(t) ==
  /\ At(t, "undoJob")
  /\ jobs' = [jobs EXCEPT ![task[t].job] = Nil]
  /\ Refused(t)
  /\ UNCHANGED <<now, mem, disk, files, inputs, queue, running, used, shared, left>>

-----------------------------------------------------------------------------
(* The worker (see VideoJob), the time, and restarts.                      *)
Claim ==
  /\ \E q \in queue : queue' = queue \ {q} /\ running' = running \cup {q}
  /\ UNCHANGED <<now, mem, disk, files, inputs, jobs, todo, task, used, shared, left>>

Finish ==
  /\ \E q \in running :
       /\ running' = running \ {q}
       /\ jobs' = IF jobs[q.job] = Nil THEN jobs
                  ELSE [jobs EXCEPT ![q.job] = IF q.ref \in inputs THEN "completed" ELSE "failed"]
       /\ inputs' = inputs \ {q.ref}
  /\ UNCHANGED <<now, mem, disk, files, queue, todo, task, used, shared, left>>

Tick ==
  /\ now < MaxTime /\ now' = now + 1
  /\ UNCHANGED <<mem, disk, files, inputs, jobs, queue, running, todo, task, used, shared, left>>

\* load_video_upload_state; the queue and the jobs outlive the process.
Crash ==
  /\ left.crashes > 0 /\ left' = [left EXCEPT !.crashes = @ - 1]
  /\ mem' = disk
  /\ task' = [t \in Tasks |-> [Idle EXCEPT !.id = task[t].id]]
  /\ todo' = [t \in Tasks |-> IF todo[t] # <<>> /\ task[t].pc # "idle" THEN Tail(todo[t]) ELSE todo[t]]
  /\ UNCHANGED <<now, disk, files, inputs, jobs, queue, running, used, shared>>

Next ==
  \/ Claim \/ Finish \/ Tick \/ Crash
  \/ \E t \in Tasks :
       \/ Purge(t) \/ Sweep(t) \/ Create(t) \/ Open(t) \/ Put(t) \/ Abort(t) \/ Clear(t)
       \/ Look(t) \/ CreateJob(t) \/ Assemble(t) \/ Enqueue(t) \/ Audit(t)
       \/ UndoMessage(t) \/ UndoInput(t) \/ Reopen(t) \/ UndoJob(t)

Spec == Init /\ [][Next]_vars

-----------------------------------------------------------------------------
TypeOK ==
  /\ \A u \in Ids : mem[u] # Nil => mem[u].status \in {"uploading", "completed", "aborted"}
  /\ queue \cup running \subseteq [job : Jobs, ref : Jobs, upload : Ids]

\* The input of a queued job is there, unless two requests have made jobs of one upload,
\* of which the first to end deletes what the other needs (v1_complete_video_upload).
JobFindsInput == \A q \in queue : q.ref \in inputs \/ q.job \in shared

\* Inputs are named after the job that reads them, and each upload is the input of one
\* job at a time: while its job waits, an upload is not open for more parts, unless it was
\* aborted after it was completed (complete_upload_session, reopen_completed_upload).
UploadHasOneJob ==
  /\ \A q \in queue \cup running : q.ref = q.job \/ q.job \in shared
  /\ \A q \in queue : q.ref = q.job /\ mem[q.upload] # Nil /\ ~mem[q.upload].swept =>
       mem[q.upload].status # "uploading"
  /\ \A u, v \in Ids : u # v /\ mem[u] # Nil /\ mem[v] # Nil /\ mem[u].ref # Nil => mem[u].ref # mem[v].ref

\* The parts of an open upload do not overlap and have their files, unless an abort has
\* taken them before a failing completion opened it again (abort_upload_session).
PartsAreThere ==
  \A u \in Ids : mem[u] # Nil /\ mem[u].status = "uploading" =>
    /\ \A p, q \in mem[u].parts : p # q => ~Overlap(p, q) /\ p.number # q.number
    /\ ~mem[u].swept => \A p \in mem[u].parts : FileOf(u, p) \in files

\* One key has one session, unless two requests looked it up together
\* (create_upload_session).
OneSessionPerKey ==
  \A u, v \in Ids : u # v /\ mem[u] # Nil /\ mem[v] # Nil /\ mem[u].key # Nil /\ mem[u].key = mem[v].key =>
    ~mem[u].alone \/ ~mem[v].alone

UploadsAreSound == TypeOK /\ JobFindsInput /\ UploadHasOneJob /\ PartsAreThere /\ OneSessionPerKey
=============================================================================
