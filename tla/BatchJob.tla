------------------------------ MODULE BatchJob ------------------------------
(***************************************************************************)
(* A batch of comparisons or searches that runs in the background of the     *)
(* API (create_batch_job, run_batch_job, gather_limited): workers take the    *)
(* items in turn, each reports its progress, and the first that fails stops  *)
(* the rest.  Beside it a client asks for the job, or cancels or pauses it.   *)
(* Where the video jobs run in another process every request first replaces  *)
(* the jobs in memory by the stored ones; where they run in this one and are  *)
(* kept in a file, their worker does so for every message, and its saves      *)
(* write the batch with them.  The run then goes on with an object that is    *)
(* no longer listed, or its save is followed by an older one.              *)
(***************************************************************************)
EXTENDS Integers, FiniteSets, Sequences

CONSTANTS
  Items,      (* 1..N, the pairs or images of the batch                     *)
  Workers,    (* as many as the limit of concurrency                        *)
  Calls,      (* sequences of what the client does: "poll", "cancel", "pause" *)
  MaxTrouble, (* bound on items, saves and audits that fail, restarts, and   *)
              (* messages of a video worker in this process                  *)
  Nil

VARIABLES
  config,  (* shared: the video jobs run in this process; rows: PostgreSQL   *)
  object,  (* the job objects there are, in the order of their creation      *)
  listed,  (* VIDEO_JOBS: the object of the job, 0 for none                  *)
  row,     (* the job in the store                                          *)
  run,     (* where run_batch_job is, and its object                        *)
  work,    (* what each worker does                                         *)
  done, next, stopping, turn, \* completed items, next_item, stopping, progress_lock
  writes,  (* saves under way: who waits for it, and what will be written    *)
  loader,  (* the video worker, and how many messages it has taken           *)
  api, todo, left,
  early    (* ghost: a cancellation that the run has to see was accepted before the work began *)

vars == <<config, object, listed, row, run, work, done, next, stopping, turn, writes, loader, api, todo, left, early>>

N        == Cardinality(Items)
Terminal == {"completed", "failed", "cancelled"}
Fresh    == [status |-> "queued", asked |-> FALSE, progress |-> 0, result |-> {}]
Idle     == [item |-> 0, at |-> "free"]
Quiet    == [op |-> "none", at |-> "idle", view |-> Nil, prev |-> Nil, before |-> Nil, mine |-> 0]

Init ==
  /\ config \in [shared : BOOLEAN, rows : BOOLEAN]
  /\ object = <<>> /\ listed = 0 /\ row = Nil
  /\ run = [at |-> "request", mine |-> 0] /\ work = [w \in Workers |-> Idle]
  /\ done = {} /\ next = 1 /\ stopping = FALSE /\ turn = Nil
  /\ writes = {} /\ loader = [at |-> "idle", view |-> Nil, taken |-> 0] /\ api = Quiet /\ todo \in Calls /\ left = MaxTrouble /\ early = FALSE

-----------------------------------------------------------------------------
Mine   == object[run.mine]
Locked == api.at = "saving"          \* VIDEO_JOBS_LOCK
Awake  == api.at # "undo"            \* the event loop is not busy with a roll back
Faulty == left > 0 /\ left' = left - 1

\* What a save of an object writes: its row, or the file with all listed jobs.
Stored(objects, o) == IF config.rows THEN objects[o] ELSE IF listed = 0 THEN Nil ELSE objects[listed]

\* persist_video_job on a thread: it takes its copy, now or when the lock is free.
Persist(who) == writes' = writes \cup {[who |-> who, copy |-> Nil]}
CopyRow(w) ==
  /\ w \in writes /\ w.copy = Nil /\ ~Locked
  /\ writes' = (writes \ {w}) \cup {[w EXCEPT !.copy = [job |-> Stored(object, run.mine)]]}
  /\ UNCHANGED <<config, object, listed, row, run, work, done, next, stopping, turn, loader, api, todo, left, early>>

\* create_batch_job, then the background task is added.
Create ==
  /\ run.at = "request" /\ ~Locked /\ Awake
  /\ \/ /\ object' = Append(object, Fresh) /\ listed' = Len(object) + 1 /\ row' = Fresh
        /\ run' = [run EXCEPT !.at = "queued"] /\ UNCHANGED left
     \/ Faulty /\ run' = [run EXCEPT !.at = "over"] /\ UNCHANGED <<object, listed, row>>
  /\ UNCHANGED <<config, work, done, next, stopping, turn, writes, loader, api, todo, early>>

\* run_batch_job up to its first save.
Start ==
  /\ run.at = "queued" /\ ~Locked /\ Awake
  /\ IF listed = 0 THEN run' = [run EXCEPT !.at = "over"] /\ UNCHANGED <<object, writes>>
     ELSE /\ run' = [at |-> "starting", mine |-> listed]
          /\ object' = [object EXCEPT ![listed].status = "running"]
          /\ Persist("run")
  /\ UNCHANGED <<config, listed, row, work, done, next, stopping, turn, loader, api, todo, left, early>>

Settle(status) ==
  /\ object' = [object EXCEPT ![run.mine].status = status]
  /\ run' = [run EXCEPT !.at = "ending"] /\ Persist("run")
Failed == IF Mine.asked THEN "cancelled" ELSE "failed"

\* take_next_index, up to the first await of a worker.
Take(w) ==
  /\ run.at = "working" /\ work[w].at = "free" /\ ~stopping /\ next <= N /\ Awake
  /\ work' = [work EXCEPT ![w] = [item |-> next, at |-> "busy"]] /\ next' = next + 1
  /\ UNCHANGED <<config, object, listed, row, run, done, stopping, turn, writes, loader, api, todo, left, early>>

\* process_pair, process_file: the item is done, and its worker has its turn to tell.
Done(w) ==
  /\ run.at = "working" /\ work[w].at = "busy" /\ turn = Nil /\ turn' = w /\ Awake
  /\ done' = done \cup {work[w].item}
  /\ object' = [object EXCEPT ![run.mine].progress = Cardinality(done')]
  /\ work' = [work EXCEPT ![w].at = "telling"] /\ Persist(w)
  /\ UNCHANGED <<config, listed, row, run, next, stopping, loader, api, todo, left, early>>

\* An item that fails cancels the other workers; the save of one of them goes on.
FailItem(w) ==
  /\ run.at = "working" /\ work[w].at = "busy" /\ Faulty /\ Awake
  /\ stopping' = TRUE /\ turn' = Nil /\ work' = [x \in Workers |-> Idle]
  /\ Settle(Failed)
  /\ UNCHANGED <<config, listed, row, done, next, loader, api, todo, early>>

Finish ==
  /\ run.at = "working" /\ next > N /\ (\A w \in Workers : work[w].at = "free") /\ Awake
  /\ object' = [object EXCEPT ![run.mine] = [@ EXCEPT !.status = "completed", !.result = done, !.progress = N]]
  /\ run' = [run EXCEPT !.at = "ending"] /\ Persist("run")
  /\ UNCHANGED <<config, listed, row, work, done, next, stopping, turn, loader, api, todo, left, early>>

\* A save lands, and who waits for it goes on.
Land(x) ==
  /\ x \in writes /\ x.copy # Nil /\ row' = x.copy.job /\ UNCHANGED left /\ Awake
  /\ CASE x.who = "run" /\ run.at = "starting" ->
            IF Mine.asked
            THEN /\ object' = [object EXCEPT ![run.mine].status = "cancelled"] /\ run' = [run EXCEPT !.at = "ending"]
                 /\ writes' = (writes \ {x}) \cup {[who |-> "run", copy |-> Nil]} /\ UNCHANGED <<work, turn>>
            ELSE run' = [run EXCEPT !.at = "working"] /\ writes' = writes \ {x} /\ UNCHANGED <<object, work, turn>>
       [] x.who = "run" /\ run.at = "ending" ->
            run' = [run EXCEPT !.at = "over"] /\ writes' = writes \ {x} /\ UNCHANGED <<object, work, turn>>
       [] x.who = "video" -> writes' = writes \ {x} /\ UNCHANGED <<object, run, work, turn>>
       [] x.who \in Workers ->
            /\ writes' = writes \ {x} /\ UNCHANGED <<object, run>>
            /\ IF turn = x.who THEN turn' = Nil /\ work' = [work EXCEPT ![x.who] = Idle] ELSE UNCHANGED <<turn, work>>
  /\ UNCHANGED <<config, listed, done, next, stopping, loader, api, todo, early>>

\* A save fails: at the start and the last time the task ends with that; the save of
\* a result or of progress makes the batch fail.
Lose(x) ==
  /\ x \in writes /\ Faulty /\ UNCHANGED row /\ Awake
  /\ CASE x.who = "run" /\ (run.at = "starting" \/ Mine.status # "completed") ->
            run' = [run EXCEPT !.at = "over"] /\ writes' = writes \ {x} /\ UNCHANGED <<object, work, turn, stopping>>
       [] x.who = "run" /\ run.at = "ending" /\ Mine.status = "completed" ->
            /\ object' = [object EXCEPT ![run.mine].status = Failed]
            /\ writes' = (writes \ {x}) \cup {[who |-> "run", copy |-> Nil]} /\ UNCHANGED <<run, work, turn, stopping>>
       [] x.who \in Workers /\ turn = x.who ->
            /\ stopping' = TRUE /\ turn' = Nil /\ work' = [w \in Workers |-> Idle]
            /\ object' = [object EXCEPT ![run.mine].status = Failed] /\ run' = [run EXCEPT !.at = "ending"]
            /\ writes' = (writes \ {x}) \cup {[who |-> "run", copy |-> Nil]}
       [] OTHER -> writes' = writes \ {x} /\ UNCHANGED <<object, run, work, turn, stopping>>
  /\ UNCHANGED <<config, listed, done, next, loader, api, todo, early>>

-----------------------------------------------------------------------------
(* The client.                                                             *)

Begin ==
  /\ api.at = "idle" /\ todo # <<>> /\ todo' = Tail(todo)
  /\ api' = [Quiet EXCEPT !.op = Head(todo), !.at = IF config.shared THEN "copy" ELSE "look"]
  /\ UNCHANGED <<config, object, listed, row, run, work, done, next, stopping, turn, writes, loader, left, early>>

\* load_video_jobs_state: the store is read, and then, under the lock, the jobs in memory
\* are replaced by what it had.  A batch that has not started goes on with the copy.
Install(view) ==
  /\ IF view = Nil THEN listed' = 0 /\ UNCHANGED object
     ELSE listed' = Len(object) + 1 /\ object' = Append(object, view)
  /\ early' = (early /\ ~(run.at = "queued" /\ view # Nil /\ ~view.asked))

Look ==
  /\ api.at = "look" /\ api' = [api EXCEPT !.at = "swap", !.view = row]
  /\ UNCHANGED <<config, object, listed, row, run, work, done, next, stopping, turn, writes, loader, todo, left, early>>
Swap ==
  /\ api.at = "swap" /\ api' = [api EXCEPT !.at = "copy", !.view = Nil] /\ Install(api.view)
  /\ UNCHANGED <<config, row, run, work, done, next, stopping, turn, writes, loader, todo, left>>

\* The worker of the video jobs in this process, with a message of any job: refresh_video_job,
\* and a save of its own job, which writes all that are listed.
LoadFile ==
  /\ config.shared /\ ~config.rows /\ loader.at = "idle" /\ left > 0 /\ left' = left - 1
  /\ loader' = [at |-> "swap", view |-> row, taken |-> loader.taken + 1]
  /\ UNCHANGED <<config, object, listed, row, run, work, done, next, stopping, turn, writes, api, todo, early>>
SwapLoaded ==
  /\ loader.at = "swap" /\ ~Locked /\ loader' = [loader EXCEPT !.at = "save", !.view = Nil] /\ Install(loader.view)
  /\ UNCHANGED <<config, row, run, work, done, next, stopping, turn, writes, api, todo, left>>
SaveLoaded ==
  /\ loader.at = "save" /\ loader' = [loader EXCEPT !.at = "idle"] /\ Persist("video")
  /\ UNCHANGED <<config, object, listed, row, run, work, done, next, stopping, turn, api, todo, left, early>>

\* The handler keeps a copy of the job, or answers.
Copy ==
  /\ api.at = "copy"
  /\ api' = IF api.op = "poll" THEN Quiet
            ELSE [api EXCEPT !.at = "ask", !.prev = IF listed = 0 THEN Nil ELSE object[listed]]
  /\ UNCHANGED <<config, object, listed, row, run, work, done, next, stopping, turn, writes, loader, todo, left, early>>

\* request_cancel_video_job, request_pause_video_job up to their save.
Beyond == IF api.op = "cancel" THEN "fetch" ELSE "audit"
Refused(job) == api.op = "pause" /\ job.status \in Terminal
Ask ==
  /\ api.at = "ask"
  /\ IF listed = 0 \/ Refused(object[listed]) THEN api' = Quiet /\ UNCHANGED <<object, early>>
     ELSE LET job == object[listed] IN
          IF job.status \in Terminal \/ (api.op = "pause" /\ job.status = "paused")
          THEN api' = [api EXCEPT !.at = Beyond, !.mine = listed] /\ UNCHANGED <<object, early>>
          ELSE /\ object' = [object EXCEPT ![listed] = IF api.op = "cancel"
                               THEN [@ EXCEPT !.status = "cancelled", !.asked = TRUE] ELSE [@ EXCEPT !.status = "paused"]]
               /\ api' = [api EXCEPT !.at = "saving", !.before = job, !.view = object'[listed], !.mine = listed]
               /\ early' = (early \/ /\ api.op = "cancel"
                                     /\ run.at = "queued" \/ (run.at = "starting" /\ listed = run.mine))
  /\ UNCHANGED <<config, listed, row, run, work, done, next, stopping, turn, writes, loader, todo, left>>

\* The save under the lock, or the job is put back as it was.
SaveAsked ==
  /\ api.at = "saving"
  /\ \/ row' = api.view /\ api' = [api EXCEPT !.at = Beyond] /\ UNCHANGED <<object, left, early>>
     \/ /\ Faulty /\ object' = [object EXCEPT ![listed] = api.before] /\ api' = Quiet /\ early' = FALSE /\ UNCHANGED row
  /\ UNCHANGED <<config, listed, run, work, done, next, stopping, turn, writes, loader, todo>>

\* The handler of a cancellation asks for the job once more.
Fetch ==
  /\ api.at = "fetch" /\ api' = [api EXCEPT !.at = "audit", !.mine = listed]
  /\ UNCHANGED <<config, object, listed, row, run, work, done, next, stopping, turn, writes, loader, todo, left, early>>

\* The audit, or the handler's object is what it was when the handler copied it
\* (rollback_video_job_snapshot), and is saved.
AuditAsked ==
  /\ api.at = "audit"
  /\ \/ api' = Quiet /\ UNCHANGED <<object, left, early>>
     \/ /\ Faulty /\ early' = FALSE
        /\ IF api.mine = 0 \/ api.prev = Nil THEN api' = Quiet /\ UNCHANGED object
           ELSE api' = [api EXCEPT !.at = "undo"] /\ object' = [object EXCEPT ![api.mine] = api.prev]
  /\ UNCHANGED <<config, listed, row, run, work, done, next, stopping, turn, writes, loader, todo>>
SaveUndone ==
  /\ api.at = "undo" /\ api' = Quiet /\ row' = Stored(object, api.mine)
  /\ UNCHANGED <<config, object, listed, run, work, done, next, stopping, turn, writes, loader, todo, left, early>>

\* The process starts again: the background task is gone.
Restart ==
  /\ Faulty /\ run.at \notin {"request", "over"}
  /\ IF row = Nil THEN object' = <<>> /\ listed' = 0 ELSE object' = <<row>> /\ listed' = 1
  /\ run' = [at |-> "gone", mine |-> 0] /\ work' = [w \in Workers |-> Idle] /\ turn' = Nil
  /\ writes' = {} /\ loader' = [loader EXCEPT !.at = "idle", !.view = Nil] /\ api' = Quiet /\ early' = FALSE
  /\ UNCHANGED <<config, row, done, next, stopping, todo>>

Next ==
  \/ Create \/ Start \/ Finish \/ (\E w \in Workers : Take(w) \/ Done(w) \/ FailItem(w))
  \/ (\E x \in writes : CopyRow(x) \/ Land(x) \/ Lose(x))
  \/ Begin \/ Look \/ Swap \/ Copy \/ Ask \/ SaveAsked \/ Fetch \/ AuditAsked \/ SaveUndone
  \/ LoadFile \/ SwapLoaded \/ SaveLoaded \/ Restart

Spec == Init /\ [][Next]_vars

-----------------------------------------------------------------------------
(* Properties.                                                             *)
Copies == {object[i] : i \in DOMAIN object} \cup ({row} \ {Nil})

\* A copy of the job that says completed, in memory or in the store, has the result of
\* every item, and no copy is ahead of what was done.
CompletedIsWhole ==
  \A job \in Copies :
    /\ job.status = "completed" => job.result = Items /\ job.progress = N
    /\ job.progress <= Cardinality(done) /\ job.result \subseteq done

\* Items are done once, in turn, by no more workers than the limit, and none is begun
\* after one has failed.
WorkIsBounded ==
  /\ \A v, w \in Workers : v # w /\ work[v].item # 0 => work[v].item # work[w].item
  /\ \A w \in Workers : /\ work[w].item < next
                        /\ work[w].at = "busy" => work[w].item \notin done
                        /\ work[w].at = "telling" => turn = w /\ work[w].item \in done
  /\ stopping => \A w \in Workers : work[w] = Idle
  /\ run.at = "ending" /\ Mine.status = "completed" /\ Mine.result # {} => done = Items

\* If nothing fails and the client only asks, the store has what the run ended with, when the
\* job has a row of its own, or only this process writes the file, and for batches only.
EndIsStored ==
  /\ run.at = "over" /\ run.mine # 0 /\ left = MaxTrouble
  /\ config.rows \/ config.shared
  /\ \A i \in DOMAIN todo : todo[i] = "poll"
  /\ \A c \in Copies : ~c.asked /\ c.status # "paused"
  => row = Mine /\ Mine.status = "completed"

\* A batch that was cancelled before its work began does nothing, unless the cancellation
\* came to another object than that of the run, or a load of what was stored before it has
\* taken it back.
CancelledInTime == early => done = {} /\ run.at # "working"

\* Nothing fails without a failure, and nothing is cancelled that nobody asked to cancel.
EndHasCause ==
  \A job \in Copies : /\ job.status = "failed" => left + loader.taken < MaxTrouble
                      /\ job.status = "cancelled" => job.asked

BatchesAreSound == CompletedIsWhole /\ WorkIsBounded /\ EndIsStored /\ CancelledInTime /\ EndHasCause
=============================================================================
