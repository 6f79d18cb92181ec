------------------------------- MODULE Streams ------------------------------
(***************************************************************************)
(* Video streams (portrait_streams, postgres_streams), the API that starts *)
(* and stops them (routes_portrait_streams) and the daemons that pull them *)
(* (portrait_stream_worker, portrait_stream_worker_daemon).                *)
(*                                                                         *)
(* Each process keeps the streams in memory.  With the file store a save   *)
(* writes all of them and makes the saved object the one in memory; with   *)
(* postgres it writes the row of one stream, without its lease.  A session *)
(* of a daemon, or a request of the API, works on an object that is either *)
(* the one in memory or was left behind when the memory was loaded again.  *)
(*                                                                         *)
(* Of its events a stream has the time stamp that they leave on it.  Files  *)
(* that cannot be read or written are errors (STATE_READ_FAIL_CLOSED and    *)
(* STATE_WRITE_FAIL_CLOSED, the defaults): a daemon dies of it.  There is   *)
(* one process of the API, and no third request to take the object of two   *)
(* others from them.                                                        *)
(***************************************************************************)
EXTENDS Naturals, Sequences, FiniteSets, FiniteSetsExt

CONSTANTS
  Daemons, Streams, Reqs, Api, Ghost, Nil,
  Scenes,        (* sets of daemons, the streams at first, the calls of    *)
                 (* each request, ALLOW_STREAM_URLS, the store, and bounds *)
                 (* on the time, on faults and on the turns of a session   *)
  Interval, TTL, Stale, (* STREAM_WORKER_LEASE_TTL_SECONDS / 3, _LEASE_TTL_ *)
                        (* SECONDS, _PROCESS_LOCK_STALE_SECONDS, in ticks  *)
  MaxReconnects  (* STREAM_WORKER_MAX_RECONNECTS                           *)

Sides   == Daemons \cup {Api}
Handles == Reqs \cup (Daemons \X Streams)

VARIABLES
  scene,  (* the scene that was chosen                                     *)
  disk,   (* the file or the table                                         *)
  mem,    (* STREAMS of each process                                       *)
  obj,    (* the object that each handle works on                          *)
  lock,   (* the lock file of each stream                                  *)
  daemon, (* where each daemon is in run_daemon_forever                    *)
  sess,   (* its sessions, per stream                                      *)
  req, todo, now, left,
  late,   (* daemons that do not run when they should                      *)
  raced   (* streams whose fresh lock was removed in place of a stale one  *)

vars == <<scene, disk, mem, obj, lock, daemon, sess, req, todo, now, left, late, raced>>

File == scene.store = "file"
Pair(h)    == h \in Daemons \X Streams
ProcOf(h)  == IF Pair(h) THEN h[1] ELSE Api
StreamOf(h) == IF Pair(h) THEN h[2] ELSE req[h].s
InMemory == [att |-> TRUE, rec |-> Nil]
Copy(r)  == [att |-> FALSE, rec |-> r]
Rec(h)   == IF obj[h].att THEN mem[ProcOf(h)][StreamOf(h)] ELSE obj[h].rec

NoSession == [pc |-> "none", tries |-> 0, next |-> 0, turns |-> 0]
NoReq     == [pc |-> "idle", op |-> Nil, s |-> Nil, prev |-> Nil]
Idling    == [pc |-> "idle", s |-> Nil, rest |-> {}]

Fault == left > 0 /\ left' = left - 1

-----------------------------------------------------------------------------
(* Records and saves.                                                      *)

StreamRecord == [status : {"registered", "running", "stopped", "blocked", "failed"},
                 owner : Daemons \cup {Ghost, Nil}, exp : Nat, upd : Nat]
Fields(st)   == [status |-> st, owner |-> Nil, exp |-> 0, upd |-> 1]

\* wall_time: later than the stamps of the stream that a save by p leaves in place.
Kept(p, s, h) ==
  {mem[q][s] : q \in IF h \in Handles /\ ~obj[h].att /\ ~File THEN Sides ELSE Sides \ {p}}
    \cup {obj[g].rec : g \in {g \in Handles \ {h} : StreamOf(g) = s}}
    \cup {req[r].prev : r \in {r \in Reqs : req[r].s = s}}
Later(p, s, h, r) == [r EXCEPT !.upd = 1 + Max({0} \cup {x.upd : x \in Kept(p, s, h) \ {Nil}})]
Stamp(h, r) == Later(ProcOf(h), StreamOf(h), h, r)
Leaseless(r) == [r EXCEPT !.owner = Nil, !.exp = 0]

\* The handles whose object is no longer in memory keep it as a copy.
Left(p, S, keep) ==
  [h \in Handles |-> IF h # keep /\ obj[h].att /\ ProcOf(h) = p /\ StreamOf(h) \in S
                     THEN Copy(mem[p][StreamOf(h)]) ELSE obj[h]]

\* The object of h, which now reads r, is the one in memory.
Take(h, r) ==
  /\ mem' = [mem EXCEPT ![ProcOf(h)][StreamOf(h)] = r]
  /\ obj' = [(IF obj[h].att THEN obj ELSE Left(ProcOf(h), {StreamOf(h)}, h)) EXCEPT ![h] = InMemory]

\* The object is put into memory and saved (create_stream, rollback_stream_snapshot).
Put(h, r) ==
  /\ Take(h, r)
  /\ disk' = IF File THEN mem'[ProcOf(h)] ELSE [disk EXCEPT ![StreamOf(h)] = Leaseless(r)]

\* persist_stream of the object of h: with the file store it is then in memory.
Save(h, r) ==
  \/ (File \/ obj[h].att) /\ Put(h, r)
  \/ /\ ~File /\ ~obj[h].att /\ UNCHANGED mem
     /\ obj' = [obj EXCEPT ![h].rec = r] /\ disk' = [disk EXCEPT ![StreamOf(h)] = Leaseless(r)]

\* A save that fails puts the object back as it was, and into memory.
Spoil(h, r) == Fault /\ Take(h, r) /\ UNCHANGED disk

\* persist_stream of what is in the memory of p.
SaveInMemory(p, s, r) ==
  /\ mem' = [mem EXCEPT ![p][s] = r]
  /\ disk' = IF File THEN mem'[p] ELSE [disk EXCEPT ![s] = Leaseless(r)]

\* load_streams_state; a database that cannot be read has no streams.
Loaded(failed) == IF failed THEN [s \in Streams |-> Nil] ELSE disk
Load(p, failed) ==
  /\ mem' = [mem EXCEPT ![p] = Loaded(failed)]
  /\ obj' = Left(p, Streams, Nil)

\* refresh_streams_state: a stream is replaced by one that was saved later.
Newer(p) == {s \in Streams : disk[s] # Nil /\ (mem[p][s] = Nil \/ disk[s].upd > mem[p][s].upd)}

\* An earlier one may have more events and replace it for that; and the time of a row is
\* rounded, so that the same may seem later.
MaybeNewer(p) ==
  {s \in Streams : disk[s] # Nil /\ mem[p][s] # Nil
                     /\ (disk[s].upd < mem[p][s].upd \/ (~File /\ disk[s].upd = mem[p][s].upd))}

-----------------------------------------------------------------------------
(* The routes.                                                             *)

At(r, p)  == req[r].pc = p
To(r, p)  == req' = [req EXCEPT ![r].pc = p]
Over(r)   == req' = [req EXCEPT ![r] = NoReq]
ReqFrame  == UNCHANGED <<scene, lock, daemon, sess, todo, now, late, raced>>

\* A request refreshes the memory, finds the stream and copies it.
Begin(r) ==
  /\ At(r, "idle") /\ todo[r] # <<>>
  /\ LET c == Head(todo[r])
         fresh(S) == [s \in Streams |-> IF s \in S THEN disk[s] ELSE mem[Api][s]]
         found(m) == IF m[c.s] = Nil THEN NoReq
                     ELSE [pc |-> IF c.op = "start" /\ m[c.s].status # "running" THEN "licence" ELSE "change",
                           op |-> c.op, s |-> c.s, prev |-> m[c.s]]
     IN \/ /\ c.op = "create"
           /\ req' = [req EXCEPT ![r] = [NoReq EXCEPT !.pc = "licence", !.op = "create", !.s = c.s]]
           /\ UNCHANGED <<mem, obj, left>>
        \/ \E maybe \in SUBSET MaybeNewer(Api) :
             LET S == Newer(Api) \cup maybe
             IN /\ c.op # "create"
                /\ mem' = [mem EXCEPT ![Api] = fresh(S)]
                /\ obj' = [Left(Api, S, r) EXCEPT ![r] = InMemory]
                /\ req' = [req EXCEPT ![r] = found(fresh(S))]
                /\ UNCHANGED left
        \/ /\ c.op # "create" /\ Fault        \* the streams cannot be read
           /\ req' = [req EXCEPT ![r] = found(mem[Api])]
           /\ obj' = [obj EXCEPT ![r] = InMemory]
           /\ UNCHANGED mem
  /\ todo' = [todo EXCEPT ![r] = Tail(@)]
  /\ UNCHANGED <<scene, disk, lock, daemon, sess, now, late, raced>>

\* require_entitlement_allocation admits the stream, or the request fails.
Licence(r) ==
  /\ At(r, "licence")
  /\ \/ Over(r)
     \/ req' = [req EXCEPT ![r].pc = "change", ![r].prev = IF @ = Nil THEN Nil ELSE Rec(r)]
  /\ UNCHANGED <<disk, mem, obj, left>> /\ ReqFrame

\* create_stream, start_stream and stop_stream.
Changed(r) ==
  CASE req[r].op = "create" -> Fields("registered")
    [] req[r].op = "stop"   -> [Leaseless(Rec(r)) EXCEPT !.status = "stopped"]
    [] OTHER -> IF scene.urls THEN [Leaseless(Rec(r)) EXCEPT !.status = "running"]
                ELSE [Rec(r) EXCEPT !.status = "blocked"]
Change(r) ==
  /\ At(r, "change")
  /\ \/ req[r].op = "create" /\ Put(r, Stamp(r, Changed(r))) /\ To(r, "audit") /\ UNCHANGED left
     \/ req[r].op # "create" /\ Save(r, Stamp(r, Changed(r))) /\ To(r, "emit") /\ UNCHANGED left
     \/ /\ req[r].op # "create" /\ Spoil(r, Rec(r)) /\ To(r, "undo")
     \/ /\ req[r].op = "create" /\ Fault /\ Over(r) /\ UNCHANGED <<disk, mem, obj>>
  /\ ReqFrame

\* The events of the request; those of the session of this process with them.
Emit(r) ==
  /\ At(r, "emit")
  /\ \/ Save(r, Stamp(r, Rec(r))) /\ To(r, "audit") /\ UNCHANGED left
     \/ Spoil(r, Rec(r)) /\ To(r, "undo")
  /\ ReqFrame

Audit(r) ==
  /\ At(r, "audit")
  /\ \/ Over(r) /\ UNCHANGED left
     \/ Fault /\ To(r, "undo")
  /\ UNCHANGED <<disk, mem, obj>> /\ ReqFrame

\* rollback_stream_snapshot, or remove_stream for a new one.
Remove(r, s) ==
  \/ /\ mem[Api][s] # Nil
     /\ mem' = [mem EXCEPT ![Api][s] = Nil]
     /\ obj' = [Left(Api, {s}, r) EXCEPT ![r] = Copy(Nil)]
     /\ disk' = IF File THEN mem'[Api] ELSE [disk EXCEPT ![s] = Nil]
     /\ UNCHANGED left
  \/ (Fault \/ (mem[Api][s] = Nil /\ UNCHANGED left)) /\ UNCHANGED <<disk, mem, obj>>
Undo(r) ==
  /\ At(r, "undo") /\ Over(r) /\ ReqFrame
  /\ \/ req[r].op = "create" /\ Remove(r, req[r].s)
     \/ req[r].op # "create" /\ Put(r, req[r].prev) /\ UNCHANGED left
     \/ req[r].op # "create" /\ Spoil(r, req[r].prev)

-----------------------------------------------------------------------------
(* The loop of a daemon.                                                   *)

Live(d, s) == sess[d][s].pc \in {"start", "read", "analyse", "broken", "wait", "failing"}
Yields(d)  == daemon[d].pc = "idle" /\ \A s \in Streams : sess[d][s].pc \notin {"broken", "failing"}
On(d, p)   == daemon[d].pc = p
Goes(d, p) == daemon' = [daemon EXCEPT ![d].pc = p]
Skips(d)   == daemon' = [daemon EXCEPT ![d] = [@ EXCEPT !.rest = @ \ {daemon[d].s}, !.s = Nil, !.pc = "try"]]
LockOf(d)  == [tok |-> d, made |-> now, touched |-> now]
IsStale(s) == now - lock[s].touched >= Stale
Mine(d, s) == lock[s] # Nil /\ lock[s].tok = d
Released(d, s) == IF Mine(d, s) THEN [lock EXCEPT ![s] = Nil] ELSE lock

\* selected_running_streams
Running(m) == {s \in Streams : m[s] # Nil /\ m[s].status = "running"}

\* The streams are loaded, and the sessions of those that do not run cancelled.
Poll(d) ==
  /\ Yields(d) /\ \A s \in Streams : sess[d][s].pc # "ending"
  /\ \/ Load(d, FALSE) /\ UNCHANGED left
     \/ ~File /\ Fault /\ Load(d, TRUE)
  /\ LET run == Running(mem'[d])
     IN /\ sess' = [sess EXCEPT ![d] = [s \in Streams |-> IF s \notin run /\ Live(d, s)
                                                          THEN [@[s] EXCEPT !.pc = "ending"] ELSE @[s]]]
        /\ daemon' = [daemon EXCEPT ![d] = [pc |-> "try", s |-> Nil, rest |-> {s \in run : ~Live(d, s)}]]
  /\ UNCHANGED <<scene, disk, lock, req, todo, now, late, raced>>

\* acquire_stream_process_lock: a new file, or a stale one removed first.
TryLock(d) ==
  /\ On(d, "try")
  /\ \/ /\ daemon[d].rest = {} /\ daemon' = [daemon EXCEPT ![d] = Idling] /\ UNCHANGED lock
     \/ \E s \in daemon[d].rest :
          \/ /\ lock[s] = Nil
             /\ lock' = [lock EXCEPT ![s] = LockOf(d)]
             /\ daemon' = [daemon EXCEPT ![d].pc = "lease", ![d].s = s]
          \/ /\ lock[s] # Nil
             /\ daemon' = IF IsStale(s) THEN [daemon EXCEPT ![d].pc = "unlink", ![d].s = s]
                          ELSE [daemon EXCEPT ![d].rest = @ \ {s}]
             /\ UNCHANGED lock
  /\ UNCHANGED <<scene, disk, mem, obj, sess, req, todo, now, left, late, raced>>

\* The file is removed by its name: another daemon may have made it anew.
Unlink(d) ==
  /\ On(d, "unlink") /\ Goes(d, "again")
  /\ LET s == daemon[d].s
     IN /\ lock' = [lock EXCEPT ![s] = Nil]
        /\ raced' = IF lock[s] # Nil /\ ~IsStale(s) THEN raced \cup {s} ELSE raced
  /\ UNCHANGED <<scene, disk, mem, obj, sess, req, todo, now, left, late>>

Again(d) ==
  /\ On(d, "again")
  /\ IF lock[daemon[d].s] = Nil
     THEN lock' = [lock EXCEPT ![daemon[d].s] = LockOf(d)] /\ Goes(d, "lease")
     ELSE Skips(d) /\ UNCHANGED lock
  /\ UNCHANGED <<scene, disk, mem, obj, sess, req, todo, now, left, late, raced>>

\* acquire_stream_worker_lease, by what the memory of the daemon says.
Available(r, d) == r # Nil /\ r.status = "running" /\ (r.owner \in {Nil, d} \/ r.exp <= now)
Granted(d, s) == Later(d, s, Nil, [mem[d][s] EXCEPT !.owner = d, !.exp = now + TTL])
Lease(d) ==
  /\ On(d, "lease")
  /\ LET s == daemon[d].s
         r == Granted(d, s)
     IN \/ /\ Available(mem[d][s], d)
           /\ SaveInMemory(d, s, r)
           /\ obj' = [obj EXCEPT ![<<d, s>>] = Copy(r)]
           /\ sess' = [sess EXCEPT ![d][s] = [NoSession EXCEPT !.pc = "start", !.next = now + Interval]]
           /\ UNCHANGED <<lock, left>>
        \/ /\ IF Available(mem[d][s], d) THEN Fault ELSE UNCHANGED left
           /\ lock' = Released(d, s)
           /\ UNCHANGED <<disk, mem, obj, sess>>
  /\ Skips(d)
  /\ UNCHANGED <<scene, req, todo, now, late, raced>>

-----------------------------------------------------------------------------
(* A session: the worker, and the task that keeps its ownership.           *)

Turn(d, s, p)   == sess[d][s].pc = p /\ (Yields(d) \/ p \in {"broken", "failing"})
Turns(d, s, p) == sess' = [sess EXCEPT ![d][s].pc = p]
SessFrame     == UNCHANGED <<scene, lock, daemon, req, todo, now, late, raced>>
Emits(d, s)   == Save(<<d, s>>, Stamp(<<d, s>>, Rec(<<d, s>>))) /\ UNCHANGED left

Start(d, s) ==
  /\ Turn(d, s, "start")
  /\ \/ Emits(d, s) /\ Turns(d, s, "read")
     \/ Spoil(<<d, s>>, Rec(<<d, s>>)) /\ Turns(d, s, "ending")
  /\ SessFrame

\* A batch of frames: the session looks at the status of its own object.
Read(d, s) ==
  /\ Turn(d, s, "read") /\ sess[d][s].turns < scene.turns
  /\ Turns(d, s, IF Rec(<<d, s>>).status = "running" THEN "analyse" ELSE "ending")
  /\ UNCHANGED <<disk, mem, obj, left>> /\ SessFrame

\* The batch was analysed: two events, with the status of before the analysis.
Analysed(d, s) ==
  /\ Turn(d, s, "analyse")
  /\ Emits(d, s)
  /\ sess' = [sess EXCEPT ![d][s].pc = "read", ![d][s].tries = 0, ![d][s].turns = @ + 1]
  /\ SessFrame

\* The source ends, or the analysis fails; or its events cannot be saved.
Breaks(d, s) ==
  /\ Turn(d, s, "read") \/ Turn(d, s, "analyse")
  /\ sess[d][s].turns < scene.turns
  /\ \/ UNCHANGED <<disk, mem, obj, left>>
     \/ sess[d][s].pc = "analyse" /\ Spoil(<<d, s>>, Rec(<<d, s>>))
  /\ sess' = [sess EXCEPT ![d][s].tries = @ + 1, ![d][s].turns = @ + 1, ![d][s].pc = "broken"]
  /\ SessFrame

\* record_stream_worker_failure, and the end of the retries; the daemon does nothing else
\* in between, but its threads do.
Recorded(d, s) ==
  /\ Turn(d, s, "broken")
  /\ \/ Emits(d, s) /\ Turns(d, s, IF sess[d][s].tries > MaxReconnects THEN "failing" ELSE "wait")
     \/ Spoil(<<d, s>>, Rec(<<d, s>>)) /\ Turns(d, s, "ending")
  /\ SessFrame
Fails(d, s) ==
  /\ Turn(d, s, "failing") /\ Turns(d, s, "ending")
  /\ LET r == [Rec(<<d, s>>) EXCEPT !.status = "failed"]
     IN \/ Save(<<d, s>>, Stamp(<<d, s>>, r)) /\ UNCHANGED left
        \/ Spoil(<<d, s>>, r)
  /\ SessFrame
Retry(d, s) ==
  /\ Turn(d, s, "wait")
  /\ Turns(d, s, IF Rec(<<d, s>>).status = "running" THEN "read" ELSE "ending")
  /\ UNCHANGED <<disk, mem, obj, left>> /\ SessFrame

\* renew_stream_worker_lease and the heartbeat of the lock, in threads.
\* Mutant: the token is compared, and the file not touched.
BeatsNothing(d, s) == lock
Beats(d, s) == IF Mine(d, s) THEN [lock EXCEPT ![s].touched = now] ELSE lock
Holds(d, s)   == mem[d][s] # Nil /\ mem[d][s].owner = d
Renewed(d, s) == Later(d, s, Nil, [mem[d][s] EXCEPT !.exp = now + TTL])
Renew(d, s) ==
  /\ Live(d, s) /\ now >= sess[d][s].next
  /\ LET r == Renewed(d, s)
         h == <<d, s>>
     IN IF Holds(d, s) /\ mem[d][s].status = "running"
        THEN \/ /\ SaveInMemory(d, s, r)
                /\ obj' = IF obj[h].att THEN obj ELSE [obj EXCEPT ![h].rec.owner = d, ![h].rec.exp = r.exp]
                /\ lock' = Beats(d, s)
                /\ sess' = [sess EXCEPT ![d][s].next = now + Interval, ![d][s].pc = IF Mine(d, s) THEN @ ELSE "ending"]
                /\ UNCHANGED left
             \/ Fault /\ Turns(d, s, "ending") /\ UNCHANGED <<disk, mem, obj, lock>>
        ELSE Turns(d, s, "ending") /\ UNCHANGED <<disk, mem, obj, lock, left>>
  /\ UNCHANGED <<scene, daemon, req, todo, now, late, raced>>

\* The tasks are over: the lease is given back, and the lock.
GivenBack(d, s) == Later(d, s, Nil, Leaseless(mem[d][s]))
End(d, s) ==
  /\ Turn(d, s, "ending")
  /\ \/ Holds(d, s) /\ SaveInMemory(d, s, GivenBack(d, s)) /\ UNCHANGED left
     \/ (IF Holds(d, s) THEN Fault ELSE UNCHANGED left) /\ UNCHANGED <<disk, mem>>
  /\ lock' = Released(d, s)
  /\ obj' = [obj EXCEPT ![<<d, s>>] = Copy(Nil)]
  /\ sess' = [sess EXCEPT ![d][s] = NoSession]
  /\ UNCHANGED <<scene, daemon, req, todo, now, late, raced>>

-----------------------------------------------------------------------------
(* Crashes, slow daemons and time.                                         *)

\* The owner of a process that is gone is nobody's.
Orphan(r, d) == IF r # Nil /\ r.owner = d THEN [r EXCEPT !.owner = Ghost] ELSE r
Crash(d) ==
  /\ daemon[d].pc # "down" /\ Fault
  /\ daemon' = [daemon EXCEPT ![d] = [Idling EXCEPT !.pc = "down"]]
  /\ disk' = [s \in Streams |-> Orphan(disk[s], d)]
  /\ mem' = [p \in Sides |-> [s \in Streams |-> IF p = d THEN Nil ELSE Orphan(mem[p][s], d)]]
  /\ obj' = [h \in Handles |-> IF ProcOf(h) = d THEN Copy(Nil) ELSE [obj[h] EXCEPT !.rec = Orphan(@, d)]]
  /\ req' = [r \in Reqs |-> [req[r] EXCEPT !.prev = Orphan(@, d)]]
  /\ lock' = [s \in Streams |-> IF Mine(d, s) THEN [lock[s] EXCEPT !.tok = Ghost] ELSE lock[s]]
  /\ sess' = [sess EXCEPT ![d] = [s \in Streams |-> NoSession]]
  /\ UNCHANGED <<scene, todo, now, late, raced>>
Restart(d) ==
  /\ daemon[d].pc = "down" /\ d \in scene.daemons
  /\ daemon' = [daemon EXCEPT ![d] = Idling]
  /\ UNCHANGED <<scene, disk, mem, obj, lock, sess, req, todo, now, left, late, raced>>

Stall(d) ==
  /\ d \in scene.daemons \ late /\ Fault /\ late' = late \cup {d}
  /\ UNCHANGED <<scene, disk, mem, obj, lock, daemon, sess, req, todo, now, raced>>

\* A daemon that is not late does not let a renewal, or the loop, wait.
Tick ==
  /\ now < scene.time
  /\ \A d \in Daemons \ late :
        /\ daemon[d].pc \in {"idle", "down"}
        /\ \A s \in Streams : sess[d][s].pc \notin {"broken", "failing", "ending"} /\ (Live(d, s) => now < sess[d][s].next)
  /\ now' = now + 1
  /\ UNCHANGED <<scene, disk, mem, obj, lock, daemon, sess, req, todo, left, late, raced>>

-----------------------------------------------------------------------------
Init ==
  /\ scene \in Scenes
  /\ disk = scene.disk
  /\ mem = [p \in Sides |-> IF p = Api THEN disk ELSE [s \in Streams |-> Nil]]
  /\ obj = [h \in Handles |-> Copy(Nil)]
  /\ lock = [s \in Streams |-> Nil]
  /\ daemon = [d \in Daemons |-> IF d \in scene.daemons THEN Idling ELSE [Idling EXCEPT !.pc = "down"]]
  /\ sess = [d \in Daemons |-> [s \in Streams |-> NoSession]]
  /\ req = [r \in Reqs |-> NoReq]
  /\ todo = scene.todo
  /\ now = 0 /\ left = scene.faults /\ late = {} /\ raced = {}

Next ==
  \/ \E r \in Reqs : Begin(r) \/ Licence(r) \/ Change(r) \/ Emit(r) \/ Audit(r) \/ Undo(r)
  \/ \E d \in Daemons : \/ Poll(d) \/ TryLock(d) \/ Unlink(d) \/ Again(d) \/ Lease(d)
                        \/ Crash(d) \/ Restart(d) \/ Stall(d)
  \/ \E d \in Daemons, s \in Streams : \/ Start(d, s) \/ Read(d, s) \/ Analysed(d, s) \/ Breaks(d, s)
                                       \/ Recorded(d, s) \/ Fails(d, s)
                                       \/ Retry(d, s) \/ Renew(d, s) \/ End(d, s)
  \/ Tick

Spec == Init /\ [][Next]_vars

-----------------------------------------------------------------------------
(* Properties.                                                             *)

TypeOK ==
  /\ \A s \in Streams : disk[s] = Nil \/ disk[s] \in StreamRecord
  /\ \A p \in Sides, s \in Streams : mem[p][s] = Nil \/ mem[p][s] \in StreamRecord
  /\ \A h \in Handles : obj[h].rec = Nil \/ obj[h].rec \in StreamRecord
  /\ \A d \in Daemons, s \in Streams : Live(d, s) => Rec(<<d, s>>) # Nil

\* Daemons that keep up pull the same stream only after a fresh lock was removed in
\* place of the stale one that was read (remove_stale_stream_process_lock).
OneConsumer ==
  \A s \in Streams : \A d, e \in Daemons \ late :
    d # e /\ Live(d, s) /\ Live(e, s) => s \in raced

\* Even then it is soon over: a session whose lock is another's ends at its next
\* renewal (maintain_stream_worker_ownership).
DoublesEnd ==
  \A s \in Streams : \A d \in Daemons \ late :
    Live(d, s) /\ lock[s] # Nil /\ ~Mine(d, s) => now <= lock[s].made + Interval

\* What keeps two daemons from one stream (run_leased_stream_worker_session).
StreamsAreSound == TypeOK /\ OneConsumer /\ DoublesEnd
=============================================================================
