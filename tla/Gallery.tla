------------------------------- MODULE Gallery ------------------------------
(***************************************************************************)
(* The gallery of persons and features (gallery_state, postgres_gallery),  *)
(* the requests that change it (routes_portrait_gallery, portrait_gallery_ *)
(* orchestration, portrait_gallery_mutations) and what its searches read   *)
(* (gallery_search, portrait_vector_store).                                *)
(*                                                                         *)
(* A process keeps the gallery in memory.  With the file store a change is *)
(* appended to a log, and once in a while the snapshot is written and the  *)
(* log removed; with postgres it is a row.  So a write takes three steps:  *)
(* the memory, the log or the row, the vectors.  A change holds GALLERY_   *)
(* LOCK through all of them; a rollback and the cleanup after a deletion   *)
(* hold nothing, and other requests run in between.                        *)
(*                                                                         *)
(* An image, its stored object and the feature made of it have one name.   *)
(***************************************************************************)
EXTENDS Naturals, Sequences, FiniteSets, SequencesExt

CONSTANTS
  Procs, Persons, Reqs, Nil,
  Scenes,       (* sets of the store, the vector backend, the gallery at    *)
                (* first, the call of each request, and bounds on faults    *)
                (* and crashes                                              *)
  CompactEvery  (* PORTRAIT_GALLERY_WAL_COMPACT_EVERY                       *)

VARIABLES
  scene,  (* the scene that was chosen                                      *)
  base,   (* the snapshot file, or the tables                               *)
  wal,    (* the log                                                        *)
  mem,    (* GALLERY of each process                                        *)
  count,  (* GALLERY_WAL_COUNTER of each process                            *)
  lock,   (* the request that holds GALLERY_LOCK of a process               *)
  objs,   (* stored objects                                                 *)
  cache,  (* _LOCAL_VECTOR_CACHE of each process                            *)
  index,  (* the points of Qdrant                                           *)
  req, left,
  fresh,  (* the processes that have seen every change                      *)
  odd     (* what went wrong that the code does not repair: see below       *)

vars == <<scene, base, wal, mem, count, lock, objs, cache, index, req, left, fresh, odd>>

File     == scene.store = "file"
Call(r)  == scene.calls[r]
P(r)     == Call(r).proc
K(r)     == Call(r).person
In(r)    == mem[P(r)][K(r)]
Fault    == left.faults > 0 /\ left' = [left EXCEPT !.faults = @ - 1]
NoFault  == UNCHANGED left
Person(name, feats) == [name |-> name, feats |-> feats]
Points(m) == UNION {{<<k, f>> : f \in m[k].feats} : k \in {k \in Persons : m[k] # Nil}}

\* obj: the person that the request works on, Nil while it is the one in memory;
\* prev: its copy of before; made: the objects that it stored, now: the last one;
\* rest: the features that are restored; over: someone else has changed the gallery; wr:
\* the write that is under way; seen: what a search or a reindexing read.
NoReq == [pc |-> "idle", obj |-> Nil, prev |-> Nil, made |-> {}, now |-> Nil, rest |-> {}, over |-> FALSE,
          wr |-> Nil, seen |-> {}]
At(r, pc)    == req[r].pc = pc
Going(x, pc) == IF pc = "done" THEN [NoReq EXCEPT !.pc = pc] ELSE [x EXCEPT !.pc = pc, !.wr = Nil]
To(r, pc)    == req' = [req EXCEPT ![r] = Going(@, pc)]
Active(r)    == req[r].pc \notin {"idle", "done"}
Landed(x, w) == Going([x EXCEPT !.rest = IF w.ok = "features" THEN @ \cup {w.vec} ELSE @], w.ok)
Held(r)      == IF req[r].obj = Nil THEN In(r) ELSE req[r].obj
Freed(r)     == [lock EXCEPT ![P(r)] = IF @ = r THEN Nil ELSE @]
Unlocked(r)  == lock[P(r)] = Nil
KeepStore   == UNCHANGED <<base, wal, mem, count, lock, cache, index, fresh>>

-----------------------------------------------------------------------------
(* What is stored.                                                         *)

\* One entry of the log, replayed on the persons that the snapshot holds.
Replayed(m, e) ==
  CASE e.op = "delete"  -> [m EXCEPT ![e.k] = Nil]
    [] e.op = "person"  -> [m EXCEPT ![e.k] = e.person]
    [] e.op = "feature" ->
         [m EXCEPT ![e.k] = IF @ = Nil THEN Person(e.person.name, {e.f}) ELSE [@ EXCEPT !.feats = @ \cup {e.f}]]

\* load_gallery_state.
Recovered == IF File THEN FoldLeft(Replayed, base, wal) ELSE base

\* The same change as statements on the tables; a feature needs its person.
Stored(m, e) ==
  IF e.op = "person" /\ m[e.k] # Nil THEN [m EXCEPT ![e.k].name = e.person.name]
  ELSE IF e.op = "person" THEN [m EXCEPT ![e.k] = Person(e.person.name, {})]
  ELSE Replayed(m, e)
Refused(e) == ~File /\ e.op = "feature" /\ base[e.k] = Nil

Logged(op, k, person, f) == [op |-> op, k |-> k, person |-> person, f |-> f]

\* A request works on a person between its upsert, or the restoring, and its end.
Restoring(q) == req[q].pc = "features" \/ (req[q].wr # Nil /\ req[q].wr.ok = "features")
Holds(q) ==
  \/ Call(q).op = "enroll" /\ req[q].pc # "upsert"
  \/ Restoring(q) \/ (req[q].wr # Nil /\ req[q].wr.e.op = "person")

\* The other requests of the process that hold the person which is in memory.
Neighbours(r) == {q \in Reqs \ {r} : Active(q) /\ P(q) = P(r)}
Holders(r)    == {q \in Neighbours(r) : K(q) = K(r) /\ Holds(q) /\ req[q].obj = Nil}

\* They notice that the memory was changed; those in "whose" now hold "object".
Noticed(r, whose, object) ==
  [q \in Reqs |->
     IF q \notin Neighbours(r) THEN req[q]
     ELSE [req[q] EXCEPT !.over = TRUE, !.wr = IF @ # Nil THEN [@ EXCEPT !.met = @ \cup {K(r)}] ELSE @,
                         !.obj = IF q \in whose THEN object ELSE @]]

\* A write: the entry, where to go when it is persisted or when it is not, the person to
\* put back in that case, the vectors to change.  met: the persons that others changed
\* meanwhile; whose: the requests whose person it has taken out of the memory.
Write(e, ok, fail, back, vec, locked) ==
  [e |-> e, ok |-> ok, fail |-> fail, back |-> back, vec |-> vec, locked |-> locked, met |-> {}, whose |-> {}]
Overlaps(r) == K(r) \in req[r].wr.met

\* The first step: the memory.
Change(r, v, replaces, w, more) ==
  LET whose == IF replaces THEN Holders(r) ELSE {}
  IN /\ w.locked => Unlocked(r)
     /\ lock' = [lock EXCEPT ![P(r)] = IF w.locked THEN r ELSE @]
     /\ mem' = [mem EXCEPT ![P(r)][K(r)] = v]
     /\ req' = [Noticed(r, whose, In(r)) EXCEPT ![r].pc = "log", ![r].wr = [w EXCEPT !.whose = whose],
                                                ![r].obj = IF replaces THEN Nil ELSE @]
     /\ odd' = odd \cup more
     /\ UNCHANGED <<scene, base, wal, count, objs, cache, index, left, fresh>>

\* The second: append_gallery_wal, or the statement.  With every CompactEvery-th entry
\* the snapshot is to be written as well.
Persist(r) ==
  LET p == P(r)
      w == req[r].wr
      e == IF w.e.op = "person" THEN [w.e EXCEPT !.person = Held(r)] ELSE w.e
      compacts == File /\ count[p] + 1 >= CompactEvery
  IN /\ At(r, "log") /\ ~Refused(e)
     /\ fresh' = fresh \ (Procs \ {p})
     /\ IF File THEN wal' = Append(wal, e) /\ UNCHANGED base ELSE base' = Stored(base, e) /\ UNCHANGED wal
     /\ count' = [count EXCEPT ![p] = IF File THEN @ + 1 ELSE 0]
     /\ odd' = odd \cup (IF p \in fresh /\ ~Overlaps(r) THEN {} ELSE {"lost"})
                   \cup IF req[r].obj = Nil THEN {} ELSE {"lost", "drift"}
     /\ IF compacts \/ w.vec # "none"
        THEN req' = [req EXCEPT ![r].pc = IF compacts THEN "snap" ELSE "tell"] /\ UNCHANGED lock
        ELSE req' = [req EXCEPT ![r] = Landed(@, w)] /\ lock' = Freed(r)
     /\ UNCHANGED <<scene, mem, objs, cache, index, left>>

\* What a change that holds the lock puts back.  A deletion puts back the same object,
\* the others a copy: those that held the person are left with what they held.
PutBack(r, w) ==
  LET again == Noticed(r, w.whose, Nil)
      copied == Noticed(r, Holders(r), IF w.e.op = "person" /\ Call(r).op = "enroll" THEN In(r) ELSE w.back)
      others == IF ~w.locked THEN req ELSE IF w.e.op = "delete" THEN again ELSE copied
  IN /\ mem' = IF w.locked THEN [mem EXCEPT ![P(r)][K(r)] = w.back] ELSE mem
     /\ req' = [others EXCEPT ![r] = Going(@, w.fail)]
     /\ lock' = Freed(r)

\* The entry is not written, and what was changed is put back.  A rollback that
\* fails goes on with what it still can do.
Failed(r, w) ==
  /\ At(r, "log") /\ IF Refused(w.e) THEN NoFault ELSE Fault
  /\ odd' = IF w.locked /\ req[r].obj = Nil /\ ~Overlaps(r) THEN odd ELSE odd \cup {"lost", "drift", "cut"}
  /\ UNCHANGED <<scene, base, wal, count, objs, cache, index, fresh>>

\* Mutant: a change that could not be persisted stays in memory.
KeptInMemory(r) ==
  /\ Failed(r, req[r].wr)
  /\ req' = [req EXCEPT ![r] = Going(@, req[r].wr.fail)] /\ lock' = Freed(r) /\ UNCHANGED mem

NotPersisted(r) == Failed(r, req[r].wr) /\ PutBack(r, req[r].wr)

\* save_gallery_state: the snapshot of the memory as it is now, under the lock.
Snapshot(r) ==
  /\ At(r, "snap") /\ lock[P(r)] \in {r, Nil}
  /\ LET w == req[r].wr
     IN \/ /\ base' = mem[P(r)]
           /\ req' = [req EXCEPT ![r].pc = "unlink", ![r].wr.met = {}]
           /\ odd' = odd \cup (IF w.met = {} THEN {} ELSE {"drift"}) \cup IF P(r) \in fresh THEN {} ELSE {"lost"}
           /\ fresh' = fresh \ (Procs \ {P(r)})
           /\ UNCHANGED <<mem, lock, left>>
        \/ /\ Fault /\ PutBack(r, w)
           /\ odd' = odd \cup IF w.locked THEN {"lost"} ELSE {"drift", "aged"}
           /\ UNCHANGED <<base, fresh>>
  /\ UNCHANGED <<scene, wal, count, objs, cache, index>>

\* The log is removed, with what was appended to it since; or it stays.
Unlink(r) ==
  LET w == req[r].wr
  IN /\ At(r, "unlink")
     /\ \/ /\ wal' = <<>> /\ count' = [count EXCEPT ![P(r)] = 0]
           /\ odd' = odd \cup IF w.met = {} /\ P(r) \in fresh THEN {} ELSE {"lost"}
           /\ fresh' = fresh \ (Procs \ {P(r)})
           /\ UNCHANGED left
        \/ Fault /\ UNCHANGED <<wal, count, odd, fresh>>
     /\ IF w.vec # "none" THEN req' = [req EXCEPT ![r].pc = "tell"] /\ UNCHANGED lock
        ELSE req' = [req EXCEPT ![r] = Landed(@, w)] /\ lock' = Freed(r)
     /\ UNCHANGED <<scene, base, mem, objs, cache, index>>

\* The third step: the vector store is told; an error of it is only logged.
Tell(r) ==
  LET w == req[r].wr
      own == {x \in index : x[1] = K(r)}
      late == IF Overlaps(r) \/ P(r) \notin fresh THEN {"drift"} ELSE {}
  IN /\ At(r, "tell")
     /\ cache' = IF scene.vectors = "local" THEN [cache EXCEPT ![P(r)] = Nil] ELSE cache
     /\ \/ /\ index' = IF scene.vectors # "qdrant" THEN index
                       ELSE IF w.vec = "drop" THEN index \ own ELSE index \cup {<<K(r), w.vec>>}
           /\ odd' = (odd \cup late) \ IF scene.vectors = "local" THEN {"aged"} ELSE {}
           /\ UNCHANGED left
        \/ scene.vectors = "qdrant" /\ Fault /\ odd' = odd \cup {"drift"} /\ UNCHANGED index
     /\ req' = [req EXCEPT ![r] = Landed(@, w)] /\ lock' = Freed(r)
     /\ UNCHANGED <<scene, base, wal, mem, count, objs, fresh>>

-----------------------------------------------------------------------------
(* The requests.                                                           *)

\* The person is copied before anything else; one that is not there is a 404.
Begin(r) ==
  /\ At(r, "idle") /\ Call(r).op \in {"enroll", "patch", "delete"}
  /\ req' = [req EXCEPT ![r] =
       IF Call(r).op # "enroll" /\ In(r) = Nil THEN Going(@, "done")
       ELSE [@ EXCEPT !.prev = In(r), !.pc = CASE Call(r).op = "enroll" -> "upsert"
                                               [] Call(r).op = "patch"  -> "patch"
                                               [] Call(r).op = "delete" -> "asked"]]
  /\ KeepStore /\ UNCHANGED <<scene, objs, left, odd>>

Gone(r) == To(r, "done") /\ KeepStore /\ UNCHANGED <<scene, objs, left, odd>>

\* upsert_person, and patch_person of a person that is still there.
Rename(r, ok) ==
  LET v == IF In(r) = Nil THEN Person(r, {}) ELSE [In(r) EXCEPT !.name = r]
  IN Change(r, v, FALSE, Write(Logged("person", K(r), v, Nil), ok, "done", In(r), "none", TRUE), {})

Upsert(r) == At(r, "upsert") /\ Rename(r, "put")
Patch(r)  == At(r, "patch") /\ IF In(r) = Nil THEN Unlocked(r) /\ Gone(r) ELSE Rename(r, "audit")

\* The next image is stored, and its embedding computed.
Put(r) ==
  /\ At(r, "put")
  /\ LET todo == SelectSeq(Call(r).files, LAMBDA f : f \notin req[r].made)
     IN IF todo = <<>> THEN To(r, "audit") /\ UNCHANGED <<objs, left>>
        ELSE \/ /\ objs' = objs \cup {Head(todo)}
                /\ req' = [req EXCEPT ![r].pc = "embed", ![r].made = @ \cup {Head(todo)}, ![r].now = Head(todo)]
                /\ UNCHANGED left
             \/ Fault /\ To(r, "undo") /\ UNCHANGED objs
  /\ KeepStore /\ UNCHANGED <<scene, odd>>

Embed(r) ==
  /\ At(r, "embed")
  /\ \/ To(r, "add") /\ UNCHANGED left
     \/ Fault /\ To(r, "undo")
  /\ KeepStore /\ UNCHANGED <<scene, objs, odd>>

\* add_feature, to the person that the request holds: it may have been left behind.
Add(r) ==
  /\ At(r, "add")
  /\ LET f == req[r].now
         grown == [Held(r) EXCEPT !.feats = @ \cup {f}]
         w == Write(Logged("feature", K(r), Person(grown.name, {}), f), "put", "undo", Held(r), f, TRUE)
     IN IF req[r].obj = Nil THEN Change(r, grown, FALSE, w, {})
        ELSE /\ Unlocked(r) /\ lock' = [lock EXCEPT ![P(r)] = r]
             /\ req' = [req EXCEPT ![r].pc = "log", ![r].wr = w, ![r].obj = grown]
             /\ UNCHANGED <<scene, base, wal, mem, count, objs, cache, index, left, fresh, odd>>

Audit(r) ==
  /\ \/ At(r, "audit") /\ To(r, "done") /\ UNCHANGED left
     \/ At(r, "audit") /\ Fault /\ To(r, "undo")
     \/ At(r, "asked") /\ To(r, "remove") /\ UNCHANGED left
     \/ At(r, "asked") /\ Fault /\ To(r, "done")
  /\ KeepStore /\ UNCHANGED <<scene, objs, odd>>

\* delete_person.
DeletePerson(r) ==
  /\ At(r, "remove")
  /\ IF In(r) = Nil THEN Unlocked(r) /\ Gone(r)
     ELSE Change(r, Nil, TRUE, Write(Logged("delete", K(r), Nil, Nil), "clean", "done", In(r), "drop", TRUE), {})

\* The objects of the copied person are removed; if one stays, the person comes back.
Clean(r) ==
  LET feats == req[r].prev.feats
  IN /\ At(r, "clean")
     /\ \/ objs' = objs \ feats /\ To(r, "done") /\ UNCHANGED <<left, odd>>
        \/ \E f \in feats : /\ Fault /\ objs' = objs \ (feats \ {f}) /\ To(r, "retract")
                            /\ odd' = odd \cup IF feats = {f} THEN {} ELSE {"cut"}
     /\ KeepStore /\ UNCHANGED scene

\* rollback_gallery_mutation: the stored objects go first.
Undo(r) ==
  /\ At(r, "undo")
  /\ \/ objs' = objs \ req[r].made /\ UNCHANGED left
     \/ \E f \in req[r].made : Fault /\ objs' = objs \ (req[r].made \ {f})
  /\ To(r, "retract") /\ KeepStore /\ UNCHANGED <<scene, odd>>

\* restore_gallery_person_snapshot: the person is removed, and its copy put back,
\* without the lock: other requests find it gone, and may add it again.
Retract(r) ==
  LET then == IF req[r].prev = Nil THEN "done" ELSE "restore"
  IN At(r, "retract") /\ Change(r, Nil, TRUE, Write(Logged("delete", K(r), Nil, Nil), then, then, Nil, "drop", FALSE), {})

Restore(r) ==
  LET prev == req[r].prev
      cut == IF req[r].over THEN {"cut"} ELSE {}
      displaced == IF In(r) = Nil THEN {} ELSE {"lost", "drift"}
  IN /\ At(r, "restore")
     /\ Change(r, prev, TRUE, Write(Logged("person", K(r), prev, Nil), "features", "done", prev, "none", FALSE),
               cut \cup displaced)

RestoreFeature(r) ==
  LET rest == Held(r).feats \ req[r].rest
      f == CHOOSE f \in rest : TRUE
      w == Write(Logged("feature", K(r), Person(Held(r).name, {}), f), "features", "done", Nil, f, FALSE)
  IN /\ At(r, "features")
     /\ IF rest = {} THEN To(r, "done") ELSE req' = [req EXCEPT ![r].pc = "log", ![r].wr = w]
     /\ KeepStore /\ UNCHANGED <<scene, objs, left, odd>>

-----------------------------------------------------------------------------
(* Searches and reindexing.                                                *)

\* gallery_records_snapshot: a search of the local store, or one that falls back
\* to it, and a reindexing first copy the features.
Look(r) ==
  /\ At(r, "idle") /\ Call(r).op \in {"search", "reindex"} /\ Unlocked(r)
  /\ IF Call(r).op = "search" /\ scene.vectors # "local" THEN Fault ELSE UNCHANGED left
  /\ req' = [req EXCEPT ![r].pc = Call(r).op, ![r].seen = Points(mem[P(r)])]
  /\ KeepStore /\ UNCHANGED <<scene, objs, odd>>

\* _build_matrix: what is cached is used, and else what was copied is cached.
Search(r) ==
  LET p == P(r)
      stores == cache[p] = Nil /\ req[r].seen # {}
  IN /\ At(r, "search") /\ To(r, "done")
     /\ cache' = IF stores THEN [cache EXCEPT ![p] = req[r].seen] ELSE cache
     /\ odd' = IF stores /\ req[r].over THEN odd \cup {"aged"} ELSE odd
     /\ UNCHANGED <<scene, base, wal, mem, count, lock, objs, index, fresh, left>>

\* reindex_gallery_vectors.
Reindex(r) ==
  LET p == P(r)
  IN /\ At(r, "reindex") /\ To(r, "done")
     /\ cache' = IF scene.vectors = "local" /\ req[r].seen # {} THEN [cache EXCEPT ![p] = Nil] ELSE cache
     /\ index' = IF scene.vectors = "qdrant" THEN index \cup req[r].seen ELSE index
     /\ odd' = (IF cache' = cache THEN odd ELSE odd \ {"aged"}) \cup IF req[r].over THEN {"drift"} ELSE {}
     /\ UNCHANGED <<scene, base, wal, mem, count, lock, objs, fresh, left>>

-----------------------------------------------------------------------------

\* Objects are removed, and the person that had them is not removed yet.
Undoing(r) == At(r, "retract") \/ (At(r, "log") /\ req[r].wr.e.op = "delete" /\ ~req[r].wr.locked)

\* A process stops and starts again; what its requests were doing stays undone.
Crash(p) ==
  LET mine == {r \in Reqs : P(r) = p /\ Active(r)}
      undoing == {r \in mine : Undoing(r)}
      telling == {r \in mine : req[r].pc \in {"snap", "unlink", "tell"} \/ Restoring(r)}
  IN /\ left.crashes > 0 /\ left' = [left EXCEPT !.crashes = @ - 1]
     /\ mem' = [mem EXCEPT ![p] = Recovered] /\ fresh' = fresh \cup {p}
     /\ req' = [r \in Reqs |-> IF r \in mine THEN Going(req[r], "done") ELSE req[r]]
     /\ count' = [count EXCEPT ![p] = 0] /\ lock' = [lock EXCEPT ![p] = Nil] /\ cache' = [cache EXCEPT ![p] = Nil]
     /\ odd' = odd \cup (IF undoing = {} THEN {} ELSE {"cut"}) \cup (IF telling = {} THEN {} ELSE {"drift"})
     /\ UNCHANGED <<scene, base, wal, objs, index>>

Init ==
  /\ scene \in Scenes
  /\ base = scene.people /\ wal = <<>> /\ mem = [p \in Procs |-> base] /\ fresh = Procs
  /\ count = [p \in Procs |-> 0] /\ lock = [p \in Procs |-> Nil] /\ cache = [p \in Procs |-> Nil]
  /\ objs = {x[2] : x \in Points(base)}
  /\ index = IF scene.vectors = "qdrant" THEN Points(base) ELSE {}
  /\ req = [r \in Reqs |-> NoReq] /\ left = scene.left /\ odd = {}

Next ==
  \/ \E r \in Reqs :
       \/ Begin(r) \/ Upsert(r) \/ Patch(r) \/ Put(r) \/ Embed(r) \/ Add(r) \/ Audit(r) \/ DeletePerson(r) \/ Clean(r)
       \/ Undo(r) \/ Retract(r) \/ Restore(r) \/ RestoreFeature(r)
       \/ Persist(r) \/ NotPersisted(r) \/ Snapshot(r) \/ Unlink(r) \/ Tell(r)
       \/ Look(r) \/ Search(r) \/ Reindex(r)
  \/ \E p \in Procs : Crash(p)

Spec == Init /\ [][Next]_vars

-----------------------------------------------------------------------------
(* Properties.  odd says what the code leaves behind: "lost", two writes of *)
(* a person overlapped (a rollback does not hold the lock), a feature was  *)
(* added to a person left behind, a compaction removed another entry, or a  *)
(* rollback or a compaction failed; "cut", a copy was put back whose        *)
(* objects may be gone; "aged", a search cached what was no longer so;      *)
(* "drift", the vector store failed or was told, by a roll back or by a    *)
(* replica that has not seen every change, of what was no longer so.       *)

TypeOK ==
  /\ \A p \in Procs : count[p] \in 0..Len(wal) /\ DOMAIN mem[p] = Persons
  /\ lock \in [Procs -> Reqs \cup {Nil}] /\ odd \subseteq {"lost", "cut", "aged", "drift"}

Busy(pcs) == \E r \in Reqs : req[r].pc \in pcs

\* Whatever was compacted, put back or interrupted, a restart finds the gallery that is
\* in memory (gallery_state.py:72-114), but for a change whose entry is not written yet.
Ahead(p) == \E r \in Reqs : P(r) = p /\ (req[r].pc = "log" \/ (~File /\ Restoring(r)))
RestartFindsMemory == \A p \in fresh : "lost" \notin odd /\ ~Ahead(p) => Recovered = mem[p]

\* Every feature that is in the gallery has its stored image.
ObjectsKept ==
  \A p \in fresh : {"lost", "cut"} \cap odd = {} /\ ~(\E r \in Reqs : Undoing(r)) => \A x \in Points(mem[p]) : x[2] \in objs

\* What searches use is the gallery, once the vector store was told.
VectorsCurrent ==
  \A p \in fresh : ~Busy({"log", "snap", "unlink", "tell", "features"}) =>
    /\ scene.vectors = "local" /\ {"aged", "lost"} \cap odd = {} => cache[p] \in {Nil, Points(mem[p])}
    /\ scene.vectors = "qdrant" /\ {"drift", "lost"} \cap odd = {} => index = Points(mem[p])

GalleryIsSound == TypeOK /\ RestartFindsMemory /\ ObjectsKept /\ VectorsCurrent
=============================================================================
