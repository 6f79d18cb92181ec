----------------------------- MODULE Retention -----------------------------
(***************************************************************************)
(* The cleanup of what is older than a tenant keeps (retention_cleanup_     *)
(* transaction): jobs, stream events, and persons with the stored images of *)
(* their features; what was removed is put back when a step fails.  Beside  *)
(* it persons are enrolled, and the stream emits events, is started,        *)
(* stopped and leased.  The cleanup works on the stream without the lock.   *)
(*                                                                         *)
(* A stored object has its name from what it holds (object_key_for), so     *)
(* that two persons with the same image have one object.  One process, with *)
(* the file store.                                                         *)
(***************************************************************************)
EXTENDS Integers, FiniteSets

CONSTANTS
  Persons, Images, Jobs, Tasks,
  Scenes,    (* [people, jobs, events: as they are at first; calls: per     *)
             (* task the person and the image it enrols, or Nil; touches:   *)
             (* bound on what happens to the stream; days: the age]         *)
  MaxTime,   (* bound on the clock                                         *)
  MaxFaults, (* bound on steps that fail                                   *)
  Nil        (* no value                                                   *)

VARIABLES
  now,
  people,  (* per person: when it was updated, and its images, or Nil       *)
  objects, (* the stored images                                            *)
  jobs,    (* per job: when it was updated, or Nil                          *)
  stream,  (* the stream: when it emitted its events, whether it runs, and  *)
           (* whether a worker has its lease                               *)
  touch,   (* what is happening to the stream beside the cleanup            *)
  own,     (* the stream as all that happened beside the cleanup left it    *)
  later,   (* what happened to it after the cleanup had copied it           *)
  met,     (* something happened to it while the cleanup worked on it       *)
  days, clean, (* the age asked for, and what the cleanup is doing          *)
  calls, enrol, (* per task: what it enrols, and what it is doing           *)
  shared,  (* images that two persons had, or were to have, at once, or one *)
           (* while the cleanup was to delete it                           *)
  crossed, (* persons that the cleanup removed, or put back, while they     *)
           (* were being enrolled                                          *)
  back,    (* persons that were put back after they were removed            *)
  stray,   (* what may stay behind: images added to a person that is then   *)
           (* removed or overwritten, or whose deletion failed             *)
  left     (* steps that may still fail                                    *)

streamVars == <<stream, touch, own, later>>
vars == <<now, people, objects, jobs, streamVars, met, days, clean, calls, enrol, shared, crossed, back, stray, left>>

\* cands: the persons to remove, copy: the persons as they were; images: the objects of the
\* last one that are still to be deleted; gone, jobsGone: what was removed; before, kept: how
\* many events there were, and those to keep; stream: the stream as it was.
Idle == [pc |-> "idle", cutoff |-> 0, cands |-> {}, copy |-> Nil, todo |-> {}, gone |-> {}, images |-> {},
         errors |-> FALSE, jobsCopy |-> Nil, jobsGone |-> {}, before |-> 0, kept |-> {},
         stream |-> Nil]
NoTouch(n) == [pc |-> "idle", prev |-> Nil, own |-> Nil, events |-> {}, left |-> n]
NoCall == [pc |-> "idle", held |-> TRUE, before |-> Nil]

Alive       == {p \in Persons : people[p] # Nil}
Enrolling   == {t \in Tasks : enrol[t].pc \notin {"idle", "end", "undone"}}
Undone      == {calls[t].person : t \in {t \in Tasks : enrol[t].pc = "undone"}}
Owners(i)   == {p \in Alive : i \in people[p].images} \cup {calls[t].person : t \in {t \in Enrolling : calls[t].image = i}}
                 \cup {Nil : j \in clean.images \cap {i}}

Init ==
  /\ now = 1 /\ left = MaxFaults /\ stray = {} /\ crossed = {} /\ back = {} /\ clean = Idle
  /\ enrol = [t \in Tasks |-> NoCall]
  /\ \E s \in Scenes :
       /\ people = s.people /\ jobs = s.jobs /\ calls = s.calls /\ days = s.days
       /\ stream = [events |-> s.events, runs |-> TRUE, leased |-> FALSE] /\ touch = NoTouch(s.touches)
  /\ own = stream /\ met = FALSE /\ later = [events |-> {}, moved |-> FALSE]
  /\ objects = UNION {people[p].images : p \in Alive}
  /\ shared = {i \in Images : Cardinality(Owners(i)) > 1}

Fault == left > 0 /\ left' = left - 1
NoFault == UNCHANGED left

\* The stream is in the hands of the cleanup, and of someone else.
Meets ==
  /\ touch.pc # "idle"
  /\ clean.pc \in {"filter", "copy", "assign"} \/ (clean.pc \in {"unstream", "unevents"} /\ clean.stream # Nil)

\* The images of a person that an older copy of it does not have.
Newer(p, copy) == IF people[p] = Nil THEN {} ELSE IF copy = Nil THEN people[p].images ELSE people[p].images \ copy.images

\* A record is taken out of memory, or another one put there: who holds the old one goes on
\* with it.
Replaced(ps) ==
  /\ enrol' = [t \in Tasks |-> IF t \in Enrolling /\ calls[t].person \in ps THEN [enrol[t] EXCEPT !.held = FALSE] ELSE enrol[t]]
  /\ crossed' = crossed \cup {p \in ps : \E t \in Enrolling : calls[t].person = p}

-----------------------------------------------------------------------------
(* The cleanup.                                                            *)
Step(pc) == clean' = [clean EXCEPT !.pc = pc]
SameWorld == UNCHANGED <<now, days, calls>>

Begin ==
  /\ clean.pc = "idle"
  /\ LET cutoff == now - days
     IN clean' = [Idle EXCEPT !.pc = "audit", !.cutoff = cutoff, !.copy = people,
                              !.cands = {p \in Alive : people[p].at < cutoff}]
  /\ UNCHANGED <<people, objects, jobs, streamVars, enrol, crossed, back, stray, left>> /\ SameWorld

AuditStarts ==
  /\ clean.pc = "audit"
  /\ \/ NoFault /\ clean' = [clean EXCEPT !.pc = "jobs", !.jobsCopy = jobs,
                                          !.todo = {j \in Jobs : jobs[j] # Nil /\ jobs[j] < clean.cutoff}]
     \/ Fault /\ Step("unpeople")
  /\ UNCHANGED <<people, objects, jobs, streamVars, enrol, crossed, back, stray>> /\ SameWorld

\* remove_video_job
RemoveJob ==
  /\ clean.pc = "jobs" /\ clean.todo # {}
  /\ \E j \in clean.todo :
       \/ /\ NoFault /\ jobs' = [jobs EXCEPT ![j] = Nil]
          /\ clean' = [clean EXCEPT !.todo = @ \ {j}, !.jobsGone = @ \cup {j}]
       \/ Fault /\ Step("unpeople") /\ UNCHANGED jobs
  /\ UNCHANGED <<people, objects, streamVars, enrol, crossed, back, stray>> /\ SameWorld

\* The events are counted, those to keep listed, the stream copied, the list put in its
\* place and the stream saved, none of it under STREAMS_LOCK.
OnStream == UNCHANGED <<people, objects, jobs, enrol, crossed, back, stray, touch, own, later>> /\ SameWorld

CountEvents ==
  /\ clean.pc = "jobs" /\ clean.todo = {}
  /\ clean' = [clean EXCEPT !.pc = "filter", !.before = Cardinality(stream.events)]
  /\ UNCHANGED <<stream, left>> /\ OnStream

FilterEvents ==
  /\ clean.pc = "filter"
  /\ LET kept == {e \in stream.events : e >= clean.cutoff}
     IN clean' = IF Cardinality(kept) = clean.before THEN [clean EXCEPT !.pc = "people", !.todo = clean.cands]
                 ELSE [clean EXCEPT !.pc = "copy", !.kept = kept]
  /\ UNCHANGED <<stream, left>> /\ OnStream

CopyStream ==
  /\ clean.pc = "copy" /\ clean' = [clean EXCEPT !.pc = "assign", !.stream = stream]
  /\ UNCHANGED <<stream, left>> /\ OnStream

AssignEvents ==
  /\ clean.pc = "assign" /\ Step("save")
  /\ stream' = [stream EXCEPT !.events = clean.kept]
  /\ UNCHANGED left /\ OnStream

SaveTrimmed ==
  /\ clean.pc = "save"
  /\ \/ NoFault /\ clean' = [clean EXCEPT !.pc = "people", !.todo = clean.cands]
     \/ Fault /\ Step("unpeople")
  /\ UNCHANGED stream /\ OnStream

Trim == CountEvents \/ FilterEvents \/ CopyStream \/ AssignEvents \/ SaveTrimmed

\* delete_gallery_person: by its name, as it may be now.
RemovePerson ==
  /\ clean.pc = "people" /\ clean.todo # {}
  /\ \E p \in clean.todo :
       \/ /\ NoFault /\ people[p] # Nil /\ people' = [people EXCEPT ![p] = Nil] /\ Replaced({p})
          /\ clean' = [clean EXCEPT !.pc = "objects", !.todo = @ \ {p}, !.gone = @ \cup {p}, !.images = clean.copy[p].images]
          /\ stray' = stray \cup Newer(p, clean.copy[p])
       \/ NoFault /\ people[p] = Nil /\ clean' = [clean EXCEPT !.todo = @ \ {p}] /\ UNCHANGED <<people, enrol, crossed, stray>>
       \/ Fault /\ people[p] # Nil /\ Step("unpeople") /\ UNCHANGED <<people, enrol, crossed, stray>>
  /\ UNCHANGED <<objects, jobs, streamVars, back>> /\ SameWorld

\* cleanup_retained_gallery_feature_objects: a failure does not end the loop.
RemoveObject ==
  /\ clean.pc = "objects" /\ clean.images # {}
  /\ \E i \in clean.images :
       \/ NoFault /\ objects' = objects \ {i} /\ clean' = [clean EXCEPT !.images = @ \ {i}] /\ UNCHANGED stray
       \/ /\ Fault /\ clean' = [clean EXCEPT !.images = @ \ {i}, !.errors = TRUE]
          /\ stray' = stray \cup {i} /\ UNCHANGED objects
  /\ UNCHANGED <<people, jobs, streamVars, enrol, crossed, back>> /\ SameWorld

ObjectsDone ==
  /\ clean.pc = "objects" /\ clean.images = {}
  /\ Step(IF clean.errors THEN "unpeople" ELSE "people") /\ NoFault
  /\ UNCHANGED <<people, objects, jobs, streamVars, enrol, crossed, back, stray>> /\ SameWorld

Done ==
  /\ clean.pc = "people" /\ clean.todo = {} /\ Step("done") /\ NoFault
  /\ UNCHANGED <<people, objects, jobs, streamVars, enrol, crossed, back, stray>> /\ SameWorld

\* Mutant: the person whose objects could not be deleted is not put back.
PutBackOthers ==
  /\ clean.pc = "unpeople" /\ Step("unstream")
  /\ LET gone == IF clean.errors THEN {} ELSE clean.gone
     IN /\ people' = [p \in Persons |-> IF p \in gone THEN clean.copy[p] ELSE people[p]]
        /\ Replaced(gone) /\ back' = back \cup gone /\ stray' = stray \cup UNION {Newer(p, clean.copy[p]) : p \in gone}
  /\ UNCHANGED <<objects, jobs, streamVars, left>> /\ SameWorld

\* rollback_retention_cleanup: the copies take the place of what may be there by now.
PutBack ==
  /\ clean.pc = "unpeople" /\ Step("unstream")
  /\ people' = [p \in Persons |-> IF p \in clean.gone THEN clean.copy[p] ELSE people[p]]
  /\ Replaced(clean.gone) /\ back' = back \cup clean.gone
  /\ stray' = stray \cup UNION {Newer(p, clean.copy[p]) : p \in clean.gone}
  /\ UNCHANGED <<objects, jobs, streamVars, left>> /\ SameWorld

\* restore_stream: all of the stream, whoever started, stopped or leased it meanwhile.
PutBackState ==
  /\ clean.pc = "unstream"
  /\ \/ clean.stream = Nil /\ Step("unjobs") /\ UNCHANGED stream
     \/ clean.stream # Nil /\ Step("unevents") /\ stream' = [clean.stream EXCEPT !.events = stream.events]
  /\ UNCHANGED left /\ OnStream

PutBackEvents ==
  /\ clean.pc = "unevents" /\ Step("unjobs")
  /\ stream' = [stream EXCEPT !.events = clean.stream.events]
  /\ UNCHANGED left /\ OnStream

PutBackJobs ==
  /\ clean.pc = "unjobs" /\ Step("failed")
  /\ jobs' = [j \in Jobs |-> IF j \in clean.jobsGone THEN clean.jobsCopy[j] ELSE jobs[j]]
  /\ UNCHANGED <<people, objects, streamVars, enrol, crossed, back, stray, left>> /\ SameWorld

-----------------------------------------------------------------------------
(* What goes on beside it: enroll_gallery_person, and events of the stream. *)
P(t) == calls[t].person
I(t) == calls[t].image
To(t, pc) == enrol' = [enrol EXCEPT ![t].pc = pc]
KeepsClean == UNCHANGED <<clean, jobs, streamVars, crossed>> /\ SameWorld

Upsert(t) ==
  /\ enrol[t].pc = "idle" /\ calls[t] # Nil
  /\ enrol' = [enrol EXCEPT ![t] = [NoCall EXCEPT !.pc = "put", !.before = people[P(t)]]]
  /\ people' = [people EXCEPT ![P(t)] = [at |-> now, images |-> IF @ = Nil THEN {} ELSE @.images]]
  /\ UNCHANGED <<objects, back, stray, left>> /\ KeepsClean

Put(t) ==
  /\ enrol[t].pc = "put"
  /\ \/ NoFault /\ objects' = objects \cup {I(t)} /\ enrol' = [enrol EXCEPT ![t].pc = "feature"]
     \/ Fault /\ To(t, "restore") /\ UNCHANGED objects
  /\ UNCHANGED <<people, back, stray>> /\ KeepsClean

\* add_feature, on the record that was found or made at the beginning.
Feature(t) ==
  /\ enrol[t].pc = "feature"
  /\ \/ /\ NoFault /\ To(t, "audit")
        /\ people' = IF enrol[t].held /\ people[P(t)] # Nil
                     THEN [people EXCEPT ![P(t)] = [at |-> now, images |-> @.images \cup {I(t)}]] ELSE people
        /\ stray' = IF enrol[t].held THEN stray ELSE stray \cup {I(t)}
     \/ Fault /\ To(t, "remove") /\ UNCHANGED <<people, stray>>
  /\ UNCHANGED <<objects, back>> /\ KeepsClean

Audit(t) ==
  /\ enrol[t].pc = "audit"
  /\ (NoFault /\ To(t, "end")) \/ (Fault /\ To(t, "remove"))
  /\ UNCHANGED <<people, objects, back, stray>> /\ KeepsClean

\* rollback_gallery_mutation: the object goes, and the person is as it was.
Remove(t) ==
  /\ enrol[t].pc = "remove" /\ To(t, "restore")
  /\ \/ NoFault /\ objects' = objects \ {I(t)} /\ UNCHANGED stray
     \/ Fault /\ stray' = stray \cup {I(t)} /\ UNCHANGED objects
  /\ UNCHANGED <<people, back>> /\ KeepsClean

Restore(t) ==
  /\ enrol[t].pc = "restore"
  /\ people' = [people EXCEPT ![P(t)] = enrol[t].before]
  /\ back' = IF people[P(t)] = Nil /\ enrol[t].before # Nil THEN back \cup {P(t)} ELSE back
  /\ enrol' = [u \in Tasks |-> IF u = t THEN [enrol[t] EXCEPT !.pc = "undone"]
                               ELSE IF u \in Enrolling /\ P(u) = P(t) THEN [enrol[u] EXCEPT !.held = FALSE] ELSE enrol[u]]
  /\ stray' = stray \cup (Newer(P(t), enrol[t].before) \ {I(t)})
  /\ UNCHANGED <<objects, clean, jobs, streamVars, left>> /\ SameWorld
  /\ crossed' = crossed \cup {P(u) : u \in {u \in Enrolling : u # t /\ P(u) = P(t)}}

\* emit_stream_event, start_stream and stop_stream, and the lease of a worker: the stream is
\* copied and changed, an event appended to the list that is there, and that list assigned;
\* the copy is put back when the stream cannot be saved.
Appended(s) == [s EXCEPT !.events = @ \cup {now}]
Switched(s) == [Appended(s) EXCEPT !.runs = ~@, !.leased = FALSE]
Leased(s)   == [s EXCEPT !.leased = ~@]

Touch(it, mine, pc) ==
  /\ touch.pc = "idle" /\ touch.left > 0
  /\ stream' = it /\ own' = mine
  /\ touch' = [pc |-> pc, prev |-> stream, own |-> own, events |-> it.events, left |-> touch.left - 1]
  /\ later' = IF clean.stream = Nil THEN later
              ELSE [events |-> later.events \cup (mine.events \ own.events),
                    moved  |-> later.moved \/ mine.runs # own.runs \/ mine.leased # own.leased]
  /\ UNCHANGED left

Emit   == now \notin own.events \cup stream.events /\ Touch(Appended(stream), Appended(own), "assign")
Switch == now \notin own.events \cup stream.events /\ Touch(Switched(stream), Switched(own), "assign")
Lease  == stream.runs /\ Touch(Leased(stream), Leased(own), "save")

AssignAppended ==
  /\ touch.pc = "assign" /\ touch' = [touch EXCEPT !.pc = "save"]
  /\ stream' = [stream EXCEPT !.events = touch.events]
  /\ UNCHANGED <<own, later, left>>

SaveTouched ==
  /\ touch.pc = "save" /\ touch' = NoTouch(touch.left)
  /\ \/ NoFault /\ UNCHANGED <<stream, own>>
     \/ Fault /\ stream' = touch.prev /\ own' = touch.own
  /\ UNCHANGED later

Touches ==
  /\ Emit \/ Switch \/ Lease \/ AssignAppended \/ SaveTouched
  /\ UNCHANGED <<people, objects, jobs, clean, enrol, crossed, back, stray>> /\ SameWorld

Tick == /\ now < MaxTime /\ now' = now + 1
        /\ UNCHANGED <<people, objects, jobs, streamVars, days, clean, calls, enrol, crossed, back, stray, left>>

Next ==
  /\ \/ Begin \/ AuditStarts \/ RemoveJob \/ Trim \/ RemovePerson \/ RemoveObject \/ ObjectsDone \/ Done
     \/ PutBack \/ PutBackState \/ PutBackEvents \/ PutBackJobs \/ Touches \/ Tick
     \/ \E t \in Tasks : Upsert(t) \/ Put(t) \/ Feature(t) \/ Audit(t) \/ Remove(t) \/ Restore(t)
  /\ shared' = shared \cup {i \in Images : Cardinality(Owners(i)') > 1}
  /\ met' = (met \/ Meets')
Spec == Init /\ [][Next]_vars

-----------------------------------------------------------------------------
TypeOK ==
  /\ objects \subseteq Images /\ left \in 0..MaxFaults /\ met \in BOOLEAN
  /\ stream \in [events : SUBSET (0..MaxTime), runs : BOOLEAN, leased : BOOLEAN]
  /\ touch.pc \in {"idle", "assign", "save"}
  /\ clean.pc \in {"idle", "audit", "jobs", "filter", "copy", "assign", "save", "people", "objects", "done",
                  "unpeople", "unstream", "unevents", "unjobs", "failed"}
  /\ \A t \in Tasks : enrol[t].pc \in {"idle", "put", "feature", "audit", "remove", "restore", "end", "undone"}

\* The image of each feature is stored, unless two persons had the same one, the person was
\* put back, or an enrolment that failed is just being undone (object_key_for,
\* cleanup_retained_gallery_feature_objects, rollback_gallery_mutation).
ImagesAreThere ==
  \A p \in Alive \ (back \cup crossed) :
    people[p].images \subseteq objects \cup shared \/ \E t \in Tasks : enrol[t].pc = "restore" /\ P(t) = p

\* What is stored belongs to someone once all is quiet: nothing of a removed person stays,
\* apart from images that came after it was copied, and deletions that failed.
NothingStays ==
  clean.pc \in {"idle", "done", "failed"} /\ Enrolling = {} =>
    objects \subseteq UNION {people[p].images : p \in Alive} \cup stray \cup shared

\* A cleanup that ends well leaves nothing that is older than the age asked for, and one
\* that fails has taken nothing away: not the jobs and persons that were removed before the
\* step that failed.  Old events stay only where something happened to the stream while the
\* cleanup worked on it (routes_portrait_admin.py:214-219 takes no lock).
CleanupIsWhole ==
  /\ clean.pc = "done" =>
       /\ \A p \in Alive \ (back \cup crossed \cup Undone) : people[p].at >= clean.cutoff
       /\ \A j \in Jobs : jobs[j] # Nil => jobs[j] >= clean.cutoff
       /\ met \/ \A e \in stream.events : e >= clean.cutoff
  /\ clean.pc = "failed" =>
       /\ \A p \in clean.gone : p \in Alive \/ p \in crossed
       /\ \A j \in clean.jobsGone : jobs[j] = clean.jobsCopy[j]

\* Whom the cleanup did not find to be old it does not remove; a person that an enrolment
\* made goes again when that enrolment fails, and is as old as before otherwise.
TheRestStays ==
  clean.pc # "idle" => \A p \in Persons :
    clean.copy[p] # Nil /\ p \notin clean.cands \cup crossed \cup Undone => p \in Alive

\* What was emitted stays in the stream, and so do its status and its lease, whatever the
\* cleanup does with the stream: a cleanup that goes on, or has ended well, takes only events
\* that are old, and one that failed takes nothing but what came after its copy of the stream
\* (restore_stream).  Nothing is said of what meets the cleanup while it works on the stream.
StreamStays ==
  LET undone == clean.stream # Nil /\ clean.pc \in {"unevents", "unjobs", "failed"}
      told   == IF undone THEN later ELSE [events |-> {}, moved |-> FALSE]
  IN met \/
       /\ \A e \in own.events \ told.events :
            e \in stream.events \/ (clean.stream # Nil /\ clean.pc \notin {"unjobs", "failed"} /\ e < clean.cutoff)
       /\ told.moved \/ (stream.runs = own.runs /\ stream.leased = own.leased)

RetentionIsSound == TypeOK /\ ImagesAreThere /\ NothingStays /\ CleanupIsWhole /\ TheRestStays /\ StreamStays
=============================================================================
