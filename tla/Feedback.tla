------------------------------ MODULE Feedback ------------------------------
(***************************************************************************)
(* What people say of the results: labels of samples and what is made of them,*)
(* and what reviewers write of the tracks.  The two parts share no variable;*)
(* each has an Init and a Next of its own.                                 *)
(***************************************************************************)
EXTENDS Integers, FiniteSets, Sequences, FiniteSetsExt, TLC

-----------------------------------------------------------------------------
(***************************************************************************)
(* What people say of the results: samples that are exported for           *)
(* annotation and imported again, datasets of reviewed samples, analysis   *)
(* reports that recommend a release (portrait_feedback), and the           *)
(* annotations and corrections of tracks (portrait_review).                *)
(*                                                                         *)
(* Both keep a state in memory and in a file (the file store of one        *)
(* process, whose writes fail closed).  A route copies the whole state,    *)
(* runs its operation, which holds the lock and ends with a save, records  *)
(* it in the audit chain, and puts the copy back when that fails; other    *)
(* routes run between these steps.  Identifiers that the server draws are  *)
(* fixed by the calls, every set of labels has the key that a report asks  *)
(* for, and scores are compared as fractions, not rounded to six digits.   *)
(***************************************************************************)

CONSTANTS
  Tasks,     (* routes that run at a time                                  *)
  Samples,   (* review samples, by their deduplication_key                 *)
  Facts,     (* the confidence of each sample, in percent or Nil, its      *)
             (* model_version_id and the model_sha256, or Nil              *)
  Workloads, (* functions from Tasks to sequences of calls                 *)
  MinCount,  (* minimum_sample_count of a report                           *)
  MinScore, MaxDrop, (* its minimum_accuracy and minimum_f1, and the       *)
             (* regressions it accepts, in percent                         *)
  Threshold, (* its current_threshold, in percent                          *)
  Candidates, (* its threshold_candidates                                  *)
  MaxKept,   (* MAX_REVIEW_ANNOTATIONS                                     *)
  MaxFaults, (* bound on failing saves, failing audit records and restarts *)
  Nil        (* no value                                                   *)

Policies == {"reject", "overwrite", "keep_existing"}

VARIABLES
  st,       (* _STATE and _REVIEW_STATE                                    *)
  disk,     (* the files                                                   *)
  todo,     (* the calls of each task that are still to come               *)
  task,     (* where each task is, the copy it took, what it changed       *)
  left,     (* what is left of MaxFaults                                   *)
  answered, (* the annotations of tracks that callers were told are kept   *)
  odd       (* what the code is known to leave behind                      *)

vars == <<st, disk, todo, task, left, answered, odd>>

Idle     == [pc |-> "idle", copy |-> Nil, base |-> Nil, made |-> Nil]
Call(t)  == Head(todo[t])
Store(t) == IF Call(t).op \in {"annotate", "correct"} THEN "review" ELSE "feedback"
Fault    == left > 0 /\ left' = left - 1
Named(records, id) == {r \in records : r.id = id}

Init ==
  /\ st = [feedback |-> [samples |-> [s \in Samples |-> Nil], exports |-> {}, imports |-> {},
                         datasets |-> {}, reports |-> {}],
           review |-> [annotations |-> <<>>, corrections |-> <<>>]]
  /\ disk = st
  /\ todo \in Workloads /\ task = [t \in Tasks |-> Idle]
  /\ left = MaxFaults /\ answered = {} /\ odd = {}

-----------------------------------------------------------------------------
(* Samples and datasets.                                                   *)

\* create_review_sample: one that exists is answered as it is, and nothing is saved.
IsThere(f, c) == c.op = "create" /\ f.samples[c.sample] # Nil
Created(f, c) == [f EXCEPT !.samples[c.sample] = [status |-> "queued", labels |-> Nil]]

\* _require_sample
MayExport(f, c) == c.samples # {} /\ \A s \in c.samples : f.samples[s] # Nil

\* export_review_samples
Exported(f, c) ==
  [f EXCEPT !.exports = @ \cup {[id |-> c.id, samples |-> c.samples, status |-> "ready"]},
            !.samples = [s \in Samples |-> IF s \in c.samples THEN [@[s] EXCEPT !.status = "exported"] ELSE @[s]]]

Conflicts(f, c) ==
  {s \in DOMAIN c.labels : f.samples[s].labels \notin {Nil, c.labels[s]}}

\* import_annotations: the whole import is validated before a sample is changed.
MayImport(f, c) ==
  /\ c.labels # <<>>
  /\ \E e \in Named(f.exports, c.export) : DOMAIN c.labels \subseteq e.samples
  /\ c.policy \in Policies
  /\ c.policy = "reject" => Conflicts(f, c) = {}

\* Mutant: labels that are there are kept whatever the policy, while the import says
\* that it was applied.
AppliesToUnlabelled(f, c) == {s \in DOMAIN c.labels : f.samples[s].labels = Nil}

\* The samples that an import labels: with keep_existing one that has labels is left as
\* it is, its status included.
Applies(f, c) ==
  {s \in DOMAIN c.labels : c.policy = "keep_existing" => f.samples[s].labels = Nil}

Imported(f, c) ==
  [f EXCEPT !.samples = [s \in Samples |-> IF s \in Applies(f, c)
                                           THEN [status |-> "reviewed", labels |-> c.labels[s]] ELSE @[s]],
            !.exports = {IF e.id = c.export THEN [e EXCEPT !.status = "imported"] ELSE e : e \in @},
            !.imports = @ \cup {[export |-> c.export, labels |-> c.labels, policy |-> c.policy]}]

\* create_dataset_manifest: every sample is reviewed, in one split, and copied with the
\* labels it has.
Collects(c) == UNION {c.splits[x] : x \in DOMAIN c.splits}

MayCollect(f, c) ==
  /\ \A d \in f.datasets : d.name # c.name
  /\ Collects(c) # {}
  /\ \A s \in Collects(c) : f.samples[s] # Nil /\ f.samples[s].status = "reviewed"
  /\ \A x, y \in DOMAIN c.splits : x = y \/ c.splits[x] \cap c.splits[y] = {}

Collected(f, c) ==
  [f EXCEPT !.datasets = @ \cup {[id |-> c.id, name |-> c.name,
                                  labels |-> [s \in Collects(c) |-> f.samples[s].labels]]}]

-----------------------------------------------------------------------------
(* Reports.                                                                *)

\* _analysis_input_rows: a sample counts once, as the first dataset has it.
Rows(datasets) ==
  LET all == UNION {DOMAIN datasets[i].labels : i \in DOMAIN datasets}
  IN [s \in {x \in all : Facts[x].confidence # Nil} |->
        datasets[CHOOSE i \in DOMAIN datasets :
                   /\ s \in DOMAIN datasets[i].labels
                   /\ \A j \in 1..(i - 1) : s \notin DOMAIN datasets[j].labels].labels[s]]

\* _binary_metrics, as fractions: accuracy is right/all, f1 is 2 hits/(2 hits + wrong), or
\* nothing without a hit.
Metrics(rows, threshold) ==
  LET yes == {s \in DOMAIN rows : Facts[s].confidence >= threshold}
      pos == {s \in DOMAIN rows : rows[s] = "positive"}
  IN [all |-> Cardinality(DOMAIN rows), hits |-> Cardinality(yes \cap pos),
      right |-> Cardinality(DOMAIN rows \ ((yes \cup pos) \ (yes \cap pos))),
      wrong |-> Cardinality((yes \cup pos) \ (yes \cap pos))]

Accuracy(m) == <<m.right, m.all>>
F1(m) == IF m.hits = 0 THEN <<0, 1>> ELSE <<2 * m.hits, 2 * m.hits + m.wrong>>
Over(x, y) == x[1] * y[2] > y[1] * x[2]
AtLeast(x, percent) == x[1] * 100 >= percent * x[2]
DropsTooFar(from, to) == from[1] * 100 * to[2] - to[1] * 100 * from[2] > MaxDrop * from[2] * to[2]

\* The threshold that is recommended: by f1, then by accuracy, then the nearest to the
\* current one, then the lowest.
Advised(rows) ==
  LET m == [x \in Candidates \cup {Threshold} |-> Metrics(rows, x)]
      Far(x) == IF x < Threshold THEN Threshold - x ELSE x - Threshold
      Before(x, y) ==
        \/ Over(F1(m[x]), F1(m[y]))
        \/ /\ ~Over(F1(m[y]), F1(m[x]))
           /\ \/ m[x].right > m[y].right
              \/ m[x].right = m[y].right /\ (Far(x) < Far(y) \/ (Far(x) = Far(y) /\ x < y))
  IN IF Cardinality(DOMAIN rows) < MinCount THEN Nil
     ELSE CHOOSE x \in DOMAIN m : \A y \in DOMAIN m \ {x} : Before(x, y)

\* The model_comparison: a version is not judged whose rows have several artifacts, or
\* that has too few.
OfVersion(rows, v) == [s \in {x \in DOMAIN rows : Facts[x].model = v} |-> rows[s]]
Compared(rows, baseline, candidate) ==
  LET of == {OfVersion(rows, baseline), OfVersion(rows, candidate)}
      Artifacts(part) == {Facts[s].sha : s \in DOMAIN part} \ {Nil}
  IN IF \E part \in of : Cardinality(Artifacts(part)) > 1 THEN "inconsistent"
     ELSE IF \E part \in of : Cardinality(DOMAIN part) < MinCount THEN "insufficient_data" ELSE "available"

\* The status of the release_candidate of create_feedback_analysis_report
Decision(rows, baseline, candidate) ==
  LET b == Metrics(OfVersion(rows, baseline), Threshold)
      m == Metrics(OfVersion(rows, candidate), Threshold)
      compared == Compared(rows, baseline, candidate)
  IN CASE compared = "inconsistent" -> "blocked"
       [] compared = "insufficient_data" -> "insufficient_data"
       [] OTHER -> IF /\ AtLeast(Accuracy(m), MinScore) /\ AtLeast(F1(m), MinScore)
                      /\ ~DropsTooFar(Accuracy(b), Accuracy(m)) /\ ~DropsTooFar(F1(b), F1(m))
                   THEN "ready" ELSE "blocked"

Status(rows, baseline, candidate) ==
  CASE Compared(rows, baseline, candidate) = "inconsistent" -> "blocked"
    [] Compared(rows, baseline, candidate) = "insufficient_data" -> "insufficient_data"
    [] OTHER -> IF Cardinality(DOMAIN rows) < MinCount THEN "insufficient_data" ELSE "completed"

Datasets(f, ids) == [i \in DOMAIN ids |-> CHOOSE d \in f.datasets : d.id = ids[i]]

MayReport(f, c) ==
  /\ c.baseline # c.candidate /\ c.datasets # <<>>
  /\ \A i \in DOMAIN c.datasets : Named(f.datasets, c.datasets[i]) # {}
  /\ Named(f.reports, c.id) = {}

Reported(f, c) ==
  LET rows == Rows(Datasets(f, c.datasets))
  IN [f EXCEPT !.reports = @ \cup
        {[id |-> c.id, datasets |-> c.datasets, baseline |-> c.baseline, candidate |-> c.candidate,
          threshold |-> Advised(rows), status |-> Status(rows, c.baseline, c.candidate),
          decision |-> Decision(rows, c.baseline, c.candidate)]}]

-----------------------------------------------------------------------------
(* Annotations and corrections of tracks.                                  *)
Last(q) == IF Len(q) > MaxKept THEN SubSeq(q, Len(q) - MaxKept + 1, Len(q)) ELSE q

Annotated(v, c) == [v EXCEPT !.annotations = Last(Append(@, c.id))]

\* create_track_correction: two tracks or more are merged, one is split at a frame.
MayCorrect(c) == IF c.action = "merge" THEN Cardinality(c.tracks) >= 2 ELSE Cardinality(c.tracks) = 1
Corrected(v, c) == [v EXCEPT !.corrections = Last(Append(@, c.id))]

-----------------------------------------------------------------------------
(* The routes: the seven of them have the same steps.                      *)
Admits(s, c) ==
  CASE c.op = "create"   -> TRUE
    [] c.op = "export"   -> MayExport(s, c)
    [] c.op = "import"   -> MayImport(s, c)
    [] c.op = "dataset"  -> MayCollect(s, c)
    [] c.op = "report"   -> MayReport(s, c)
    [] c.op = "annotate" -> TRUE
    [] c.op = "correct"  -> MayCorrect(c)

Changed(s, c) ==
  CASE c.op = "create"   -> Created(s, c)
    [] c.op = "export"   -> Exported(s, c)
    [] c.op = "import"   -> Imported(s, c)
    [] c.op = "dataset"  -> Collected(s, c)
    [] c.op = "report"   -> Reported(s, c)
    [] c.op = "annotate" -> Annotated(s, c)
    [] c.op = "correct"  -> Corrected(s, c)

At(t, p) == todo[t] # <<>> /\ task[t].pc = p
Ends(t)  == task' = [task EXCEPT ![t] = Idle] /\ todo' = [todo EXCEPT ![t] = Tail(@)]

\* save_review_state, _save: the file is replaced; or it is not, and the memory keeps
\* the change.
Save(x, s, failed) ==
  /\ st' = [st EXCEPT ![x] = s]
  /\ IF failed THEN Fault /\ UNCHANGED disk ELSE disk' = [disk EXCEPT ![x] = s] /\ UNCHANGED left

\* feedback_state_payload, review_state_payload
Copy(t) ==
  /\ At(t, "idle")
  /\ task' = [task EXCEPT ![t].pc = "change", ![t].copy = st[Store(t)]]
  /\ UNCHANGED <<st, disk, todo, left, answered, odd>>

Refuse(t) ==
  /\ At(t, "change") /\ ~Admits(st[Store(t)], Call(t))
  /\ Ends(t) /\ UNCHANGED <<st, disk, left, answered, odd>>

Change(t) ==
  /\ At(t, "change") /\ Admits(st[Store(t)], Call(t))
  /\ LET old == st[Store(t)]
         new == IF IsThere(old, Call(t)) THEN old ELSE Changed(old, Call(t))
         ToAudit == /\ task' = [task EXCEPT ![t].pc = "audit", ![t].base = old, ![t].made = new]
                    /\ UNCHANGED <<todo, odd>>
     IN \/ IsThere(old, Call(t)) /\ ToAudit /\ UNCHANGED <<st, disk, left>>
        \/ ~IsThere(old, Call(t)) /\ Save(Store(t), new, FALSE) /\ ToAudit
        \/ ~IsThere(old, Call(t)) /\ Save(Store(t), new, TRUE) /\ Ends(t) /\ odd' = odd \cup {"unsaved"}
  /\ UNCHANGED answered

Audit(t) ==
  /\ At(t, "audit") /\ Ends(t)
  /\ answered' = IF Call(t).op = "annotate" THEN answered \cup {Call(t).id} ELSE answered
  /\ UNCHANGED <<st, disk, left, odd>>

\* audit_or_restore: it could not be recorded.
AuditFails(t) ==
  /\ At(t, "audit") /\ Fault
  /\ task' = [task EXCEPT ![t].pc = "restore"]
  /\ UNCHANGED <<st, disk, todo, answered, odd>>

\* restore_feedback_state, restore_review_state: the whole copy, with what others have
\* changed since.
Restore(t) ==
  /\ At(t, "restore")
  /\ LET alone == task[t].copy = task[t].base /\ task[t].made = st[Store(t)]
     IN \E failed \in BOOLEAN :
          /\ Save(Store(t), task[t].copy, failed)
          /\ odd' = odd \cup (IF alone THEN {} ELSE {"undone"}) \cup (IF failed THEN {"unsaved"} ELSE {})
  /\ Ends(t) /\ UNCHANGED answered

\* load_feedback_state, load_review_state, in a new process.
Restart ==
  /\ Fault
  /\ st' = disk
  /\ task' = [t \in Tasks |-> Idle]
  /\ todo' = [t \in Tasks |-> IF task[t].pc = "idle" THEN todo[t] ELSE Tail(todo[t])]
  /\ UNCHANGED <<disk, answered, odd>>

Next ==
  \/ \E t \in Tasks : Copy(t) \/ Refuse(t) \/ Change(t) \/ Audit(t) \/ AuditFails(t) \/ Restore(t)
  \/ Restart

Spec == Init /\ [][Next]_vars

-----------------------------------------------------------------------------
(* Properties.                                                             *)
TypeOK ==
  /\ \A t \in Tasks : task[t].pc \in {"idle", "change", "audit", "restore"}
  /\ left \in 0..MaxFaults /\ odd \subseteq {"unsaved", "undone"}
  /\ \A s \in Samples : st.feedback.samples[s] # Nil =>
       st.feedback.samples[s].status \in {"queued", "exported", "reviewed"}

\* The labels of a sample are those of an import that was told to set them: the last one
\* that overwrites, or the first.
LabelsAreImported(f) ==
  \A s \in Samples : f.samples[s] # Nil /\ f.samples[s].labels # Nil =>
    \E i \in f.imports : /\ s \in DOMAIN i.labels /\ i.labels[s] = f.samples[s].labels
                         /\ \E e \in Named(f.exports, i.export) : s \in e.samples

\* An import that overwrites has overwritten: its labels are there, unless a later one
\* has others.
OverwritesAreSeen(f) ==
  \A i \in f.imports : i.policy # "keep_existing" =>
    \A s \in DOMAIN i.labels :
      \/ f.samples[s].labels = i.labels[s]
      \/ \E j \in f.imports : j # i /\ j.policy = "overwrite" /\ s \in DOMAIN j.labels
                              /\ f.samples[s].labels = j.labels[s]

\* A report can be made again from its datasets, and the order in which they are named
\* matters only if a sample was labelled anew between them.  A release is recommended only on
\* a complete report, and the recommended threshold is no worse than the current one.
ReportsStand(f) ==
  \A r \in f.reports :
    /\ \A i \in DOMAIN r.datasets : Named(f.datasets, r.datasets[i]) # {}
    /\ LET ds == Datasets(f, r.datasets)
           back == [i \in DOMAIN ds |-> ds[Len(ds) + 1 - i]]
       IN /\ r.decision = Decision(Rows(ds), r.baseline, r.candidate)
          /\ r.threshold = Advised(Rows(ds)) /\ r.status = Status(Rows(ds), r.baseline, r.candidate)
          /\ r.decision = "ready" => r.status = "completed" /\ r.threshold # Nil
          /\ r.threshold # Nil => ~Over(F1(Metrics(Rows(ds), Threshold)), F1(Metrics(Rows(ds), r.threshold)))
          /\ \/ Rows(back) = Rows(ds)
             \/ \E i, j \in DOMAIN ds, s \in Samples :
                  /\ s \in DOMAIN ds[i].labels \cap DOMAIN ds[j].labels
                  /\ ds[i].labels[s] # ds[j].labels[s]

\* An annotation that was answered is kept until MaxKept later ones have pushed it out,
\* unless a restored copy has taken it away, or a restart found it unsaved.
AnnotationsKept ==
  odd = {} => \A a \in answered :
    LET q == st.review.annotations
    IN a \in {q[i] : i \in DOMAIN q} \/ Len(q) = MaxKept

FeedbackIsSound ==
  /\ TypeOK /\ AnnotationsKept
  /\ "unsaved" \notin odd => st = disk
  /\ \A f \in {st.feedback, disk.feedback} :
       LabelsAreImported(f) /\ OverwritesAreSeen(f) /\ ReportsStand(f)

-----------------------------------------------------------------------------
(***************************************************************************)
(* What is made of the annotations of reviewers (portrait_review): lists and *)
(* summaries, evaluation datasets, and recommendations for thresholds, which *)
(* an operator may adopt.  All tenants share one store with a limit, where    *)
(* the oldest annotations go first; its steps beside the audit are in         *)
(* Feedback.                                                               *)
(***************************************************************************)

CONSTANTS
  Written,   (* annotations that are written: [tenant, track, label, proof] *)
  Tenants,
  Limits,    (* lengths of lists                                           *)
  MaxReviews,   (* MAX_REVIEW_ANNOTATIONS                                     *)
  MaxWritten, (* bound on what is written                                  *)
  MaxTime,   (* bound on the clock                                         *)
  Start     (* the thresholds at first, in thousandths: body, fusion      *)

VARIABLES
  store,  (* the annotations, in the order they were written                *)
  count,  (* how many were written                                         *)
  clock,
  limits  (* the thresholds in force                                       *)

reviewVars == <<store, count, clock, limits>>

ReviewInit == store = <<>> /\ count = 0 /\ clock = 1 /\ limits = Start

Labels    == {"false_positive", "mismatch", "low_quality", "confirmed", "uncertain"}
Attention == Labels \ {"confirmed"}

\* create_review_annotation, with the time of the clock, which may stand still or go back.
Annotate(a) ==
  /\ count < MaxWritten /\ count' = count + 1 /\ clock' \in (clock - 1 .. clock + 1) \cap (1..MaxTime)
  /\ LET s == Append(store, a @@ [id |-> count + 1, at |-> clock'])
         n == Len(s) - MaxReviews
     IN store' = SubSeq(s, IF n > 0 THEN n + 1 ELSE 1, Len(s))
  /\ UNCHANGED limits

-----------------------------------------------------------------------------
(* Lists and summaries, of one job.                                        *)

\* _matching_review_rows: the newest first, and of one time in the order they were written.
ReviewRows(t, track, label) ==
  LET rows == SelectSeq(store, LAMBDA r : /\ r.tenant = t /\ (track = Nil \/ r.track = track)
                                          /\ (label = Nil \/ r.label = label))
      ord == SortSeq([i \in 1..Len(rows) |-> i],
                     LAMBDA i, j : rows[i].at > rows[j].at \/ (rows[i].at = rows[j].at /\ i < j))
  IN  [i \in 1..Len(rows) |-> rows[ord[i]]]

First(s, n) == SubSeq(s, 1, IF Len(s) < n THEN Len(s) ELSE n)
List(t, track, label, limit) == First(ReviewRows(t, track, label), limit)

With(rows, labels) == SelectSeq(rows, LAMBDA r : r.label \in labels)
Number(rows, labels) == Len(With(rows, labels))
Proven(rows) == SelectSeq(rows, LAMBDA r : r.proof)
Tracks(rows) == {rows[i].track : i \in DOMAIN rows}

Summary(t, track, label, limit) ==
  LET rows == ReviewRows(t, track, label) IN
    [total |-> Len(rows), tracks |-> Cardinality(Tracks(rows)), attention |-> Number(rows, Attention),
     labels |-> [l \in {rows[i].label : i \in DOMAIN rows} |-> Number(rows, {l})],
     recent |-> First(rows, limit), proof |-> First(Proven(rows), limit)]

\* list_review_datasets: the first of those that have a sample.  The name of a dataset is a
\* digest of the identities and times of its rows.
Pools == [all |-> Labels, attention |-> Attention, confirmed |-> {"confirmed"}, low |-> {"low_quality"},
          mismatch |-> {"mismatch", "false_positive"}]
Dataset(t, pool, limit) ==
  LET rows == With(ReviewRows(t, Nil, Nil), Pools[pool]) IN
    [id |-> <<pool, [i \in DOMAIN rows |-> <<rows[i].id, rows[i].at>>]>>, samples |-> Len(rows),
     latest |-> rows[1].at, proof |-> First(Proven(rows), limit)]
ReviewSets(t, limit) ==
  LET some == SelectSeq(<<"all", "attention", "confirmed", "low", "mismatch">>,
                        LAMBDA p : Number(ReviewRows(t, Nil, Nil), Pools[p]) > 0)
      listed == First(some, limit)
  IN  [pool \in {listed[i] : i \in DOMAIN listed} |-> Dataset(t, pool, limit)]

-----------------------------------------------------------------------------
(* review_threshold_recommendations                                        *)
Step == [body |-> 20, fusion |-> 15]
Clamp(x) == IF x > 1000 THEN 1000 ELSE x

Verdict(rows) ==
  LET wrong == Number(rows, Pools.mismatch)
      right == Number(rows, {"confirmed"})
  IN  IF Len(rows) < 3 THEN "collect" ELSE IF wrong > right THEN "raise" ELSE "hold"

Recommended(t, m) ==
  LET rows == ReviewRows(t, Nil, Nil) IN
    Clamp(IF Verdict(rows) = "raise" THEN limits[m] + Step[m] ELSE limits[m])

\* The operator takes over what is recommended for a tenant.
Adopt(t) ==
  /\ limits' = [m \in DOMAIN Step |-> Recommended(t, m)] /\ limits' # limits
  /\ UNCHANGED <<store, count, clock>>

ReviewNext == (\E a \in Written : Annotate(a)) \/ (\E t \in Tenants : Adopt(t))
ReviewSpec == ReviewInit /\ [][ReviewNext]_reviewVars

-----------------------------------------------------------------------------
(* Properties.                                                             *)
Own(t) == {i \in DOMAIN store : store[i].tenant = t}

\* A list has the annotations of its tenant and no others, each once, the newest first; the
\* summary counts what the lists have.
ListsAreExact ==
  \A t \in Tenants, track \in {Nil} \cup Tracks(store), label \in {Nil} \cup Labels :
    LET rows == ReviewRows(t, track, label) IN
      /\ {rows[i].id : i \in DOMAIN rows}
           = {store[i].id : i \in {k \in Own(t) : track \in {Nil, store[k].track} /\ label \in {Nil, store[k].label}}}
      /\ \A i, j \in DOMAIN rows : i < j => rows[i].id # rows[j].id /\ rows[i].at >= rows[j].at
      /\ \A n \in Limits : LET s == Summary(t, track, label, n) IN
           /\ s.total = Len(rows) /\ s.recent = List(t, track, label, n) /\ s.attention <= s.total
           /\ s.total = s.attention + Number(rows, {"confirmed"})
           /\ \A l \in DOMAIN s.labels : s.labels[l] = Len(ReviewRows(t, track, l)) \/ label \notin {Nil, l}
           /\ Len(s.proof) <= n /\ \A i \in DOMAIN s.proof : s.proof[i].proof

\* Held-out samples and positive controls share no row and are all there are; the pools for
\* quality and association are held out; and two reports of one dataset id have the same rows.
PoolsArePartition ==
  \A t \in Tenants : LET d == ReviewSets(t, Cardinality(DOMAIN Pools)) IN
    /\ (DOMAIN d # {}) <=> Own(t) # {}
    /\ \A p \in DOMAIN d : d[p].samples = Len(d[p].id[2]) /\ d[p].latest = d[p].id[2][1][2]
    /\ Pools.attention \cap Pools.confirmed = {} /\ Pools.low \cup Pools.mismatch \subseteq Pools.attention
    /\ (Own(t) # {}) => LET n(p) == IF p \in DOMAIN d THEN d[p].samples ELSE 0
                        IN n("attention") + n("confirmed") = d["all"].samples

\* Thresholds are raised only, never past one, and only on three samples or more, with more
\* wrong matches than confirmed ones.
RaisedOnEvidence ==
  \A t \in Tenants, m \in DOMAIN Step :
    LET rows == ReviewRows(t, Nil, Nil) IN
      /\ Recommended(t, m) >= limits[m] /\ Recommended(t, m) <= 1000
      /\ Recommended(t, m) > limits[m] =>
           Len(rows) >= 3 /\ Number(rows, Pools.mismatch) > Number(rows, {"confirmed"})

\* Once there are three samples, one more confirmed match never raises a threshold, and one
\* more wrong match never takes the advice to raise it back.
Monotone ==
  \A t \in Tenants : LET rows == ReviewRows(t, Nil, Nil) IN
    Len(rows) >= 3 /\ Len(rows) < MaxReviews =>
      \A a \in Written : a.tenant = t =>
        LET more == Append(rows, a @@ [id |-> 0, at |-> 0]) IN
          /\ a.label = "confirmed" /\ Verdict(rows) = "hold" => Verdict(more) = "hold"
          /\ a.label \in Pools.mismatch /\ Verdict(rows) = "raise" => Verdict(more) = "raise"

\* A tenant has the last annotations it wrote, as long as no other tenant fills the store.
OwnAreKept ==
  /\ Len(store) <= MaxReviews
  /\ \A i, j \in DOMAIN store : i < j => store[i].id < store[j].id
  /\ store # <<>> => store[Len(store)].id = count
  /\ Len(store) = (IF count < MaxReviews THEN count ELSE MaxReviews)

ReviewsAreSound == ListsAreExact /\ PoolsArePartition /\ RaisedOnEvidence /\ Monotone /\ OwnAreKept
=============================================================================
