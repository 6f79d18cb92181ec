# Portrait Hub in TLA+

Portrait Hub serves person analysis (detection, re-identification, faces,
galleries, video, streams) as a multi-tenant HTTP API: a FastAPI process or
several replicas of it, worker processes for video jobs and streams, and redis,
PostgreSQL and an object store behind them. This project models the parts of
`app/` that decide something while several coroutines, threads or processes are
under way, and the algorithms whose results others rely on; it checks them with
TLC on small instances, and proves the most important results with TLAPS for
every instance.

Contents: [inventory](#1-inventory), [plan](#2-plan),
[modules and their code](#3-modules-and-their-code), [runs](#4-runs),
[proofs](#5-proofs), [what the code does not keep](#6-what-the-code-does-not-keep),
[limits](#7-what-is-not-modelled).

To check: `tlc -config X.cfg MCModule` for a run of section 4, `tlapm M.tla` for
a module of section 5. `PROJECT.json` names, for every definition, the source
lines it models, and for every hazard its line and the properties that watch it.

## 1. Inventory

Paths are relative to `src/app/`. *Hard* is what a unit test would hardly reach.

**Video jobs** (`portrait_jobs.py`, `routes_portrait_jobs.py`,
`portrait_video_job_worker.py`, `postgres_jobs.py`). *State*: the row of the job
in the store (one JSON file, or postgres), the dictionary `VIDEO_JOBS` of every
process, messages and cancellation markers, the staged input, the archive, the
callbacks. *Operations*: create, cancel, pause, resume; claim, run, retry, archive,
call back, acknowledge, release; batches of images in the background. *Hard*: a
handler and a worker change one object between each other's awaits; with external
workers the lock between them orders nothing, and the store is read before any lock
is taken; leases lapse while a worker runs;
handlers roll back to copies; the postgres row keeps fewer fields than the object.
*Correct when*: completed jobs have an archive and exact frames, cancellations
land, nothing is stranded, callbacks stay true, every enqueued job ends.

**Task queue** (`portrait_task_queue.py`). *State*: a file per message in the
directory pending or processing with its modification time; or redis streams with
a consumer group. *Operations*: enqueue, claim, requeue or reclaim, heartbeat,
acknowledge, release, remove. *Hard*: workers rename, touch, rewrite and delete
the same paths without a lock; answers of redis are lost; workers die and stall.
*Correct when*: a message stays until it is acknowledged or withdrawn, goes to one
worker per lease, and the queue is emptied in the end.

**Control state and metering** (`portrait_control_state.py`,
`postgres_control_state.py`, `portrait_metering.py`). *State*: one row per document
with a revision; a copy in every replica. *Operations*: prefetch, refresh, save by
compare-and-swap, retry, restore; record and reverse usage; cost versions, billing
periods, reports. *Hard*: conflicts, failing saves and reloads, a roll back by
restoring a whole document. *Correct when*: what was confirmed is durable, no
update is lost, one key has one entry, reports add up.

**Commercial state** (`portrait_commercial.py`, `portrait_commercial_license.py`,
`routes_portrait_commercial.py`). *State*: entitlements, a profile with a status
and a scheduled transition; templates, data-subject requests, cases, incidents,
SLA definitions; the licence file and its cache. *Hard*: nothing runs at a date, so
every operation reconciles first, or forgets to; chains of roll backs; a failed audit
that puts back the whole state of before; limits that are counted before they are used. *Correct when*: grants happen within terms, what
ended stays ended, templates come off as they went on.

**Write requests** (`portrait_idempotency.py`, `api_contracts.py`,
`commercial_concurrency.py`, the middleware of `server.py`). *State*: idempotency
records and concurrency slots, in redis or memory. *Hard*: repeated requests at
once, a request that outlasts its window or lease, a redis call that fails with or
without its effect, a process that dies. *Correct when*: one key has one effect,
replays are faithful, slots bound concurrency and come back.

**Inference serving** (`inference_scheduler.py`, `runtime_registry.py`,
`runtime_execution.py`, `routes_model_lifecycle.py`). *State*: a queue, a worker
task and a future per request; loaded bundles with locks and use counts. *Hard*:
callers go away at any point; slices of different sizes; fairness among tenants;
eviction, unload and hot swap under running requests. *Correct when*: everybody
gets his own rows once, nobody is kept out, no session is released in use.

**Model registry** (`portrait_model_registry.py`, `model_config_writer.py`,
`routes_portrait_model_registry.py`, `routes_rollout.py`). *State*: versions with
evaluations and approvals, an alias in `models.yml`. *Hard*: two stores changed and
put back step by step. *Correct when*: what is active was evaluated, approved by
others, and is what the alias serves.

**Streams** (`portrait_streams.py`, `portrait_stream_worker.py`,
`portrait_stream_worker_daemon.py`, `postgres_streams.py`). *State*: a record per
stream in memory and store, leases, process locks, sessions. *Hard*: two daemons
and a stale lock, a stop under a session, settings read again under other limits.
*Correct when*: one daemon pulls a stream, and pictures hide whom the client asked
to hide.

**Uploads and deliveries** (`portrait_video_uploads.py`,
`portrait_webhook_delivery.py`). *State*: sessions and parts; delivery records.
*Hard*: overlapping parts, two completions, aborts; two senders, failing saves, a
restart with deliveries on their way.
*Correct when*: a job finds its whole input; a delivery has one sender.

**Access** (`portrait_access.py`, `oidc_auth.py`, `portrait_console_access.py`,
`rate_limit.py`). *State*: one document of keys, members and quotas; cookies and
flows of a browser; buckets. *Hard*: two replicas, several tabs, a clock that is
set. *Correct when*: replicas agree, rights are current, limits hold.

**Gallery and matching** (`gallery_state.py`, `gallery_search.py`,
`portrait_gallery*.py`, `portrait_vector_store.py`, `portrait_compare.py`).
*State*: persons and features in memory, log, snapshot, objects, vectors. *Hard*:
a roll back over five places, step by step and without the lock; a crash between log
and snapshot; expansion and merging
of scores. *Correct when*: a restart finds the gallery, answers are ranked.

**Feedback and review** (`portrait_feedback.py`, `portrait_review.py`). Samples,
imports, datasets, reports; annotations, pools, suggestions.

**Audit, archives, lists, retention** (`portrait_audit.py`,
`portrait_analysis_archive.py`, `portrait_object_storage.py`,
`portrait_pagination.py`, `routes_portrait_admin.py`, `portrait_call_logs.py`).
*Hard*: appends without a lock, objects shared by content, walks through lists that
change, a cleanup that takes no lock on what it trims and is undone.

**Configuration** (`config_hot_reload.py`, `config_overrides.py`,
`admin_configuration.py`). Overrides, a watched file, two administrators.

**Video to tracks** (`video_io.py`, `media/`, `tracking_association.py`,
`tracking_state.py`, `portrait_tracking_metrics.py`). Staging, sampling, matching,
fragments, reports: algorithms whose thresholds meet.

How they interact: a route passes access, rate limit, idempotency and the
concurrency slot, changes a document of the control state or a job, writes an audit
record, and rolls back if that fails; jobs reach workers through the task queue,
read uploads, run models through the scheduler, write archives, and end in a
delivery; the gallery and streams use the same pipelines.

Without decisions over shared state, and left out: model inference and image
arithmetic, codecs, route wiring and schemas, cryptography, the console frontend,
SDKs, tools and deployment files. `PROJECT.json` gives the reason for each.

## 2. Plan

The order was by what a failure costs: work and money first, then the services
these rely on, then the rest. Done: every component of section 1 is modelled and
checked; the theorems of section 5 are proved. Left for proofs, inside the modules
that already hold theorems:

1. the liveness-free parts of the job with external workers and over postgres:
   `PauseKeepsJob` and `JobCanRun` under the lease and the row;
2. of the hosted components: `StreamsAreSound`, `GovernanceIsSound` and
   `RetentionIsSound`, whose hosts would have to become proof modules.

## 3. Modules and their code

Every module cuts the code where control can really pass to somebody else: at an
`await`, at the end of a `with` on a lock, at a call to another process or of the
file system. Faults are actions, or outcomes of actions, that spend a quota; a
quota bounds the state space and is otherwise free. History variables that no
action reads (`grant`, `overtaken`, `accepted`, `mixed`, `crossed`, ...) record
what a property needs of the past. Definitions marked *mutant* are deliberate
errors that no specification uses: they show that each property fails when the
code is changed the way it could plausibly be wrong.

| Module | Code | What its state is |
|---|---|---|
| `VideoJob` | `portrait_jobs`, `routes_portrait_jobs`, `portrait_video_job_worker`, `postgres_jobs` | row, copies in processes, messages, input, archive, callbacks |
| `BatchJob` | `run_batch_job` and its routes | the job's object, the listed object, the row, workers on items |
| `TaskQueue` | what `portrait_task_queue` promises | messages live, leased, held, done |
| `LocalTaskQueue`, `RedisTaskQueue` (`QueueParameters`) | its two backends | files with their age; entries, pending entries, idle times |
| `ControlState` | `portrait_control_state`, `postgres_control_state`, ledger of `portrait_metering` | row with revision, caches, snapshots of requests |
| `UsageReport` | `portrait_metering`, `portrait_call_logs` | ledger by time and cost version; log of calls in ring and table |
| `Entitlements` | entitlements, profile and schedule of `portrait_commercial` | entitlements by version, current one, status, clock |
| `Governance` | templates, rights, cases, incidents, SLA of `portrait_commercial` | the document, its file, requests under way |
| `License` | `portrait_commercial_license` and its callers | two files, their cache, counted limits |
| `WriteRequests` | `portrait_idempotency`, `commercial_concurrency`, middleware | records, slots, requests |
| `InferenceScheduler` | `inference_scheduler` | queue, batch, worker, futures, rows |
| `ModelRuntime` | `runtime_registry`, `runtime_execution`, `routes_model_lifecycle` | bundles, locks, use counts, drains |
| `ModelRelease` | `portrait_model_registry`, `model_config_writer`, routes | registry, alias, calls under way |
| `Streams` | `portrait_streams`, worker and daemon | stores, memories, locks, leases, sessions |
| `StreamAnalysis` | `analyze_stream_frames` and the settings | asked and stored settings, pictures, archive, events |
| `Uploads`, `Delivery` | `portrait_video_uploads`, `portrait_webhook_delivery` | sessions, parts, jobs; records and senders |
| `Access`, `Sessions`, `RateLimit` | `portrait_access`, `oidc_auth` and console, `rate_limit` | document and caches; cookie jar and tabs; buckets and clock |
| `Gallery`, `Matching` | gallery, its search, comparison | log, snapshot, memory, objects, vectors; scores |
| `Feedback` | `portrait_feedback`, `portrait_review` | samples, datasets, reports; annotations |
| `Audit`, `Records`, `Retention` | audit log, archives and lists, cleanup | file and table of chained records; rows and walks; objects |
| `Configuration` | overrides, hot reload, network policy | files, environments, requests of administrators |
| `VideoInput`, `Tracking` | `video_io`, `media/`; association and report | file, frames, choice; matching, tracks, hits |

Some details that a reader of the code will ask for:

*VideoJob.* `Workers` are outside (each with its own `VIDEO_JOBS`) or one is in the
API process, sharing its dictionary. `Create` to `RemoveJob` are the creating route
with its roll back; `ApplyRequest`, `AuditRequest`, `RestoreJob`, `MarkCancelled`
are cancel, pause and resume; `Claim` to `Release` are `run_worker_once`,
`process_video_job_message` and `run_video_job`. A load is two steps, for a worker
`ReadJob` without the lock and `InstallJob` under it, for a request `ApiRead` and
`ApiRefresh`; a persist of a worker is two, `Snapshot` under the lock and `WriteOut`
after it. `Row` and `PostgresRow`
say what each store forgets. A video is `NBatches` batches, a result the sequence of
batches whose frames it holds. The queue is what `TaskQueue` promises.

*LocalTaskQueue.* `Look` and `Requeue` are the `stat` and the `replace` of
`_requeue_stale`; `List`, `Try`, `Touch`, `Read`, `Write` or `Discard` are the glob,
`rename`, `utime`, read and rewrite of `claim`. *RedisTaskQueue.* One call of redis
is one step whose answer may be lost; a claim is `XAUTOCLAIM` and then `XREADGROUP`
over three streams; an acknowledgement is `XACK` and then `XDEL`. Both have a
refinement mapping (`Used`, `Done`, `Live`, `Leased`, `Held`) to `TaskQueue`.

*BatchJob.* Each load, of a poll (`Look`, `Swap`) or of a video worker in the same
process (`LoadFile`, `SwapLoaded`, `SaveLoaded`), replaces the listed object; the run
keeps its own. *Delivery.* `Restart` loads the file that some process wrote last;
`found` are the records that are still as a start found them.

*Gallery.* A write is three steps: `Change` in memory, `Persist` (with `Snapshot` and
`Unlink` when the log is compacted), `Tell` to the vectors. A request's change holds
`GALLERY_LOCK` through them; the roll back, `Retract`, `Restore` and `RestoreFeature`,
takes the same steps and holds nothing. *Retention.* The trim of a stream is five steps,
`CountEvents` to `SaveTrimmed`, its undoing two, `PutBackState` and `PutBackEvents`,
all without `STREAMS_LOCK`; `Touch`, `AssignAppended` and `SaveTouched` are what emits,
starts, stops and leases the stream in between.

*ControlState.* A block under `_LOCK` is one step that ends with at most one save; a
save is one transaction that compares revisions. *Entitlements.* Every operation is
one step that reconciles with the clock where the code does, and only there. A call
whose audit will fail is its operation between `Copy`, which keeps the whole state, and
`RollBack`, which puts it back.
*InferenceScheduler.* `Loop` is one turn of `_run` up to its next await; `FairBatch`
is `_take_fair_batch`; row *i* of request *r* is `<<r, i>>`, so that a wrong slice
shows.

**Composition.** `VideoJob` uses the promise of `TaskQueue`, which both backends
refine. Components that share no variable are checked in one run: an `MC` module
EXTENDS those that theorems are about, whose names are therefore distinct, and
INSTANCEs the others; `part`, chosen in the initial state, says which one moves, and
the variables of all others stay at one initial value, so that the behaviours are the
disjoint union of theirs. The hosts are `MCControl`
(state, release, streams, settings, analysis), `MCServices` (job, access, sessions,
rate limit, gallery, search, comparison, feedback, reviews), `MCJobs` (write requests, uploads,
delivery, batches, files, frames, choice, assignment, tracks, report),
`MCEntitlements` (entitlements, governance, licence, audit log, audit records, calls,
usage, archives, lists, retention), `MCServing` (scheduler, runtime) and
`MCLocalTaskQueue` (spool, redis). The modules `VideoInput`, `Tracking`, `Audit`,
`UsageReport`, `Records`, `Matching` and `Feedback` have two or three parts of this
kind, each with an `Init` and a `Next`.

## 4. Runs

| Run: cfg (module) | Instance | Properties |
|---|---|---|
| `services`: `Services` (`MCServices`) | a job of one process, 2 batches, 1 retry, 3 failing batches, a cancellation, a rejected upload, a failed enqueue, a stall; two access requests on one or two replicas; a browser with several tabs; a limit under a clock that is set; enrolments, deletions, their roll backs and a crash; searches, comparisons; feedback, reviews | `JobIsExact` (frames of every batch once and in order; the callback told the truth), `JobCanRun` (a message and an input), `CompletedIsFinal`, `CancelIsKept` (but for the install of an older copy), `AccessIsSound`, `AccessSafe` (access), `GalleryIsSound` (gallery, searches, comparisons), `ServicesAreSound` (feedback, reviews, sessions, limits) |
| `video_pause`: `VideoJob_pause` (`MCVideoJob`) | a job of one process, 2 batches, no retry; a pause and a resume, a failing batch, audit and enqueue, a stall | `PauseKeepsJob` |
| `jobs`: `Jobs` (`MCJobs`) | a write request, its repetition, and a third that repeats it, misuses its key or has another, with any two kinds of fault, once each (the first two are alike, and the first comes first); uploads of two clients; one event sent twice and retried by hand; batches of 2 items with 2 workers, one trouble (a failure, a restart or a video message), and a poll, a cancellation with a poll after it, or a pause; files, frames and tracks | `Idempotent`, `KeepsWhatItTook`, `SlotsComeBack`, `JobsAreSound`, `DeliveriesAreSound`, `TracksAreSound` |
| `video_liveness`: `VideoJob_liveness` (`MCVideoJob`) | one external worker over postgres, a failing archive, a cancellation with its roll back, a crash, failing reads and writes | `CompletedHasArchive`, `EventuallySettles` |
| `local_queue_faults`: `LocalTaskQueue_faults` (`MCLocalTaskQueue`) | two workers, two messages; one fault in the spool, two in redis | `NoOtherLoss`, `PromiseKept`, `RedisLosesNothing`, `RedisKeepsPromise`, `QueuesDrain` |
| `control_faults`: `Control` (`MCControl`) | two replicas, two reversals of one event, a metered call, any two of five kinds of fault and one repeated request; releases; streams of two daemons; administrators; stream settings | `AckedIsDurable`, `OneEntryPerKey`, `LedgerGrows`, `ReleaseIsSound`, `StreamsAreSound` |
| `entitlement_life`: `Entitlements_life` (`MCEntitlements`) | three entitlements, plain, delayed and temporary, clock to 3, or two of them beside a call whose audit fails; governance, licence, audit log, calls, usage, archives, lists, retention | `GrantsAreCurrent`, `EndingsAreFinal`, `GovernanceIsSound`, `AuditIsSound`, `RetentionIsSound` |
| `serving`: `Serving` (`MCServing`) | five requests of three scopes in three workloads, batch of 2, queue of 3, two faults; three tasks on three models of which one may be loaded | `BatchesAreSound`, `RarelyOvertaken`, `SettledOnce`, `BundlesAreSound`, `AllSettle` |
| `video_retry_budget`, `video_cancel_race`, `control_audit_failure`, `local_queue_loss` | see section 6 | violated |

Most runs also check a type invariant. A property named for a component
(`...AreSound`) is the conjunction of the component's own properties, each of which
has a name and a comment in its module: for instance `GrantsAreCurrent` is
`ActiveIsCurrent` (nothing but the current entitlement is active) and `GrantInForce`
(calls and allocations pass under an entitlement that has started and has not
ended); `EndingsAreFinal` is `EndedIsFinal` and `ClosureIsSound`, but for a failed
audit's roll back, and `SettledIsFinal` for that, too; `Idempotent` is
`AtMostOnce` and `ReplayIsFaithful`; `KeepsWhatItTook` is `KeepsReservation` and
`SlotBound`; `BatchesAreSound` is `ResultIsOwn` with the types; `AllSettle` is
`EverySettles` and `RuntimeSettles`; `StreamsAreSound` is `OneConsumer` and
`DoublesEnd` of the daemons, `AnalysisIsPrivate` of the pictures and
`ConfigurationIsSound` of the settings.

**Bounds.** Two actors are what a race takes, and each property names the state of
one job, key, project or stream, so that a third actor adds another instance of the
same race; where the property is proved (section 5) the bound does not matter at all.
A lost update needs two replicas, a roll-back chain three entitlements, an overtaking
three scopes; the races of the spool are between two workers about one message, and
the second message is what a worker goes on with when it loses the first. Two batches
distinguish a resume at a checkpoint from a start, one retry the last attempt from
the others; `MaxMsgs = 2` is the message of the creation and that of a resume. Each
fault happens at most once in most runs, at any point; a batch fails three times, to
exhaust the budget. In `entitlement_life` the statuses asked for are `offboarding`
and `closed`, the two whose way is guarded; `MaxFailing = 1` is one call that is to fail
its audit, with everything others do between its copy and its roll back, and while it is
under way there are at most two entitlements. `MaxTrouble = 1` is one failure,
restart or video message in the life of a batch. A stream is touched up to three times, at any point
of its cleanup. Numbers are scaled where the code has
large ones: a search expands 2 candidates by 2 more (10 and 20), the review store
holds 4, a rate-limit minute has 4 seconds and the clock runs for 4, a stream
analysis sees 3 persons in up to 2 frames, a track report has up to 4 hits.

**Fairness.** Nothing is assumed of clients, and no strong fairness is used.
`VideoJob!FairSpec`: weak fairness of handlers already under way and of every worker,
because they are coroutines that the event loop resumes once an await is over, and
`run_worker_forever` restarts after every message; weak fairness of a lease's end,
because the visibility timeout is finite. A crashed process starts again and its
worker polls. `WriteRequests!Fairness`: the same for requests, and redis removes an
expired lease once its holder is gone. `InferenceScheduler!FairSpec`: the worker task
runs, its sleep has a timeout, the executor returns (weak fairness of `WorkerStep`,
written with the condition under which that step is enabled). `ModelRuntime!Progress`:
tasks under way go on. `LocalTaskQueue!Fairness` and `RedisFairness`:
producers and workers go on with what they have begun, workers poll, an unattended
file gets old and an unattended entry idle.

**Conditions in properties.** They name what the code does not keep, and section 6
says why. `EventuallySettles`: the store can be read and no cancellation is rolled
back. `PauseKeepsJob`: no handler was rolled back, and no cancellation (a persist
takes its snapshot under the lock and writes it outside, so that an older snapshot can
land after a newer one). `AckedIsDurable`: until a save, a reload or an audit fails;
`LedgerGrows`: until an audit fails.
`CancelIsKept`: but for the install of a copy that was read before. `EndingsAreFinal`:
but for what a failed audit puts back. `OneSender`: a delivery as a restart found it has
none. `EndIsStored`: nothing failed, no video message came, and the batch has a row of
its own or its process alone writes the file. `StreamStays`: nothing met the cleanup
while it worked on the stream, and events after its copy go with a roll back.
`GalleryIsSound`: `odd` says what overlapped or failed (section 6). `SlotBound`: no request outlasts its lease.
`QueuesDrain`: workers do not put back each other's claims for ever. `NoOtherLoss`
and `PromiseKept` except the deletion of a file as invalid. `RarelyOvertaken`:
requests of one size, and the one that is the seed of the batches, the oldest of the
best priority: a younger one can be left out more often, when its scope's older request
is served and the scope falls behind it in the rotation, or when requests of another
priority move `_last_scope`. `OneConsumer`: daemons that keep up, and streams whose lock was
not taken for a stale one. The audit chain: writers that did not meet. `CachesAgree` and
`AccessSafe`: a replica without a half done or unsaved edit in memory, which a refused
call and a failing save leave there; `QuotaHolds`: until a quota is set or a snapshot put
back. The history
variables (`restored`, `undone`, `crossed`, `odd`, `tainted`, ...) record which of
these a behaviour has had.

Deadlock is not checked where a run has bounded work: it stops when the work is done.

## 5. Proofs

All theorems hold for every value of the constants that satisfies the assumptions
named in the module, and for any number of workers, replicas, requests, messages,
retries and faults, unless a condition is stated.

| Module | Theorem | States |
|---|---|---|
| `VideoJobProofs` | `TypeCorrect` | `[]TypeOK` |
| | `ArchiveTheorem` (external workers) | `[]CompletedHasArchive` |
| | `OneProcessIsExact`, `OneProcessCanRun`, `OneProcessEnds`, `OneProcessCancels` (`Ordinary`) | `[]JobIsExact`, `[]JobCanRun`, `CompletedIsFinal`, `CancelIsKept` |
| | `PausesKeep` (`Calm`) | `[]PauseKeepsJob` |
| `ControlStateProofs` | `TypeCorrect`, `Durability`, `NoLostUpdate`, `OneEntry` | `[]TypeOK`, `[]AckedIsDurable`, `LedgerGrows`, `[]OneEntryPerKey` |
| | `ReleasesInStep` | `[]ReleaseIsSound` |
| `LocalTaskQueueProofs` | `TypeCorrect`, `Durability`, `Implementation` | `[]TypeOK`, `[]NoOtherLoss`, `PromiseKept` |
| | `RedisTypeCorrect`, `NothingLost`, `RedisImplementation` | `[]RedisTypeOK`, `[]RedisLosesNothing`, `RedisKeepsPromise` |
| `EntitlementsProofs` | `Grants`, `Endings` | `[]GrantsAreCurrent`, `EndingsAreFinal` |
| `WriteRequestsProofs` | `ExactlyOnce`, `Reservation` | `[]Idempotent`, `[]KeepsWhatItTook` |
| | `Announced` | `[]DeliveriesAreSound` |
| `StreamAnalysisProofs` | `Privacy` (`SettingsAreSound`) | `[](MaskIsKept /\ ScopeIsKept)` |
| `AccessProofs` | `ReplicasAgree`, `SavesAreNarrow` | `[]AccessIsSound`, `AccessSafe` |
| `ServingProofs` | `OneOutcome`, `OwnRows`, `PassedOver` | `SettledOnce`, `[]BatchesAreSound`, `[]RarelyOvertaken` |
| | `Bundled` | `[]BundlesAreSound` |

**Video jobs.** `TypeOK` says that every copy of the job is a job or nothing and that
every message somebody holds was enqueued. It is not inductive: where a worker or
handler is decides whether it holds a job at all, and `TypeInv` adds that. For
external workers, a completed copy can travel to the row through memory, a pending
write, a handler's reference or a roll-back copy, and to the tenant through a
callback; `ArchiveInv` says that each is sound except the object of a worker between
setting `completed` and having the archive written (`Unarchived`), where no write can
start. In process this does not hold: the worker's object is the API's object.

For one process, `Ordinary` says that the worker runs in the process of the API and
that the kinds `Barred` do not happen: a pause and a crash lose the frames of a
lightweight row, a failing archive and a rolled back cancellation take a completed job
back, failing reads and writes part the row from the object. Batches that fail,
retries, lapsing leases, messages that come again, rejected uploads, failed enqueues
and cancellations stay. The invariant `Ordered(w)`, for the one worker `w`, says that
between runs the row is what the process holds; that within a run the frames are those
of the batches up to the checkpoint, or those of the last batch too; that an end is
written as it is and told as it was written; and that a job that is to run has its
message and its input. One lemma per step of the worker and of the handlers shows that
it is kept; the two action properties are proved over the same invariant (`KeepsEnd`).
A copy that a worker has read and not yet installed is the row, or the queued job from
before its cancellation (`Copied`): installing the latter is what `CancelIsKept` exempts
(`StaleInstall`), and nothing else.

Pauses need another argument, because a pause and a resume change the object in the
middle of a run and of a persist. `Calm` says that the worker runs in the process of
the API over the file store, where no persist fails, nobody cancels and the process
lives; batches, archives, uploads and leases may fail, and the job is paused
and resumed any number of times. The invariant `Whole(w)` has four parts: no handler
rolls back (`Callers`); once the job is configured, the object, the row and every
snapshot on its way can be resumed, and the input is there until the end (`Made`); an
end is in the object first and is written before the worker goes on (`Ends`); a job
that is to run has a message, and wherever the worker is about to acknowledge one or
may still write a status, there is one besides that message, held or still to be
enqueued (`Posts`, `Fed`). The last part carries the proof: a resume may come while
the paused run still holds the old message.

**Control state.** `Inv` is about revisions: no copy is ahead of the row; a prefetched
copy with the row's revision is the row; until a roll back, a cached copy with the
row's revision misses nothing of it (`Cover`); until a fault of the store, no copy has
anything the row lacks (`Durable`). A save that passes the revision check was
therefore built on everything the row holds. `OneEntry` needs one entry of a key in
every copy that may still be saved (`KeyInv`), whatever fails.

**Releases.** That the alias serves the active version is inductive only with what
each release has read and made so far: `Stage` compares, at each place of a release,
the registry and the alias with the copies it took, so that putting them back puts
back a pair that was in step. It is kept until two releases meet (`mixed`), and then
nothing of it is claimed. `Policy` says that a preflight's result still counts when
it is recorded: evaluations and approvals only grow until something is put back
(`putBack`). The assumptions are that the stable version is a version, that `Nothing`
is none, and that people are finitely many, since approvals are counted.

**Task queue.** For the spool, `Kept` makes durability inductive (a message may be
claimed before its enqueue has returned), `Unknown` (a message that is not enqueued
has no file and no worker) is what the refinement needs. `EffectLemma` says what each
call of the file system does to where a message is; one step per action then names the
abstract action it is. For redis, `Sound` says for each message that its entry, its
place in the group and its producer agree (`Known`), and for each worker that what it
is about exists or was acknowledged (`About`); the mapping takes an entry that is
pending with an idle time below the timeout as leased.

**Entitlements.** `Inv` is equivalent to the property (`InvIsMeant`): the books are
sound, the profile is a possible one, and the last grant is in force. The work is in
lemmas on the operators: reconciling, changing and creating keep sound books sound
(`Sound`) and what has ended ended (`Keeps`). The copies of calls that will fail are
sound books as well, so that putting one back is safe; what had ended in the present
state and in all of them cannot come back by any order of roll backs (`SettledIsFinal`). The winner among several candidates is a
least number with a property, which `LeastNatural` has from the library's theorem
that a well-founded order has least elements: this is where induction over numbers
is needed, and it is cited in that form.

**Write requests.** `Inv` relates records and requests: one record per key, its owner
is running or has ended, a completed record has an owner that is settled, a replayed
answer is a settled request's, a running request has its record or lost it, and the
slots are no more than the limit as long as no lease was cut. Sequences of records
lose members in the middle; `Thinned` and its lemmas say what that keeps.

**Webhook delivery.** `Carried` says, for each process and record, that a record on
its way has exactly one sender and what that sender knows of it: how many attempts
there are, that they failed, and whether the last one is its own (`Ahead`); and that a
record at rest has a history that fits its status (`AtRest`). What the file says is as true
(`OnFile`, `Told`), so that a process that starts from it knows nothing false; a record
on its way that a restart found has no sender. The receiver's count of acceptances is at
most the number of processes that heard it say yes, or may have before they were
restarted (`Hearers`), because each process has its own copy. It is claimed of records
that no failure, no retry by hand and no start from an older file has disturbed.

**Stream analysis.** `Inv` is that the stored settings mean what was asked (`Meant`),
under whatever limits they are read, and that what was archived and published was
made under them (`Done`). `SettingsAreSound` asks of the values that stand for settings
that they can be told apart, as strings can.

**Scheduler.** `Futures` says which outcomes a future can have; every step writes open
futures only (`OneOutcome`). The other two theorems rest on what recursive functions
compute for every input. The library's theorems for that take an operator as their
parameter, but that `<` is well founded on the numbers can be cited: `Induction` and
`Recursion` derive from it, for sets and functions, that a step from *n* to *n* + 1
reaches every number, and that a first value and a step define a function. So
`ThoseLemma`, `SizesLemma`, `JoinedLemma`, `RotatedLemma` and `FairBatchLemma` say what
the filters, the sums, the concatenation, the rotation and `_take_fair_batch` return.
`OwnRows`: the *k*-th slice of the concatenation is the *k*-th input (`SplitLemma`).
`PassedOver`: call `Passed` the scopes of which a request waits before all those of
`_last_scope`, and that scope. A batch that leaves out its own seed takes from scopes
between `_last_scope` and the seed's in the rotation, none of which is in `Passed`, and
ends with one of them, which then is (`PassLemma`); what leaves the queue takes away at
most one each, and what comes behind takes away none (`DropLemma`). The invariant
`Ranked` adds that the seed is the oldest of its class as long as it waits, and bounds
the batches without it by the size of `Passed`, which is at most the number of scopes.
`Sound` says that queue, batch and single calls have no request in common. `Limits`
and its lemmas bound what a batch holds, which the types need.

**Access.** `Store` says that a replica at the revision of the row has what the row has
unless it is `tainted`, and that every document, in the row, in a memory or kept by a
route to put back, is `Good`: it has the shape of one, and members differ. `Work` says
that the lock of a replica is held by the one task that is at its document. What an
operation does to a document is stated once for all of them (`Keeps`, `DoesKept`), also
for the half done document that a refused call leaves behind: it stays good, lies
`Beside` the one before in all that the call does not name, and every application
`GoesOn`: it loses no key that is in force while there is room, gets none back, and keeps
its quota unless the call sets it. That a save is made at the revision of the row makes
this a statement about rows (`SavesAreNarrow`). The quota needs `Books`: with the file
store the count of an application covers what was admitted today in the row and in every
memory; with postgres the table is what was admitted, and whoever still has the first key
of an application, the one that a use is tried with, knows the quota of the row, even in
an old cache, and so does a task between reading the quota and counting. What the filter
of replaced keys returns is `ActiveLemma`, by the same `Induction` as for the scheduler.
`AccessAssumption` asks of the constants that the first document is good and counted on
no later day, that calls have objects of their kind, and that `None`, a task and a key
can be told apart from what stands beside them. Exempt are what is `tainted` or, for
quotas, `reset`: section 4.

**Runtime registry.** `Owned` says who knows a bundle: nobody before it is made, only
its maker while it is a candidate, and no table any more once it is drained or
replaced; what is registered or in use has its session. The use count of a bundle is
the number of tasks that use it (`Users`), so that a drain that sees zero closes
nothing in use. That two tasks do not load one model at once holds as long as no
lock was dropped, by `Locks`: whoever loads holds the lock that the table names.
Section 6 says who drops one.

**Not proved, and why.** Every liveness property (`EventuallySettles`,
`SlotsComeBack`, `QueuesDrain`, `AllSettle`) is beyond the prover, which has no
fairness and no ENABLED. `ServicesAreSound`, `GalleryIsSound`, `JobsAreSound`, `TracksAreSound` and `AuditIsSound` compare what sorting, selecting,
folding or a recursion over sequences returns with a definition: induction over
data. `StreamsAreSound` (but see `Privacy`, which proves two of the three parts of
`AnalysisIsPrivate`; the third compares limits), `GovernanceIsSound` and
`RetentionIsSound` are within reach and were not attempted. `JobIsExact` and
`JobCanRun` are proved for one process without the faults of `Barred`,
`PauseKeepsJob` for one process under `Calm`; with external workers or over postgres
they are not.

## 6. What the code does not keep

Each of these four is a run that TLC finishes with a counterexample.

* **The retry budget is forgotten** (`video_retry_budget`). The postgres row
  keeps no attempts; an external worker reloads the job before it decides on a
  retry and finds 0. `.env.example:94` speaks of a maximum number of retries.
* **A cancellation is overwritten** (`video_cancel_race`). The comment at
  `portrait_jobs.py:662` relies on a lock of one process; an external worker that
  read the job before the cancellation was stored persists `running` over it.
  (The cancellation marker of the queue still ends the run later.) The same can happen
  within one process over the file store: `load_video_jobs_state` reads the file before
  it takes the lock (`:353`, `:365`), so that a worker that read `queued` puts it back
  over a cancellation that has landed, and runs. `OneProcessCancels` proves that this
  install is the only step that can do it.
* **A roll back overwrites others** (`control_audit_failure`). After a failed audit
  the newest revision is taken and the whole old document is saved over it;
  `docs/deployment/COMMERCIAL_DATA_MIGRATION.md:9` says the revision check
  prevents silent overwriting. Commercial, feedback, registry and access state are
  restored in the same way.
* **The spool can lose a message** (`local_queue_loss`). A claim renames the
  file, which keeps its old modification time, and touches it afterwards; another
  worker's `_requeue_stale` may put it back in between; the first claim cannot read
  the file, and deletes as invalid whatever lies at the path, which may be the next
  claim's file. `.env.example:529` says unacknowledged tasks can always be consumed.

Noted while modelling, without a run of its own; the conditions of the properties
follow from these.

*Jobs.* The same late install puts an older job over any request that landed between
the read and the lock: `queued` over a pause, which is then run, or `paused` over a
resume, whose message is acknowledged (`PauseKeepsJob` holds: the job can be resumed).
A resume can be lost, too: a persist takes its snapshot under the lock and writes
it outside (`portrait_jobs.py:298`), so that `paused` can land after the `queued` of a
resume that came in between; the resume's message then finds a paused job and is
acknowledged (the job stays whole and can be resumed again). A job whose cancellation is rolled back after a worker acted on it waits for
ever; in process a restart resumes behind frames that are gone; nothing looks again
for a job whose creator died between the row and the message. Batches: with the file
store a load replaces the objects of all jobs, by a poll when the video worker is
external, by each of its messages when it is in the process, so that a batch's result is
never stored and a cancellation goes to an object nobody runs
(`routes_portrait_jobs.py:311`, `portrait_video_job_worker.py:123`, `portrait_jobs.py:366`); a
cancel while it runs is overwritten by `completed` (`:587`); a restart leaves a batch
running for ever. A job that resumes behind a checkpoint has all its frames but only
the pictures of its last part (`portrait_jobs.py:746`), which the archive files under
its first frames (`portrait_analysis_archive.py:390`), while
`docs/frontend/CONSOLE_NEXT_ACCEPTANCE.md:40` restores thumbnails from the archive.

*Queue.* With redis `attempts` stays 1; a claim whose answer is lost leaves an entry
leased to nobody until the timeout, and an acknowledgement cut between `XACK` and
`XDEL` an entry nobody deletes; an enqueue whose answer is lost leaves a message of a
job that is rolled back; a stale message of low priority is reclaimed before new ones
of high priority.

*Serving.* An eviction drops the load lock of what it evicts, for which others may be
waiting (`runtime_registry.py:210`): one who waited and one who comes later then load
the same model at the same time, and the later registration replaces the earlier.

*Uploads and deliveries.* Two completions at once make two jobs of one input
(`portrait_video_uploads.py:265`); an abort does not look at the status; a part whose
save failed is acknowledged by its replay; completed sessions never expire. Each
process has its own delivery records and writes them all to one file, which a start
loads (`portrait_webhook_delivery.py:446`): a record that was on its way then has no
sender, the next event is answered as a replay of it (`:160`) and a retry by hand is
refused (`:358`), so that it is never delivered. The handler of a failed retry by hand can dead-letter what another sender has
in flight (`portrait_webhook_delivery.py:400`).

*Commercial.* A call whose audit fails puts the whole state back that it copied before
(`routes_portrait_commercial.py:134`, `portrait_commercial.py:173`): what others answered
in between is undone, a revoked entitlement is active again and a closed project open.
The capability check (`portrait_commercial.py:949`) does not apply a
scheduled status change that is due; a refused update of a case leaves its changed
fields in memory, which the next save persists (`:2032`); incidents' severity is never
validated (`:1513`); limits of projects and streams are counted apart from their use.
A usage event whose save fails stays in memory and is written by the next save.
Costs of several currencies are summed; at equal `effective_at` the first cost version
wins (`portrait_metering.py:340`); a past-dated one changes earlier costs.

*Access.* A failed sign-in beside a local session deletes the CSRF cookie only
(`oidc_auth.py:554`); two sign-ins in two tabs cancel each other (`:761`); without
`auth_time` the time of issue is taken; open WebSockets are not looked at again. Rate
limit: a bucket that goes idle forgives its debt, a clock set forward gives tokens,
clean-up on demand does nothing right after a clean-up.

*Gallery.* `add_feature` through a person that a concurrent delete has left behind
brings the person back (`gallery_state.py:293`); a failed enrolment restores a
snapshot over others' changes, in steps that hold no lock
(`portrait_gallery_mutations.py:79`), so that an enrolment of the same person in between
leaves memory, log and vectors with different features; a compaction by such a roll back
can remove a log entry that its snapshot does not have; a replica that has not seen
another's deletion tells Qdrant of features that are no longer so; a local vector
cache can be built from an older snapshot after its invalidation
(`portrait_vector_store.py:143`), and fallback caches are never invalidated. A feature
found only by the expanded search keeps its score unblended, so that it can outrank
one that is at least as good in both (`gallery_search.py:507`). Missing quality counts
as perfect in a pair comparison and as worthless in a fusion
(`portrait_compare.py:90`, `routes_portrait_compare.py:29`).

*Streams.* A session's emit writes `running` over a stop of the API; with postgres
every poll drops the lease, so that a renewal fails; two daemons can pull together
after one removed the other's fresh lock (`portrait_stream_worker_daemon.py:118`,
against `README.md:314`). The mask `persons` hides only persons in scope that were
detected (`portrait_stream_worker.py:241`); a stream accepted under higher limits
fails after a restart with lower ones; track ids start again in each batch.

*Records.* The head of the audit chain is read and the record appended without a lock,
so that the chain forks (`portrait_audit.py:374`), and a torn last line makes every
later event fail. Objects are named by their content without counting references, so
that deleting one person's image deletes another's (`portrait_object_storage.py:51`);
the cleanup deletes by name what was updated since (`routes_portrait_admin.py:227`).
It trims a stream without the lock (`:214-221`): an event that comes between the filter
and the assignment is lost although the cleanup ends well, a list that was appended to
may bring old ones back, and one as long as before is not trimmed at all; when it is
undone `restore_stream` puts back the status and the lease of before as well
(`portrait_streams.py:250`), over a stop, a start or a lease that came since.
Stream events are in append order but keyed by time, so that pages skip or repeat at
ties (`portrait_pagination.py:222`); `limit=0` repeats the cursor for ever. With
postgres a call summary always says complete.

*Feedback.* An import that keeps existing labels leaves a re-exported sample
"exported" (`portrait_feedback.py:393`); leakage is looked for within one dataset only.

*Configuration.* A failing audit restores the state before over a newer update, and
the revision goes back (`routes_admin_configuration.py:126`); an edit of `.env` between
the start and the watch's first look is never read (`server.py:103`); a removed
override stays in the environment after a hot reload (`config_overrides.py:50`).

*Video and tracks.* A resumed pass samples its first frame whatever the interval
(`video_io.py:687`); a match without overlap whose appearance is .72 to .86 is "clear"
while a stronger one is a "rescue" (`portrait_tracking_metrics.py:225`); when the
median consensus is below one half all samples can be outliers.

## 7. What is not modelled

`PROJECT.json` lists the components and what of each is left out. In short: model
inference and image arithmetic (similarities, boxes and qualities are small numbers),
codecs and RTSP, signatures and hashes (a signature that verifies was made, a hash is
injective), the Qdrant and pgvector servers beyond the calls made to them, the identity
provider, request validation, wording, logging and metrics, the console frontend, SDKs
and deployment tools. Each module follows one job, project, stream or gallery person;
several of them in one document meet in `ControlState` and `Access` only. Payloads are
names or small sets throughout, timestamps an order or a small clock.
