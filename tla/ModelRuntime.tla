--------------------------- MODULE ModelRuntime ----------------------------
(***************************************************************************)
(* The loaded models of one process (runtime_registry, runtime_execution,  *)
(* the model routes): requests take a bundle from MODEL_REGISTRY or load   *)
(* it under the lock of its key, run on it behind the semaphores of the    *)
(* model and of the GPU, and the least recently used idle bundle is        *)
(* evicted.  Administrators load, warm up, unload and reload models and    *)
(* undo what they did when the audit record cannot be written.             *)
(*                                                                         *)
(* All of it runs on one event loop: what lies between two awaits is one   *)
(* step.  REGISTRY_LOCK is never held across an await, so that it never    *)
(* makes anybody wait and is left out.  A task creates at most one bundle  *)
(* and at most one load lock, which bear its name.                         *)
(***************************************************************************)
EXTENDS Naturals, FiniteSets

CONSTANTS
  Tasks,     (* requests and administrative calls                          *)
  Keys,      (* cache keys of models                                       *)
  Calls,     (* functions from Tasks to [op, key]; op is one of Ops        *)
  MaxLoaded, (* MAX_LOADED_MODELS                                          *)
  Permits,   (* max_concurrency of every model                             *)
  GpuLimit,  (* GPU_QUEUE_LIMIT_PER_DEVICE, with one device                *)
  RunFaults, (* bound on failing loads and runs and on timeouts            *)
  AuditFaults, (* bound on failing audit records                           *)
  None       (* no bundle, no lock, no task                                *)

Ops == {"infer", "load", "warmup", "unload", "reload"}

\* By key, of bundles and of load locks.
Bundles == [Keys -> Tasks \cup {None}]

ASSUME RuntimeAssumption ==
  /\ IsFiniteSet(Tasks) /\ IsFiniteSet(Keys) /\ None \notin Tasks /\ None \notin Bundles \X Bundles
  /\ Calls \subseteq [Tasks -> [op : Ops, key : Keys]]
  /\ MaxLoaded \in Nat \ {0} /\ Permits \in Nat \ {0} /\ GpuLimit \in Nat \ {0}
  /\ RunFaults \in Nat /\ AuditFaults \in Nat

VARIABLES
  work,     (* which of Calls is running                                   *)
  registry, (* MODEL_REGISTRY                                              *)
  older,    (* <<a, b>>: bundle b was used after bundle a, by last_used_at *)
  locks,    (* MODEL_LOAD_LOCKS                                            *)
  holder,   (* the task that holds each lock object                        *)
  session,  (* the bundles that still have their session                   *)
  inUse,    (* in_use of each bundle                                       *)
  drains,   (* bundles that are released as soon as nobody uses them       *)
  cooling,  (* the keys whose MODEL_LOAD_RETRY_AFTER lies ahead            *)
  pc,       (* where each task is                                          *)
  mine,     (* the bundle it has, or the one its unload or reload removed  *)
  lock,     (* the load lock it asked for                                  *)
  snap,     (* what it would restore: registry and locks                   *)
  faults,   (* what is left of RunFaults and of AuditFaults                *)
  undone    (* an audit record has failed                                  *)

runtimeVars == <<work, registry, older, locks, holder, session, inUse, drains, cooling,
                 pc, mine, lock, snap, faults, undone>>

Op(t)  == work[t].op
Key(t) == work[t].key
Go(t, p) == pc' = [pc EXCEPT ![t] = p]
RunFault == faults.run > 0 /\ faults' = [faults EXCEPT !.run = @ - 1]
Ended  == {"done", "failed", "refused", "gone"}

\* last_used_at = now: b was used after every other bundle.
Touched(o, b) == (o \ ({b} \X Tasks)) \cup ((Tasks \ {b}) \X {b})

\* The bundles that are or are about to be in use, by what they wait for.
At(b, p)  == {t \in Tasks : pc[t] = p /\ mine[t] = b}
OnGpu     == {t \in Tasks : pc[t] = "run"}
OnModel(b) == At(b, "gpu") \cup At(b, "run")

-----------------------------------------------------------------------------
(* evict_lru_if_needed, over a registry R and the order o.                 *)
Loaded(R) == {k \in Keys : R[k] # None}

\* Mutant: a model that is running may go.
EvictableAny(R, k) == Loaded(R) \ {k}

Evictable(R, k) == {j \in Loaded(R) \ {k} : inUse[R[j]] = 0}

\* The keys that go: the oldest evictable ones, until the limit is met.
Victims(R, o, k) ==
  {j \in Evictable(R, k) :
     Cardinality({i \in Evictable(R, k) : <<R[i], R[j]>> \in o})
       < Cardinality(Loaded(R)) - MaxLoaded}

Without(f, K) == [k \in Keys |-> IF k \in K THEN None ELSE f[k]]

\* R is the registry after k was set; it takes effect with its evictions.
SetRegistry(R, o, k) ==
  \E V \in {Victims(R, o, k)} :
    /\ registry' = Without(R, V) /\ locks' = Without(locks, V)
    /\ session' = (session \cup {R[k]}) \ {R[j] : j \in V}
    /\ older' = o

-----------------------------------------------------------------------------
(* get_or_load_model and replace_model_bundle                              *)
After(t) == CASE Op(t) = "infer" -> "held" [] Op(t) = "load" -> "audit" [] OTHER -> "held"

\* The cached bundle is touched and handed out.
Hit(t) ==
  /\ registry[Key(t)] # None
  /\ older' = Touched(older, registry[Key(t)])
  /\ mine' = [mine EXCEPT ![t] = registry[Key(t)]]
  /\ Go(t, After(t))

\* get_model_load_lock
AskLock(t) ==
  LET l == IF locks[Key(t)] = None THEN t ELSE locks[Key(t)]
  IN  /\ locks' = [locks EXCEPT ![Key(t)] = l] /\ lock' = [lock EXCEPT ![t] = l]
      /\ Go(t, "lock")

Cool(t) == Key(t) \in cooling   \* model_load_cooldown_active

Get(t) ==
  /\ pc[t] = "new" /\ Op(t) \in {"infer", "load", "warmup"}
  /\ snap' = [snap EXCEPT ![t] = IF Op(t) = "infer" THEN None ELSE <<registry, locks>>]
  /\ \/ Hit(t) /\ UNCHANGED <<locks, lock>>
     \/ registry[Key(t)] = None /\ Cool(t) /\ Go(t, "refused") /\ UNCHANGED <<locks, lock, older, mine>>
     \/ registry[Key(t)] = None /\ ~Cool(t) /\ AskLock(t) /\ UNCHANGED <<older, mine>>
  /\ UNCHANGED <<work, registry, holder, session, inUse, drains, cooling, faults, undone>>

\* It has the lock, and looks again.
Locked(t) ==
  /\ pc[t] = "lock" /\ holder[lock[t]] = None
  /\ \/ Op(t) # "reload" /\ Hit(t) /\ UNCHANGED holder
     \/ Op(t) # "reload" /\ registry[Key(t)] = None /\ Cool(t) /\ Go(t, "refused")
        /\ UNCHANGED <<holder, older, mine>>
     \/ (Op(t) = "reload" \/ (registry[Key(t)] = None /\ ~Cool(t))) /\ Go(t, "loading")
        /\ holder' = [holder EXCEPT ![lock[t]] = t] /\ UNCHANGED <<older, mine>>
  /\ UNCHANGED <<work, registry, locks, session, inUse, drains, cooling, lock, snap, faults, undone>>

\* The hash or the session fails: mark_model_load_failed, in either function.
LoadFails(t) ==
  /\ pc[t] = "loading" /\ RunFault /\ Go(t, "failed")
  /\ cooling' = cooling \cup {Key(t)}
  /\ holder' = [holder EXCEPT ![lock[t]] = None]
  /\ UNCHANGED <<work, registry, older, locks, session, inUse, drains, mine, lock, snap, undone>>

\* get_or_load_model registers the bundle and makes room for it.
LoadDone(t) ==
  /\ pc[t] = "loading" /\ Op(t) # "reload"
  /\ SetRegistry([registry EXCEPT ![Key(t)] = t], Touched(older, t), Key(t))
  /\ cooling' = cooling \ {Key(t)}
  /\ mine' = [mine EXCEPT ![t] = t]
  /\ holder' = [holder EXCEPT ![lock[t]] = None] /\ Go(t, After(t))
  /\ UNCHANGED <<work, inUse, drains, lock, snap, faults, undone>>

\* The reload: create_candidate_model_bundle, which is prewarmed before anybody
\* else sees it.
CandidateDone(t) ==
  /\ pc[t] = "loading" /\ Op(t) = "reload"
  /\ session' = session \cup {t} /\ older' = Touched(older, t)
  /\ mine' = [mine EXCEPT ![t] = t] /\ Go(t, "held")
  /\ UNCHANGED <<work, registry, locks, holder, inUse, drains, cooling, lock, snap, faults, undone>>

\* The candidate takes the place of the bundle that is registered by now.
Swap(t) ==
  /\ pc[t] = "swap"
  /\ SetRegistry([registry EXCEPT ![Key(t)] = t], older, Key(t))
  /\ cooling' = cooling \ {Key(t)}
  /\ mine' = [mine EXCEPT ![t] = registry[Key(t)]]
  /\ holder' = [holder EXCEPT ![lock[t]] = None] /\ Go(t, "audit")
  /\ UNCHANGED <<work, inUse, drains, lock, snap, faults, undone>>

\* The reload route, up to the lock.
Reload(t) ==
  /\ pc[t] = "new" /\ Op(t) = "reload"
  /\ snap' = [snap EXCEPT ![t] = <<registry, locks>>]
  /\ AskLock(t)
  /\ UNCHANGED <<work, registry, older, holder, session, inUse, drains, cooling, mine, faults, undone>>

-----------------------------------------------------------------------------
(* _run_model_bundle_direct                                                *)

\* The bundle is used from here on; its session may be gone since it was taken
\* (images are decoded, another model is loaded, a batch is awaited meanwhile).
Begin(t) ==
  /\ pc[t] = "held"
  /\ IF mine[t] \in session
     THEN Go(t, "model") /\ inUse' = [inUse EXCEPT ![mine[t]] = @ + 1]
     ELSE Go(t, "gone") /\ UNCHANGED inUse
  /\ UNCHANGED <<work, registry, older, locks, holder, session, drains, cooling, mine, lock, snap, faults, undone>>

\* The semaphore of the model, then the one of the GPU.
Acquire(t) ==
  /\ \/ pc[t] = "model" /\ Cardinality(OnModel(mine[t])) < Permits /\ Go(t, "gpu")
     \/ pc[t] = "gpu" /\ Cardinality(OnGpu) < GpuLimit /\ Go(t, "run")
  /\ UNCHANGED <<work, registry, older, locks, holder, session, inUse, drains, cooling, mine, lock, snap, faults, undone>>

\* The bundle is no longer used by t, and was used last now.
Leave(t) == /\ inUse' = [inUse EXCEPT ![mine[t]] = IF @ = 0 THEN 0 ELSE @ - 1]
            /\ older' = Touched(older, mine[t])

Finish(t) ==
  /\ pc[t] = "run" /\ Leave(t)
  /\ Go(t, CASE Op(t) = "reload" -> "swap" [] Op(t) = "warmup" -> "audit" [] OTHER -> "done")
  /\ UNCHANGED <<work, registry, locks, holder, session, drains, cooling, mine, lock, snap, faults, undone>>

\* A wait times out or the session fails.  A candidate that fails its prewarm is
\* released.
RunFails(t) ==
  /\ pc[t] \in {"model", "gpu", "run"} /\ RunFault /\ Leave(t) /\ Go(t, "failed")
  /\ IF Op(t) = "reload" THEN session' = session \ {t} /\ holder' = [holder EXCEPT ![lock[t]] = None]
                         ELSE UNCHANGED <<session, holder>>
  /\ UNCHANGED <<work, registry, locks, drains, cooling, mine, lock, snap, undone>>

-----------------------------------------------------------------------------
(* unload_model_by_key, and the background tasks that release bundles      *)
Unload(t) ==
  /\ pc[t] = "new" /\ Op(t) = "unload"
  /\ snap' = [snap EXCEPT ![t] = <<registry, locks>>]
  /\ mine' = [mine EXCEPT ![t] = registry[Key(t)]]
  /\ registry' = Without(registry, {Key(t)}) /\ locks' = Without(locks, {Key(t)})
  /\ IF registry[Key(t)] = None
     THEN Go(t, "audit") /\ UNCHANGED drains
     ELSE Go(t, "drain") /\ drains' = drains \cup {registry[Key(t)]}
  /\ UNCHANGED <<work, older, holder, session, inUse, cooling, lock, faults, undone>>

\* release_when_drained
Release(b) ==
  /\ b \in drains /\ inUse[b] = 0
  /\ drains' = drains \ {b} /\ session' = session \ {b}
  /\ UNCHANGED <<work, registry, older, locks, holder, inUse, cooling, pc, mine, lock, snap, faults, undone>>

\* The unload has seen the release, or has waited for it long enough.
Drained(t) ==
  /\ pc[t] = "drain" /\ Go(t, "audit")
  /\ \/ mine[t] \notin drains /\ UNCHANGED faults
     \/ mine[t] \in drains /\ RunFault
  /\ UNCHANGED <<work, registry, older, locks, holder, session, inUse, drains, cooling, mine, lock, snap, undone>>

\* The audit record of an administrative call is written: a reload retires the
\* bundle it replaced.
Audited(t) ==
  /\ pc[t] = "audit" /\ Go(t, "done")
  /\ drains' = IF Op(t) = "reload" /\ mine[t] # None THEN drains \cup {mine[t]} ELSE drains
  /\ UNCHANGED <<work, registry, older, locks, holder, session, inUse, cooling, mine, lock, snap, faults, undone>>

\* It is not: restore_model_registry_snapshot, and a reload releases its bundle.
AuditFails(t) ==
  /\ pc[t] = "audit" /\ faults.audit > 0 /\ faults' = [faults EXCEPT !.audit = @ - 1]
  /\ registry' = snap[t][1] /\ locks' = snap[t][2]
  /\ session' = IF Op(t) = "reload" THEN session \ {t} ELSE session
  /\ undone' = TRUE /\ Go(t, "failed")
  /\ UNCHANGED <<work, older, holder, inUse, drains, cooling, mine, lock, snap>>

\* The window after a failed load has passed.
CoolsDown(k) ==
  /\ k \in cooling /\ cooling' = cooling \ {k}
  /\ UNCHANGED <<work, registry, older, locks, holder, session, inUse, drains, pc, mine, lock, snap, faults, undone>>

-----------------------------------------------------------------------------
RuntimeInit ==
  /\ work \in Calls
  /\ registry = [k \in Keys |-> None] /\ locks = [k \in Keys |-> None]
  /\ older = {} /\ session = {} /\ drains = {} /\ cooling = {} /\ undone = FALSE
  /\ holder = [t \in Tasks |-> None] /\ inUse = [t \in Tasks |-> 0]
  /\ pc = [t \in Tasks |-> "new"] /\ mine = [t \in Tasks |-> None]
  /\ lock = [t \in Tasks |-> None] /\ snap = [t \in Tasks |-> None]
  /\ faults = [run |-> RunFaults, audit |-> AuditFaults]

\* What the event loop does by itself for a task that has come in.
Runs(t) == Locked(t) \/ LoadDone(t) \/ CandidateDone(t) \/ Swap(t) \/ Begin(t) \/ Acquire(t)
           \/ Finish(t) \/ Drained(t) \/ Audited(t)

RuntimeNext ==
  \/ \E t \in Tasks : \/ Get(t) \/ Reload(t) \/ Unload(t) \/ Runs(t)
                      \/ LoadFails(t) \/ RunFails(t) \/ AuditFails(t)
  \/ \E b \in Tasks : Release(b)
  \/ \E k \in Keys : CoolsDown(k)

RuntimeSpec == RuntimeInit /\ [][RuntimeNext]_runtimeVars

(***************************************************************************)
(* Fairness: the event loop goes on with the tasks that have come in,      *)
(* loads and runs return, and drained bundles are released.  Every task    *)
(* takes boundedly many steps, so that nobody is passed over for ever.     *)
(***************************************************************************)
Progress == (\E t \in Tasks : Runs(t)) \/ (\E b \in Tasks : Release(b))

-----------------------------------------------------------------------------
(* Properties.                                                             *)

Stages == {"new", "lock", "loading", "held", "model", "gpu", "run", "swap", "drain", "audit"} \cup Ended

\* Every variable has its type; in_use counts exactly the runs on a bundle, and
\* no semaphore is over its limit.
RuntimeTypeOK ==
  /\ work \in Calls /\ pc \in [Tasks -> Stages] /\ registry \in Bundles /\ locks \in Bundles
  /\ holder \in [Tasks -> Tasks \cup {None}] /\ cooling \subseteq Keys
  /\ older \subseteq Tasks \X Tasks /\ \A b \in Tasks : <<b, b>> \notin older
  /\ session \subseteq Tasks /\ drains \subseteq Tasks /\ inUse \in [Tasks -> Nat]
  /\ mine \in [Tasks -> Tasks \cup {None}] /\ lock \in [Tasks -> Tasks \cup {None}]
  /\ snap \in [Tasks -> {None} \cup (Bundles \X Bundles)] /\ undone \in BOOLEAN
  /\ faults \in [run : 0..RunFaults, audit : 0..AuditFaults]
  /\ \A b \in Tasks : /\ inUse[b] = Cardinality(At(b, "model") \cup OnModel(b))
                      /\ Cardinality(OnModel(b)) <= Permits
  /\ Cardinality(OnGpu) <= GpuLimit

\* No eviction, unload or hot swap takes the session of a bundle that is being
\* used, as long as no administrative call was undone.
InUseKeepsSession == ~undone => \A b \in Tasks : inUse[b] > 0 => b \in session

\* Whatever is registered can be run, as long as no administrative call was
\* undone: an undone unload or reload puts back bundles without their session.
RegisteredIsUsable == ~undone => \A k \in Loaded(registry) : registry[k] \in session

\* t is where it holds a load lock.
Loading(t) == pc[t] = "loading" \/ (Op(t) = "reload" /\ pc[t] \in {"held", "model", "gpu", "run", "swap"})

\* What drops load locks that are waited for: an unload, an eviction, and an administrative
\* call that is undone.
LocksDropped == \/ \E t \in Tasks : Op(t) = "unload"
                \/ Cardinality({Key(t) : t \in Tasks}) > MaxLoaded
                \/ undone

\* A model is loaded by one task at a time, or else by tasks with locks of their own, the
\* older one of which was dropped while it was waited for.
OneLoadPerKey ==
  \A s, t \in Tasks :
    Loading(s) /\ Loading(t) /\ Key(s) = Key(t) /\ s # t => lock[s] # lock[t] /\ LocksDropped

\* in_use counts the runs of a bundle and the semaphores keep their limits; no
\* eviction, unload or hot swap takes the session of a bundle that is used or
\* registered, and a load lock admits one task.
BundlesAreSound == RuntimeTypeOK /\ InUseKeepsSession /\ RegisteredIsUsable /\ OneLoadPerKey

\* Whoever came in is answered: no permit, lock or drain is waited for for ever.
EveryTaskEnds == <>[](\A t \in Tasks : pc[t] \in {"new"} \cup Ended)

\* Bundles that were unloaded or replaced are released in the end.
RetiredIsReleased == <>[](drains = {})

RuntimeSettles == EveryTaskEnds /\ RetiredIsReleased
=============================================================================
