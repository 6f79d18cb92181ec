----------------------------- MODULE MCControl ------------------------------
(***************************************************************************)
(* What operators change, for TLC: the control state that replicas share   *)
(* (ControlState), the governed releases of a model (ModelRelease), the    *)
(* settings of the processes (Configuration), the streams that daemons     *)
(* pull (Streams) and what their analysis shows (StreamAnalysis).  They     *)
(* share no variable: every behaviour is a behaviour of one of them, the    *)
(* part that is chosen at the beginning.                                    *)
(***************************************************************************)
EXTENDS ControlState, ModelRelease, TLC

CONSTANTS r1, r2, c1, k1, k2, t1, t2, v1, v2, a1, a2, a3, d1, d2, s1, s2, sr1, sr2, Api, Ghost,
  sp1, sp2, ad1, ad2, it1, it2, Net, w0, w1, w2

VARIABLES part,
  scene, disk, mem, obj, lock, daemon, sess, stReq, stTodo, stNow, stLeft, late, raced, \* of Streams
  cfScene, file, dotenv, proc, call, cfTodo, cfLeft, restored, crossed, missed, \* of Configuration
  saAsk, limits, stored, saPc, images, frames, archived, published \* and of StreamAnalysis

-----------------------------------------------------------------------------
(* Replicas: two requests for the reversal of one usage event, and a metered *)
(* call.                                                                   *)
KeyOf == (r1 :> k1) @@ (r2 :> k1) @@ (c1 :> k2)

Quotas(q) == q @@ [k \in Kinds |-> 0]

\* Any two faults, and one repeated request.
FaultQuota == Quotas([load |-> 1, reload |-> 1, save |-> 1, audit |-> 1, crash |-> 1,
                      retry |-> 1])
AuditQuota == Quotas([audit |-> 1])
MaxFaults  == 2
Faults     == {k \in Kinds \ {"retry"} : left[k] < Quota[k]}

-----------------------------------------------------------------------------
(* Releases.                                                               *)
Ask(op, v, by, risk, share, expect) ==
  [op |-> op, v |-> v, by |-> by, risk |-> risk, share |-> share, expect |-> expect]

\* The life of a second version beside the approvals it needs, with a way back;
\* a release that expects a target beside direct changes of the alias; and two
\* releases that meet.
Releases ==
  { t1 :> << Ask("register", v2, a1, 1, 5, Nothing), Ask("evaluate", v2, a1, 1, 5, Nothing),
             Ask("canary", v2, a1, 1, 60, Nothing), Ask("activate", v2, a1, 1, 5, Nothing),
             Ask("rollback", v1, a1, 1, 5, Nothing) >>
      @@ t2 :> << Ask("approve", v2, a2, 1, 5, Nothing), Ask("approve", v1, a2, 1, 5, Nothing),
                  Ask("pause", v2, a1, 1, 5, Nothing) >>,
    t1 :> << Ask("register", v2, a1, 1, 5, Nothing), Ask("evaluate", v2, a1, 1, 5, Nothing),
             Ask("shadow", v2, a1, 1, 5, Nothing), Ask("canary", v2, a1, 1, 5, v1),
             Ask("activate", v2, a3, 2, 5, v1) >>
      @@ t2 :> << Ask("approve", v2, a2, 1, 5, Nothing), Ask("approve", v2, a1, 1, 5, Nothing),
                  Ask("switch", v2, a1, 1, 5, v1), Ask("undo", v2, a1, 1, 5, Nothing) >>,
    t1 :> << Ask("register", v2, a1, 1, 5, Nothing), Ask("evaluate", v2, a1, 1, 5, Nothing),
             Ask("canary", v2, a1, 1, 5, Nothing), Ask("activate", v2, a1, 1, 5, v1) >>
      @@ t2 :> << Ask("approve", v2, a2, 1, 5, Nothing), Ask("activate", v2, a1, 1, 5, v1),
                  Ask("deprecate", v2, a1, 1, 5, Nothing) >> }

stVars == <<scene, disk, mem, obj, lock, daemon, sess, stReq, stTodo, stNow, stLeft, late, raced>>

Stored(st) == [status |-> st, owner |-> Nil, exp |-> 0, upd |-> 1]
On(op, s)  == [op |-> op, s |-> s]
Scene(ds, st, first, second, store, urls, time, most) ==
  [daemons |-> ds, disk |-> s1 :> Stored(st) @@ s2 :> Nil, todo |-> sr1 :> first @@ sr2 :> second,
   store |-> store, urls |-> urls, time |-> time, faults |-> most, turns |-> IF time > 2 THEN 0 ELSE 2]

\* Two daemons and a lock that goes stale; a stream that is stopped under its session,
\* until the lease must be renewed; two requests at once; a second stream that is new.
Scenes ==
  { Scene({d1, d2}, "running", <<>>, <<>>, "file", TRUE, 4, 1),
    Scene({d1, d2}, "running", <<>>, <<>>, "postgres", TRUE, 3, 1) }
    \cup { Scene({d1}, "running", << On("stop", s1) >>, <<>>, "file", TRUE, 0, 1),
           Scene({d1}, "running", << On("stop", s1) >>, <<>>, "postgres", TRUE, 1, 0) }
    \cup { Scene({}, "running", << On("stop", s1) >>, << On("start", s1) >>, st, TRUE, 0, 2) :
              st \in {"file", "postgres"} }
    \cup { Scene({d1}, "registered", << On("create", s2), On("start", s1) >>, <<>>, st, urls, 1, 1) :
              st \in {"file", "postgres"}, urls \in BOOLEAN }

Pulled == INSTANCE Streams WITH
  Daemons <- {d1, d2}, Streams <- {s1, s2}, Reqs <- {sr1, sr2}, Interval <- 1, TTL <- 2, Stale <- 2,
  MaxReconnects <- 1, req <- stReq, todo <- stTodo, now <- stNow, left <- stLeft

cfVars == <<cfScene, file, dotenv, proc, call, cfTodo, cfLeft, restored, crossed, missed>>

Put(of, p, k, v) == [file |-> of, proc |-> p, key |-> k, value |-> v]
Item(p, k, v)    == Put("configuration", p, k, v)
Policy(v)        == Put("policy", sp1, Net, v)

\* An override that comes and goes under restarts and containers made anew, beside an update
\* of a second process; two administrators of the network policy; and a watched .env file.
Setups ==
  { [hot |-> FALSE, used |-> {sp1}, todo |-> ad1 :> << Item(sp1, it1, w1), Item(sp1, it1, Nil) >> @@ ad2 :> << Item(sp2, it2, w2) >>,
     left |-> [edits |-> 1, restarts |-> 2, faults |-> 1]],
    [hot |-> FALSE, used |-> {}, todo |-> ad1 :> << Policy(w1), Policy(w2) >> @@ ad2 :> << Policy(w2) >>,
     left |-> [edits |-> 0, restarts |-> 0, faults |-> 2]],
    [hot |-> TRUE, used |-> {sp1}, todo |-> ad1 :> << Item(sp1, it1, w1), Item(sp1, it1, Nil) >> @@ ad2 :> <<>>,
     left |-> [edits |-> 2, restarts |-> 1, faults |-> 1]] }

Configured == INSTANCE Configuration WITH
  Procs <- {sp1, sp2}, Admins <- {ad1, ad2}, Keys <- {it1, it2}, ComposeKeys <- {it2}, Vals <- {w1, w2},
  Default <- w0, Scenes <- Setups, scene <- cfScene, todo <- cfTodo, left <- cfLeft, undone <- restored, raced <- crossed

saVars == <<saAsk, limits, stored, saPc, images, frames, archived, published>>

\* Profiles beside masks of every kind, scopes, and numbers at the limits and beyond; limits
\* that change at a restart; persons on both sides of the scope, and one at its edge.
Plain == [profile |-> Ghost, mask |-> Ghost, roi |-> Ghost, classes |-> Ghost, embeddings |-> Ghost, batch |-> Ghost, timeout |-> Ghost]
Wanted ==
  {[Plain EXCEPT !.profile = p, !.mask = m] : p \in {Ghost, "privacy_first", "low_latency", "high_accuracy", "other"},
                                              m \in {Ghost, "null", "yes", "full", "odd"}}
    \cup {[Plain EXCEPT !.roi = r, !.classes = c, !.mask = "persons"] :
             r \in {Ghost, Nil, [x |-> 0, width |-> 2], [x |-> 3, width |-> 2]}, c \in {Ghost, Nil, {}, {"vehicle"}, {"person", "vehicle"}}}
    \cup {[Plain EXCEPT !.embeddings = e, !.batch = b, !.timeout = s] : e \in {"yes", "odd"}, b \in {0, 2, 4}, s \in {2, 5}}

Analysed == INSTANCE StreamAnalysis WITH
  Requests <- Wanted, Absent <- Ghost, Width <- 4, MaxFrames <- 2, MaxBatches <- 1,
  Limits <- {[maxBatch |-> 4, batch |-> 2, timeout |-> 5], [maxBatch |-> 2, batch |-> 2, timeout |-> 2]},
  People <- {[x |-> 1, class |-> "person"], [x |-> 2, class |-> "vehicle"], [x |-> 3, class |-> "person"]},
  ask <- saAsk, pc <- saPc

ControlSymmetry == Permutations(Procs) \cup Permutations({d1, d2})

ControlInit ==
  /\ part \in {"state", "release", "streams", "settings", "analysis"}
  /\ Init /\ (part # "state" => \E p \in Procs : at = [r \in Requests |-> p])
  /\ ReleaseInit /\ (part # "release" => todo = CHOOSE w \in Releases : TRUE)
  /\ Pulled!Init /\ (part # "streams" => scene = CHOOSE x \in Scenes : TRUE)
  /\ Configured!Init /\ (part # "settings" => cfScene = CHOOSE x \in Setups : TRUE)
  /\ Analysed!Init /\ (part # "analysis" => saAsk = Plain /\ limits.maxBatch = 2)

Replicated ==
  part = "state" /\ Next /\ Cardinality(Faults') <= MaxFaults /\ UNCHANGED <<part, rlVars, stVars, cfVars, saVars>>
Governed   == part = "release" /\ ReleaseNext /\ UNCHANGED <<part, vars, stVars, cfVars, saVars>>
Streamed   == part = "streams" /\ Pulled!Next /\ UNCHANGED <<part, vars, rlVars, cfVars, saVars>>
Set        == part = "settings" /\ Configured!Next /\ UNCHANGED <<part, vars, rlVars, stVars, saVars>>
Analyses   == part = "analysis" /\ Analysed!Next /\ UNCHANGED <<part, vars, rlVars, stVars, cfVars>>

ControlSpec ==
  ControlInit /\ [][Replicated \/ Governed \/ Streamed \/ Set \/ Analyses]_<<part, vars, rlVars, stVars, cfVars, saVars>>

-----------------------------------------------------------------------------
(* What is asked of the parts.                                             *)

\* Daemons that keep up pull a stream together only after the lock of one was taken
\* for a stale one, and then not for long.  What is shown of a stream hides whom its client
\* asked to hide, and reports nobody out of its scope.  A change of the settings replaces
\* what its administrator saw, and the page says truly what a restart will bring.
StreamsAreSound ==
  /\ Pulled!StreamsAreSound
  /\ part = "analysis" => Analysed!AnalysisIsPrivate
  /\ part = "settings" => Configured!ConfigurationIsSound
=============================================================================
