--------------------------- MODULE Configuration ----------------------------
(***************************************************************************)
(* The settings of the processes: administrators keep overrides and the     *)
(* network policy in two files (admin_configuration, network_access_policy), *)
(* each guarded by a revision; a process takes the overrides over its        *)
(* environment when it starts (config_overrides), and again, with the .env   *)
(* file, when it sees that the file has changed (config_hot_reload).         *)
(*                                                                         *)
(* A lock holds within one process; the files are shared by all.            *)
(***************************************************************************)
EXTENDS Naturals, Sequences, FiniteSets

CONSTANTS
  Procs, Admins,
  Keys,        (* configuration items                                      *)
  ComposeKeys, (* those that the host's .env sets for the containers        *)
  Net,         (* the network policy, the only item of its file            *)
  Vals,        (* values, and policies that may be saved                   *)
  Default,     (* of every item                                            *)
  Scenes,      (* [hot: the .env file is read and watched, used: processes, *)
               (* todo: per administrator the calls, edits, restarts and    *)
               (* faults that may come]                                     *)
  Nil          (* no value                                                 *)

VARIABLES
  scene,
  file,    (* per file the revision and the items that are set              *)
  dotenv,  (* [of: the items the .env file sets, version: of its last edit]  *)
  proc,    (* per process [outside: what it was started with, env:          *)
           (* os.environ, applied: the overrides it took, base: what they    *)
           (* were put over, runs: what its modules use, loaded: the edit    *)
           (* it read, seen: the edit its watch saw, pc]                    *)
  call,    (* per administrator [pc, of, seen, before, from, made]           *)
  todo,
  left,    (* [edits, restarts, faults] that may still come                 *)
  undone,  (* an update was taken back                                      *)
  raced,   (* two processes wrote one file at a time                        *)
  missed   (* processes that missed an edit of .env                         *)

vars == <<scene, file, dotenv, proc, call, todo, left, undone, raced, missed>>

Unset == "unset" \* BASE_CONFIGURATION_ENVIRONMENT does not have the key
None  == [k \in Keys |-> Nil]
Files == {"configuration", "policy"}
ItemsOf(f) == IF f = "policy" THEN {Net} ELSE Keys
Absent(f) == [rev |-> 0, vals |-> [k \in ItemsOf(f) |-> Nil]]
NoCall == [pc |-> "idle", of |-> Nil, seen |-> Nil, before |-> Nil, from |-> Nil, made |-> Nil]

\* What lies over what: the first value that is there.
Over(top, under) == [k \in Keys |-> IF top[k] # Nil THEN top[k] ELSE under[k]]

\* apply_configuration_overrides
Overridden(q, vals) ==
  [q EXCEPT !.env = Over(vals, @), !.applied = vals,
            !.base = [k \in Keys |-> IF vals[k] # Nil /\ @[k] = Unset THEN q.env[k] ELSE @[k]]]
\* importlib.reload of the settings, whose names every module gets anew
Settled(q, vals) == LET o == Overridden(q, vals) IN [o EXCEPT !.runs = o.env]
WithDotenv(q) == [q EXCEPT !.env = Over(dotenv.of, @), !.loaded = dotenv.version]

\* A process starts: the overrides over its environment, then, if it reads .env, that file
\* and the overrides once more.  Its watch has seen nothing yet.
Started(outside) ==
  LET vals  == file["configuration"].vals
      first == Settled([outside |-> outside, env |-> outside, applied |-> None, base |-> [k \in Keys |-> Unset],
                        runs |-> outside, loaded |-> 0, seen |-> Nil, pc |-> "up"], vals)
  IN  IF scene.hot THEN Settled(WithDotenv(first), vals) ELSE first

Fault == left.faults > 0 /\ left' = [left EXCEPT !.faults = @ - 1]
NoFault == UNCHANGED left

-----------------------------------------------------------------------------
(* An administrator.                                                       *)
SameProcs == UNCHANGED <<scene, dotenv, proc, missed>>

\* The page is opened, and so the revision and the items seen.
LookAt(a) ==
  /\ call[a].pc = "idle" /\ todo[a] # <<>>
  /\ call' = [call EXCEPT ![a] = [NoCall EXCEPT !.pc = "seen", !.of = Head(todo[a]), !.seen = file[Head(todo[a]).file]]]
  /\ todo' = [todo EXCEPT ![a] = Tail(@)] /\ NoFault /\ SameProcs /\ UNCHANGED <<file, undone, raced>>

\* The request is there: first the state that a failure restores.
Before(a) ==
  /\ call[a].pc = "seen"
  /\ call' = [call EXCEPT ![a].pc = "check", ![a].before = file[call[a].of.file]]
  /\ NoFault /\ SameProcs /\ UNCHANGED <<file, todo, undone, raced>>

\* The lock of the file in the process that serves the call.
Free(a) == \A b \in Admins \ {a} :
  ~(call[b].pc = "write" /\ call[b].of.proc = call[a].of.proc /\ call[b].of.file = call[a].of.file)

\* update_configuration_state and save_network_access_policy: another revision than the one
\* seen is refused; items that stay as they are are no update, but a policy always is.
Updated(c, now) == [rev |-> now.rev + 1, vals |-> [now.vals EXCEPT ![c.key] = c.value]]
Check(a) ==
  /\ call[a].pc = "check" /\ Free(a)
  /\ LET c == call[a].of  now == file[c.file] IN
     call' = [call EXCEPT ![a] =
       IF now.rev # @.seen.rev \/ (c.file = "configuration" /\ now.vals[c.key] = c.value) THEN NoCall
       ELSE [@ EXCEPT !.pc = "write", !.from = now, !.made = Updated(c, now)]]
  /\ NoFault /\ SameProcs /\ UNCHANGED <<file, todo, undone, raced>>

\* write_json_state; a failure answers 503.
Write(a) ==
  /\ call[a].pc = "write"
  /\ LET f == call[a].of.file IN
     \/ /\ NoFault /\ file' = [file EXCEPT ![f] = call[a].made]
        /\ raced' = (raced \/ file[f] # call[a].from) /\ call' = [call EXCEPT ![a].pc = "audit"]
     \/ Fault /\ call' = [call EXCEPT ![a] = NoCall] /\ UNCHANGED <<file, raced>>
  /\ SameProcs /\ UNCHANGED <<todo, undone>>

Audit(a) ==
  /\ call[a].pc = "audit"
  /\ \/ NoFault /\ call' = [call EXCEPT ![a] = NoCall]
     \/ Fault /\ call' = [call EXCEPT ![a].pc = "restore"]
  /\ SameProcs /\ UNCHANGED <<file, todo, undone, raced>>

\* restore_configuration_state, restore_network_access_policy; without a revision the file goes.
Restore(a) ==
  /\ call[a].pc = "restore" /\ Free(a) /\ undone' = TRUE
  /\ file' = [file EXCEPT ![call[a].of.file] = IF call[a].before.rev = 0 THEN Absent(call[a].of.file) ELSE call[a].before]
  /\ call' = [call EXCEPT ![a] = NoCall] /\ NoFault /\ SameProcs /\ UNCHANGED <<todo, raced>>

-----------------------------------------------------------------------------
(* The processes.                                                          *)
SameFiles == UNCHANGED <<scene, file, call, todo, undone, raced>>

\* The .env file is edited by hand, or the overrides of the compose items are merged into it
\* (tools/apply_admin_configuration).
EditEnv ==
  /\ left.edits > 0 /\ left' = [left EXCEPT !.edits = @ - 1] /\ SameFiles /\ UNCHANGED <<proc, missed>>
  /\ \/ \E k \in Keys, v \in Vals : dotenv' = [of |-> [dotenv.of EXCEPT ![k] = v], version |-> dotenv.version + 1]
     \/ LET vals == file["configuration"].vals IN
        /\ \E k \in ComposeKeys : vals[k] \notin {Nil, dotenv.of[k]}
        /\ dotenv' = [of |-> [k \in Keys |-> IF k \in ComposeKeys /\ vals[k] # Nil THEN vals[k] ELSE dotenv.of[k]],
                      version |-> dotenv.version + 1]

\* A restart, or a container that is made anew: it gets what .env sets by then.
Restart(p) ==
  /\ left.restarts > 0 /\ left' = [left EXCEPT !.restarts = @ - 1] /\ SameFiles /\ UNCHANGED dotenv
  /\ \E outside \in {proc[p].outside} \cup (IF scene.hot THEN {} ELSE {dotenv.of}) : proc' = [proc EXCEPT ![p] = Started(outside)]
  /\ missed' = missed \ {p}

\* config_hot_reload_loop.  The first look only remembers, whatever was edited since the start.
Watch(p) ==
  /\ scene.hot /\ proc[p].pc = "up" /\ dotenv.version > 0 /\ proc[p].seen # dotenv.version
  /\ proc' = [proc EXCEPT ![p].seen = dotenv.version, ![p].pc = IF proc[p].seen = Nil THEN "up" ELSE "reload"]
  /\ missed' = IF proc[p].seen = Nil /\ proc[p].loaded # dotenv.version THEN missed \cup {p} ELSE missed
  /\ NoFault /\ SameFiles /\ UNCHANGED dotenv

\* reload_runtime_config: .env into the environment, over the overrides; a file that cannot
\* be read is not tried again.
ApplyEnv(p) ==
  /\ proc[p].pc = "reload" /\ SameFiles /\ UNCHANGED dotenv
  /\ \/ NoFault /\ proc' = [proc EXCEPT ![p] = [WithDotenv(@) EXCEPT !.pc = "settings"]] /\ UNCHANGED missed
     \/ Fault /\ proc' = [proc EXCEPT ![p].pc = "up"] /\ missed' = missed \cup {p}

\* Then the settings, which put the overrides over it again.
ReloadSettings(p) ==
  /\ proc[p].pc = "settings"
  /\ proc' = [proc EXCEPT ![p] = [Settled(@, file["configuration"].vals) EXCEPT !.pc = "up"]]
  /\ missed' = IF proc[p].loaded = dotenv.version THEN missed \ {p} ELSE missed
  /\ NoFault /\ SameFiles /\ UNCHANGED dotenv

-----------------------------------------------------------------------------
Init ==
  /\ scene \in Scenes /\ todo = scene.todo /\ left = scene.left
  /\ file = [f \in Files |-> Absent(f)] /\ dotenv = [of |-> None, version |-> 0]
  /\ proc = [p \in Procs |-> [outside |-> None, env |-> None, applied |-> None, base |-> [k \in Keys |-> Unset],
                              runs |-> None, loaded |-> 0, seen |-> Nil, pc |-> "up"]]
  /\ call = [a \in Admins |-> NoCall] /\ undone = FALSE /\ raced = FALSE /\ missed = {}

Next ==
  \/ \E a \in Admins : LookAt(a) \/ Before(a) \/ Check(a) \/ Write(a) \/ Audit(a) \/ Restore(a)
  \/ \E p \in scene.used : Restart(p) \/ Watch(p) \/ ApplyEnv(p) \/ ReloadSettings(p)
  \/ EditEnv

Spec == Init /\ [][Next]_vars

-----------------------------------------------------------------------------
\* An update is made of what its administrator saw, though others come and go between his
\* look and his request, and if it fails what is restored is what it replaced: as long as
\* no other update was taken back and no two processes wrote at once.
ReplacesWhatWasSeen ==
  ~undone /\ ~raced => \A a \in Admins :
    call[a].pc \in {"write", "audit", "restore"} => call[a].from = call[a].seen /\ call[a].before = call[a].from

\* configuration_catalog_snapshot: what the page says an item will be after a restart.
Effective(q, k) == IF q.env[k] # Nil THEN q.env[k] ELSE Default
Promised(q, k) ==
  LET vals == file["configuration"].vals IN
  IF vals[k] # Nil THEN vals[k]
  ELSE IF q.applied[k] # Nil THEN IF q.base[k] \notin {Nil, Unset} THEN q.base[k] ELSE Default
  ELSE Effective(q, k)

\* The page is right: a restart gives what it promises.  With a watched .env that is so for
\* items that are overridden, and for those that the file sets once it was read.
CatalogIsTrue ==
  \A p \in Procs, k \in Keys :
    LET q == proc[p]
        after == Started(q.outside) IN
    q.pc = "up" /\ (~scene.hot \/ file["configuration"].vals[k] # Nil
                    \/ (dotenv.of[k] # Nil /\ q.loaded = dotenv.version /\ q.applied[k] = Nil)) =>
      Effective(after, k) = Promised(q, k)

\* An override that was taken wins over the .env file however often that is read, and the
\* modules use what the environment says.
OverridesWin ==
  \A p \in Procs : LET q == proc[p] IN
    q.pc = "up" => /\ \A k \in Keys : q.applied[k] # Nil => q.env[k] = q.applied[k]
                   /\ q.runs = q.env

\* An edit that the watch has seen was read, except one before its first look and one
\* whose reading failed.
EditsAreRead ==
  \A p \in Procs : LET q == proc[p] IN
    scene.hot /\ q.pc = "up" /\ q.seen = dotenv.version /\ p \notin missed => q.loaded = dotenv.version

ConfigurationIsSound == ReplacesWhatWasSeen /\ CatalogIsTrue /\ OverridesWin /\ EditsAreRead
=============================================================================
