----------------------------- MODULE MCServing -----------------------------
(***************************************************************************)
(* What serves inferences, for TLC: the dynamic batching of one model      *)
(* (InferenceScheduler) and the loaded models of a process (ModelRuntime). *)
(* They share no variable: every behaviour is a behaviour of one of them,  *)
(* the part that is chosen at the beginning.                               *)
(***************************************************************************)
EXTENDS InferenceScheduler, ModelRuntime, TLC

CONSTANTS r1, r2, r3, r4, r5, sA, sB, sC, g, t1, t2, t3, k1, k2, k3

VARIABLE part   \* the part that runs

Of(scope, priority, weight, size) ==
  [scope |-> scope, priority |-> priority, weight |-> weight, size |-> size, group |-> g]

\* Requests that fill a batch each, of two scopes; requests of one size, of
\* three scopes, one of them with a larger weight; and a mix of sizes, weights
\* and priorities.
Workloads ==
  { [r \in Requests |-> Of(IF r \in {r1, r2, r3} THEN sA ELSE sB, 0, 1, 2)],
    [r \in Requests |-> IF r = r5 THEN Of(sC, 0, 1, 1)
                        ELSE IF r \in {r1, r2} THEN Of(sA, 0, 2, 1) ELSE Of(sB, 0, 1, 1)],
    r1 :> Of(sA, 0, 2, 1) @@ r2 :> Of(sA, 0, 2, 1) @@ r3 :> Of(sB, 1, 1, 3)
      @@ r4 :> Of(sB, 0, 1, 2) @@ r5 :> Of(sC, 1, 1, 1) }

Call(op, key) == [op |-> op, key |-> key]

\* Requests for more models than may be loaded, and requests beside every
\* administrative call.
AllCalls ==
  { t1 :> Call("infer", k1) @@ t2 :> Call("infer", k2) @@ t3 :> Call("infer", k3),
    t1 :> Call("infer", k1) @@ t2 :> Call("infer", k2) @@ t3 :> Call("unload", k1),
    t1 :> Call("infer", k1) @@ t2 :> Call("infer", k1) @@ t3 :> Call("reload", k1),
    t1 :> Call("infer", k1) @@ t2 :> Call("load", k1) @@ t3 :> Call("warmup", k2) }

ServingInit ==
  /\ part \in {"scheduler", "runtime"}
  /\ Init /\ (part # "scheduler" => item = CHOOSE w \in Inputs : TRUE)
  /\ RuntimeInit /\ (part # "runtime" => work = CHOOSE w \in Calls : TRUE)

Scheduler == part = "scheduler" /\ Next /\ UNCHANGED <<part, runtimeVars>>
Models    == part = "runtime" /\ RuntimeNext /\ UNCHANGED <<part, vars>>

\* The fairness of each part.
ServingSpec ==
  /\ ServingInit /\ [][Scheduler \/ Models]_<<part, vars, runtimeVars>>
  /\ []<>(worker = "none") \/ []<><<WorkerStep>>_vars
  /\ WF_runtimeVars(Progress)

\* Whoever asked the scheduler or the runtime is answered, and a bundle that was unloaded or
\* replaced is released.
AllSettle == EverySettles /\ RuntimeSettles
=============================================================================
