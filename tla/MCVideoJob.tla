----------------------------- MODULE MCVideoJob -----------------------------
(***************************************************************************)
(* Instances of VideoJob for TLC.  Every fault and every request is        *)
(* bounded by its quota; a kind that is not named has quota 0.             *)
(***************************************************************************)
EXTENDS VideoJob, TLC

Quotas(q) == q @@ [k \in Kinds |-> 0]

\* Failing batches, a cancellation, a rejected upload, a failed enqueue and a
\* stalled heartbeat.
RunQuota == Quotas([infer |-> 3, cancel |-> 1, stage |-> 1, send |-> 1, stall |-> 1])

\* One pause and one resume, what rolls their handlers back, a stalled heartbeat and
\* a failing batch.
PauseQuota == Quotas([pause |-> 1, resume |-> 1, audit |-> 1, send |-> 1, stall |-> 1, infer |-> 1])

\* A failing archive, a cancellation that may be rolled back, a crash and
\* failures of the store.
CrashQuota == Quotas([archive |-> 1, cancel |-> 1, audit |-> 1, crash |-> 1, read |-> 1, write |-> 1])

\* One kind of fault or request.
CancelQuota == Quotas([cancel |-> 1])
InferQuota  == Quotas([infer |-> 3])
=============================================================================
