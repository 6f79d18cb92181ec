--------------------------- MODULE QueueParameters ---------------------------
(***************************************************************************)
(* What both backends of portrait_task_queue are parameterised with.        *)
(***************************************************************************)
EXTENDS Naturals

CONSTANTS
  Consumers,  (* workers                                                   *)
  Messages,   (* messages                                                  *)
  MaxFaults,  (* bound on what disturbs them: crashes, stalls, failures    *)
  None        (* no message                                                *)

ASSUME BoundAssumption == MaxFaults \in Nat
ASSUME NoneAssumption  == None \notin Messages
=============================================================================
