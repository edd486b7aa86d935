---------------------------- MODULE ResearchTask ----------------------------
(***************************************************************************)
(* What the coordinator promises of one research task, without workers,    *)
(* locks, handlers or files: a run is started, may stop to ask one         *)
(* question at a time, and settles once; only deletion follows a settled   *)
(* run.  TaskLifecycle is shown to implement this module.                  *)
(*                                                                         *)
(* One exception is kept because the code has it: a run closed as          *)
(* interrupted may still be replaced.  create_task decides that the active *)
(* run may be replaced, then awaits its cancellation; when that run dies   *)
(* without an event, a history scan in the meantime closes it, and the     *)
(* waiting create replaces it all the same.                                *)
(***************************************************************************)
EXTENDS Naturals

VARIABLES
    phase,  \* where the task stands
    run     \* the number of runs started

Settled == {"completed", "failed", "cancelled", "interrupted"}

Init == phase = "absent" /\ run = 0

Start ==
    /\ phase \in {"absent", "running", "awaiting", "interrupted"}
    /\ phase' = "running" /\ run' = run + 1

Ask == phase = "running" /\ phase' = "awaiting" /\ UNCHANGED run

Answer == phase = "awaiting" /\ phase' = "running" /\ UNCHANGED run

Settle ==
    /\ \/ phase = "running" /\ phase' \in Settled
       \/ phase = "awaiting" /\ phase' = "cancelled"
    /\ UNCHANGED run

Delete == phase # "deleted" /\ phase' = "deleted" /\ UNCHANGED run

Next == Start \/ Ask \/ Answer \/ Settle \/ Delete

Spec == Init /\ [][Next]_<<phase, run>>
=============================================================================
