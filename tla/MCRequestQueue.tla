--------------------------- MODULE MCRequestQueue ---------------------------
(* Instances of RequestQueue for TLC. *)
EXTENDS RequestQueue, TLC

CONSTANTS r1, r2, r3, r4

\* Every request has the standard priority, as in _execute_task.
StandardPriority == [r \in Requests |-> 5]
=============================================================================
