---------------------------- MODULE MCTaskLocks ----------------------------
(* Two workers for TLC. *)
EXTENDS TaskLocks, TLC

CONSTANTS w1, w2

\* One worker gets every request, the other answers only.
OneBusyWorker == ({w1} \X Operations) \cup {<<w2, "clarify">>}

\* Both get the commands; nothing is deleted.
OnlyCommands == ApiWorkers \X {"clarify", "child"}
=============================================================================
