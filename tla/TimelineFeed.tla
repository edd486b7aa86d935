---------------------------- MODULE TimelineFeed ----------------------------
(***************************************************************************)
(* What the viewers of one thread are promised, without locks, sockets,    *)
(* handlers or reconnects: a timeline that grows until its run settles,    *)
(* and tabs that learn of it.  A tab learns only what is recorded, forgets *)
(* nothing of the run it shows and never goes back to an earlier run; it   *)
(* stops at the end of a run whose timeline it has, and learns nothing     *)
(* more.  EventDelivery is shown to implement this module.                 *)
(*                                                                         *)
(* Two things are not promised, because the code does not keep them.  An   *)
(* event whose emit is cancelled is on disk and may be missing from a tab  *)
(* that stopped; and nobody is owed a timeline: which tabs do learn of the *)
(* end is for the liveness properties of EventDelivery.                    *)
(***************************************************************************)
EXTENDS Naturals

CONSTANT Viewers    \* the tabs that show the thread

VARIABLES
    phase,      \* the run is running or settled, or the task is being deleted or gone
    run,        \* the run of the thread
    recorded,   \* the length of its timeline
    lost,       \* events that nobody will be told of as they happen
    shown,      \* shown[v]: the run that tab v shows, 0 at first
    seen,       \* seen[v]: the events it has of that run
    stopped     \* the tabs that know the end

timeline == <<phase, run, recorded, lost>>
tabs == <<shown, seen, stopped>>

Init ==
    /\ phase = "running" /\ run = 1 /\ recorded = 0 /\ lost = {}
    /\ shown = [v \in Viewers |-> 0] /\ seen = [v \in Viewers |-> {}] /\ stopped = {}

Grow ==
    /\ phase = "running"
    /\ \/ recorded' = recorded + 1 /\ UNCHANGED phase
       \/ recorded' \in {recorded + 1, recorded + 2} /\ phase' = "settled"
    /\ UNCHANGED <<run, lost, tabs>>

\* The emits of a run may be cancelled, by its end too if that is a deletion; the outcome of a
\* run that settled is not.
Lose ==
    /\ phase \in {"running", "deleting"}
    /\ \E events \in SUBSET (1 .. recorded) : lost' = lost \cup events
    /\ UNCHANGED <<phase, run, recorded, tabs>>

\* Only a run that has not settled is replaced; what tabs have of it stays with it.
Replace ==
    /\ phase = "running"
    /\ run' = run + 1 /\ recorded' = 0 /\ lost' = {}
    /\ UNCHANGED <<phase, tabs>>

Delete == phase \in {"running", "settled"} /\ phase' = "deleting" /\ UNCHANGED <<run, recorded, lost, tabs>>

Remove == phase = "deleting" /\ phase' = "gone" /\ UNCHANGED <<run, recorded, lost, tabs>>

Complete(v) == phase # "running" /\ 1 .. recorded \subseteq seen'[v] \cup lost

\* Tab v is told something of the run there is, or of its end.  Nobody learns anything of a task
\* that is gone.
Learn(v) ==
    /\ v \notin stopped /\ phase # "gone"
    /\ shown' = [shown EXCEPT ![v] = run]
    /\ \E events \in SUBSET (1 .. recorded) :
          seen' = [seen EXCEPT ![v] = IF shown[v] = run THEN @ \cup events ELSE events]
    /\ stopped' = stopped \/ (Complete(v) /\ stopped' = stopped \cup {v})
    /\ UNCHANGED timeline

Next == Grow \/ Lose \/ Replace \/ Delete \/ Remove \/ \E v \in Viewers : Learn(v)

Spec == Init /\ [][Next]_<<timeline, tabs>>
=============================================================================
