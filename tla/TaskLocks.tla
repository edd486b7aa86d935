----------------------------- MODULE TaskLocks -----------------------------
(***************************************************************************)
(* The two locks around a command on a task, src/app/api/server.py: the    *)
(* asyncio lock of the thread, one per worker, kept in task_locks until a  *)
(* deletion drops it, and inside it the command flock, which all workers   *)
(* share.  flock(2) is called without LOCK_NB: while it waits, the event   *)
(* loop of the worker runs nothing else, and a clarification awaits its    *)
(* broadcast while it holds the flock.                                     *)
(*                                                                         *)
(* Here the steps are those of the event loops; what a command does to the *)
(* task is in TaskLifecycle and ResearchLineage.  A visit is one request   *)
(* in its handler, numbered in the order of arrival.                       *)
(***************************************************************************)
EXTENDS Integers, Sequences

CONSTANTS
    ApiWorkers,
    TaskIds,
    Arrivals,       \* the requests that may arrive, with their workers
    MaxVisits       \* bound: requests that arrive

Operations == {"other", "clarify", "child", "delete"}

ASSUME TaskLocksOK == MaxVisits \in Nat /\ Arrivals \subseteq ApiWorkers \X Operations

VARIABLES
    taskLocks,      \* taskLocks[w][x]: the lock in task_locks of w, 0 if there is none
    visits,         \* visits[v]: the request v, see VisitRecords
    taskFolder,     \* taskFolder[x]: the directory is "kept", "fenced" by a tombstone or "gone"
    failedDeletes   \* history: where a deletion dropped the lock of a thread it left in place

locksVars == <<taskLocks, visits, taskFolder, failedDeletes>>

\* A lock is known by the visit that made it.
Locks == 0 .. MaxVisits
VisitRecords ==
    [at : {"queued", "running", "flock", "emitting", "awaiting", "over"},
     op : Operations, worker : ApiWorkers, thread : TaskIds,
     lock : Locks]

At(v, places) == visits[v].at \in places
Inside(v) == At(v, {"running", "flock", "emitting", "awaiting"})
HoldsFlock(v) == At(v, {"emitting"})

\* The handler that has not given its event loop back.
LoopFree(w) ==
    \A v \in DOMAIN visits : visits[v].worker = w => ~At(v, {"running", "flock"})

FlockFree(x) == \A v \in DOMAIN visits : visits[v].thread = x => ~HoldsFlock(v)

Move(v, place) == visits' = [visits EXCEPT ![v].at = place]

-----------------------------------------------------------------------------
(* asyncio.Lock: first come, first served *)

\* No visit is inside l, and none before v waits for it.
TurnOf(v, l) ==
    \A u \in DOMAIN visits : visits[u].lock = l =>
        ~Inside(u) /\ (u < v => ~At(u, {"queued"}))

\* _task_lock makes the lock of a thread that has none; a free lock is taken without a yield.
Arrive(w, x, op) ==
    LET v == Len(visits) + 1
        l == IF taskLocks[w][x] = 0 THEN v ELSE taskLocks[w][x]
    IN  /\ v <= MaxVisits /\ LoopFree(w)
        /\ taskLocks' = [taskLocks EXCEPT ![w][x] = l]
        /\ visits' = Append(visits,
                [at |-> IF TurnOf(v, l) THEN "running" ELSE "queued",
                 op |-> op, worker |-> w, thread |-> x, lock |-> l])
        /\ UNCHANGED <<taskFolder, failedDeletes>>

Enter(v) ==
    /\ At(v, {"queued"}) /\ LoopFree(visits[v].worker) /\ TurnOf(v, visits[v].lock)
    /\ Move(v, "running")
    /\ UNCHANGED <<taskLocks, taskFolder, failedDeletes>>

-----------------------------------------------------------------------------
(* Handlers *)

\* get_task, create_task, cancel_task and the admission of a socket, which may await.
Other(v) ==
    /\ At(v, {"running"}) /\ visits[v].op = "other"
    /\ Move(v, "awaiting") \/ Move(v, "over")
    /\ UNCHANGED <<taskLocks, taskFolder, failedDeletes>>

\* clarify_task without a directory and a child of no parent take no flock; after the removal a
\* child of a parent that is still in the records takes a flock on a new file, which is free.
Command(v) ==
    /\ At(v, {"running"}) /\ visits[v].op \in {"clarify", "child"}
    /\ Move(v, IF taskFolder[visits[v].thread] = "gone" THEN "over" ELSE "flock")
    /\ UNCHANGED <<taskLocks, taskFolder, failedDeletes>>

\* A clarification that is accepted emits; one that is repeated, refused or fenced, and a child,
\* answer without an await.
TakeFlock(v) ==
    /\ At(v, {"flock"}) /\ FlockFree(visits[v].thread)
    /\ \/ /\ visits[v].op = "clarify" /\ taskFolder[visits[v].thread] = "kept"
          /\ Move(v, "emitting")
       \/ Move(v, "over")
    /\ UNCHANGED <<taskLocks, taskFolder, failedDeletes>>

\* The finally of delete_task, whatever the outcome.
DropLock(v) ==
    LET w == visits[v].worker  x == visits[v].thread
    IN  taskLocks' = [taskLocks EXCEPT ![w][x] = IF @ = visits[v].lock THEN 0 ELSE @]
LeftInPlace(v) ==
    failedDeletes' = IF taskFolder[visits[v].thread] = "gone" THEN failedDeletes
                     ELSE failedDeletes \cup {<<visits[v].worker, visits[v].thread>>}

\* What was awaited is there: the emit of a clarification returned or raised.
GoOnDropsLock(v) ==
    /\ At(v, {"emitting", "awaiting"}) /\ visits[v].op # "delete"
    /\ LoopFree(visits[v].worker)
    /\ Move(v, "over") /\ DropLock(v)
    /\ UNCHANGED <<taskFolder, failedDeletes>>
GoOn(v) ==
    /\ At(v, {"emitting", "awaiting"}) /\ visits[v].op # "delete"
    /\ LoopFree(visits[v].worker)
    /\ Move(v, "over")
    /\ UNCHANGED <<taskLocks, taskFolder, failedDeletes>>

\* Another shopper's task, or a tombstone that cannot be written.
RefuseDelete(v) ==
    /\ At(v, {"running"}) /\ visits[v].op = "delete"
    /\ Move(v, "over") /\ DropLock(v) /\ LeftInPlace(v)
    /\ UNCHANGED taskFolder

\* The tombstone; the task and the connection's lock are awaited.
Fence(v) ==
    /\ At(v, {"running"}) /\ visits[v].op = "delete"
    /\ taskFolder' = [taskFolder EXCEPT ![visits[v].thread] = IF @ = "kept" THEN "fenced" ELSE @]
    /\ Move(v, "awaiting")
    /\ UNCHANGED <<taskLocks, failedDeletes>>

\* The directory is removed with the lock files, or stays behind the tombstone.
Remove(v) ==
    /\ At(v, {"awaiting"}) /\ visits[v].op = "delete" /\ LoopFree(visits[v].worker)
    /\ \/ taskFolder' = [taskFolder EXCEPT ![visits[v].thread] = "gone"] /\ UNCHANGED failedDeletes
       \/ LeftInPlace(v) /\ UNCHANGED taskFolder
    /\ Move(v, "over") /\ DropLock(v)

VisitSteps(v) ==
    \/ Enter(v) \/ Other(v) \/ Command(v) \/ TakeFlock(v) \/ GoOn(v)
    \/ RefuseDelete(v) \/ Fence(v) \/ Remove(v)

LocksInit ==
    /\ taskLocks = [w \in ApiWorkers |-> [x \in TaskIds |-> 0]]
    /\ visits = <<>> /\ failedDeletes = {}
    /\ taskFolder = [x \in TaskIds |-> "kept"]

LocksNext ==
    \/ \E to \in Arrivals, x \in TaskIds : Arrive(to[1], x, to[2])
    \/ \E v \in DOMAIN visits : VisitSteps(v)

LocksSpec == LocksInit /\ [][LocksNext]_locksVars

\* A loop that is free runs what is ready, a flock that is free is granted, and a broadcast, a
\* cancelled task and a closed connection return.
LocksFairness ==
    \A v \in 1 .. MaxVisits : WF_locksVars(v \in DOMAIN visits /\ VisitSteps(v))

FairLocksSpec == LocksSpec /\ LocksFairness

-----------------------------------------------------------------------------
(* Properties *)

LocksTypeOK ==
    /\ taskLocks \in [ApiWorkers -> [TaskIds -> Locks]]
    /\ visits \in Seq(VisitRecords) /\ Len(visits) <= MaxVisits
    /\ taskFolder \in [TaskIds -> {"kept", "fenced", "gone"}]
    /\ failedDeletes \subseteq ApiWorkers \X TaskIds

\* u waits in flock, with its whole worker, for v.
WaitsFor(u, v) ==
    At(u, {"flock"}) /\ HoldsFlock(v) /\ visits[u].thread = visits[v].thread

\* The workers of S block on each other, and none of them will ever run again.
StuckTogether(S) ==
    /\ S # {}
    /\ \A w \in S : \E u, v \in DOMAIN visits :
            visits[u].worker = w /\ visits[v].worker \in S /\ WaitsFor(u, v)

\* No set of workers blocks on the command flocks they hold themselves: a command, repeated or
\* not, reaches its answer whichever worker it is sent to.
CommandsSerialize == \A S \in SUBSET ApiWorkers : ~StuckTogether(S)

\* A worker blocks on a flock that it holds itself only after a deletion that left the thread in
\* place and dropped its lock there.  A deletion that removes the thread does no such thing,
\* whatever waits for the lock when it is dropped, whatever arrives next, and whatever the other
\* workers do to the thread meanwhile.
OwnFlockOnlyAfterFailedDelete == \A u, v \in DOMAIN visits :
    WaitsFor(u, v) /\ visits[u].worker = visits[v].worker =>
        <<visits[u].worker, visits[u].thread>> \in failedDeletes

Excused(S) ==
    /\ StuckTogether(S)
    /\ \A u, v \in DOMAIN visits :
            WaitsFor(u, v) /\ visits[u].worker = visits[v].worker =>
                <<visits[u].worker, visits[u].thread>> \in failedDeletes
\* Every request is answered, those that waited for a dropped lock included, unless workers are
\* stuck: each on another's flock, or one on its own after a deletion that left the thread in place
\* and dropped its lock there.  A deletion that removes the thread does no such thing, whatever
\* waits for the lock when it is dropped and whatever arrives next.  As only so many requests
\* arrive, all of them are answered at some time, or else some never are.
HandlersAnswered ==
    []<>((\A v \in DOMAIN visits : At(v, {"over"})) \/ \E S \in SUBSET ApiWorkers : Excused(S))
=============================================================================
