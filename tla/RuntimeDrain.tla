---------------------------- MODULE RuntimeDrain ----------------------------
(***************************************************************************)
(* The release gate of one worker, src/app/runtime.py, and the end of its  *)
(* life in src/app/api/server.py: who is counted as an accepted task, and  *)
(* how shutdown drains, cancels and waits.                                 *)
(*                                                                         *)
(* A request is one POST that may start a task: a creation, which counts   *)
(* the task before it has the thread's lock, or a continuation (an answer) *)
(* or child, which count and start in one step.  Nothing of the task       *)
(* itself matters but when it ends.                                        *)
(***************************************************************************)
EXTENDS Integers, FiniteSets

CONSTANTS Posts, Threads

ASSUME DrainConstantsOK == Threads # {}

VARIABLES
    phase,      \* "serving", "draining" (wait_for_idle), "stopping" (gather) or "stopped"
    activeTasks,     \* _active_tasks
    idle,       \* wait_for_idle returned True
    request,    \* request[r]: "new", "counted", "replacing" (awaiting a cancelled task), "over"
    target,     \* target[r]: the thread of a creation, and the task it replaces
    job,        \* job[r]: the asyncio task that r started
    record,     \* record[t]: whose task records[t] holds, or none
    leaked      \* history: creations that were refused after they were counted

drainVars == <<phase, activeTasks, idle, request, target, job, record, leaked>>

Nobody == "nobody"
Alive(r) == job[r] \in {"running", "cancelling"}
With(s) == {r \in Posts : request[r] = s}

-----------------------------------------------------------------------------
(* begin_task and finish_task *)

\* Rollback, canary buckets and draining refuse; the first two may at any time.
BeginTask == activeTasks' = activeTasks + 1
FinishTask == activeTasks' = IF activeTasks = 0 THEN 0 ELSE activeTasks - 1

Over(r) == request' = [request EXCEPT ![r] = "over"]

\* create_task up to the thread's lock.
AcceptCreate(r, t) ==
    /\ phase = "serving" /\ request[r] = "new"
    /\ \/ BeginTask /\ request' = [request EXCEPT ![r] = "counted"]
       \/ Over(r) /\ UNCHANGED activeTasks
    /\ target' = [target EXCEPT ![r].thread = t]
    /\ UNCHANGED <<phase, idle, job, record, leaked>>

ThreadLocked(t) == \E r \in Posts : request[r] = "replacing" /\ target[r].thread = t

\* r has the thread's lock, and the task it replaces, if any, has ended.
Entered(r) == request[r] = "counted" /\ ~ThreadLocked(target[r].thread)
Replaced(r) == request[r] = "replacing" /\ ~Alive(target[r].old)

\* A tombstone, a terminal snapshot, another worker's owner lock, or an error of the socket or
\* the directory: all of it before the `try`, so nobody calls finish_task, and the last three
\* also strike after a replacement.
RefuseCreate(r) ==
    /\ Entered(r) \/ Replaced(r)
    /\ Over(r) /\ leaked' = leaked + 1
    /\ UNCHANGED <<phase, activeTasks, idle, target, job, record>>

\* The running task of the thread is dropped, cancelled and awaited.
ReplaceTask(r) ==
    /\ Entered(r)
    /\ LET old == record[target[r].thread]
       IN  /\ old # Nobody /\ Alive(old)
           /\ job' = [job EXCEPT ![old] = "cancelling"]
           /\ target' = [target EXCEPT ![r].old = old]
    /\ record' = [record EXCEPT ![target[r].thread] = Nobody]
    /\ request' = [request EXCEPT ![r] = "replacing"]
    /\ UNCHANGED <<phase, activeTasks, idle, leaked>>

\* The `try` of create_task: the done callback takes the count over, a failure gives it back.
Started(r, t) ==
    /\ job' = [job EXCEPT ![r] = "running"]
    /\ record' = [record EXCEPT ![t] = r]
\* The `except` of that `try` without its finish_task.
StartCreateForgets(r) ==
    LET t == target[r].thread IN
    /\ Replaced(r) \/ (Entered(r) /\ (record[t] # Nobody => ~Alive(record[t])))
    /\ \/ Started(r, t) /\ UNCHANGED activeTasks
       \/ UNCHANGED <<activeTasks, job, record>>
    /\ Over(r)
    /\ UNCHANGED <<phase, idle, target, leaked>>
StartCreate(r) ==
    LET t == target[r].thread IN
    /\ Replaced(r) \/ (Entered(r) /\ (record[t] # Nobody => ~Alive(record[t])))
    /\ \/ Started(r, t) /\ UNCHANGED activeTasks
       \/ FinishTask /\ UNCHANGED <<job, record>>
    /\ Over(r)
    /\ UNCHANGED <<phase, idle, target, leaked>>

\* rerun, relaxation and clarification count and start without an await in between, on a thread
\* whose record they replace; the task that asked may still be on its way out.
StartAtOnce(r, t) ==
    /\ phase = "serving" /\ request[r] = "new" /\ ~ThreadLocked(t)
    /\ \/ BeginTask /\ Started(r, t)
       \/ UNCHANGED <<activeTasks, job, record>>
    /\ Over(r)
    /\ UNCHANGED <<phase, idle, target, leaked>>

-----------------------------------------------------------------------------
(* Tasks *)

\* A task that cannot persist its timeline drops its record before it has ended.
DropRecord(r) ==
    /\ Alive(r)
    /\ \E t \in Threads : record[t] = r /\ record' = [record EXCEPT ![t] = Nobody]
    /\ UNCHANGED <<phase, activeTasks, idle, request, target, job, leaked>>

JobEnds(r) ==
    /\ Alive(r)
    /\ job' = [job EXCEPT ![r] = "ended"]
    /\ UNCHANGED <<phase, activeTasks, idle, request, target, record, leaked>>

\* _runtime_task_done, called by the loop after the task has ended.
JobCallback(r) ==
    /\ job[r] = "ended"
    /\ job' = [job EXCEPT ![r] = "released"]
    /\ FinishTask
    /\ UNCHANGED <<phase, idle, request, target, record, leaked>>

-----------------------------------------------------------------------------
(* Shutdown: the server closes the requests, then the lifespan goes on *)

BeginDrain ==
    /\ phase = "serving" /\ With("counted") \cup With("replacing") = {}
    /\ phase' = "draining"
    /\ UNCHANGED <<activeTasks, idle, request, target, job, record, leaked>>

\* Idle, or shutdown_grace_seconds are over: the tasks of the records are cancelled.
Recorded == {r \in Posts : \E t \in Threads : record[t] = r}
DrainOverWithoutCancel ==
    /\ phase = "draining"
    /\ idle' \in {FALSE, activeTasks = 0}
    /\ phase' = "stopping"
    /\ UNCHANGED <<activeTasks, request, target, job, record, leaked>>
DrainOver ==
    /\ phase = "draining"
    /\ idle' \in {FALSE, activeTasks = 0}
    /\ job' = [r \in Posts |-> IF r \in Recorded /\ Alive(r) THEN "cancelling" ELSE job[r]]
    /\ phase' = "stopping"
    /\ UNCHANGED <<activeTasks, request, target, record, leaked>>

\* gather: every task that was cancelled is awaited.
Stop ==
    /\ phase = "stopping" /\ \A r \in Posts : job[r] # "cancelling"
    /\ phase' = "stopped"
    /\ UNCHANGED <<activeTasks, idle, request, target, job, record, leaked>>

DrainInit ==
    /\ phase = "serving" /\ activeTasks = 0 /\ idle = FALSE /\ leaked = 0
    /\ request = [r \in Posts |-> "new"]
    /\ target = [r \in Posts |-> [thread |-> CHOOSE t \in Threads : TRUE, old |-> Nobody]]
    /\ job = [r \in Posts |-> "none"]
    /\ record = [t \in Threads |-> Nobody]

DrainNext ==
    \/ \E r \in Posts, t \in Threads : AcceptCreate(r, t) \/ StartAtOnce(r, t)
    \/ \E r \in Posts :
          \/ RefuseCreate(r) \/ ReplaceTask(r) \/ StartCreate(r)
          \/ DropRecord(r) \/ JobEnds(r) \/ JobCallback(r)
    \/ BeginDrain \/ DrainOver \/ Stop

DrainSpec == DrainInit /\ [][DrainNext]_drainVars

\* The grace period ends, a cancelled task ends, and the lifespan goes on; a task that was not
\* cancelled may run for ever.
DrainFairness ==
    /\ WF_drainVars(DrainOver) /\ WF_drainVars(Stop)
    /\ \A r \in Posts : WF_drainVars(job[r] = "cancelling" /\ JobEnds(r))

-----------------------------------------------------------------------------
(* Properties *)

DrainTypeOK ==
    /\ phase \in {"serving", "draining", "stopping", "stopped"}
    /\ activeTasks \in Nat /\ leaked \in Nat /\ idle \in BOOLEAN
    /\ request \in [Posts -> {"new", "counted", "replacing", "over"}]
    /\ target \in [Posts -> [thread : Threads, old : Posts \cup {Nobody}]]
    /\ job \in [Posts -> {"none", "running", "cancelling", "ended", "released"}]
    /\ record \in [Threads -> Posts \cup {Nobody}]

\* The drain counts what it has to wait for, exactly but for the creations that were refused
\* after they were counted, before or after they replaced a task: these are never given back.
\* So a drain that finds the worker idle leaves no task behind, cancelled, replaced or
\* dropped ones included.
Outstanding ==
    {r \in Posts : request[r] \in {"counted", "replacing"} \/ Alive(r) \/ job[r] = "ended"}
CountExplained ==
    /\ activeTasks = Cardinality(Outstanding) + leaked
    /\ idle => Outstanding = {}

\* Shutdown comes to its end once it has begun, also when the count never returns to zero or a
\* task hangs, and then runs nothing that a record still knows.
ShutdownEnds == phase = "draining" ~> phase = "stopped" /\ \A r \in Recorded : ~Alive(r)

=============================================================================
