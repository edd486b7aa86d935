--------------------------- MODULE TaskLifecycle ---------------------------
(***************************************************************************)
(* The durable life of one research task (one thread id) in the task       *)
(* coordinator, src/app/api/server.py.  Threads never share state with one *)
(* another, so one thread is enough; the processes that do share it are    *)
(* the API workers, which see the same output directory and nothing else   *)
(* of each other.                                                          *)
(*                                                                         *)
(* On disk: the snapshot task.json, the deletion tombstone, and the flock  *)
(* on the owner lock file.  In each worker: the TaskRecord of `records`,   *)
(* the asyncio task running `_execute`, and the request handler that holds *)
(* the thread's asyncio lock (there is at most one).                       *)
(*                                                                         *)
(* Between two awaits a worker runs alone IN ITS PROCESS, so a step here   *)
(* is the code between two awaits, except where the files are read in one  *)
(* place and written in a later one: those blocks are two steps, the       *)
(* handler is then "mid-block", and only the OTHER workers can move.       *)
(*                                                                         *)
(* A definition written just above another, with its parameters and a name *)
(* that says what is wrong with it, is a mutant: the properties are known  *)
(* to notice when it takes the place of the definition below it.           *)
(***************************************************************************)
EXTENDS Integers, Sequences

CONSTANTS
    Workers,      \* the API worker processes
    Requests,     \* the kinds of request clients send
    ReleaseGated, \* the worker is a canary or rolled back: begin_task may refuse
    MaxRuns,      \* bound: runs started on the thread
    MaxEvents,    \* bound: events after which a run takes no further progress step
    MaxFail,      \* bound: snapshot writes that raise OSError
    MaxCrash      \* bound: worker exits

ASSUME ConstantsOK ==
    /\ Requests \subseteq {"create", "clarify", "cancel", "delete", "read", "shutdown"}
    /\ ReleaseGated \in BOOLEAN
    /\ MaxRuns \in Nat /\ MaxEvents \in Nat /\ MaxFail \in Nat /\ MaxCrash \in Nat

VARIABLES
    disk,     \* task.json: a snapshot, or NoSnap
    tomb,     \* the deletion tombstone exists
    owner,    \* owner[w]: the handle through which w holds the owner flock, 0 if none
    cmd,      \* the workers (at most one) holding the command flock
    rec,      \* rec[w]: records[thread] of w, or NoRec
    tk,       \* tk[w]: the unfinished _execute task of w, or NoTask
    h,        \* h[w]: the handler in w's per-thread asyncio lock, or NoHandler
    rv,       \* rv[w]: the snapshot _load_snapshot has read and not yet acted on
    runs,     \* run ids handed out
    fails,    \* snapshot writes failed so far
    crashes   \* worker exits so far

vars == <<disk, tomb, owner, cmd, rec, tk, h, rv, runs, fails, crashes>>

-----------------------------------------------------------------------------
(* Data *)

TerminalButError == {"completed", "cancelled"}
Terminal == {"completed", "cancelled", "error"}
Statuses == Terminal \cup {"running", "awaiting", "absent"}
Kinds == {"session_created", "intent_resolved", "report_generated", "task_result",
          "task_cancelled", "clarification_required", "clarification_resolved",
          "error", "task_interrupted"}
Handles == 0 .. 4

Snapshots == [run : Nat, status : Statuses, events : Seq(Kinds)]
NoSnap == [run |-> 0, status |-> "absent", events |-> <<>>]

NoRec == [run |-> 0, snap |-> NoSnap, deleting |-> FALSE, handle |-> 0]
Executing == {"session", "queued", "told", "waiting", "run", "progress"}
NoTask == [pc |-> "none", run |-> 0, resume |-> FALSE, handle |-> 0, cancel |-> FALSE]
NoHandler == [op |-> "idle", pc |-> "idle", run |-> 0, snap |-> NoSnap,
              handle |-> 0, flag |-> FALSE]

\* The statuses in which _record_event accepts an event; "intent_resolved" stands for
\* every progress event.  task_interrupted is the `error` event of _load_snapshot.
AllowedStatuses(kind) ==
    CASE kind = "task_cancelled" -> {"running", "awaiting"}
      [] kind = "clarification_resolved" -> {"awaiting"}
      [] OTHER -> {"running"}

StatusIsKind(kind) == kind
StatusAfter(kind) ==
    CASE kind = "task_result" -> "completed"
      [] kind = "task_cancelled" -> "cancelled"
      [] kind = "clarification_required" -> "awaiting"
      [] kind \in {"error", "task_interrupted"} -> "error"
      [] OTHER -> "running"

ResultWithoutReport(kind) == <<kind>>
\* A result is recorded together with the report event that precedes it.
EventsFor(kind) ==
    IF kind = "task_result" THEN <<"report_generated", "task_result">> ELSE <<kind>>

AppendedAfresh(s, kind) == [s EXCEPT !.status = StatusAfter(kind), !.events = EventsFor(kind)]
Appended(s, kind) == [s EXCEPT !.status = StatusAfter(kind), !.events = @ \o EventsFor(kind)]

-----------------------------------------------------------------------------
(* Locks *)

\* _try_acquire_owner_lock: a flock conflicts with every other handle, this process's too.
OwnerUnchecked == TRUE
OwnerFree == \A v \in Workers : owner[v] = 0

\* A handle object no variable of w still refers to.
HandleNotKept(w) == 0
NewHandle(w) == CHOOSE n \in 1 .. 4 : n \notin {rec[w].handle, tk[w].handle, h[w].handle}

\* _release_lock_handle: closing a handle that is already closed releases nothing.
NeverClosed(own, w, n) == own
Without(own, w, n) == IF own[w] = n THEN [own EXCEPT ![w] = 0] ELSE own
Release(w, n) == owner' = Without(owner, w, n)

\* The monitor's per-thread lock is free: nobody is broadcasting a recorded event.
MonitorFree(w) ==
    /\ tk[w].pc \notin {"session", "told", "progress", "final", "cancelled"}
    /\ h[w].pc # "broadcast"

\* w is inside a block without an await: no other coroutine of w can move.
MidBlock(w) == h[w].pc \in {"own", "commit"} \/ rv[w] # NoSnap

-----------------------------------------------------------------------------
(* Reading and writing the snapshot *)

\* _task_is_deleted, evaluated under the mutation lock by every writer.
DeletionUnseen == FALSE
Deleted == tomb

\* _read_persisted_snapshot
Persisted == IF tomb THEN NoSnap ELSE disk

StorageFails == fails < MaxFail /\ fails' = fails + 1

\* The checks of _record_event, for an event emitted by a coroutine of run r.
CanRecord(w, r, kind) ==
    /\ rec[w] # NoRec /\ ~rec[w].deleting /\ ~Deleted
    /\ rec[w].run = r
    /\ rec[w].snap.status \in AllowedStatuses(kind)

\* ... and its effect: task.json is replaced first, the record afterwards.
RecordEventOnDiskOnly(w, kind) == disk' = Appended(rec[w].snap, kind) /\ UNCHANGED rec
RecordEvent(w, kind) ==
    LET s == Appended(rec[w].snap, kind)
    IN  disk' = s /\ rec' = [rec EXCEPT ![w].snap = s]

-----------------------------------------------------------------------------
(* The task: _execute around _execute_task *)

\* The `finally` of _execute.
FinishTask(w) ==
    /\ tk' = [tk EXCEPT ![w] = NoTask]
    /\ rec' = IF rec[w] # NoRec /\ rec[w].handle = tk[w].handle
              THEN [rec EXCEPT ![w].handle = 0] ELSE rec
    /\ Release(w, tk[w].handle)

\* One monitor.emit of the task.  A refused event (TaskDeletedError, or RuntimeError for a
\* superseded or settled run) ends the task; a failed write drops the record first.
TaskEmits(w, kind, next) ==
    \/ /\ CanRecord(w, tk[w].run, kind)
       /\ RecordEvent(w, kind)
       /\ tk' = [tk EXCEPT ![w].pc = next, ![w].cancel = FALSE]
       /\ UNCHANGED <<owner, fails>>
    \/ /\ CanRecord(w, tk[w].run, kind)
       /\ StorageFails
       /\ rec' = [rec EXCEPT ![w] = NoRec]
       /\ tk' = [tk EXCEPT ![w].pc = "closing", ![w].cancel = FALSE]
       /\ UNCHANGED <<disk, owner>>
    \/ /\ ~CanRecord(w, tk[w].run, kind)
       /\ FinishTask(w)
       /\ UNCHANGED <<disk, fails>>

TaskStart(w) ==
    /\ ~MidBlock(w) /\ tk[w].pc = "new" /\ ~tk[w].cancel
    /\ IF tk[w].resume
       THEN /\ tk' = [tk EXCEPT ![w].pc = "queued"]
            /\ UNCHANGED <<disk, rec, owner, fails>>
       ELSE MonitorFree(w) /\ TaskEmits(w, "session_created", "session")
    /\ UNCHANGED <<tomb, cmd, h, rv, runs, crashes>>

\* The task enters the worker's admission queue, at its head or telling its client its
\* position, and waits for a lease: the task timeout starts only after the admission.
TaskQueues(w) ==
    /\ ~MidBlock(w) /\ tk[w].pc = "queued" /\ ~tk[w].cancel
    /\ \/ /\ tk' = [tk EXCEPT ![w].pc = "waiting"]
          /\ UNCHANGED <<disk, rec, owner, fails>>
       \/ /\ MonitorFree(w) /\ Len(rec[w].snap.events) < MaxEvents
          /\ TaskEmits(w, "intent_resolved", "told")
    /\ UNCHANGED <<tomb, cmd, h, rv, runs, crashes>>

\* request_queue.acquire returns; what the queue owes its waiters is RequestQueue's subject.
TaskAdmitted(w) ==
    /\ ~MidBlock(w) /\ tk[w].pc = "waiting" /\ ~tk[w].cancel
    /\ tk' = [tk EXCEPT ![w].pc = "run"]
    /\ UNCHANGED <<disk, tomb, owner, cmd, rec, h, rv, runs, fails, crashes>>

TaskProgress(w) ==
    /\ ~MidBlock(w) /\ tk[w].pc = "run" /\ ~tk[w].cancel /\ MonitorFree(w)
    /\ Len(rec[w].snap.events) < MaxEvents
    /\ TaskEmits(w, "intent_resolved", "progress")
    /\ UNCHANGED <<tomb, cmd, h, rv, runs, crashes>>

\* run_agent returned, raised BlockingAmbiguityError, failed or timed out.
TaskOutcome(w) ==
    /\ ~MidBlock(w) /\ tk[w].pc = "run" /\ ~tk[w].cancel /\ MonitorFree(w)
    /\ \/ TaskEmits(w, "task_result", "final")
       \/ TaskEmits(w, "error", "final")
       \/ Len(rec[w].snap.events) < MaxEvents /\ TaskEmits(w, "clarification_required", "final")
    /\ UNCHANGED <<tomb, cmd, h, rv, runs, crashes>>

\* CancelledError is delivered.  A task that never started is dropped by asyncio without
\* running a line of it: no event, and its owner handle stays open.
TaskCancelled(w) ==
    /\ ~MidBlock(w) /\ tk[w].cancel
    /\ \/ /\ tk[w].pc = "new"
          /\ tk' = [tk EXCEPT ![w] = NoTask]
          /\ UNCHANGED <<disk, rec, owner, fails>>
       \/ /\ tk[w].pc \in Executing
          /\ h[w].pc # "broadcast"
          /\ IF rec[w].snap.status = "running"
             THEN TaskEmits(w, "task_cancelled", "cancelled")
             ELSE FinishTask(w) /\ UNCHANGED <<disk, fails>>
    /\ UNCHANGED <<tomb, cmd, h, rv, runs, crashes>>

AfterBroadcast == [session |-> "queued", told |-> "waiting", progress |-> "run"]

\* The broadcast returns (or is cut off, when the event already settled the run), or the
\* record was dropped and the socket closed.
TaskBroadcastDone(w) ==
    /\ ~MidBlock(w)
    /\ \/ /\ tk[w].pc \in {"session", "told", "progress"} /\ ~tk[w].cancel
          /\ tk' = [tk EXCEPT ![w].pc = AfterBroadcast[@]]
          /\ UNCHANGED <<rec, owner>>
       \/ tk[w].pc \in {"final", "cancelled", "closing"} /\ FinishTask(w)
    /\ UNCHANGED <<disk, tomb, cmd, h, rv, runs, fails, crashes>>

TaskStep(w) ==
    \/ TaskStart(w) \/ TaskQueues(w) \/ TaskAdmitted(w) \/ TaskProgress(w)
    \/ TaskOutcome(w) \/ TaskCancelled(w) \/ TaskBroadcastDone(w)

-----------------------------------------------------------------------------
(* Request handlers.  A handler that refuses at once changes nothing and has no step. *)

HandlerFree(w) == h[w].pc = "idle" /\ ~MidBlock(w)

Arrives(w, op) == op \in Requests /\ HandlerFree(w)

\* create_task: a settled run may not be replaced, an active one is cancelled and awaited.
CreateStart(w) ==
    /\ Arrives(w, "create") /\ runs < MaxRuns /\ ~Deleted
    /\ rec[w].snap.status \notin Terminal
    /\ rec[w] = NoRec => Persisted.status \notin Terminal
    /\ IF rec[w] # NoRec /\ tk[w].pc # "none"
       THEN /\ rec' = [rec EXCEPT ![w] = NoRec]
            /\ tk' = [tk EXCEPT ![w].cancel = TRUE]
            /\ h' = [h EXCEPT ![w] = [NoHandler EXCEPT !.op = "create", !.pc = "wait",
                                                      !.handle = rec[w].handle]]
       ELSE /\ h' = [h EXCEPT ![w] = [NoHandler EXCEPT !.op = "create", !.pc = "clear",
                                                      !.handle = rec[w].handle]]
            /\ UNCHANGED <<rec, tk>>
    /\ UNCHANGED <<disk, tomb, owner, cmd, rv, runs, fails, crashes>>

CreateAwaited(w) ==
    /\ h[w].op = "create" /\ h[w].pc = "wait" /\ tk[w].pc = "none" /\ ~MidBlock(w)
    /\ h' = [h EXCEPT ![w].pc = "clear"]
    /\ UNCHANGED <<disk, tomb, owner, cmd, rec, tk, rv, runs, fails, crashes>>

\* After manager.clear: note whether the task directory exists; no await until the commit.
CreateClear(w) ==
    /\ h[w].op = "create" /\ h[w].pc = "clear" /\ ~MidBlock(w)
    /\ h' = [h EXCEPT ![w].pc = "commit", ![w].flag = (disk # NoSnap)]
    /\ UNCHANGED <<disk, tomb, owner, cmd, rec, tk, rv, runs, fails, crashes>>

\* Leaving create_task drops the last reference to a replaced record and closes its handle.
CreateFails(w) ==
    /\ h' = [h EXCEPT ![w] = NoHandler]
    /\ IF rec[w].handle = h[w].handle THEN UNCHANGED owner ELSE Release(w, h[w].handle)
    /\ UNCHANGED <<rec, tk, runs>>

CreateCommit(w) ==
    /\ h[w].op = "create" /\ h[w].pc = "commit"
    /\ \/ (~OwnerFree \/ Deleted) /\ CreateFails(w) /\ UNCHANGED <<disk, fails>>
       \/ /\ OwnerFree /\ ~Deleted
          /\ LET n == NewHandle(w)
                 s == [run |-> runs + 1, status |-> "running", events |-> <<>>]
             IN  /\ disk' = s
                 /\ rec' = [rec EXCEPT ![w] = [NoRec EXCEPT !.run = s.run, !.snap = s, !.handle = n]]
                 /\ tk' = [tk EXCEPT ![w] = [NoTask EXCEPT !.pc = "new", !.run = s.run, !.handle = n]]
                 /\ owner' = [owner EXCEPT ![w] = n]
          /\ runs' = runs + 1
          /\ h' = [h EXCEPT ![w] = NoHandler]
          /\ UNCHANGED fails
       \/ /\ OwnerFree /\ ~Deleted /\ StorageFails /\ CreateFails(w)
          /\ disk' = IF h[w].flag THEN disk ELSE NoSnap
    /\ UNCHANGED <<tomb, cmd, rv, crashes>>

\* The handler takes the owner lock through a new handle, or for a task it already owns
\* the handle in the record; r is the record it will emit through.
TakeOwnership(w, r, pc) ==
    LET n == IF r.handle # 0 THEN r.handle ELSE NewHandle(w)
    IN  /\ r.handle = 0 => OwnerFree
        /\ owner' = IF r.handle # 0 THEN owner ELSE [owner EXCEPT ![w] = n]
        /\ rec' = [rec EXCEPT ![w] = [r EXCEPT !.handle = n]]
        /\ h' = [h EXCEPT ![w] = [@ EXCEPT !.pc = pc, !.run = r.run, !.handle = n,
                                           !.flag = (rec[w] = NoRec)]]

Adopted(s) == [NoRec EXCEPT !.run = s.run, !.snap = s]

\* clarify_task under the command lock: the PERSISTED snapshot decides, the record (this
\* worker's, or a new one made from the snapshot) is what the event is appended to.
ClarifyRead(w) ==
    /\ Arrives(w, "clarify") /\ cmd = {} /\ disk # NoSnap
    /\ LET s == IF Persisted # NoSnap THEN Persisted ELSE rec[w].snap
       IN  /\ s.status = "awaiting"
           /\ h' = [h EXCEPT ![w] = [NoHandler EXCEPT !.op = "clarify", !.pc = "own", !.snap = s]]
    /\ cmd' = {w}
    /\ UNCHANGED <<disk, tomb, owner, rec, tk, rv, runs, fails, crashes>>

ClarifyOwn(w) ==
    /\ h[w].op = "clarify" /\ h[w].pc = "own"
    /\ LET r == IF rec[w] = NoRec THEN Adopted(h[w].snap) ELSE rec[w]
       IN  \/ TakeOwnership(w, r, "emit") /\ UNCHANGED cmd
          \/ /\ r.handle = 0 /\ ~OwnerFree
             /\ h' = [h EXCEPT ![w] = NoHandler]
             /\ cmd' = cmd \ {w}
             /\ UNCHANGED <<rec, owner>>
    /\ UNCHANGED <<disk, tomb, tk, rv, runs, fails, crashes>>

\* The `except` of _clarify_task_locked.
ClarifyAbort(w) ==
    /\ rec' = IF h[w].flag THEN [rec EXCEPT ![w] = NoRec]
              ELSE IF rec[w].handle = h[w].handle THEN [rec EXCEPT ![w].handle = 0] ELSE rec
    /\ Release(w, h[w].handle)
    /\ h' = [h EXCEPT ![w] = NoHandler]
    /\ cmd' = cmd \ {w}

ClarifyEmit(w) ==
    /\ h[w].op = "clarify" /\ h[w].pc = "emit" /\ ~MidBlock(w) /\ MonitorFree(w)
    /\ \/ /\ CanRecord(w, h[w].run, "clarification_resolved")
          /\ RecordEvent(w, "clarification_resolved")
          /\ h' = [h EXCEPT ![w].pc = "broadcast"]
          /\ UNCHANGED <<owner, cmd, fails>>
       \/ /\ CanRecord(w, h[w].run, "clarification_resolved")
          /\ StorageFails /\ ClarifyAbort(w) /\ UNCHANGED disk
       \/ /\ ~CanRecord(w, h[w].run, "clarification_resolved")
          /\ ClarifyAbort(w) /\ UNCHANGED <<disk, fails>>
    /\ UNCHANGED <<tomb, tk, rv, runs, crashes>>

\* begin_task, then the continuation; a gated worker may refuse, with the answer recorded.
ClarifyResume(w) ==
    /\ h[w].op = "clarify" /\ h[w].pc = "broadcast" /\ ~MidBlock(w)
    /\ \/ /\ tk' = [tk EXCEPT ![w] = [NoTask EXCEPT !.pc = "new", !.run = h[w].run,
                                       !.resume = TRUE, !.handle = h[w].handle]]
          /\ h' = [h EXCEPT ![w] = NoHandler]
          /\ cmd' = cmd \ {w}
          /\ UNCHANGED <<rec, owner>>
       \/ ReleaseGated /\ ClarifyAbort(w) /\ UNCHANGED tk
    /\ UNCHANGED <<disk, tomb, rv, runs, fails, crashes>>

\* cancel_task without a record (only an awaiting snapshot goes on, see RecoverRead for a
\* running one), with an awaiting record, or with a running task to cancel and await.
CancelStart(w) ==
    /\ Arrives(w, "cancel") /\ ~Deleted /\ ~rec[w].deleting
    /\ \/ LET s == IF rec[w] = NoRec THEN Persisted ELSE rec[w].snap
          IN  /\ s.status = "awaiting"
              /\ h' = [h EXCEPT ![w] = [NoHandler EXCEPT !.op = "cancel", !.pc = "own", !.snap = s]]
              /\ UNCHANGED tk
       \/ /\ rec[w].snap.status = "running" /\ tk[w].pc # "none"
          /\ tk' = [tk EXCEPT ![w].cancel = TRUE]
          /\ h' = [h EXCEPT ![w] = [NoHandler EXCEPT !.op = "cancel", !.pc = "wait",
                                                    !.run = rec[w].run]]
    /\ UNCHANGED <<disk, tomb, owner, cmd, rec, rv, runs, fails, crashes>>

CancelOwn(w) ==
    /\ h[w].op = "cancel" /\ h[w].pc = "own"
    /\ LET r == IF rec[w] = NoRec THEN Adopted(h[w].snap) ELSE rec[w]
       IN  \/ TakeOwnership(w, r, "emit")
          \/ /\ r.handle = 0 /\ ~OwnerFree
             /\ h' = [h EXCEPT ![w] = NoHandler]
             /\ UNCHANGED <<rec, owner>>
    /\ UNCHANGED <<disk, tomb, cmd, tk, rv, runs, fails, crashes>>

\* The cancelled task ended; if it ended without an event (it had never started), the
\* handler records the cancellation itself.
CancelAwaitedSilently(w) ==
    /\ h[w].op = "cancel" /\ h[w].pc = "wait" /\ tk[w].pc = "none" /\ ~MidBlock(w)
    /\ h' = [h EXCEPT ![w] = NoHandler]
    /\ UNCHANGED <<disk, tomb, owner, cmd, rec, tk, rv, runs, fails, crashes>>

CancelAwaited(w) ==
    /\ h[w].op = "cancel" /\ h[w].pc = "wait" /\ tk[w].pc = "none" /\ ~MidBlock(w)
    /\ h' = IF rec[w].run = h[w].run /\ rec[w].snap.status = "running"
            THEN [h EXCEPT ![w].pc = "emit"] ELSE [h EXCEPT ![w] = NoHandler]
    /\ UNCHANGED <<disk, tomb, owner, cmd, rec, tk, rv, runs, fails, crashes>>

CancelRelease(w) ==
    /\ rec' = IF rec[w].handle = h[w].handle THEN [rec EXCEPT ![w].handle = 0] ELSE rec
    /\ Release(w, h[w].handle)
    /\ h' = [h EXCEPT ![w] = NoHandler]

CancelEmit(w) ==
    /\ h[w].op = "cancel" /\ h[w].pc = "emit" /\ ~MidBlock(w) /\ MonitorFree(w)
    /\ \/ /\ CanRecord(w, h[w].run, "task_cancelled")
          /\ RecordEvent(w, "task_cancelled")
          /\ h' = [h EXCEPT ![w].pc = "broadcast"]
          /\ UNCHANGED <<owner, fails>>
       \/ /\ CanRecord(w, h[w].run, "task_cancelled")
          /\ StorageFails /\ CancelRelease(w) /\ UNCHANGED disk
       \/ /\ ~CanRecord(w, h[w].run, "task_cancelled")
          /\ CancelRelease(w) /\ UNCHANGED <<disk, fails>>
    /\ UNCHANGED <<tomb, cmd, tk, rv, runs, crashes>>

CancelDone(w) ==
    /\ h[w].op = "cancel" /\ h[w].pc = "broadcast" /\ ~MidBlock(w)
    /\ CancelRelease(w)
    /\ UNCHANGED <<disk, tomb, cmd, tk, rv, runs, fails, crashes>>

\* delete_task: the tombstone first, then the worker is cancelled and awaited.
DeleteStart(w) ==
    /\ Arrives(w, "delete")
    /\ \/ /\ Deleted \/ rec[w] # NoRec \/ disk # NoSnap
          /\ tomb' = TRUE
          /\ rec' = IF rec[w] # NoRec THEN [rec EXCEPT ![w].deleting = TRUE] ELSE rec
          /\ tk' = IF rec[w] # NoRec /\ tk[w].pc # "none"
                   THEN [tk EXCEPT ![w].cancel = TRUE] ELSE tk
          /\ h' = [h EXCEPT ![w] = [NoHandler EXCEPT !.op = "delete", !.pc = "wait",
                                 !.handle = rec[w].handle, !.flag = (rec[w] # NoRec)]]
          /\ UNCHANGED fails
       \/ /\ ~Deleted /\ (rec[w] # NoRec \/ disk # NoSnap)
          /\ StorageFails
          /\ UNCHANGED <<tomb, rec, tk, h>>
    /\ UNCHANGED <<disk, owner, cmd, rv, runs, crashes>>

DeleteAwaited(w) ==
    /\ h[w].op = "delete" /\ h[w].pc = "wait" /\ ~MidBlock(w)
    /\ h[w].flag => tk[w].pc = "none"
    /\ IF rec[w].handle = h[w].handle THEN Release(w, h[w].handle) ELSE UNCHANGED owner
    /\ rec' = [rec EXCEPT ![w] = NoRec]
    /\ h' = [h EXCEPT ![w].pc = "discard"]
    /\ UNCHANGED <<disk, tomb, cmd, tk, rv, runs, fails, crashes>>

\* The directory goes; unlinking the lock files gives later openers fresh, free locks.
DeleteRemove(w) ==
    /\ h[w].op = "delete" /\ h[w].pc = "discard" /\ ~MidBlock(w)
    /\ \/ /\ disk' = IF Deleted THEN NoSnap ELSE disk
          /\ owner' = [v \in Workers |-> 0]
          /\ cmd' = {}
          /\ UNCHANGED fails
       \/ StorageFails /\ UNCHANGED <<disk, owner, cmd>>
    /\ h' = [h EXCEPT ![w] = NoHandler]
    /\ UNCHANGED <<tomb, rec, tk, rv, runs, crashes>>

HandlerStep(w) ==
    \/ CreateAwaited(w) \/ CreateClear(w) \/ CreateCommit(w)
    \/ ClarifyOwn(w) \/ ClarifyEmit(w) \/ ClarifyResume(w)
    \/ CancelOwn(w) \/ CancelAwaited(w) \/ CancelEmit(w) \/ CancelDone(w)
    \/ DeleteAwaited(w) \/ DeleteRemove(w)

-----------------------------------------------------------------------------
(* Recovery on read, retention, and the life of the process *)

\* _load_snapshot, called by every read of the thread and by history scans of other
\* threads: under the recovery lock a running snapshot this worker has no record of ...
RecoverRead(w) ==
    /\ "read" \in Requests /\ ~MidBlock(w) /\ \A v \in Workers : rv[v] = NoSnap
    /\ rec[w] = NoRec /\ Persisted.status = "running"
    /\ rv' = [rv EXCEPT ![w] = disk]
    /\ UNCHANGED <<disk, tomb, owner, cmd, rec, tk, h, runs, fails, crashes>>

\* ... is closed as task_interrupted, if the owner lock can be taken meanwhile.
RecoverWrite(w) ==
    /\ rv[w] # NoSnap
    /\ \/ (~OwnerFree \/ Deleted) /\ UNCHANGED <<disk, fails>>
       \/ /\ OwnerFree /\ ~Deleted
          /\ disk' = Appended(rv[w], "task_interrupted")
          /\ UNCHANGED fails
       \/ OwnerFree /\ ~Deleted /\ StorageFails /\ UNCHANGED disk
    /\ rv' = [rv EXCEPT ![w] = NoSnap]
    /\ UNCHANGED <<tomb, owner, cmd, rec, tk, h, runs, crashes>>

\* _prune_records, on a create of any thread: a record whose task is done and old.  While a
\* handler has adopted the snapshot, the handler itself is the record's task.
PruneRecord(w) ==
    /\ rec[w] # NoRec /\ tk[w].pc = "none" /\ ~MidBlock(w)
    /\ ~(h[w].op \in {"clarify", "cancel"} /\ h[w].flag)
    /\ rec' = [rec EXCEPT ![w] = NoRec]
    /\ Release(w, rec[w].handle)
    /\ UNCHANGED <<disk, tomb, cmd, tk, h, rv, runs, fails, crashes>>

\* The process ends: the kernel closes its handles, nothing on disk changes.
ProcessExit(w) ==
    /\ rec' = [rec EXCEPT ![w] = NoRec]
    /\ tk' = [tk EXCEPT ![w] = NoTask]
    /\ h' = [h EXCEPT ![w] = NoHandler]
    /\ rv' = [rv EXCEPT ![w] = NoSnap]
    /\ owner' = [owner EXCEPT ![w] = 0]
    /\ cmd' = cmd \ {w}
    /\ crashes' = crashes + 1
    /\ UNCHANGED <<disk, tomb, runs, fails>>

Crash(w) == crashes < MaxCrash /\ ProcessExit(w)

\* The lifespan's shutdown branch cancels what still runs, waits for it, and exits.
ShutdownStart(w) ==
    /\ Arrives(w, "shutdown") /\ crashes < MaxCrash
    /\ rec[w] # NoRec /\ tk[w].pc # "none"
    /\ tk' = [tk EXCEPT ![w].cancel = TRUE]
    /\ h' = [h EXCEPT ![w] = [NoHandler EXCEPT !.op = "shutdown", !.pc = "wait"]]
    /\ UNCHANGED <<disk, tomb, owner, cmd, rec, rv, runs, fails, crashes>>

ShutdownExit(w) ==
    /\ h[w].op = "shutdown" /\ tk[w].pc = "none" /\ ~MidBlock(w)
    /\ ProcessExit(w)

-----------------------------------------------------------------------------
Init ==
    /\ disk = NoSnap /\ tomb = FALSE /\ cmd = {}
    /\ owner = [w \in Workers |-> 0]
    /\ rec = [w \in Workers |-> NoRec]
    /\ tk = [w \in Workers |-> NoTask]
    /\ h = [w \in Workers |-> NoHandler]
    /\ rv = [w \in Workers |-> NoSnap]
    /\ runs = 0 /\ fails = 0 /\ crashes = 0

Next == \E w \in Workers :
    \/ TaskStep(w) \/ HandlerStep(w)
    \/ CreateStart(w) \/ ClarifyRead(w) \/ CancelStart(w) \/ DeleteStart(w)
    \/ RecoverRead(w) \/ RecoverWrite(w) \/ PruneRecord(w)
    \/ Crash(w) \/ ShutdownStart(w) \/ ShutdownExit(w)

Spec == Init /\ [][Next]_vars

\* The event loop is first-in first-out, so a coroutine that becomes ready again and again is
\* run (strong fairness); an ADMITTED agent ends within task_timeout_seconds, a broadcast
\* within its send timeout, and clients keep polling.  The admission is not owed (acquire has
\* no timeout), nor are other requests, crashes and retention.
Fairness == \A w \in Workers :
    /\ SF_vars(\/ TaskStart(w) \/ TaskQueues(w) \/ TaskOutcome(w)
               \/ TaskCancelled(w) \/ TaskBroadcastDone(w))
    /\ SF_vars(HandlerStep(w))
    /\ SF_vars(RecoverRead(w))
    /\ WF_vars(RecoverWrite(w))
    /\ SF_vars(ShutdownExit(w))

FairSpec == Spec /\ Fairness

-----------------------------------------------------------------------------
(* Properties *)

Records == [run : Nat, snap : Snapshots, deleting : BOOLEAN, handle : Handles]
Tasks == [pc : {"none", "new", "final", "cancelled", "closing"} \cup Executing,
          run : Nat, resume : BOOLEAN, handle : Handles, cancel : BOOLEAN]
Handlers == [op : {"idle", "create", "clarify", "cancel", "delete", "shutdown"},
             pc : {"idle", "wait", "clear", "commit", "own", "emit", "broadcast", "discard"},
             run : Nat, snap : Snapshots, handle : Handles, flag : BOOLEAN]

\* The type of every variable.
TypeOK ==
    /\ disk \in Snapshots /\ tomb \in BOOLEAN /\ cmd \in SUBSET Workers
    /\ owner \in [Workers -> Handles]
    /\ rec \in [Workers -> Records]
    /\ tk \in [Workers -> Tasks]
    /\ h \in [Workers -> Handlers]
    /\ rv \in [Workers -> Snapshots]
    /\ runs \in Nat /\ fails \in Nat /\ crashes \in Nat

\* What a timeline says of its run: the last event tells.
StatusTold(run, events) ==
    LET n == Len(events)
    IN  IF n = 0 THEN (IF run = 0 THEN "absent" ELSE "running")
        ELSE CASE events[n] = "task_result" -> "completed"
               [] events[n] = "task_cancelled" -> "cancelled"
               [] events[n] = "clarification_required" -> "awaiting"
               [] events[n] \in {"error", "task_interrupted"} -> "error"
               [] OTHER -> "running"

\* A timeline can be replayed: only its last event settles the run, a pending question is
\* followed by its answer or by a cancellation, a result by nothing and preceded by its
\* report, and the snapshot's status is what the last event says (the contract: terminal
\* status, fields and event are persisted together).
LegalTimeline(s) ==
    LET e == s.events
        n == Len(e)
    IN  /\ \A i \in 1 .. n - 1 :
             /\ e[i] \notin {"task_result", "task_cancelled", "error", "task_interrupted"}
             /\ e[i] = "clarification_required"
                    => e[i + 1] \in {"clarification_resolved", "task_cancelled"}
        /\ \A i \in 1 .. n :
             /\ e[i] = "clarification_resolved" => i > 1 /\ e[i - 1] = "clarification_required"
             /\ e[i] = "task_result" => i > 1 /\ e[i - 1] = "report_generated"
        /\ s.status = StatusTold(s.run, e)

\* Every snapshot is legal: the one on disk, those in the records and those the handlers and
\* a recovery still hold, stale or not (each may be appended to and written back).
TimelineConsistent ==
    /\ LegalTimeline(disk)
    /\ \A w \in Workers :
         LegalTimeline(rec[w].snap) /\ LegalTimeline(h[w].snap) /\ LegalTimeline(rv[w])

\* What a recovery has read and not yet acted on is a running snapshot.
RecoveryReadsRunning == \A w \in Workers : rv[w] = NoSnap \/ rv[w].status = "running"

\* Once the tombstone is on disk no worker, however late, writes the task again: the
\* tombstone stays and the snapshot can only be removed.
DeletionFences == [][tomb => tomb' /\ disk' \in {disk, NoSnap}]_<<disk, tomb>>

\* The durable timeline of a run only grows: no writer drops an event another recorded.
Extends(s, t) ==
    /\ Len(s.events) <= Len(t.events)
    /\ \A i \in 1 .. Len(s.events) : s.events[i] = t.events[i]
TimelineOnlyGrows == [][disk'.run = disk.run => Extends(disk, disk')]_disk

\* What a worker answers from its record is what is on disk, until the task is deleted.
RecordMatchesDisk == \A w \in Workers : rec[w] # NoRec /\ ~tomb => rec[w].snap = disk

\* The snapshot on disk as a phase of the abstract task.
Phase ==
    IF tomb THEN "deleted"
    ELSE CASE disk.status = "error" ->
                IF disk.events[Len(disk.events)] = "task_interrupted" THEN "interrupted" ELSE "failed"
           [] OTHER -> disk.status

\* The task implements the abstract one: runs start, ask and settle only along its steps.
Abstract == INSTANCE ResearchTask WITH phase <- Phase, run <- runs
ImplementsResearchTask == Abstract!Spec

\* A settled run is final: task.json is never replaced by another run or outcome.
SettledIsFinal == [][disk.status \in Terminal => tomb /\ disk' = NoSnap]_disk

\* While a task is between its first and its last event its worker holds the owner lock, and no
\* other worker does: two of them never execute the thread at the same time.
ExecutorHoldsOwnerLock == \A w \in Workers :
    tk[w].pc \in Executing /\ ~tomb => \A v \in Workers : owner[v] # 0 <=> v = w

\* A record that says "running" has a task or a handler at work: nobody is told to keep
\* waiting for a run that nothing executes.
RunningHasExecutor == \A w \in Workers :
    rec[w].snap.status = "running" /\ ~tomb => tk[w].pc # "none" \/ h[w].pc # "idle"

\* A durable running snapshot is eventually settled, suspended, replaced or deleted, unless
\* its task stays in the admission queue for good: no timeout covers that wait, and a crash
\* of the worker ends even it.
RunningResolves ==
    \/ []<>(disk.status # "running" \/ tomb)
    \/ <>[](\E w \in Workers : tk[w].pc = "waiting")

=============================================================================
