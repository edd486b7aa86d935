------------------------ MODULE TaskOwnershipProofs ------------------------
(***************************************************************************)
(* Theorems about TaskLifecycle that need to know who acts for a thread:   *)
(* that a running record has someone behind it, that the task at work      *)
(* holds the owner lock alone, and that a single worker never loses sight  *)
(* of what is on disk, so that it implements ResearchTask.                 *)
(***************************************************************************)
EXTENDS TaskLifecycleProofs

-----------------------------------------------------------------------------
(* Steps, worker by worker *)

\* A step of the system is a step of one worker, ...
Step(w) ==
    \/ TaskStep(w) \/ HandlerStep(w)
    \/ CreateStart(w) \/ ClarifyRead(w) \/ CancelStart(w) \/ DeleteStart(w)
    \/ RecoverRead(w) \/ RecoverWrite(w) \/ PruneRecord(w)
    \/ Crash(w) \/ ShutdownStart(w) \/ ShutdownExit(w)

\* ... which changes nothing that another worker keeps.
Same(v) == rec'[v] = rec[v] /\ tk'[v] = tk[v] /\ h'[v] = h[v] /\ rv'[v] = rv[v]

\* Every step is one of some worker.
LEMMA NextIsStep == Next <=> \E w \in Workers : Step(w)
BY DEF Next, Step

\* No step of a worker changes the record, task, handler or recovery of another.
LEMMA StepIsLocal ==
    ASSUME TypeOK, NEW w \in Workers, NEW v \in Workers, v # w, Step(w)
    PROVE  Same(v)
<1> USE DEF Same
<1>1. ASSUME NEW kind, NEW next, TaskEmits(w, kind, next), UNCHANGED <<h, rv>>
      PROVE  Same(v)
  BY <1>1 DEF TaskEmits, FinishTask, RecordEvent, TypeOK
<1>2. CASE TaskStart(w)
  BY <1>1, <1>2 DEF TaskStart, TypeOK
<1>3. CASE TaskProgress(w)
  BY <1>1, <1>3 DEF TaskProgress
<1>4. CASE TaskOutcome(w)
  BY <1>1, <1>4 DEF TaskOutcome
<1>5. CASE TaskCancelled(w)
  BY <1>1, <1>5 DEF TaskCancelled, FinishTask, TypeOK
<1>6. CASE TaskBroadcastDone(w)
  BY <1>6 DEF TaskBroadcastDone, FinishTask, TypeOK
<1>16. CASE TaskQueues(w) \/ TaskAdmitted(w)
  BY <1>1, <1>16 DEF TaskQueues, TaskAdmitted, TypeOK
<1>7. CASE CreateStart(w) \/ CreateAwaited(w) \/ CreateClear(w)
  BY <1>7 DEF CreateStart, CreateAwaited, CreateClear, TypeOK
<1>8. CASE CreateCommit(w)
  BY <1>8 DEF CreateCommit, CreateFails, TypeOK
<1>9. CASE ClarifyRead(w) \/ ClarifyOwn(w)
  BY <1>9 DEF ClarifyRead, ClarifyOwn, TakeOwnership, TypeOK
<1>10. CASE ClarifyEmit(w) \/ ClarifyResume(w)
  BY <1>10 DEF ClarifyEmit, ClarifyResume, ClarifyAbort, RecordEvent, TypeOK
<1>11. CASE CancelStart(w) \/ CancelOwn(w) \/ CancelAwaited(w)
  BY <1>11 DEF CancelStart, CancelOwn, CancelAwaited, TakeOwnership, TypeOK
<1>12. CASE CancelEmit(w) \/ CancelDone(w)
  BY <1>12 DEF CancelEmit, CancelDone, CancelRelease, RecordEvent, TypeOK
<1>13. CASE DeleteStart(w) \/ DeleteAwaited(w) \/ DeleteRemove(w)
  BY <1>13 DEF DeleteStart, DeleteAwaited, DeleteRemove, TypeOK
<1>14. CASE RecoverRead(w) \/ RecoverWrite(w) \/ PruneRecord(w)
  BY <1>14 DEF RecoverRead, RecoverWrite, PruneRecord, TypeOK
<1>15. CASE Crash(w) \/ ShutdownStart(w) \/ ShutdownExit(w)
  BY <1>15 DEF Crash, ShutdownStart, ShutdownExit, ProcessExit, TypeOK
<1> QED
  BY <1>2, <1>3, <1>4, <1>5, <1>6, <1>7, <1>8, <1>9, <1>10, <1>11, <1>12, <1>13, <1>14,
     <1>15, <1>16 DEF Step, TaskStep, HandlerStep

-----------------------------------------------------------------------------
(* Somebody is behind every running record *)

\* The states in which a task will still record something.
AtWork == {"new", "session", "queued", "told", "waiting", "run", "progress"}

\* A handler that will settle the record, or start the task that does.
Awaits(w) ==
    /\ h[w].run = rec[w].run
    /\ \/ h[w].op = "cancel" /\ h[w].pc \in {"wait", "emit"}
       \/ h[w].op = "clarify" /\ h[w].pc = "broadcast"

\* Who is behind the record of w, and who asked its task to stop.
Attended(w) ==
    /\ rec[w].snap.status = "running" =>
          \/ tk[w].pc \in AtWork /\ tk[w].run = rec[w].run
          \/ Awaits(w)
          \/ h[w].op = "shutdown"
    /\ rec[w].snap.status = "running" /\ tk[w].cancel =>
          \/ h[w].op = "cancel" /\ h[w].pc = "wait" /\ h[w].run = rec[w].run
          \/ h[w].op = "shutdown"
    /\ h[w].op = "shutdown" => h[w].pc = "wait"
    /\ ~rec[w].deleting
    /\ h[w].op # "delete"
    /\ h[w].op \in {"cancel", "clarify"} /\ h[w].pc = "emit"
          => rec[w] = NoRec \/ rec[w].run = h[w].run
    /\ h[w].op = "clarify" /\ h[w].pc = "broadcast" => rec[w] = NoRec \/ rec[w].run = h[w].run
    /\ h[w].op = "idle" <=> h[w].pc = "idle"
    /\ h[w].pc = "own" => h[w].snap.status = "awaiting"
    /\ tk[w].cancel => /\ tk[w].pc # "none" /\ h[w].pc = "wait"
                       /\ h[w].op \in {"create", "cancel", "shutdown"}

\* What an emit does to its worker.
LEMMA EmitMoves ==
    ASSUME TypeOK, NEW w \in Workers, NEW kind \in Kinds, NEW next, TaskEmits(w, kind, next)
    PROVE  \/ /\ CanRecord(w, tk[w].run, kind)
              /\ rec'[w].snap.status = StatusAfter(kind)
              /\ rec'[w].run = rec[w].run /\ rec'[w].deleting = rec[w].deleting
              /\ rec'[w].handle = rec[w].handle
              /\ tk'[w].pc = next /\ ~tk'[w].cancel /\ tk'[w].run = tk[w].run
              /\ tk'[w].handle = tk[w].handle
              /\ UNCHANGED <<owner, fails>>
           \/ fails' = fails + 1 /\ rec'[w] = NoRec /\ tk'[w].pc = "closing" /\ UNCHANGED owner
              /\ tk'[w].handle = tk[w].handle /\ CanRecord(w, tk[w].run, kind)
           \/ ~CanRecord(w, tk[w].run, kind) /\ FinishTask(w) /\ UNCHANGED fails
<1>0. rec[w] \in Records /\ tk[w] \in Tasks /\ rec[w].snap \in Snapshots
  BY DEF TypeOK, Records
<1>1. CASE /\ CanRecord(w, tk[w].run, kind)
           /\ RecordEvent(w, kind)
           /\ tk' = [tk EXCEPT ![w].pc = next, ![w].cancel = FALSE]
           /\ UNCHANGED <<owner, fails>>
  <2>1. rec'[w].snap.status = StatusAfter(kind) /\ rec'[w].run = rec[w].run
        /\ rec'[w].deleting = rec[w].deleting /\ rec'[w].handle = rec[w].handle
    BY <1>0, <1>1 DEF RecordEvent, Appended, TypeOK, Records, Snapshots
  <2>2. tk'[w].pc = next /\ ~tk'[w].cancel /\ tk'[w].run = tk[w].run /\ tk'[w].handle = tk[w].handle
    BY <1>0, <1>1 DEF TypeOK, Tasks
  <2> QED  BY <1>1, <2>1, <2>2
<1>2. CASE /\ CanRecord(w, tk[w].run, kind)
           /\ StorageFails
           /\ rec' = [rec EXCEPT ![w] = NoRec]
           /\ tk' = [tk EXCEPT ![w].pc = "closing", ![w].cancel = FALSE]
           /\ UNCHANGED <<disk, owner>>
  BY <1>0, <1>2 DEF StorageFails, TypeOK, Tasks
<1> QED  BY <1>1, <1>2 DEF TaskEmits

\* Failed writes are only ever counted up.
LEMMA FailsCounted ==
    ASSUME NEW w \in Workers, Step(w)
    PROVE  fails' = fails \/ fails' = fails + 1
<1>1. ASSUME NEW kind, NEW next, TaskEmits(w, kind, next)
      PROVE  fails' = fails \/ fails' = fails + 1
  BY <1>1 DEF TaskEmits, StorageFails
<1>2. CASE TaskStep(w)
  BY <1>1, <1>2 DEF TaskStep, TaskStart, TaskQueues, TaskAdmitted, TaskProgress, TaskOutcome,
                    TaskCancelled, TaskBroadcastDone
<1>3. CASE HandlerStep(w)
  BY <1>3 DEF HandlerStep, CreateAwaited, CreateClear, CreateCommit, ClarifyOwn, ClarifyEmit,
              ClarifyResume, CancelOwn, CancelAwaited, CancelEmit, CancelDone, DeleteAwaited,
              DeleteRemove, StorageFails
<1>4. CASE \/ CreateStart(w) \/ ClarifyRead(w) \/ CancelStart(w) \/ DeleteStart(w)
           \/ RecoverRead(w) \/ RecoverWrite(w) \/ PruneRecord(w)
           \/ Crash(w) \/ ShutdownStart(w) \/ ShutdownExit(w)
  BY <1>4 DEF CreateStart, ClarifyRead, CancelStart, DeleteStart, RecoverRead, RecoverWrite,
              PruneRecord, Crash, ShutdownStart, ShutdownExit, ProcessExit, StorageFails
<1> QED  BY <1>2, <1>3, <1>4 DEF Step

\* The end of a task drops it and at most the handle of its record.
LEMMA FinishMoves ==
    ASSUME TypeOK, NEW w \in Workers, FinishTask(w)
    PROVE  /\ tk'[w] = NoTask
           /\ rec'[w].snap = rec[w].snap /\ rec'[w].run = rec[w].run
           /\ rec'[w].deleting = rec[w].deleting
           /\ rec[w] = NoRec => rec'[w] = NoRec
<1>0. rec[w] \in Records
  BY DEF TypeOK
<1>1. tk'[w] = NoTask
  BY DEF FinishTask, TypeOK
<1>2. \/ rec[w] # NoRec /\ rec'[w] = [rec[w] EXCEPT !.handle = 0]
      \/ rec'[w] = rec[w]
  BY DEF FinishTask, TypeOK
<1> QED  BY <1>0, <1>1, <1>2 DEF Records, NoRec

\* Every step keeps somebody behind the record: the task, ...
LEMMA TaskAttended ==
    ASSUME TypeOK, NEW w \in Workers, TaskStep(w), ~tomb, fails' = 0, Attended(w)
    PROVE  Attended(w)'
<1>0. /\ rec[w] \in Records /\ tk[w] \in Tasks /\ rec[w].snap \in Snapshots
      /\ h[w] \in Handlers /\ fails \in Nat
  BY DEF TypeOK, Records
<1>a. NoRec.snap.status # "running" /\ ~NoRec.deleting /\ NoTask.pc = "none" /\ ~NoTask.cancel
  BY DEF NoRec, NoSnap, NoTask
<1>1. ASSUME FinishTask(w), h' = h,
             rec[w].snap.status = "running" => Awaits(w) \/ h[w].op = "shutdown"
      PROVE  Attended(w)'
  <2>1. /\ tk'[w] = NoTask
        /\ rec'[w].snap = rec[w].snap /\ rec'[w].run = rec[w].run
        /\ rec'[w].deleting = rec[w].deleting
        /\ rec[w] = NoRec => rec'[w] = NoRec
    BY <1>1, FinishMoves
  <2> QED  BY <1>1, <1>a, <2>1 DEF Attended, Awaits
<1>2. ASSUME NEW kind \in Kinds, NEW next, TaskEmits(w, kind, next), h' = h,
             kind # "clarification_resolved",
             StatusAfter(kind) = "running" => next \in AtWork
      PROVE  Attended(w)'
  <2>1. CASE /\ CanRecord(w, tk[w].run, kind)
             /\ rec'[w].snap.status = StatusAfter(kind)
             /\ rec'[w].run = rec[w].run /\ rec'[w].deleting = rec[w].deleting
             /\ tk'[w].pc = next /\ ~tk'[w].cancel /\ tk'[w].run = tk[w].run
    <3>1. rec[w].run = tk[w].run /\ rec[w] # NoRec
      BY <2>1 DEF CanRecord
    <3> QED  BY <1>2, <2>1, <3>1 DEF Attended, Awaits
  <2>2. fails' # fails + 1
    BY <1>0
  <2>3. CASE ~CanRecord(w, tk[w].run, kind) /\ FinishTask(w)
    <3>1. rec[w].snap.status = "running" => rec[w] # NoRec /\ "running" \in AllowedStatuses(kind)
      BY <1>2, <1>a DEF AllowedStatuses
    <3>2. rec[w].snap.status = "running" => rec[w].run # tk[w].run
      BY <2>3, <3>1 DEF CanRecord, Attended, Deleted
    <3>3. rec[w].snap.status = "running" => Awaits(w) \/ h[w].op = "shutdown"
      BY <3>2 DEF Attended
    <3> QED  BY <1>1, <1>2, <2>3, <3>3
  <2> QED  BY <1>2, <2>1, <2>2, <2>3, EmitMoves
<1>b. ASSUME NEW p \in AtWork, tk' = [tk EXCEPT ![w].pc = p], UNCHANGED <<rec, h>>
      PROVE  Attended(w)'
  <2>1. tk'[w].pc = p /\ tk'[w].run = tk[w].run /\ tk'[w].cancel = tk[w].cancel
    BY <1>0, <1>b DEF TypeOK, Tasks
  <2> QED  BY <1>b, <2>1 DEF Attended, Awaits, AtWork
<1>3. CASE TaskStart(w)
  <2>1. CASE tk[w].resume
    BY <1>b, <1>3, <2>1 DEF TaskStart, AtWork
  <2>2. CASE ~tk[w].resume
    <3>1. TaskEmits(w, "session_created", "session") /\ h' = h
      BY <1>3, <2>2 DEF TaskStart
    <3> QED  BY <1>2, <3>1 DEF Kinds, AtWork
  <2> QED  BY <2>1, <2>2
<1>4. CASE TaskProgress(w)
  BY <1>2, <1>4 DEF TaskProgress, Kinds, AtWork
<1>5. CASE TaskOutcome(w)
  <2>1. \E kind \in {"task_result", "error", "clarification_required"} :
          TaskEmits(w, kind, "final") /\ h' = h
    BY <1>5 DEF TaskOutcome
  <2> QED  BY <1>2, <2>1 DEF Kinds, StatusAfter
<1>6. CASE TaskCancelled(w)
  <2>1. CASE tk[w].pc = "new" /\ tk' = [tk EXCEPT ![w] = NoTask] /\ UNCHANGED <<rec, h>>
    <3>1. tk'[w] = NoTask /\ tk[w].cancel
      BY <1>6, <2>1 DEF TaskCancelled, TypeOK
    <3> QED  BY <1>a, <2>1, <3>1 DEF Attended, Awaits
  <2>2. CASE TaskEmits(w, "task_cancelled", "cancelled") /\ h' = h
    BY <1>2, <2>2 DEF Kinds, StatusAfter
  <2>3. CASE rec[w].snap.status # "running" /\ FinishTask(w) /\ h' = h
    BY <1>1, <2>3
  <2> QED  BY <1>6, <2>1, <2>2, <2>3 DEF TaskCancelled
<1>7. CASE TaskBroadcastDone(w)
  <2>1. CASE tk[w].pc \in {"session", "told", "progress"}
             /\ tk' = [tk EXCEPT ![w].pc = AfterBroadcast[@]] /\ UNCHANGED <<rec, h>>
    <3>1. AfterBroadcast[tk[w].pc] \in AtWork
      BY <2>1 DEF AfterBroadcast, AtWork
    <3> QED  BY <1>b, <2>1, <3>1
  <2>2. CASE tk[w].pc \in {"final", "cancelled", "closing"} /\ FinishTask(w) /\ h' = h
    <3>1. tk[w].pc \notin AtWork
      BY <2>2 DEF AtWork
    <3> QED  BY <1>1, <2>2, <3>1 DEF Attended
  <2> QED  BY <1>7, <2>1, <2>2 DEF TaskBroadcastDone
<1>8. CASE TaskQueues(w) \/ TaskAdmitted(w)
  BY <1>2, <1>b, <1>8 DEF TaskQueues, TaskAdmitted, Kinds, AtWork
<1> QED  BY <1>3, <1>4, <1>5, <1>6, <1>7, <1>8 DEF TaskStep

\* What the empty record, task and handler say.
LEMMA NullsIdle ==
    /\ NoRec.snap.status = "absent" /\ ~NoRec.deleting /\ NoRec.snap = NoSnap
    /\ NoTask.pc = "none" /\ ~NoTask.cancel
    /\ NoHandler.op = "idle" /\ NoHandler.pc = "idle"
BY DEF NoRec, NoSnap, NoTask, NoHandler

\* ... a create, ...
LEMMA CreateAttended ==
    ASSUME TypeOK, NEW w \in Workers, ~tomb, fails' = 0, Attended(w),
           CreateStart(w) \/ CreateAwaited(w) \/ CreateClear(w) \/ CreateCommit(w)
    PROVE  Attended(w)'
<1>0. /\ rec[w] \in Records /\ tk[w] \in Tasks /\ rec[w].snap \in Snapshots
      /\ h[w] \in Handlers /\ fails \in Nat
  BY DEF TypeOK, Records
<1>1. CASE CreateStart(w)
  <2>1. h[w].pc = "idle"
    BY <1>1 DEF CreateStart, Arrives, HandlerFree
  <2>2. CASE /\ rec[w] # NoRec /\ tk[w].pc # "none"
             /\ rec' = [rec EXCEPT ![w] = NoRec]
             /\ tk' = [tk EXCEPT ![w].cancel = TRUE]
             /\ h' = [h EXCEPT ![w] = [NoHandler EXCEPT !.op = "create", !.pc = "wait",
                                                       !.handle = rec[w].handle]]
    <3>1. rec'[w] = NoRec /\ tk'[w].pc = tk[w].pc
          /\ h'[w].op = "create" /\ h'[w].pc = "wait"
      BY <1>0, <2>2 DEF TypeOK, Tasks, NoHandler
    <3> QED  BY <2>2, <3>1, NullsIdle DEF Attended, Awaits
  <2>3. CASE /\ ~(rec[w] # NoRec /\ tk[w].pc # "none")
             /\ h' = [h EXCEPT ![w] = [NoHandler EXCEPT !.op = "create", !.pc = "clear",
                                                       !.handle = rec[w].handle]]
             /\ UNCHANGED <<rec, tk>>
    <3>1. h'[w].op = "create" /\ h'[w].pc = "clear"
      BY <2>3 DEF TypeOK, NoHandler
    <3> QED  BY <2>1, <2>3, <3>1, NullsIdle DEF Attended, Awaits, AtWork
  <2> QED  BY <1>1, <2>2, <2>3 DEF CreateStart
<1>2. CASE CreateAwaited(w) \/ CreateClear(w)
  <2>1. h[w].op = "create" /\ UNCHANGED <<rec, tk>> /\ (h[w].pc = "wait" => tk[w].pc = "none")
    BY <1>2 DEF CreateAwaited, CreateClear
  <2>2. h'[w].op = "create" /\ h'[w].pc \in {"clear", "commit"}
    BY <1>0, <1>2 DEF CreateAwaited, CreateClear, TypeOK, Handlers
  <2> QED  BY <2>1, <2>2 DEF Attended, Awaits
<1>3. CASE CreateCommit(w)
  <2>1. h[w].op = "create" /\ h[w].pc = "commit" /\ h' = [h EXCEPT ![w] = NoHandler]
    BY <1>3 DEF CreateCommit, CreateFails
  <2>2. h'[w] = NoHandler
    BY <2>1 DEF TypeOK
  <2>3. CASE UNCHANGED <<rec, tk>>
    BY <2>1, <2>2, <2>3, NullsIdle DEF Attended, Awaits
  <2> DEFINE s == [run |-> runs + 1, status |-> "running", events |-> <<>>]
             n == NewHandle(w)
  <2>4. CASE /\ rec' = [rec EXCEPT ![w] = [NoRec EXCEPT !.run = s.run, !.snap = s, !.handle = n]]
             /\ tk' = [tk EXCEPT ![w] = [NoTask EXCEPT !.pc = "new", !.run = s.run, !.handle = n]]
    <3> HIDE DEF s, n
    <3>1. rec'[w].run = s.run /\ ~rec'[w].deleting
      BY <2>4 DEF TypeOK, NoRec
    <3>2. tk'[w].pc = "new" /\ tk'[w].run = s.run /\ ~tk'[w].cancel
      BY <2>4 DEF TypeOK, NoTask
    <3> QED  BY <2>2, <3>1, <3>2, NullsIdle DEF Attended, AtWork
  <2> QED  BY <1>3, <2>3, <2>4 DEF CreateCommit, CreateFails
<1> QED  BY <1>1, <1>2, <1>3

\* What taking the owner lock for a record, its own or an adopted one, does.
LEMMA OwnershipMoves ==
    ASSUME TypeOK, NEW w \in Workers, NEW r \in Records, TakeOwnership(w, r, "emit")
    PROVE  /\ rec'[w].snap = r.snap /\ rec'[w].run = r.run /\ rec'[w].deleting = r.deleting
           /\ h'[w].op = h[w].op /\ h'[w].pc = "emit" /\ h'[w].run = r.run
           /\ h'[w].snap = h[w].snap /\ h'[w].flag = (rec[w] = NoRec)
           /\ h'[w].handle = rec'[w].handle
           /\ r.handle # 0 => rec'[w].handle = r.handle
<1> DEFINE n == IF r.handle # 0 THEN r.handle ELSE NewHandle(w)
<1>1. rec' = [rec EXCEPT ![w] = [r EXCEPT !.handle = n]]
  BY DEF TakeOwnership
<1>2. h' = [h EXCEPT ![w] = [h[w] EXCEPT !.pc = "emit", !.run = r.run, !.handle = n,
                                         !.flag = (rec[w] = NoRec)]]
  BY DEF TakeOwnership
<1>3. r.handle # 0 => n = r.handle
  OBVIOUS
<1> HIDE DEF n
<1>4. rec'[w].snap = r.snap /\ rec'[w].run = r.run /\ rec'[w].deleting = r.deleting
      /\ rec'[w].handle = n
  BY <1>1 DEF TypeOK, Records
<1>5. /\ h'[w].op = h[w].op /\ h'[w].pc = "emit" /\ h'[w].run = r.run
      /\ h'[w].snap = h[w].snap /\ h'[w].flag = (rec[w] = NoRec) /\ h'[w].handle = n
  BY <1>2 DEF TypeOK, Handlers
<1> QED  BY <1>3, <1>4, <1>5

\* A record made from a snapshot has no handle.
LEMMA AdoptedFields ==
    ASSUME NEW s
    PROVE  Adopted(s).snap = s /\ ~Adopted(s).deleting /\ Adopted(s).handle = 0
           /\ Adopted(s).run = s.run
BY DEF Adopted, NoRec

\* Taking the owner lock, or being refused it, leaves a suspended record suspended.
LEMMA OwnAttended ==
    ASSUME TypeOK, NEW w \in Workers, ~tomb, Attended(w), h[w].pc = "own",
           h[w].op \in {"clarify", "cancel"}, tk' = tk,
           LET r == IF rec[w] = NoRec THEN Adopted(h[w].snap) ELSE rec[w]
           IN  \/ TakeOwnership(w, r, "emit")
               \/ h' = [h EXCEPT ![w] = NoHandler] /\ UNCHANGED rec
    PROVE  Attended(w)'
<1> DEFINE r == IF rec[w] = NoRec THEN Adopted(h[w].snap) ELSE rec[w]
<1>0. rec[w] \in Records /\ h[w].snap \in Snapshots /\ Adopted(h[w].snap) \in Records
  BY AdoptedType DEF TypeOK, Handlers
<1>1. /\ r \in Records /\ ~r.deleting
      /\ r.snap.status = "running" => r = rec[w]
  BY <1>0, AdoptedFields DEF Attended
<1> HIDE DEF r
<1>2. CASE TakeOwnership(w, r, "emit")
  BY <1>1, <1>2, OwnershipMoves DEF Attended, Awaits
<1>3. CASE h' = [h EXCEPT ![w] = NoHandler] /\ UNCHANGED rec
  <2>1. h'[w] = NoHandler
    BY <1>3 DEF TypeOK
  <2> QED  BY <1>3, <2>1, NullsIdle DEF Attended, Awaits
<1> QED  BY <1>2, <1>3 DEF r

\* Giving up leaves a record that was not running, or whose task is at work.
LEMMA AbortAttended ==
    ASSUME TypeOK, NEW w \in Workers, Attended(w), tk' = tk,
           rec[w].snap.status = "running" =>
              tk[w].pc \in AtWork /\ tk[w].run = rec[w].run,
           h[w].pc \in {"emit", "broadcast"}, h[w].op \in {"clarify", "cancel"},
           ClarifyAbort(w) \/ CancelRelease(w)
    PROVE  Attended(w)'
<1>1. h'[w] = NoHandler
  BY DEF ClarifyAbort, CancelRelease, TypeOK
<1>2. \/ rec'[w] = NoRec
      \/ rec'[w] = rec[w]
      \/ rec'[w] = [rec[w] EXCEPT !.handle = 0]
  BY DEF ClarifyAbort, CancelRelease, TypeOK
<1>3. \/ rec'[w] = NoRec
      \/ /\ rec'[w].snap = rec[w].snap /\ rec'[w].run = rec[w].run
         /\ rec'[w].deleting = rec[w].deleting
  BY <1>2 DEF TypeOK, Records
<1> QED  BY <1>1, <1>3, NullsIdle DEF Attended, Awaits

\* What the event a handler records does to its worker.
LEMMA SpeakMoves ==
    ASSUME TypeOK, NEW w \in Workers, NEW kind \in Kinds, RecordEvent(w, kind),
           h' = [h EXCEPT ![w].pc = "broadcast"]
    PROVE  /\ rec'[w].snap = Appended(rec[w].snap, kind)
           /\ rec'[w].snap.status = StatusAfter(kind)
           /\ rec'[w].run = rec[w].run /\ rec'[w].deleting = rec[w].deleting
           /\ rec'[w].handle = rec[w].handle
           /\ h'[w].op = h[w].op /\ h'[w].pc = "broadcast" /\ h'[w].run = h[w].run
           /\ h'[w].handle = h[w].handle /\ h'[w].snap = h[w].snap /\ h'[w].flag = h[w].flag
<1>0. rec[w] \in Records /\ rec[w].snap \in Snapshots /\ h[w] \in Handlers
  BY DEF TypeOK, Records
<1>1. /\ rec'[w].snap = Appended(rec[w].snap, kind)
      /\ rec'[w].run = rec[w].run /\ rec'[w].deleting = rec[w].deleting
      /\ rec'[w].handle = rec[w].handle
  BY <1>0 DEF RecordEvent, TypeOK, Records
<1>2. Appended(rec[w].snap, kind).status = StatusAfter(kind)
  BY <1>0 DEF Appended, Snapshots
<1>3. /\ h'[w].op = h[w].op /\ h'[w].pc = "broadcast" /\ h'[w].run = h[w].run
      /\ h'[w].handle = h[w].handle /\ h'[w].snap = h[w].snap /\ h'[w].flag = h[w].flag
  BY <1>0 DEF TypeOK, Handlers
<1> QED  BY <1>1, <1>2, <1>3

\* ... a clarification, ...
LEMMA ClarifyAttended ==
    ASSUME TypeOK, NEW w \in Workers, ~tomb, fails' = 0, ~ReleaseGated, Attended(w),
           ClarifyRead(w) \/ ClarifyOwn(w) \/ ClarifyEmit(w) \/ ClarifyResume(w)
    PROVE  Attended(w)'
<1>0. /\ rec[w] \in Records /\ tk[w] \in Tasks /\ rec[w].snap \in Snapshots
      /\ h[w] \in Handlers /\ fails \in Nat
  BY DEF TypeOK, Records
<1>1. CASE ClarifyRead(w)
  <2>1. h[w].pc = "idle" /\ UNCHANGED <<rec, tk>>
    BY <1>1 DEF ClarifyRead, Arrives, HandlerFree
  <2>2. h'[w].op = "clarify" /\ h'[w].pc = "own" /\ h'[w].snap.status = "awaiting"
    BY <1>1 DEF ClarifyRead, TypeOK, NoHandler
  <2> QED  BY <2>1, <2>2 DEF Attended, Awaits
<1>2. CASE ClarifyOwn(w)
  BY <1>2, OwnAttended DEF ClarifyOwn
<1>3. CASE ClarifyEmit(w)
  <2>1. h[w].op = "clarify" /\ h[w].pc = "emit" /\ tk' = tk
    BY <1>3 DEF ClarifyEmit
  <2>2. CASE ClarifyAbort(w)
    BY <2>1, <2>2, AbortAttended DEF Attended, Awaits
  <2>3. CASE /\ CanRecord(w, h[w].run, "clarification_resolved")
             /\ RecordEvent(w, "clarification_resolved")
             /\ h' = [h EXCEPT ![w].pc = "broadcast"]
    <3>1. "clarification_resolved" \in Kinds
      BY DEF Kinds
    <3>2. rec[w].run = h[w].run
      BY <2>3 DEF CanRecord
    <3> QED  BY <2>1, <2>3, <3>1, <3>2, SpeakMoves DEF Attended, Awaits
  <2> QED  BY <1>3, <2>2, <2>3 DEF ClarifyEmit
<1>4. CASE ClarifyResume(w)
  <2>1. /\ h[w].op = "clarify" /\ h[w].pc = "broadcast" /\ UNCHANGED rec
        /\ tk' = [tk EXCEPT ![w] = [NoTask EXCEPT !.pc = "new", !.run = h[w].run,
                                       !.resume = TRUE, !.handle = h[w].handle]]
        /\ h' = [h EXCEPT ![w] = NoHandler]
    BY <1>4 DEF ClarifyResume
  <2>2. /\ h'[w] = NoHandler
        /\ tk'[w].pc = "new" /\ tk'[w].run = h[w].run /\ ~tk'[w].cancel
    BY <2>1 DEF TypeOK, NoTask
  <2> QED  BY <2>1, <2>2, NullsIdle DEF Attended, Awaits, AtWork
<1> QED  BY <1>1, <1>2, <1>3, <1>4

\* ... a cancellation, ...
LEMMA CancelAttended ==
    ASSUME TypeOK, NEW w \in Workers, ~tomb, fails' = 0, Attended(w),
           \/ CancelStart(w) \/ CancelOwn(w) \/ CancelAwaited(w)
           \/ CancelEmit(w) \/ CancelDone(w)
    PROVE  Attended(w)'
<1>0. /\ rec[w] \in Records /\ tk[w] \in Tasks /\ rec[w].snap \in Snapshots
      /\ h[w] \in Handlers /\ fails \in Nat
  BY DEF TypeOK, Records
<1>1. CASE CancelStart(w)
  <2>1. h[w].pc = "idle" /\ UNCHANGED rec
    BY <1>1 DEF CancelStart, Arrives, HandlerFree
  <2>2. CASE /\ tk' = tk
             /\ LET s == IF rec[w] = NoRec THEN Persisted ELSE rec[w].snap
                IN  /\ s.status = "awaiting"
                    /\ h' = [h EXCEPT ![w] = [NoHandler EXCEPT !.op = "cancel", !.pc = "own",
                                                              !.snap = s]]
    <3>1. h'[w].op = "cancel" /\ h'[w].pc = "own" /\ h'[w].snap.status = "awaiting"
      BY <2>2 DEF TypeOK, NoHandler
    <3> QED  BY <2>1, <2>2, <3>1, NullsIdle DEF Attended, Awaits
  <2>3. CASE /\ rec[w].snap.status = "running" /\ tk[w].pc # "none"
             /\ tk' = [tk EXCEPT ![w].cancel = TRUE]
             /\ h' = [h EXCEPT ![w] = [NoHandler EXCEPT !.op = "cancel", !.pc = "wait",
                                                       !.run = rec[w].run]]
    <3>1. h'[w].op = "cancel" /\ h'[w].pc = "wait" /\ h'[w].run = rec[w].run
      BY <2>3 DEF TypeOK, NoHandler
    <3>2. tk'[w].pc = tk[w].pc /\ tk'[w].run = tk[w].run
      BY <1>0, <2>3 DEF TypeOK, Tasks
    <3> QED  BY <2>1, <2>3, <3>1, <3>2 DEF Attended, Awaits
  <2> QED  BY <1>1, <2>2, <2>3 DEF CancelStart
<1>2. CASE CancelOwn(w)
  BY <1>2, OwnAttended DEF CancelOwn
<1>3. CASE CancelAwaited(w)
  <2>1. /\ h[w].op = "cancel" /\ h[w].pc = "wait" /\ tk[w].pc = "none"
        /\ UNCHANGED <<rec, tk>>
    BY <1>3 DEF CancelAwaited
  <2>2. CASE /\ rec[w].run = h[w].run /\ rec[w].snap.status = "running"
             /\ h' = [h EXCEPT ![w].pc = "emit"]
    <3>1. h'[w].op = h[w].op /\ h'[w].pc = "emit" /\ h'[w].run = h[w].run
      BY <1>0, <2>2 DEF TypeOK, Handlers
    <3> QED  BY <2>1, <2>2, <3>1 DEF Attended, Awaits
  <2>3. CASE /\ ~(rec[w].run = h[w].run /\ rec[w].snap.status = "running")
             /\ h' = [h EXCEPT ![w] = NoHandler]
    <3>1. h'[w] = NoHandler
      BY <2>3 DEF TypeOK
    <3> QED  BY <2>1, <2>3, <3>1, NullsIdle DEF Attended, Awaits, AtWork
  <2> QED  BY <1>3, <2>2, <2>3 DEF CancelAwaited
<1>4. CASE CancelEmit(w)
  <2>1. h[w].op = "cancel" /\ h[w].pc = "emit" /\ tk' = tk
    BY <1>4 DEF CancelEmit
  <2>2. CASE ~CanRecord(w, h[w].run, "task_cancelled") /\ CancelRelease(w)
    <3>1. rec[w].snap.status # "running"
      BY <2>1, <2>2, NullsIdle DEF CanRecord, Deleted, Attended, AllowedStatuses
    <3> QED  BY <2>1, <2>2, <3>1, AbortAttended
  <2>3. CASE /\ RecordEvent(w, "task_cancelled")
             /\ h' = [h EXCEPT ![w].pc = "broadcast"]
    <3>1. "task_cancelled" \in Kinds /\ StatusAfter("task_cancelled") = "cancelled"
      BY DEF Kinds, StatusAfter
    <3> QED  BY <2>1, <2>3, <3>1, SpeakMoves DEF Attended, Awaits
  <2>4. ~StorageFails
    BY <1>0 DEF StorageFails
  <2> QED  BY <1>4, <2>2, <2>3, <2>4 DEF CancelEmit
<1>5. CASE CancelDone(w)
  <2>1. h[w].op = "cancel" /\ h[w].pc = "broadcast" /\ tk' = tk /\ CancelRelease(w)
    BY <1>5 DEF CancelDone
  <2> QED  BY <2>1, AbortAttended DEF Attended, Awaits
<1> QED  BY <1>1, <1>2, <1>3, <1>4, <1>5

\* ... and everything else.
LEMMA BackgroundAttended ==
    ASSUME TypeOK, NEW w \in Workers, ~tomb, ~tomb', fails' = 0, Attended(w),
           \/ DeleteStart(w) \/ DeleteAwaited(w) \/ DeleteRemove(w)
           \/ RecoverRead(w) \/ RecoverWrite(w) \/ PruneRecord(w)
           \/ Crash(w) \/ ShutdownStart(w) \/ ShutdownExit(w)
    PROVE  Attended(w)'
<1>0. tk[w] \in Tasks /\ fails \in Nat
  BY DEF TypeOK
<1>1. ~DeleteStart(w) /\ ~DeleteAwaited(w) /\ ~DeleteRemove(w)
  BY <1>0 DEF DeleteStart, DeleteAwaited, DeleteRemove, StorageFails, Attended
<1>2. CASE RecoverRead(w) \/ RecoverWrite(w)
  BY <1>2 DEF RecoverRead, RecoverWrite, Attended, Awaits
<1>3. CASE PruneRecord(w)
  <2>1. rec'[w] = NoRec /\ UNCHANGED <<tk, h>>
    BY <1>3 DEF PruneRecord, TypeOK
  <2> QED  BY <2>1, NullsIdle DEF Attended, Awaits
<1>4. CASE ProcessExit(w)
  <2>1. rec'[w] = NoRec /\ tk'[w] = NoTask /\ h'[w] = NoHandler
    BY <1>4 DEF ProcessExit, TypeOK
  <2> QED  BY <2>1, NullsIdle DEF Attended, Awaits
<1>5. CASE ShutdownStart(w)
  <2>1. rec' = rec /\ h[w].pc = "idle" /\ tk[w].pc # "none"
    BY <1>5 DEF ShutdownStart, Arrives, HandlerFree
  <2>2. h'[w].op = "shutdown" /\ h'[w].pc = "wait" /\ tk'[w].pc = tk[w].pc
    BY <1>0, <1>5 DEF ShutdownStart, TypeOK, Tasks, NoHandler
  <2> QED  BY <2>1, <2>2 DEF Attended, Awaits
<1> QED  BY <1>1, <1>2, <1>3, <1>4, <1>5 DEF Crash, ShutdownExit

\* The inductive invariant: as long as no write has failed, until the task is deleted.
AttendedInv == TypeOK /\ (fails = 0 /\ ~tomb => \A w \in Workers : Attended(w))

\* Without a release gate, and as long as task.json could always be written, a record that says
\* "running" has an _execute task or a handler of its thread at work, in every worker.  (After a
\* failed write it need not: cancelling a task that had not started, cancel_task records the
\* event itself, and when that write fails nobody is left.)
THEOREM RunningIsAttended ==
    ASSUME ~ReleaseGated
    PROVE  Spec => [](fails = 0 => RunningHasExecutor)
<1>1. Init => AttendedInv
  BY InitType, NullsIdle DEF Init, AttendedInv, Attended, Awaits
<1>2. AttendedInv /\ [Next]_vars => AttendedInv'
  <2> SUFFICES ASSUME AttendedInv, [Next]_vars, fails' = 0, ~tomb',
                      NEW v \in Workers
               PROVE  Attended(v)'
    BY NextType DEF AttendedInv
  <2>1. TypeOK /\ ~tomb
    BY TombstoneStays DEF AttendedInv
  <2>2. CASE UNCHANGED vars
    BY <2>1, <2>2 DEF vars, AttendedInv, Attended, Awaits
  <2>3. CASE Next
    <3>1. PICK w \in Workers : Step(w)
      BY <2>3, NextIsStep
    <3>2. fails = 0
      BY <2>1, <3>1, FailsCounted DEF TypeOK
    <3>3. Attended(v) /\ Attended(w)
      BY <2>1, <3>2 DEF AttendedInv
    <3>4. CASE v # w
      <4>1. Same(v)
        BY <2>1, <3>1, <3>4, StepIsLocal
      <4> QED  BY <3>3, <4>1 DEF Same, Attended, Awaits
    <3>5. CASE v = w
      BY <2>1, <3>1, <3>3, <3>5, TaskAttended, CreateAttended, ClarifyAttended,
         CancelAttended, BackgroundAttended DEF Step, HandlerStep
    <3> QED  BY <3>4, <3>5
  <2> QED  BY <2>2, <2>3
<1>3. AttendedInv => (fails = 0 => RunningHasExecutor)
  <2> SUFFICES ASSUME AttendedInv, fails = 0, ~tomb, NEW w \in Workers,
                      rec[w].snap.status = "running"
               PROVE  tk[w].pc # "none" \/ h[w].pc # "idle"
    BY DEF RunningHasExecutor
  <2> QED  BY DEF AttendedInv, Attended, Awaits, AtWork
<1> QED  BY <1>1, <1>2, <1>3, PTL DEF Spec

-----------------------------------------------------------------------------
(* The task at work holds the owner lock, alone *)

\* The task of w holds the lock through its own handle, and a handler that could close that
\* handle does so only when the task is over.
Holding(w) ==
    /\ tk[w].pc # "none" => tk[w].handle # 0 /\ owner[w] = tk[w].handle
    /\ rec[w] # NoRec => tk[w].pc # "closing"
    /\ rec[w] # NoRec /\ tk[w].pc \in AtWork => rec[w].snap.status = "running"
    /\ h[w].op = "create" /\ h[w].pc \in {"clear", "commit"} /\ tk[w].pc # "none"
          => h[w].handle = 0
    /\ h[w].op = "cancel" /\ h[w].pc = "own"
          => rec[w] = NoRec \/ rec[w].snap.status = "awaiting"
    /\ h[w].op = "cancel" /\ h[w].pc = "emit" => tk[w].pc \in {"none", "final", "cancelled"}
    /\ h[w].op = "cancel" /\ h[w].pc = "broadcast" => tk[w].pc = "none"
    /\ h[w].op \notin {"delete", "clarify"}

\* The flock excludes: at most one worker holds it.
OneOwner == \A v, w \in Workers : owner[v] # 0 /\ owner[w] # 0 => v = w

\* Closing a handle, whoever's: only the own entry can change, to zero.
LEMMA ReleaseMoves ==
    ASSUME TypeOK, NEW w \in Workers, NEW n, Release(w, n)
    PROVE  /\ owner'[w] = IF owner[w] = n THEN 0 ELSE owner[w]
           /\ \A v \in Workers : v # w => owner'[v] = owner[v]
BY DEF Release, Without, TypeOK

\* How a step of w may change who holds the owner lock.
OwnerMove(w) ==
    /\ \/ \A v \in Workers : v # w => owner'[v] = owner[v]
       \/ DeleteRemove(w) /\ \A v \in Workers : owner'[v] = 0
    /\ owner'[w] = owner[w] \/ owner'[w] = 0 \/ OwnerFree

\* Every step changes it in that way.
LEMMA OwnerMoves ==
    ASSUME TypeOK, NEW w \in Workers, Step(w)
    PROVE  OwnerMove(w)
<1>1. ASSUME NEW n, Release(w, n)
      PROVE  OwnerMove(w)
  BY <1>1, ReleaseMoves DEF OwnerMove
<1>2. ASSUME UNCHANGED owner
      PROVE  OwnerMove(w)
  BY <1>2 DEF OwnerMove
<1>3. ASSUME OwnerFree, NEW n, owner' = [owner EXCEPT ![w] = n]
      PROVE  OwnerMove(w)
  BY <1>3 DEF OwnerMove, TypeOK
<1>4. ASSUME NEW kind, NEW next, TaskEmits(w, kind, next)
      PROVE  OwnerMove(w)
  BY <1>1, <1>2, <1>4 DEF TaskEmits, FinishTask
<1>5. ASSUME NEW r, TakeOwnership(w, r, "emit")
      PROVE  OwnerMove(w)
  BY <1>2, <1>3, <1>5 DEF TakeOwnership
<1>6. CASE TaskStep(w)
  <2>1. CASE TaskStart(w) \/ TaskQueues(w) \/ TaskAdmitted(w) \/ TaskProgress(w) \/ TaskOutcome(w)
    BY <1>2, <1>4, <2>1 DEF TaskStart, TaskQueues, TaskAdmitted, TaskProgress, TaskOutcome
  <2>2. CASE TaskCancelled(w) \/ TaskBroadcastDone(w)
    BY <1>1, <1>2, <1>4, <2>2 DEF TaskCancelled, TaskBroadcastDone, FinishTask
  <2> QED  BY <1>6, <2>1, <2>2 DEF TaskStep
<1>7. CASE CreateStart(w) \/ CreateAwaited(w) \/ CreateClear(w) \/ CreateCommit(w)
  BY <1>1, <1>2, <1>3, <1>7 DEF CreateStart, CreateAwaited, CreateClear, CreateCommit, CreateFails
<1>8. CASE ClarifyRead(w) \/ ClarifyOwn(w) \/ ClarifyEmit(w) \/ ClarifyResume(w)
  BY <1>1, <1>2, <1>5, <1>8 DEF ClarifyRead, ClarifyOwn, ClarifyEmit, ClarifyResume, ClarifyAbort
<1>9. CASE \/ CancelStart(w) \/ CancelOwn(w) \/ CancelAwaited(w)
           \/ CancelEmit(w) \/ CancelDone(w)
  BY <1>1, <1>2, <1>5, <1>9 DEF CancelStart, CancelOwn, CancelAwaited, CancelEmit, CancelDone,
                                CancelRelease
<1>10. CASE DeleteStart(w) \/ DeleteAwaited(w)
  BY <1>1, <1>2, <1>10 DEF DeleteStart, DeleteAwaited
<1>11. CASE DeleteRemove(w)
  <2>1. owner' = [v \in Workers |-> 0] \/ owner' = owner
    BY <1>11 DEF DeleteRemove
  <2> QED  BY <1>2, <1>11, <2>1 DEF OwnerMove
<1>12. CASE RecoverRead(w) \/ RecoverWrite(w) \/ PruneRecord(w) \/ ShutdownStart(w)
  BY <1>1, <1>2, <1>12 DEF RecoverRead, RecoverWrite, PruneRecord, ShutdownStart
<1>13. CASE Crash(w) \/ ShutdownExit(w)
  <2>1. owner' = [owner EXCEPT ![w] = 0]
    BY <1>13 DEF Crash, ShutdownExit, ProcessExit
  <2> QED  BY <2>1 DEF OwnerMove, TypeOK
<1> QED
  BY <1>6, <1>7, <1>8, <1>9, <1>10, <1>11, <1>12, <1>13 DEF Step, HandlerStep

\* Every step leaves the lock with the task: the task itself, ...
LEMMA TaskHolds ==
    ASSUME TypeOK, NEW w \in Workers, TaskStep(w), Holding(w)
    PROVE  Holding(w)'
<1>0. /\ rec[w] \in Records /\ tk[w] \in Tasks /\ rec[w].snap \in Snapshots
      /\ h[w] \in Handlers /\ h' = h /\ ~MidBlock(w)
  BY DEF TypeOK, Records, TaskStep, TaskStart, TaskQueues, TaskAdmitted, TaskProgress,
         TaskOutcome, TaskCancelled, TaskBroadcastDone
<1>1. h[w].pc # "own"
  BY <1>0 DEF MidBlock
<1>2. ASSUME FinishTask(w)
      PROVE  Holding(w)'
  <2>1. /\ tk'[w] = NoTask /\ rec'[w].snap = rec[w].snap
        /\ rec[w] = NoRec => rec'[w] = NoRec
    BY <1>2, FinishMoves
  <2> QED  BY <1>0, <1>1, <2>1, NullsIdle DEF Holding, AtWork
<1>3. ASSUME NEW kind \in Kinds, NEW next, TaskEmits(w, kind, next), tk[w].pc \in AtWork,
             StatusAfter(kind) = "running" \/ next \notin AtWork, next \notin {"none", "closing"}
      PROVE  Holding(w)'
  <2>1. /\ h[w].op = "cancel" => h[w].pc \notin {"emit", "broadcast"}
        /\ tk[w].pc # "none"
    BY <1>3 DEF Holding, AtWork
  <2> QED  BY <1>0, <1>1, <1>2, <1>3, <2>1, EmitMoves DEF Holding, AtWork, CanRecord
<1>4. ASSUME NEW p \in AtWork, tk' = [tk EXCEPT ![w].pc = p], tk[w].pc \in AtWork,
             UNCHANGED <<rec, owner>>
      PROVE  Holding(w)'
  <2>1. tk'[w].pc = p /\ tk'[w].handle = tk[w].handle
    BY <1>0, <1>4 DEF TypeOK, Tasks
  <2> QED  BY <1>0, <1>4, <2>1 DEF Holding, AtWork
<1>5. CASE TaskStart(w)
  <2>1. CASE tk[w].resume
    BY <1>4, <1>5, <2>1 DEF TaskStart, AtWork
  <2>2. CASE ~tk[w].resume
    <3>1. TaskEmits(w, "session_created", "session") /\ tk[w].pc \in AtWork
      BY <1>5, <2>2 DEF TaskStart, AtWork
    <3>2. "session_created" \in Kinds /\ StatusAfter("session_created") = "running"
      BY DEF Kinds, StatusAfter
    <3> QED  BY <1>3, <3>1, <3>2
  <2> QED  BY <2>1, <2>2
<1>6. CASE TaskProgress(w)
  <2>1. "intent_resolved" \in Kinds /\ StatusAfter("intent_resolved") = "running"
    BY DEF Kinds, StatusAfter
  <2> QED  BY <1>3, <1>6, <2>1 DEF TaskProgress, AtWork
<1>7. CASE TaskOutcome(w)
  <2>1. \E kind \in Kinds : TaskEmits(w, kind, "final")
    BY <1>7 DEF TaskOutcome, Kinds
  <2>2. tk[w].pc \in AtWork /\ "final" \notin AtWork
    BY <1>7 DEF TaskOutcome, AtWork
  <2> QED  BY <1>3, <2>1, <2>2
<1>8. CASE TaskCancelled(w)
  <2>1. CASE tk' = [tk EXCEPT ![w] = NoTask] /\ UNCHANGED <<rec, owner>>
    <3>1. tk'[w] = NoTask
      BY <2>1 DEF TypeOK
    <3> QED  BY <1>0, <2>1, <3>1, NullsIdle DEF Holding, AtWork
  <2>2. CASE TaskEmits(w, "task_cancelled", "cancelled") /\ tk[w].pc \in AtWork
    <3>1. "task_cancelled" \in Kinds /\ "cancelled" \notin AtWork
      BY DEF Kinds, AtWork
    <3> QED  BY <1>3, <2>2, <3>1
  <2> QED  BY <1>2, <1>8, <2>1, <2>2 DEF TaskCancelled, AtWork, Executing
<1>9. CASE TaskBroadcastDone(w)
  <2>1. tk[w].pc \in {"session", "told", "progress"}
          => tk[w].pc \in AtWork /\ AfterBroadcast[tk[w].pc] \in AtWork
    BY DEF AfterBroadcast, AtWork
  <2> QED  BY <1>2, <1>4, <1>9, <2>1 DEF TaskBroadcastDone
<1>10. CASE TaskQueues(w) \/ TaskAdmitted(w)
  <2>1. "intent_resolved" \in Kinds /\ StatusAfter("intent_resolved") = "running"
    BY DEF Kinds, StatusAfter
  <2> QED  BY <1>3, <1>4, <1>10, <2>1 DEF TaskQueues, TaskAdmitted, AtWork
<1> QED  BY <1>5, <1>6, <1>7, <1>8, <1>9, <1>10 DEF TaskStep

\* ... a create, ...
LEMMA CreateHolds ==
    ASSUME TypeOK, NEW w \in Workers, Holding(w),
           CreateStart(w) \/ CreateAwaited(w) \/ CreateClear(w) \/ CreateCommit(w)
    PROVE  Holding(w)'
<1>0. /\ rec[w] \in Records /\ tk[w] \in Tasks /\ h[w] \in Handlers
  BY DEF TypeOK
<1>1. CASE CreateStart(w)
  <2>1. CASE /\ rec' = [rec EXCEPT ![w] = NoRec]
             /\ tk' = [tk EXCEPT ![w].cancel = TRUE]
             /\ h' = [h EXCEPT ![w] = [NoHandler EXCEPT !.op = "create", !.pc = "wait",
                                                       !.handle = rec[w].handle]]
             /\ UNCHANGED owner
    <3>1. /\ rec'[w] = NoRec /\ tk'[w].pc = tk[w].pc /\ tk'[w].handle = tk[w].handle
          /\ h'[w].op = "create" /\ h'[w].pc = "wait"
      BY <1>0, <2>1 DEF TypeOK, Tasks, NoHandler
    <3> QED  BY <2>1, <3>1 DEF Holding
  <2>2. CASE /\ ~(rec[w] # NoRec /\ tk[w].pc # "none")
             /\ h' = [h EXCEPT ![w] = [NoHandler EXCEPT !.op = "create", !.pc = "clear",
                                                       !.handle = rec[w].handle]]
             /\ UNCHANGED <<rec, tk, owner>>
    <3>1. h'[w].op = "create" /\ h'[w].pc = "clear" /\ h'[w].handle = rec[w].handle
      BY <2>2 DEF TypeOK, NoHandler
    <3>2. NoRec.handle = 0
      BY DEF NoRec
    <3> QED  BY <2>2, <3>1, <3>2 DEF Holding
  <2> QED  BY <1>1, <2>1, <2>2 DEF CreateStart
<1>2. CASE CreateAwaited(w) \/ CreateClear(w)
  <2>1. /\ h[w].op = "create" /\ UNCHANGED <<rec, tk, owner>>
        /\ (h[w].pc = "clear" \/ tk[w].pc = "none")
    BY <1>2 DEF CreateAwaited, CreateClear
  <2>2. h'[w].op = "create" /\ h'[w].pc \in {"clear", "commit"} /\ h'[w].handle = h[w].handle
    BY <1>0, <1>2 DEF CreateAwaited, CreateClear, TypeOK, Handlers
  <2> QED  BY <2>1, <2>2 DEF Holding
<1>3. CASE CreateCommit(w)
  <2>1. h[w].op = "create" /\ h[w].pc = "commit" /\ h' = [h EXCEPT ![w] = NoHandler]
    BY <1>3 DEF CreateCommit, CreateFails
  <2>2. h'[w] = NoHandler
    BY <2>1 DEF TypeOK
  <2>3. CASE CreateFails(w)
    <3>1. UNCHANGED <<rec, tk>> /\ (UNCHANGED owner \/ Release(w, h[w].handle))
      BY <2>3 DEF CreateFails
    <3> QED  BY <2>1, <2>2, <3>1, NullsIdle, ReleaseMoves DEF Holding
  <2> DEFINE s == [run |-> runs + 1, status |-> "running", events |-> <<>>]
             n == NewHandle(w)
  <2>4. CASE /\ rec' = [rec EXCEPT ![w] = [NoRec EXCEPT !.run = s.run, !.snap = s, !.handle = n]]
             /\ tk' = [tk EXCEPT ![w] = [NoTask EXCEPT !.pc = "new", !.run = s.run, !.handle = n]]
             /\ owner' = [owner EXCEPT ![w] = n]
    <3>0. s.status = "running" /\ n # 0
      BY NewHandleType
    <3> HIDE DEF s, n
    <3>1. rec'[w].snap = s
      BY <2>4 DEF TypeOK, NoRec
    <3>2. tk'[w].pc = "new" /\ tk'[w].handle = n /\ owner'[w] = n
      BY <2>4 DEF TypeOK, NoTask
    <3> QED  BY <2>2, <3>0, <3>1, <3>2, NullsIdle DEF Holding, AtWork
  <2> QED  BY <1>3, <2>3, <2>4 DEF CreateCommit
<1> QED  BY <1>1, <1>2, <1>3

\* ... a cancellation, ...
LEMMA CancelHolds ==
    ASSUME TypeOK, NEW w \in Workers, Holding(w),
           \/ CancelStart(w) \/ CancelOwn(w) \/ CancelAwaited(w)
           \/ CancelEmit(w) \/ CancelDone(w)
    PROVE  Holding(w)'
<1>0. /\ rec[w] \in Records /\ tk[w] \in Tasks /\ h[w] \in Handlers /\ rec[w].snap \in Snapshots
  BY DEF TypeOK, Records
<1>1. CASE CancelStart(w)
  <2>1. UNCHANGED <<rec, owner>>
    BY <1>1 DEF CancelStart
  <2>2. CASE /\ tk' = tk
             /\ LET s == IF rec[w] = NoRec THEN Persisted ELSE rec[w].snap
                IN  /\ s.status = "awaiting"
                    /\ h' = [h EXCEPT ![w] = [NoHandler EXCEPT !.op = "cancel", !.pc = "own",
                                                              !.snap = s]]
    <3>1. h'[w].op = "cancel" /\ h'[w].pc = "own"
      BY <2>2 DEF TypeOK, NoHandler
    <3> QED  BY <2>1, <2>2, <3>1 DEF Holding
  <2>3. CASE /\ tk' = [tk EXCEPT ![w].cancel = TRUE]
             /\ h' = [h EXCEPT ![w] = [NoHandler EXCEPT !.op = "cancel", !.pc = "wait",
                                                       !.run = rec[w].run]]
    <3>1. h'[w].op = "cancel" /\ h'[w].pc = "wait"
      BY <2>3 DEF TypeOK, NoHandler
    <3>2. tk'[w].pc = tk[w].pc /\ tk'[w].handle = tk[w].handle
      BY <1>0, <2>3 DEF TypeOK, Tasks
    <3> QED  BY <2>1, <3>1, <3>2 DEF Holding
  <2> QED  BY <1>1, <2>2, <2>3 DEF CancelStart
<1>2. CASE CancelOwn(w)
  <2> DEFINE r == IF rec[w] = NoRec THEN Adopted(h[w].snap) ELSE rec[w]
  <2>0. h[w].snap \in Snapshots /\ Adopted(h[w].snap) \in Records /\ h[w].op = "cancel"
        /\ h[w].pc = "own" /\ tk' = tk
    BY <1>2, AdoptedType DEF TypeOK, Handlers, CancelOwn
  <2>1. /\ r \in Records
        /\ rec[w] # NoRec => r = rec[w]
        /\ rec[w] = NoRec => r.handle = 0
    BY <1>0, <2>0, AdoptedFields
  <2>2. CASE TakeOwnership(w, r, "emit")
    <3>1. r.handle = 0 => OwnerFree
      BY <2>2 DEF TakeOwnership
    <3>2. rec[w] = NoRec => tk[w].pc = "none"
      BY <2>1, <3>1 DEF OwnerFree, Holding
    <3>3. tk[w].pc \in {"none", "final", "cancelled"}
      BY <1>0, <2>0, <3>2 DEF Holding, AtWork, Tasks, Executing
    <3>4. tk[w].pc # "none" => owner' = owner
      BY <2>2, <3>1 DEF TakeOwnership, OwnerFree, Holding
    <3> QED  BY <2>0, <2>1, <2>2, <3>3, <3>4, OwnershipMoves DEF Holding, AtWork
  <2>3. CASE h' = [h EXCEPT ![w] = NoHandler] /\ UNCHANGED <<rec, owner>>
    <3>1. h'[w] = NoHandler
      BY <2>3 DEF TypeOK
    <3> QED  BY <2>0, <2>3, <3>1, NullsIdle DEF Holding
  <2> QED  BY <1>2, <2>2, <2>3 DEF CancelOwn
<1>3. CASE CancelAwaited(w)
  <2>1. h[w].op = "cancel" /\ tk[w].pc = "none" /\ UNCHANGED <<rec, tk, owner>>
    BY <1>3 DEF CancelAwaited
  <2>2. (h'[w].op = "cancel" /\ h'[w].pc = "emit") \/ h'[w] = NoHandler
    BY <1>0, <1>3 DEF CancelAwaited, TypeOK, Handlers
  <2> QED  BY <2>1, <2>2, NullsIdle DEF Holding
<1>4. ASSUME CancelRelease(w), tk' = tk, tk[w].pc = "none"
      PROVE  Holding(w)'
  <2>1. h'[w] = NoHandler
    BY <1>4 DEF CancelRelease, TypeOK
  <2> QED  BY <1>4, <2>1, NullsIdle DEF Holding, AtWork
<1>5. CASE CancelEmit(w)
  <2>1. h[w].op = "cancel" /\ h[w].pc = "emit" /\ tk' = tk /\ tk[w].pc = "none"
    BY <1>5 DEF CancelEmit, MonitorFree, Holding
  <2>2. CASE /\ RecordEvent(w, "task_cancelled") /\ UNCHANGED owner
             /\ h' = [h EXCEPT ![w].pc = "broadcast"]
    <3>1. "task_cancelled" \in Kinds
      BY DEF Kinds
    <3>2. h'[w].op = "cancel" /\ h'[w].pc = "broadcast"
      BY <2>1, <2>2, <3>1, SpeakMoves
    <3> QED  BY <2>1, <2>2, <3>2 DEF Holding, AtWork
  <2> QED  BY <1>4, <1>5, <2>1, <2>2 DEF CancelEmit
<1>6. CASE CancelDone(w)
  BY <1>4, <1>6 DEF CancelDone, Holding
<1> QED  BY <1>1, <1>2, <1>3, <1>5, <1>6

\* ... and everything else.
LEMMA BackgroundHolds ==
    ASSUME TypeOK, NEW w \in Workers, ~tomb', Holding(w),
           \/ DeleteStart(w) \/ DeleteAwaited(w) \/ DeleteRemove(w)
           \/ RecoverRead(w) \/ RecoverWrite(w) \/ PruneRecord(w)
           \/ Crash(w) \/ ShutdownStart(w) \/ ShutdownExit(w)
    PROVE  Holding(w)'
<1>0. tk[w] \in Tasks
  BY DEF TypeOK
<1>1. ~DeleteAwaited(w) /\ ~DeleteRemove(w)
  BY DEF DeleteAwaited, DeleteRemove, Holding
<1>2. CASE DeleteStart(w) \/ RecoverRead(w) \/ RecoverWrite(w)
  BY <1>2 DEF DeleteStart, RecoverRead, RecoverWrite, Holding
<1>3. CASE PruneRecord(w)
  <2>1. rec'[w] = NoRec /\ tk[w].pc = "none" /\ UNCHANGED <<tk, h>>
    BY <1>3 DEF PruneRecord, TypeOK
  <2> QED  BY <2>1 DEF Holding
<1>4. CASE ProcessExit(w)
  <2>1. rec'[w] = NoRec /\ tk'[w] = NoTask /\ h'[w] = NoHandler
    BY <1>4 DEF ProcessExit, TypeOK
  <2> QED  BY <2>1, NullsIdle DEF Holding
<1>5. CASE ShutdownStart(w)
  <2>1. UNCHANGED <<rec, owner>>
    BY <1>5 DEF ShutdownStart
  <2>2. /\ h'[w].op = "shutdown" /\ tk'[w].pc = tk[w].pc /\ tk'[w].handle = tk[w].handle
    BY <1>0, <1>5 DEF ShutdownStart, TypeOK, Tasks, NoHandler
  <2> QED  BY <2>1, <2>2 DEF Holding
<1> QED  BY <1>1, <1>2, <1>3, <1>4, <1>5 DEF Crash, ShutdownExit

\* The inductive invariant, until the task is deleted.
HoldingInv == TypeOK /\ OneOwner /\ (~tomb => \A w \in Workers : Holding(w))

\* Where nothing is clarified, the task between its first and its last event holds the owner flock
\* and no other worker does, whatever is created, cancelled, deleted, recovered, pruned or crashes,
\* and whichever writes fail.  (A clarified run may lose its lock: the run "resume_loses_lock".)
THEOREM ExecutorIsAlone ==
    ASSUME "clarify" \notin Requests
    PROVE  Spec => []ExecutorHoldsOwnerLock
<1>1. Init => HoldingInv
  BY InitType, NullsIdle DEF Init, HoldingInv, OneOwner, Holding, AtWork
<1>2. HoldingInv /\ [Next]_vars => HoldingInv'
  <2> SUFFICES ASSUME HoldingInv, [Next]_vars
               PROVE  HoldingInv'
    OBVIOUS
  <2>1. CASE UNCHANGED vars
    BY <2>1 DEF vars, HoldingInv, TypeOK, OneOwner, Holding
  <2>2. CASE Next
    <3>0. TypeOK /\ TypeOK' /\ (~tomb' => ~tomb)
      BY NextType, TombstoneStays DEF HoldingInv
    <3>1. PICK w \in Workers : Step(w)
      BY <2>2, NextIsStep
    <3>2. OwnerMove(w)
      BY <3>0, <3>1, OwnerMoves
    <3>3. OneOwner'
      BY <3>2 DEF OwnerMove, OwnerFree, OneOwner, HoldingInv
    <3>4. ASSUME ~tomb', NEW v \in Workers
          PROVE  Holding(v)'
      <4>1. Holding(v) /\ Holding(w)
        BY <3>0, <3>4 DEF HoldingInv
      <4>2. ~ClarifyRead(w) /\ ~ClarifyOwn(w) /\ ~ClarifyEmit(w) /\ ~ClarifyResume(w)
        BY <4>1 DEF ClarifyRead, ClarifyOwn, ClarifyEmit, ClarifyResume, Arrives, Holding
      <4>3. CASE v = w
        BY <3>0, <3>1, <3>4, <4>1, <4>2, <4>3, TaskHolds, CreateHolds, CancelHolds,
           BackgroundHolds DEF Step, HandlerStep
      <4>4. CASE v # w
        <5>1. Same(v)
          BY <3>0, <3>1, <4>4, StepIsLocal
        <5>2. owner'[v] = owner[v]
          BY <3>2, <4>1, <4>4 DEF OwnerMove, DeleteRemove, Holding
        <5> QED  BY <4>1, <5>1, <5>2 DEF Same, Holding
      <4> QED  BY <4>3, <4>4
    <3> QED  BY <3>0, <3>3, <3>4 DEF HoldingInv
  <2> QED  BY <2>1, <2>2
<1>3. HoldingInv => ExecutorHoldsOwnerLock
  BY DEF HoldingInv, OneOwner, Holding, ExecutorHoldsOwnerLock, Executing
<1> QED  BY <1>1, <1>2, <1>3, PTL DEF Spec

-----------------------------------------------------------------------------
(* A single worker *)

\* The task may still be given a new run.
Replaceable == Phase \in {"absent", "running", "awaiting", "interrupted"}

\* The run on disk has been handed out.
RunsCounted == disk = NoSnap \/ disk.run \in 1 .. runs

\* The record, and whatever a handler or a recovery of w has read and will act on, is what is
\* on disk; a create that waits may still replace what is there.
Faithful(w) ==
    /\ rec[w] # NoRec => rec[w].snap = disk /\ disk # NoSnap
    /\ rv[w] # NoSnap => /\ rv[w] = disk /\ disk.status = "running" /\ rec[w] = NoRec
                         /\ h[w].pc \notin {"own", "commit"}
    /\ h[w].pc = "own" => h[w].snap = disk /\ disk # NoSnap
    /\ h[w].pc = "commit" => (h[w].flag <=> disk # NoSnap)
    /\ h[w].op # "delete"
    /\ h[w].op = "create" => Replaceable /\ (rec[w] = NoRec \/ tk[w].pc = "none")

\* What one step may do to the durable task.
NothingWritten == UNCHANGED <<disk, runs, tomb>>
EventWritten ==
    /\ disk # NoSnap /\ UNCHANGED <<runs, tomb>>
    /\ \E kind \in Kinds : disk.status \in AllowedStatuses(kind) /\ disk' = Appended(disk, kind)
RunWritten ==
    /\ Replaceable /\ runs' = runs + 1 /\ UNCHANGED tomb
    /\ disk' = [run |-> runs + 1, status |-> "running", events |-> <<>>]
TombWritten == tomb' /\ UNCHANGED <<disk, runs>>
OneWrite == NothingWritten \/ EventWritten \/ RunWritten \/ TombWritten

\* What appending an event does to a snapshot.
LEMMA AppendedFacts ==
    ASSUME NEW s \in Snapshots, NEW kind \in Kinds
    PROVE  LET t == Appended(s, kind)
           IN  /\ t \in Snapshots /\ t.run = s.run /\ t.status = StatusAfter(kind)
               /\ Len(t.events) > 0 /\ t.events[Len(t.events)] = kind
               /\ Extends(s, t)
<1> DEFINE t == Appended(s, kind)
           e == s.events
           k == EventsFor(kind)
<1>1. t \in Snapshots
  BY AppendedType
<1>2. t.run = s.run /\ t.status = StatusAfter(kind) /\ t.events = e \o k
  BY DEF Appended, Snapshots
<1>3. /\ e \in Seq(Kinds) /\ k \in Seq(Kinds)
      /\ Len(k) \in {1, 2} /\ k[Len(k)] = kind
  <2>1. "report_generated" \in Kinds /\ "task_result" \in Kinds
    BY DEF Kinds
  <2>2. e \in Seq(Kinds)
    BY DEF Snapshots
  <2>3. CASE kind = "task_result"
    <3>1. k = <<"report_generated", "task_result">>
      BY <2>3 DEF EventsFor
    <3> HIDE DEF k, e
    <3> QED  BY <2>1, <2>2, <2>3, <3>1
  <2>4. CASE kind # "task_result"
    <3>1. k = <<kind>>
      BY <2>4 DEF EventsFor
    <3> HIDE DEF k, e
    <3> QED  BY <2>2, <3>1
  <2> QED  BY <2>3, <2>4
<1> HIDE DEF t, k, e
<1>4. /\ Len(e \o k) = Len(e) + Len(k)
      /\ \A i \in 1 .. Len(e) + Len(k) : (e \o k)[i] = IF i <= Len(e) THEN e[i] ELSE k[i - Len(e)]
  BY <1>3, ConcatProperties
<1>5. Len(t.events) > 0 /\ t.events[Len(t.events)] = kind
  <2> DEFINE n == Len(e)
             m == Len(k)
  <2>1. n \in Nat /\ m \in Nat /\ m > 0 /\ k[m] = kind
    <3>1. n \in Nat
      BY <1>3
    <3>2. m \in {1, 2} /\ k[m] = kind
      BY <1>3
    <3> HIDE DEF m
    <3> QED  BY <3>1, <3>2
  <2> HIDE DEF n, m
  <2>2. Len(e \o k) = n + m /\ (e \o k)[n + m] = k[n + m - n]
    BY <1>4, <2>1 DEF n, m
  <2>3. n + m > 0 /\ n + m - n = m
    BY <2>1
  <2> QED  BY <1>2, <2>1, <2>2, <2>3
<1>6. Len(e) <= Len(t.events) /\ \A i \in 1 .. Len(e) : e[i] = t.events[i]
  BY <1>2, <1>3, <1>4
<1>7. Extends(s, t)
  BY <1>6 DEF Extends, e
<1> QED  BY <1>1, <1>2, <1>5, <1>7 DEF t

\* Without a tombstone the persisted snapshot is the one on disk.
LEMMA PersistedIsDisk == ~tomb => Persisted = disk
BY DEF Persisted

\* The phase is a function of the durable state.
LEMMA PhaseKept ==
    ASSUME UNCHANGED <<disk, tomb>>
    PROVE  Phase' = Phase /\ (Replaceable => Replaceable')
BY DEF Phase, Replaceable

\* Each step makes one write and leaves the worker in accord with it: the task, ...
LEMMA TaskFaithful ==
    ASSUME TypeOK, RunsCounted, NEW w \in Workers, TaskStep(w), ~tomb, Faithful(w)
    PROVE  OneWrite /\ Faithful(w)'
<1>0. /\ rec[w] \in Records /\ h' = h /\ rv' = rv /\ ~MidBlock(w) /\ UNCHANGED <<runs, tomb>>
      /\ tk[w].pc # "none" /\ disk \in Snapshots /\ runs \in Nat
  BY DEF TypeOK, TaskStep, TaskStart, TaskQueues, TaskAdmitted, TaskProgress, TaskOutcome,
         TaskCancelled, TaskBroadcastDone, Executing
<1>1. rv[w] = NoSnap /\ h[w].pc \notin {"own", "commit"}
  BY <1>0 DEF MidBlock
<1>2. ASSUME disk' = disk, rec'[w] = NoRec \/ (rec[w] # NoRec /\ rec'[w].snap = rec[w].snap),
             h[w].op = "create" => rec'[w] = NoRec
      PROVE  OneWrite /\ Faithful(w)'
  <2>1. OneWrite
    BY <1>0, <1>2 DEF OneWrite, NothingWritten
  <2>2. h[w].op = "create" => Replaceable'
    BY <1>0, <1>2, PhaseKept DEF Faithful
  <2> QED  BY <1>0, <1>1, <1>2, <2>1, <2>2 DEF Faithful
<1>3. ASSUME FinishTask(w), disk' = disk
      PROVE  OneWrite /\ Faithful(w)'
  <2>1. rec'[w].snap = rec[w].snap /\ (rec[w] = NoRec => rec'[w] = NoRec)
    BY <1>3, FinishMoves
  <2>2. h[w].op = "create" => rec'[w] = NoRec
    BY <1>0, <2>1 DEF Faithful
  <2> QED  BY <1>2, <1>3, <2>1, <2>2
<1>4. ASSUME NEW kind \in Kinds, NEW next, TaskEmits(w, kind, next)
      PROVE  OneWrite /\ Faithful(w)'
  <2>1. CASE CanRecord(w, tk[w].run, kind) /\ RecordEvent(w, kind)
    <3>1. /\ rec[w] # NoRec /\ rec[w].snap = disk /\ disk # NoSnap
          /\ disk.status \in AllowedStatuses(kind) /\ h[w].op # "create"
      BY <1>0, <2>1 DEF CanRecord, Faithful
    <3>2. disk' = Appended(disk, kind) /\ rec'[w].snap = disk'
      BY <1>0, <2>1, <3>1 DEF RecordEvent, TypeOK, Records
    <3>3. disk' # NoSnap
      BY <1>0, <3>1, <3>2, AppendedFacts DEF RunsCounted, NoSnap
    <3>4. EventWritten
      BY <1>0, <3>1, <3>2 DEF EventWritten
    <3> QED  BY <1>0, <1>1, <3>1, <3>2, <3>3, <3>4 DEF OneWrite, Faithful
  <2>2. CASE rec' = [rec EXCEPT ![w] = NoRec] /\ UNCHANGED disk
    BY <1>2, <2>2 DEF TypeOK
  <2>3. CASE FinishTask(w) /\ UNCHANGED disk
    BY <1>3, <2>3
  <2> QED  BY <1>4, <2>1, <2>2, <2>3 DEF TaskEmits
<1>5. ASSUME UNCHANGED <<disk, rec>>
      PROVE  OneWrite /\ Faithful(w)'
  <2>1. h[w].op = "create" => rec[w] = NoRec
    BY <1>0 DEF Faithful
  <2> QED  BY <1>2, <1>5, <2>1
<1>6. CASE TaskStart(w)
  BY <1>4, <1>5, <1>6 DEF TaskStart, Kinds
<1>7. CASE TaskProgress(w)
  BY <1>4, <1>7 DEF TaskProgress, Kinds
<1>8. CASE TaskOutcome(w)
  BY <1>4, <1>8 DEF TaskOutcome, Kinds
<1>9. CASE TaskCancelled(w)
  <2>1. "task_cancelled" \in Kinds
    BY DEF Kinds
  <2> QED  BY <1>3, <1>4, <1>5, <1>9, <2>1 DEF TaskCancelled
<1>10. CASE TaskBroadcastDone(w)
  BY <1>3, <1>5, <1>10 DEF TaskBroadcastDone
<1>11. CASE TaskQueues(w) \/ TaskAdmitted(w)
  BY <1>4, <1>5, <1>11 DEF TaskQueues, TaskAdmitted, Kinds
<1> QED  BY <1>6, <1>7, <1>8, <1>9, <1>10, <1>11 DEF TaskStep

\* ... a create, ...
LEMMA CreateFaithful ==
    ASSUME TypeOK, RunsCounted, NEW w \in Workers, ~tomb, Faithful(w),
           CreateStart(w) \/ CreateAwaited(w) \/ CreateClear(w) \/ CreateCommit(w)
    PROVE  OneWrite /\ Faithful(w)'
<1>0. /\ rec[w] \in Records /\ h[w] \in Handlers /\ disk \in Snapshots
      /\ UNCHANGED <<rv, tomb>>
      /\ runs \in Nat
  BY DEF TypeOK, CreateStart, CreateAwaited, CreateClear, CreateCommit
<1>1. CASE CreateStart(w)
  <2>1. UNCHANGED <<disk, runs, tomb>> /\ rv[w] = NoSnap
    BY <1>1 DEF CreateStart, Arrives, HandlerFree, MidBlock
  <2>2. disk.status \in {"running", "awaiting", "absent"}
    <3>1. disk.status \notin Terminal
      BY <1>1, PersistedIsDisk DEF CreateStart, Faithful
    <3> QED  BY <1>0, <3>1 DEF Snapshots, Statuses
  <2>3. Replaceable'
    BY <1>0, <2>1, <2>2 DEF Replaceable, Phase
  <2>4. /\ h'[w].op = "create" /\ h'[w].pc \in {"wait", "clear"}
        /\ \/ rec'[w] = NoRec
           \/ rec' = rec /\ tk' = tk /\ (rec[w] = NoRec \/ tk[w].pc = "none")
    <3>1. CASE rec[w] # NoRec /\ tk[w].pc # "none"
      <4>1. rec'[w] = NoRec
        BY <1>1, <3>1 DEF CreateStart, TypeOK
      <4>2. h' = [h EXCEPT ![w] = [NoHandler EXCEPT !.op = "create", !.pc = "wait",
                                                   !.handle = rec[w].handle]]
        BY <1>1, <3>1 DEF CreateStart
      <4>3. h'[w].op = "create" /\ h'[w].pc = "wait"
        BY <4>2 DEF TypeOK, NoHandler
      <4> QED  BY <4>1, <4>3
    <3>2. CASE ~(rec[w] # NoRec /\ tk[w].pc # "none")
      <4>1. rec' = rec /\ tk' = tk
        BY <1>1, <3>2 DEF CreateStart
      <4>2. h' = [h EXCEPT ![w] = [NoHandler EXCEPT !.op = "create", !.pc = "clear",
                                                   !.handle = rec[w].handle]]
        BY <1>1, <3>2 DEF CreateStart
      <4>3. h'[w].op = "create" /\ h'[w].pc = "clear"
        BY <4>2 DEF TypeOK, NoHandler
      <4> QED  BY <3>2, <4>1, <4>3
    <3> QED  BY <3>1, <3>2
  <2> QED  BY <1>0, <2>1, <2>3, <2>4 DEF OneWrite, NothingWritten, Faithful
<1>2. CASE CreateAwaited(w) \/ CreateClear(w)
  <2>1. /\ UNCHANGED <<disk, rec, tk, rv, runs, tomb>> /\ h[w].op = "create" /\ rv[w] = NoSnap
    BY <1>2 DEF CreateAwaited, CreateClear, MidBlock
  <2>2. /\ h'[w].op = "create"
        /\ \/ h'[w].pc = "clear"
           \/ h'[w].pc = "commit" /\ (h'[w].flag <=> disk # NoSnap)
    BY <1>0, <1>2 DEF CreateAwaited, CreateClear, TypeOK, Handlers
  <2>3. Replaceable'
    BY <1>0, <2>1, PhaseKept DEF Faithful
  <2> QED  BY <1>0, <2>1, <2>2, <2>3 DEF OneWrite, NothingWritten, Faithful
<1>3. CASE CreateCommit(w)
  <2>1. h[w].op = "create" /\ h[w].pc = "commit" /\ h' = [h EXCEPT ![w] = NoHandler]
        /\ rv[w] = NoSnap
    BY <1>3 DEF CreateCommit, CreateFails, Faithful
  <2>2. h'[w] = NoHandler
    BY <2>1 DEF TypeOK
  <2>3. CASE CreateFails(w) /\ (disk' = disk \/ disk' = IF h[w].flag THEN disk ELSE NoSnap)
    <3>1. UNCHANGED <<disk, rec, tk, rv, runs, tomb>>
      BY <1>0, <1>3, <2>1, <2>3 DEF CreateCommit, CreateFails, Faithful
    <3> QED  BY <2>1, <2>2, <3>1, NullsIdle DEF OneWrite, NothingWritten, Faithful
  <2> DEFINE s == [run |-> runs + 1, status |-> "running", events |-> <<>>]
             n == NewHandle(w)
  <2>4. CASE /\ disk' = s /\ runs' = runs + 1
             /\ rec' = [rec EXCEPT ![w] = [NoRec EXCEPT !.run = s.run, !.snap = s, !.handle = n]]
    <3>1. rec'[w].snap = s /\ s # NoSnap
      BY <1>0, <2>4 DEF TypeOK, NoRec, NoSnap
    <3>2. RunWritten
      BY <1>3, <2>1, <2>4 DEF RunWritten, CreateCommit, Faithful
    <3> QED  BY <1>0, <2>1, <2>2, <2>4, <3>1, <3>2, NullsIdle DEF OneWrite, Faithful
  <2> QED  BY <1>3, <2>3, <2>4 DEF CreateCommit
<1> QED  BY <1>1, <1>2, <1>3

\* Clearing the handle of no record leaves no record.
LEMMA NullCleared == [NoRec EXCEPT !.handle = 0] = NoRec
<1>1. NoRec \in Records /\ NoRec.handle = 0
  BY NullTypes DEF NoRec
<1>2. ASSUME NEW r \in Records, r.handle = 0
      PROVE  [r EXCEPT !.handle = 0] = r
  BY <1>2 DEF Records
<1> QED  BY <1>1, <1>2

\* An adopted record, or the worker's own, still holds the snapshot on disk.
LEMMA TakenFaithful ==
    ASSUME TypeOK, NEW w \in Workers, ~tomb, Faithful(w), h[w].pc = "own",
           NEW pc, TakeOwnership(w, IF rec[w] = NoRec THEN Adopted(h[w].snap) ELSE rec[w], pc)
    PROVE  rec'[w].snap = disk /\ h'[w].op = h[w].op /\ h'[w].pc = pc
<1> DEFINE r == IF rec[w] = NoRec THEN Adopted(h[w].snap) ELSE rec[w]
<1>1. r.snap = disk /\ r \in Records
  BY AdoptedType DEF Faithful, Adopted, NoRec, TypeOK, Handlers
<1> HIDE DEF r
<1>2. \E n : rec' = [rec EXCEPT ![w] = [r EXCEPT !.handle = n]]
  BY DEF TakeOwnership, r
<1>3. \E n, k : h' = [h EXCEPT ![w] = [@ EXCEPT !.pc = pc, !.run = r.run, !.handle = n, !.flag = k]]
  BY DEF TakeOwnership, r
<1> QED  BY <1>1, <1>2, <1>3 DEF TypeOK, Records, Handlers

\* An event recorded by a handler.
LEMMA RecordFaithful ==
    ASSUME TypeOK, RunsCounted, NEW w \in Workers, NEW r, NEW kind \in Kinds,
           Faithful(w), CanRecord(w, r, kind), RecordEvent(w, kind), UNCHANGED <<runs, tomb>>
    PROVE  EventWritten /\ disk' # NoSnap /\ rec'[w].snap = disk' /\ ~tomb'
<1>1. rec[w].snap = disk /\ disk # NoSnap /\ disk.status \in AllowedStatuses(kind) /\ ~tomb
  BY DEF CanRecord, Faithful, Deleted
<1>2. disk' = Appended(disk, kind) /\ rec'[w].snap = disk'
  BY <1>1 DEF RecordEvent, TypeOK, Records
<1>3. disk' # NoSnap
  BY <1>1, <1>2, AppendedFacts DEF RunsCounted, NoSnap, TypeOK
<1> QED  BY <1>1, <1>2, <1>3 DEF EventWritten

\* ... a clarification, ...
LEMMA ClarifyFaithful ==
    ASSUME TypeOK, RunsCounted, NEW w \in Workers, ~tomb, Faithful(w),
           ClarifyRead(w) \/ ClarifyOwn(w) \/ ClarifyEmit(w) \/ ClarifyResume(w)
    PROVE  OneWrite /\ Faithful(w)'
<1>0. /\ rec[w] \in Records /\ h[w] \in Handlers /\ disk \in Snapshots /\ rv[w] = NoSnap
      /\ UNCHANGED <<rv, tomb, runs>>
  BY DEF TypeOK, ClarifyRead, ClarifyOwn, ClarifyEmit, ClarifyResume, Arrives, HandlerFree,
         MidBlock, Faithful
<1>1. ASSUME ClarifyAbort(w), UNCHANGED disk
      PROVE  OneWrite /\ Faithful(w)'
  <2>1. h'[w] = NoHandler
    BY <1>1 DEF ClarifyAbort, TypeOK
  <2>2. rec'[w] = NoRec \/ (rec[w] # NoRec /\ rec'[w].snap = rec[w].snap)
    <3>1. rec'[w] \in {NoRec, rec[w], [rec[w] EXCEPT !.handle = 0]}
      BY <1>1 DEF ClarifyAbort, TypeOK
    <3>2. [NoRec EXCEPT !.handle = 0] = NoRec
      BY NullCleared
    <3> QED  BY <1>0, <3>1, <3>2 DEF Records
  <2> QED  BY <1>0, <1>1, <2>1, <2>2, NullsIdle DEF OneWrite, NothingWritten, Faithful
<1>2. CASE ClarifyRead(w)
  <2>1. /\ UNCHANGED <<disk, rec>> /\ disk # NoSnap
        /\ h'[w] = [NoHandler EXCEPT !.op = "clarify", !.pc = "own",
                                     !.snap = IF Persisted # NoSnap THEN Persisted ELSE rec[w].snap]
    BY <1>2 DEF ClarifyRead, TypeOK
  <2>2. h'[w].op = "clarify" /\ h'[w].pc = "own" /\ h'[w].snap = disk
    BY <2>1, PersistedIsDisk DEF NoHandler
  <2> QED  BY <1>0, <2>1, <2>2 DEF OneWrite, NothingWritten, Faithful
<1>3. CASE ClarifyOwn(w)
  <2>1. UNCHANGED disk /\ h[w].op = "clarify" /\ h[w].pc = "own"
    BY <1>3 DEF ClarifyOwn
  <2>2. CASE TakeOwnership(w, IF rec[w] = NoRec THEN Adopted(h[w].snap) ELSE rec[w], "emit")
    <3>1. rec'[w].snap = disk /\ h'[w].op = "clarify" /\ h'[w].pc = "emit" /\ disk # NoSnap
      BY <2>1, <2>2, TakenFaithful DEF Faithful
    <3> QED  BY <1>0, <2>1, <3>1 DEF OneWrite, NothingWritten, Faithful
  <2>3. CASE h' = [h EXCEPT ![w] = NoHandler] /\ UNCHANGED rec
    <3>1. h'[w] = NoHandler
      BY <2>3 DEF TypeOK
    <3> QED  BY <1>0, <2>1, <2>3, <3>1, NullsIdle DEF OneWrite, NothingWritten, Faithful
  <2> QED  BY <1>3, <2>2, <2>3 DEF ClarifyOwn
<1>4. CASE ClarifyEmit(w)
  <2>1. CASE /\ CanRecord(w, h[w].run, "clarification_resolved")
             /\ RecordEvent(w, "clarification_resolved")
             /\ h' = [h EXCEPT ![w].pc = "broadcast"]
    <3>1. EventWritten /\ disk' # NoSnap /\ rec'[w].snap = disk'
      BY <1>0, <2>1, RecordFaithful DEF Kinds
    <3>2. h[w].op = "clarify" /\ h'[w].op = "clarify" /\ h'[w].pc = "broadcast"
      BY <1>0, <1>4, <2>1 DEF ClarifyEmit, Handlers, TypeOK
    <3> QED  BY <1>0, <3>1, <3>2 DEF OneWrite, Faithful
  <2> QED  BY <1>1, <1>4, <2>1 DEF ClarifyEmit
<1>5. CASE ClarifyResume(w)
  <2>1. CASE h' = [h EXCEPT ![w] = NoHandler] /\ UNCHANGED <<rec, disk>>
    <3>1. h'[w] = NoHandler
      BY <2>1 DEF TypeOK
    <3> QED  BY <1>0, <2>1, <3>1, NullsIdle DEF OneWrite, NothingWritten, Faithful
  <2> QED  BY <1>1, <1>5, <2>1 DEF ClarifyResume
<1> QED  BY <1>2, <1>3, <1>4, <1>5

\* ... a cancellation, ...
LEMMA CancelFaithful ==
    ASSUME TypeOK, RunsCounted, NEW w \in Workers, ~tomb, Faithful(w),
           \/ CancelStart(w) \/ CancelOwn(w) \/ CancelAwaited(w)
           \/ CancelEmit(w) \/ CancelDone(w)
    PROVE  OneWrite /\ Faithful(w)'
<1>0. /\ rec[w] \in Records /\ h[w] \in Handlers /\ disk \in Snapshots /\ rv[w] = NoSnap
      /\ UNCHANGED <<rv, tomb, runs>>
  BY DEF TypeOK, CancelStart, CancelOwn, CancelAwaited, CancelEmit, CancelDone, Arrives,
         HandlerFree, MidBlock, Faithful
<1>1. ASSUME CancelRelease(w), UNCHANGED disk
      PROVE  OneWrite /\ Faithful(w)'
  <2>1. h'[w] = NoHandler
    BY <1>1 DEF CancelRelease, TypeOK
  <2>2. rec'[w] = NoRec \/ (rec[w] # NoRec /\ rec'[w].snap = rec[w].snap)
    <3>1. rec'[w] \in {rec[w], [rec[w] EXCEPT !.handle = 0]}
      BY <1>1 DEF CancelRelease, TypeOK
    <3>2. [NoRec EXCEPT !.handle = 0] = NoRec
      BY NullCleared
    <3> QED  BY <1>0, <3>1, <3>2 DEF Records
  <2> QED  BY <1>0, <1>1, <2>1, <2>2, NullsIdle DEF OneWrite, NothingWritten, Faithful
<1>2. CASE CancelStart(w)
  <2>1. UNCHANGED <<disk, rec>>
    BY <1>2 DEF CancelStart
  <2>2. CASE LET s == IF rec[w] = NoRec THEN Persisted ELSE rec[w].snap
             IN  /\ s.status = "awaiting"
                 /\ h' = [h EXCEPT ![w] =
                             [NoHandler EXCEPT !.op = "cancel", !.pc = "own", !.snap = s]]
    <3>1. h'[w].op = "cancel" /\ h'[w].pc = "own" /\ h'[w].snap = disk /\ disk.status = "awaiting"
      BY <2>2, PersistedIsDisk DEF NoHandler, TypeOK, Faithful
    <3>2. disk # NoSnap
      BY <3>1 DEF NoSnap
    <3> QED  BY <1>0, <2>1, <3>1, <3>2 DEF OneWrite, NothingWritten, Faithful
  <2>3. CASE h' = [h EXCEPT ![w] = [NoHandler EXCEPT !.op = "cancel", !.pc = "wait",
                                                    !.run = rec[w].run]]
    <3>1. h'[w].op = "cancel" /\ h'[w].pc = "wait"
      BY <2>3 DEF NoHandler, TypeOK
    <3> QED  BY <1>0, <2>1, <3>1 DEF OneWrite, NothingWritten, Faithful
  <2> QED  BY <1>2, <2>2, <2>3 DEF CancelStart
<1>3. CASE CancelOwn(w)
  <2>1. UNCHANGED disk /\ h[w].op = "cancel" /\ h[w].pc = "own"
    BY <1>3 DEF CancelOwn
  <2>2. CASE TakeOwnership(w, IF rec[w] = NoRec THEN Adopted(h[w].snap) ELSE rec[w], "emit")
    <3>1. rec'[w].snap = disk /\ h'[w].op = "cancel" /\ h'[w].pc = "emit" /\ disk # NoSnap
      BY <2>1, <2>2, TakenFaithful DEF Faithful
    <3> QED  BY <1>0, <2>1, <3>1 DEF OneWrite, NothingWritten, Faithful
  <2>3. CASE h' = [h EXCEPT ![w] = NoHandler] /\ UNCHANGED rec
    <3>1. h'[w] = NoHandler
      BY <2>3 DEF TypeOK
    <3> QED  BY <1>0, <2>1, <2>3, <3>1, NullsIdle DEF OneWrite, NothingWritten, Faithful
  <2> QED  BY <1>3, <2>2, <2>3 DEF CancelOwn
<1>4. CASE CancelAwaited(w)
  <2>1. UNCHANGED <<disk, rec>> /\ h[w].op = "cancel"
    BY <1>4 DEF CancelAwaited
  <2>2. h'[w] = NoHandler \/ (h'[w].op = "cancel" /\ h'[w].pc = "emit")
    BY <1>0, <1>4 DEF CancelAwaited, TypeOK, Handlers
  <2> QED  BY <1>0, <2>1, <2>2, NullsIdle DEF OneWrite, NothingWritten, Faithful
<1>5. CASE CancelEmit(w)
  <2>1. CASE /\ CanRecord(w, h[w].run, "task_cancelled")
             /\ RecordEvent(w, "task_cancelled")
             /\ h' = [h EXCEPT ![w].pc = "broadcast"]
    <3>1. EventWritten /\ disk' # NoSnap /\ rec'[w].snap = disk'
      BY <1>0, <2>1, RecordFaithful DEF Kinds
    <3>2. h[w].op = "cancel" /\ h'[w].op = "cancel" /\ h'[w].pc = "broadcast"
      BY <1>0, <1>5, <2>1 DEF CancelEmit, Handlers, TypeOK
    <3> QED  BY <1>0, <3>1, <3>2 DEF OneWrite, Faithful
  <2> QED  BY <1>1, <1>5, <2>1 DEF CancelEmit
<1>6. CASE CancelDone(w)
  BY <1>1, <1>6 DEF CancelDone
<1> QED  BY <1>2, <1>3, <1>4, <1>5, <1>6

\* ... and everything else.
LEMMA BackgroundFaithful ==
    ASSUME TypeOK, RunsCounted, NEW w \in Workers, ~tomb, Faithful(w),
           \/ DeleteStart(w) \/ DeleteAwaited(w) \/ DeleteRemove(w)
           \/ RecoverRead(w) \/ RecoverWrite(w) \/ PruneRecord(w)
           \/ Crash(w) \/ ShutdownStart(w) \/ ShutdownExit(w)
    PROVE  OneWrite /\ (~tomb' => Faithful(w)')
<1>0. /\ rec[w] \in Records /\ h[w] \in Handlers /\ disk \in Snapshots /\ rv[w] \in Snapshots
      /\ ~DeleteAwaited(w) /\ ~DeleteRemove(w) /\ tomb \in BOOLEAN
  BY DEF TypeOK, DeleteAwaited, DeleteRemove, Faithful
<1>1. CASE DeleteStart(w)
  <2>1. UNCHANGED <<disk, runs>> /\ (tomb' \/ UNCHANGED <<tomb, rec, tk, h, rv>>)
    BY <1>1 DEF DeleteStart
  <2> QED  BY <1>0, <2>1, PhaseKept DEF OneWrite, NothingWritten, TombWritten, Faithful
<1>2. CASE RecoverRead(w)
  <2>1. /\ UNCHANGED <<disk, tomb, rec, tk, h, runs>> /\ ~MidBlock(w) /\ rec[w] = NoRec
        /\ disk.status = "running" /\ rv'[w] = disk
    BY <1>2, PersistedIsDisk DEF RecoverRead, TypeOK
  <2> QED  BY <2>1, PhaseKept DEF OneWrite, NothingWritten, Faithful, MidBlock
<1>3. CASE RecoverWrite(w)
  <2>1. /\ UNCHANGED <<tomb, rec, tk, h, runs>> /\ rv'[w] = NoSnap /\ rv[w] = disk
        /\ disk # NoSnap /\ disk.status = "running" /\ rec[w] = NoRec
        /\ h[w].pc \notin {"own", "commit"}
    BY <1>3 DEF RecoverWrite, TypeOK, Faithful
  <2>2. CASE UNCHANGED disk
    BY <2>1, <2>2, PhaseKept DEF OneWrite, NothingWritten, Faithful
  <2>3. CASE disk' = Appended(rv[w], "task_interrupted")
    <3>1. "task_interrupted" \in Kinds /\ StatusAfter("task_interrupted") = "error"
      BY DEF Kinds, StatusAfter
    <3>2. EventWritten
      BY <2>1, <2>3, <3>1 DEF EventWritten, AllowedStatuses
    <3>3. /\ disk'.status = "error"
          /\ disk'.events[Len(disk'.events)] = "task_interrupted"
      BY <1>0, <2>1, <2>3, <3>1, AppendedFacts
    <3>4. Replaceable'
      BY <2>1, <3>3 DEF Replaceable, Phase
    <3> QED  BY <2>1, <3>2, <3>4 DEF OneWrite, Faithful
  <2> QED  BY <1>3, <2>2, <2>3 DEF RecoverWrite
<1>4. CASE PruneRecord(w)
  <2>1. UNCHANGED <<disk, tomb, tk, h, rv, runs>> /\ rec'[w] = NoRec
    BY <1>4 DEF PruneRecord, TypeOK
  <2> QED  BY <2>1, PhaseKept DEF OneWrite, NothingWritten, Faithful
<1>5. CASE ProcessExit(w)
  <2>1. /\ UNCHANGED <<disk, tomb, runs>> /\ rec'[w] = NoRec /\ h'[w] = NoHandler
        /\ rv'[w] = NoSnap
    BY <1>5 DEF ProcessExit, TypeOK
  <2> QED  BY <2>1, NullsIdle DEF OneWrite, NothingWritten, Faithful
<1>6. CASE ShutdownStart(w)
  <2>1. UNCHANGED <<disk, tomb, rec, rv, runs>> /\ rv[w] = NoSnap
    BY <1>6 DEF ShutdownStart, Arrives, HandlerFree, MidBlock
  <2>2. h'[w].op = "shutdown" /\ h'[w].pc = "wait"
    BY <1>6 DEF ShutdownStart, TypeOK, NoHandler
  <2> QED  BY <2>1, <2>2 DEF OneWrite, NothingWritten, Faithful
<1> QED  BY <1>0, <1>1, <1>2, <1>3, <1>4, <1>5, <1>6 DEF Crash, ShutdownExit

\* One worker: what it holds of the snapshot is what is on disk, until the task is deleted.
OneWorkerInv(w) == TypeOK /\ RunsCounted /\ (~tomb => Faithful(w))

\* It holds at first ...
LEMMA OneWorkerInit ==
    ASSUME NEW w, Workers = {w}
    PROVE  Init => OneWorkerInv(w)
BY InitType, NullsIdle DEF Init, OneWorkerInv, RunsCounted, Faithful

\* The step of the only worker: one write, or after deletion no write but the removal.
LEMMA OneWorkerStep ==
    ASSUME NEW w, Workers = {w}, OneWorkerInv(w), Next
    PROVE  /\ ~tomb => OneWrite /\ (~tomb' => Faithful(w)')
           /\ tomb => tomb' /\ disk' \in {disk, NoSnap} /\ runs' = runs
<1>0. TypeOK /\ RunsCounted /\ w \in Workers
  BY DEF OneWorkerInv
<1>1. Step(w)
  BY NextIsStep
<1>2. ASSUME ~tomb
      PROVE  OneWrite /\ (~tomb' => Faithful(w)')
  BY <1>0, <1>1, <1>2, TaskFaithful, CreateFaithful, ClarifyFaithful, CancelFaithful,
     BackgroundFaithful DEF Step, HandlerStep, OneWorkerInv
<1>3. ASSUME tomb
      PROVE  tomb' /\ disk' \in {disk, NoSnap} /\ runs' = runs
  <2>1. tomb' /\ disk' \in {disk, NoSnap}
    BY <1>0, <1>3, TombstoneStays
  <2>2. CASE CreateCommit(w)
    BY <1>3, <2>1, <2>2 DEF CreateCommit, CreateFails, Deleted
  <2>3. CASE TaskStep(w)
    BY <2>1, <2>3 DEF TaskStep, TaskStart, TaskQueues, TaskAdmitted, TaskProgress, TaskOutcome,
       TaskCancelled, TaskBroadcastDone
  <2>4. CASE HandlerStep(w) /\ ~CreateCommit(w)
    BY <2>1, <2>4 DEF HandlerStep, CreateAwaited, CreateClear, ClarifyOwn, ClarifyEmit,
       ClarifyResume, CancelOwn, CancelAwaited, CancelEmit, CancelDone, DeleteAwaited,
       DeleteRemove
  <2>5. CASE CreateStart(w) \/ ClarifyRead(w) \/ CancelStart(w) \/ DeleteStart(w)
    BY <2>1, <2>5 DEF CreateStart, ClarifyRead, CancelStart, DeleteStart
  <2>6. CASE \/ RecoverRead(w) \/ RecoverWrite(w) \/ PruneRecord(w)
             \/ Crash(w) \/ ShutdownStart(w) \/ ShutdownExit(w)
    BY <2>1, <2>6 DEF RecoverRead, RecoverWrite, PruneRecord, Crash, ProcessExit, ShutdownStart,
       ShutdownExit
  <2> QED  BY <1>1, <2>1, <2>2, <2>3, <2>4, <2>5, <2>6 DEF Step
<1> QED  BY <1>2, <1>3

\* ... and is kept by every step.
LEMMA OneWorkerKept ==
    ASSUME NEW w, Workers = {w}, OneWorkerInv(w), [Next]_vars
    PROVE  OneWorkerInv(w)'
<1>1. TypeOK /\ RunsCounted /\ TypeOK'
  BY NextType DEF OneWorkerInv
<1>2. CASE UNCHANGED vars
  BY <1>1, <1>2, PhaseKept DEF vars, OneWorkerInv, RunsCounted, Faithful
<1>3. CASE Next
  <2>1. /\ ~tomb => OneWrite /\ (~tomb' => Faithful(w)')
        /\ tomb => tomb' /\ disk' \in {disk, NoSnap} /\ runs' = runs
    BY <1>3, OneWorkerStep
  <2>2. RunsCounted'
    <3>1. CASE runs' = runs /\ disk' \in {disk, NoSnap}
      BY <1>1, <3>1 DEF RunsCounted
    <3>2. CASE EventWritten
      <4>1. disk'.run = disk.run /\ runs' = runs /\ disk # NoSnap
        BY <1>1, <3>2, AppendedFacts DEF EventWritten, TypeOK
      <4> QED  BY <1>1, <4>1 DEF RunsCounted
    <3>3. CASE RunWritten
      <4>1. disk'.run = runs + 1 /\ runs' = runs + 1 /\ runs \in Nat
        BY <1>1, <3>3 DEF RunWritten, TypeOK
      <4> QED  BY <4>1 DEF RunsCounted
    <3> QED  BY <2>1, <3>1, <3>2, <3>3 DEF OneWrite, NothingWritten, TombWritten
  <2> QED  BY <1>1, <2>1, <2>2 DEF OneWorkerInv
<1> QED  BY <1>2, <1>3

\* With one worker, what is answered from the record of `records` is what task.json says, whatever
\* fails or crashes, until the task is deleted.
THEOREM RecordIsDisk ==
    ASSUME NEW w, Workers = {w}
    PROVE  Spec => []RecordMatchesDisk
<1>1. OneWorkerInv(w) => RecordMatchesDisk
  BY DEF OneWorkerInv, Faithful, RecordMatchesDisk
<1> QED  BY <1>1, OneWorkerInit, OneWorkerKept, PTL DEF Spec

\* With one worker no write of task.json drops an event that was recorded for the run, deletion
\* included (the removal of the snapshot changes the run number).
THEOREM TimelineKept ==
    ASSUME NEW w, Workers = {w}
    PROVE  Spec => TimelineOnlyGrows
<1>1. OneWorkerInv(w) /\ [Next]_vars
        => [disk'.run = disk.run => Extends(disk, disk')]_disk
  <2> SUFFICES ASSUME OneWorkerInv(w), Next, disk' # disk, disk'.run = disk.run
               PROVE  Extends(disk, disk')
    BY DEF vars
  <2>0. /\ ~tomb => OneWrite
        /\ tomb => disk' = NoSnap
        /\ disk \in Snapshots /\ runs \in Nat
    BY OneWorkerStep DEF OneWorkerInv, TypeOK
  <2>1. disk = NoSnap \/ disk.run \in 1 .. runs
    BY DEF OneWorkerInv, RunsCounted
  <2>2. ~tomb
    <3>1. NoSnap.run = 0
      BY DEF NoSnap
    <3> QED  BY <2>0, <2>1, <3>1
  <2>3. ~RunWritten
    <3>1. NoSnap.run = 0
      BY DEF NoSnap
    <3> QED  BY <2>0, <2>1, <3>1 DEF RunWritten
  <2>4. EventWritten
    BY <2>0, <2>2, <2>3 DEF OneWrite, NothingWritten, TombWritten
  <2> QED  BY <2>0, <2>4, AppendedFacts DEF EventWritten
<1> QED  BY <1>1, OneWorkerInit, OneWorkerKept, PTL DEF Spec, TimelineOnlyGrows

\* An event allowed by the status is a step of the abstract task, or none.
LEMMA EventIsAbstract ==
    ASSUME disk \in Snapshots, EventWritten, ~tomb
    PROVE  Abstract!Ask \/ Abstract!Answer \/ Abstract!Settle \/ UNCHANGED <<Phase, runs>>
<1>1. PICK kind \in Kinds : disk.status \in AllowedStatuses(kind) /\ disk' = Appended(disk, kind)
  BY DEF EventWritten
<1>2. /\ disk'.status = StatusAfter(kind) /\ disk'.events[Len(disk'.events)] = kind
      /\ ~tomb' /\ runs' = runs
  BY <1>1, AppendedFacts DEF EventWritten
<1>3. Phase = disk.status
  BY <1>1 DEF Phase, AllowedStatuses
<1>4. CASE kind = "clarification_required"
  BY <1>1, <1>2, <1>3, <1>4 DEF Phase, AllowedStatuses, StatusAfter, Abstract!Ask
<1>5. CASE kind = "clarification_resolved"
  BY <1>1, <1>2, <1>3, <1>5 DEF Phase, AllowedStatuses, StatusAfter, Abstract!Answer
<1>6. CASE kind \in {"task_result", "task_cancelled", "error", "task_interrupted"}
  BY <1>1, <1>2, <1>3, <1>6
     DEF Phase, AllowedStatuses, StatusAfter, Abstract!Settle, Abstract!Settled
<1>7. CASE kind \in {"session_created", "intent_resolved", "report_generated"}
  BY <1>1, <1>2, <1>3, <1>7 DEF Phase, AllowedStatuses, StatusAfter
<1> QED  BY <1>4, <1>5, <1>6, <1>7 DEF Kinds

\* One worker implements ResearchTask: through create, clarify, cancel, delete, recovery, retention
\* and crashes the durable task starts runs, asks, resumes and settles only along its steps.
THEOREM TaskImplementsAbstract ==
    ASSUME NEW w, Workers = {w}
    PROVE  Spec => ImplementsResearchTask
<1>1. Init => Abstract!Init
  BY DEF Init, Abstract!Init, Phase, NoSnap
<1>2. OneWorkerInv(w) /\ [Next]_vars => [Abstract!Next]_<<Phase, runs>>
  <2> SUFFICES ASSUME OneWorkerInv(w), [Next]_vars
               PROVE  Abstract!Next \/ UNCHANGED <<Phase, runs>>
    OBVIOUS
  <2>0. disk \in Snapshots
    BY DEF OneWorkerInv, TypeOK
  <2>1. CASE UNCHANGED vars
    BY <2>1, PhaseKept DEF vars
  <2>2. CASE Next /\ tomb
    BY <2>2, OneWorkerStep DEF Phase
  <2>3. CASE Next /\ ~tomb
    <3>1. OneWrite
      BY <2>3, OneWorkerStep
    <3>2. CASE NothingWritten
      BY <3>2, PhaseKept DEF NothingWritten
    <3>3. CASE EventWritten
      BY <2>0, <2>3, <3>3, EventIsAbstract DEF Abstract!Next
    <3>4. CASE RunWritten
      <4>1. Phase' = "running"
        BY <2>3, <3>4 DEF RunWritten, Phase
      <4> QED  BY <3>4, <4>1 DEF RunWritten, Replaceable, Abstract!Next, Abstract!Start
    <3>5. CASE TombWritten
      <4>1. Phase' = "deleted" /\ runs' = runs
        BY <3>5 DEF TombWritten, Phase
      <4>2. Phase # "deleted"
        BY <2>0, <2>3 DEF Phase, Snapshots, Statuses, Terminal
      <4> QED  BY <4>1, <4>2 DEF Abstract!Next, Abstract!Delete
    <3> QED  BY <3>1, <3>2, <3>3, <3>4, <3>5 DEF OneWrite
  <2> QED  BY <2>1, <2>2, <2>3
<1> QED  BY <1>1, <1>2, OneWorkerInit, OneWorkerKept, PTL
         DEF Spec, ImplementsResearchTask, Abstract!Spec

=============================================================================
