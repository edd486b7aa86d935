------------------------ MODULE TaskLifecycleProofs ------------------------
(***************************************************************************)
(* Theorems about TaskLifecycle, for every set of workers and every bound. *)
(***************************************************************************)
EXTENDS TaskLifecycle, SequenceTheorems, TLAPS

-----------------------------------------------------------------------------
(* Lemmas about the operators *)

\* Three handles in use leave one of four unused.
LEMMA NewHandleType ==
    ASSUME NEW w
    PROVE  NewHandle(w) \in 1 .. 4
<1>1. \E n \in 1 .. 4 : n \notin {rec[w].handle, tk[w].handle, h[w].handle}
  <2> DEFINE a == rec[w].handle
             b == tk[w].handle
             c == h[w].handle
  <2> HIDE DEF a, b, c
  <2>1. \E n \in 1 .. 4 : n # a /\ n # b /\ n # c
    <3>1. 1 \in 1 .. 4 /\ 2 \in 1 .. 4 /\ 3 \in 1 .. 4 /\ 4 \in 1 .. 4
      OBVIOUS
    <3> QED  BY <3>1
  <2> QED  BY <2>1 DEF a, b, c
<1> QED  BY <1>1 DEF NewHandle

\* Appending an event to a snapshot gives a snapshot.
LEMMA AppendedType ==
    ASSUME NEW s \in Snapshots, NEW kind \in Kinds
    PROVE  Appended(s, kind) \in Snapshots
<1>1. EventsFor(kind) \in Seq(Kinds)
  <2>1. "report_generated" \in Kinds /\ "task_result" \in Kinds
    BY DEF Kinds
  <2>2. <<kind>> \in Seq(Kinds) /\ <<"report_generated", "task_result">> \in Seq(Kinds)
    BY <2>1
  <2> QED  BY <2>2 DEF EventsFor
<1>2. StatusAfter(kind) \in Statuses
  BY DEF StatusAfter, Statuses, Terminal
<1>3. s.events \o EventsFor(kind) \in Seq(Kinds)
  BY <1>1, ConcatProperties DEF Snapshots
<1> QED  BY <1>2, <1>3 DEF Appended, Snapshots

\* Appending a kind its status allows keeps a timeline legal.
LEMMA AppendedLegal ==
    ASSUME NEW s \in Snapshots, LegalTimeline(s),
           NEW kind \in Kinds, s.status \in AllowedStatuses(kind)
    PROVE  LegalTimeline(Appended(s, kind))
<1> DEFINE e == s.events
           k == EventsFor(kind)
           t == Appended(s, kind)
           f == t.events
           n == Len(e)
           m == Len(k)
<1>1. /\ e \in Seq(Kinds) /\ n \in Nat
      /\ \A i \in 1 .. n : e[i] \in Kinds
  BY DEF Snapshots
<1>2. /\ k \in Seq(Kinds) /\ m \in {1, 2}
      /\ m = 1 => k[1] = kind /\ kind # "task_result"
      /\ m = 2 => k[1] = "report_generated" /\ k[2] = "task_result" /\ kind = "task_result"
  BY DEF EventsFor, Kinds
<1>3. f = e \o k /\ t.status = StatusAfter(kind) /\ t.run = s.run
  BY DEF Appended, Snapshots
<1>4. /\ Len(f) = n + m
      /\ \A i \in 1 .. n + m : f[i] = IF i <= n THEN e[i] ELSE k[i - n]
  BY <1>1, <1>2, <1>3, ConcatProperties
<1>5. /\ \A i \in 1 .. n - 1 :
           /\ e[i] \notin {"task_result", "task_cancelled", "error", "task_interrupted"}
           /\ e[i] = "clarification_required"
                  => e[i + 1] \in {"clarification_resolved", "task_cancelled"}
      /\ \A i \in 1 .. n :
           /\ e[i] = "clarification_resolved" => i > 1 /\ e[i - 1] = "clarification_required"
           /\ e[i] = "task_result" => i > 1 /\ e[i - 1] = "report_generated"
      /\ s.status = StatusTold(s.run, e)
      /\ n = Len(e)
  BY DEF LegalTimeline
<1> HIDE DEF e, k, f, n, m
<1>6. n > 0 => /\ e[n] \notin {"task_result", "task_cancelled", "error", "task_interrupted"}
               /\ e[n] = "clarification_required"
                     => kind \in {"clarification_resolved", "task_cancelled"}
  BY <1>1, <1>5 DEF AllowedStatuses, StatusTold
<1>7. kind = "clarification_resolved" => n > 0 /\ e[n] = "clarification_required"
  BY <1>1, <1>5 DEF AllowedStatuses, StatusTold
<1>8. ASSUME NEW i \in 1 .. (n + m) - 1
      PROVE  /\ f[i] \notin {"task_result", "task_cancelled", "error", "task_interrupted"}
             /\ f[i] = "clarification_required"
                    => f[i + 1] \in {"clarification_resolved", "task_cancelled"}
  <2>1. CASE i < n
    <3>1. i \in 1 .. n - 1 /\ f[i] = e[i] /\ f[i + 1] = e[i + 1]
      BY <1>1, <1>2, <1>4, <2>1
    <3> QED  BY <1>5, <3>1
  <2>2. CASE i = n
    <3>1. f[i] = e[n] /\ f[i + 1] = k[1] /\ n > 0
      BY <1>1, <1>2, <1>4, <2>2
    <3> QED  BY <1>2, <1>6, <3>1
  <2>3. CASE i > n
    <3>1. m = 2 /\ i = n + 1 /\ f[i] = k[1]
      BY <1>1, <1>2, <1>4, <2>3
    <3> QED  BY <1>2, <3>1
  <2> QED  BY <1>1, <2>1, <2>2, <2>3
<1>9. ASSUME NEW i \in 1 .. n + m
      PROVE  /\ f[i] = "clarification_resolved" => i > 1 /\ f[i - 1] = "clarification_required"
             /\ f[i] = "task_result" => i > 1 /\ f[i - 1] = "report_generated"
  <2>1. CASE i <= n
    <3>1. f[i] = e[i]
      BY <1>1, <1>2, <1>4, <2>1
    <3>2. i > 1 => f[i - 1] = e[i - 1]
      BY <1>1, <1>2, <1>4, <2>1
    <3>3. i \in 1 .. n
      BY <1>1, <2>1
    <3> QED  BY <1>5, <3>1, <3>2, <3>3
  <2>2. CASE i = n + 1
    <3>1. f[i] = k[1] /\ (n > 0 => f[i - 1] = e[n])
      BY <1>1, <1>2, <1>4, <2>2
    <3> QED  BY <1>1, <1>2, <1>7, <2>2, <3>1
  <2>3. CASE i > n + 1
    <3>1. m = 2 /\ i = n + 2 /\ f[i] = k[2] /\ f[i - 1] = k[1]
      BY <1>1, <1>2, <1>4, <2>3
    <3> QED  BY <1>1, <1>2, <3>1
  <2> QED  BY <1>1, <1>2, <2>1, <2>2, <2>3
<1>10. f[n + m] = kind
  BY <1>1, <1>2, <1>4
<1>11. t.status = StatusTold(t.run, f)
  BY <1>1, <1>2, <1>3, <1>4, <1>10 DEF StatusAfter, StatusTold
<1>12. f = t.events
  BY DEF f
<1> HIDE DEF t
<1>13. LegalTimeline(t)
  BY <1>4, <1>8, <1>9, <1>11, <1>12 DEF LegalTimeline
<1> QED  BY <1>13 DEF t

-----------------------------------------------------------------------------
(* Type correctness *)

LEMMA NullTypes ==
    /\ NoSnap \in Snapshots /\ NoRec \in Records /\ NoTask \in Tasks /\ NoHandler \in Handlers
<1>1. NoSnap \in Snapshots
  BY DEF NoSnap, Snapshots, Statuses
<1> QED  BY <1>1 DEF NoRec, Records, NoTask, Tasks, NoHandler, Handlers, Handles

\* Where an emit of the task may lead, and where the task goes on by itself.
EmitTargets == {"session", "told", "progress", "final", "cancelled", "closing"}
Onward == {"queued", "waiting", "run"}

\* Single-field updates of a task, a record and a handler keep their types.
LEMMA UpdatesTyped ==
    /\ \A t \in Tasks : [t EXCEPT !.cancel = TRUE] \in Tasks
    /\ \A t \in Tasks, p \in EmitTargets :
         [t EXCEPT !.pc = p, !.cancel = FALSE] \in Tasks
    /\ \A r \in Records : [r EXCEPT !.handle = 0] \in Records
    /\ \A r \in Records : [r EXCEPT !.deleting = TRUE] \in Records
    /\ \A g \in Handlers, b \in BOOLEAN : [g EXCEPT !.pc = "commit", !.flag = b] \in Handlers
<1>1. ASSUME NEW t \in Tasks PROVE [t EXCEPT !.cancel = TRUE] \in Tasks
  BY DEF Tasks
<1>2. ASSUME NEW r \in Records PROVE [r EXCEPT !.handle = 0] \in Records
  <2>1. 0 \in Handles
    BY DEF Handles
  <2> QED  BY <2>1 DEF Records
<1>3. ASSUME NEW r \in Records PROVE [r EXCEPT !.deleting = TRUE] \in Records
  BY DEF Records
<1>4. ASSUME NEW g \in Handlers, NEW b \in BOOLEAN
      PROVE  [g EXCEPT !.pc = "commit", !.flag = b] \in Handlers
  BY DEF Handlers
<1>5. ASSUME NEW t \in Tasks, NEW p \in EmitTargets
      PROVE  [t EXCEPT !.pc = p, !.cancel = FALSE] \in Tasks
  BY DEF Tasks, EmitTargets, Executing
<1> QED  BY <1>1, <1>2, <1>3, <1>4, <1>5

LEMMA OnwardType ==
    ASSUME TypeOK, NEW w \in Workers, NEW p \in Onward, tk' = [tk EXCEPT ![w].pc = p]
    PROVE  tk' \in [Workers -> Tasks]
BY DEF TypeOK, Tasks, Onward, Executing

LEMMA ReleaseType ==
    ASSUME TypeOK, NEW w \in Workers, NEW n
    PROVE  Without(owner, w, n) \in [Workers -> Handles]
BY DEF TypeOK, Without, Handles

\* Recording an event through a record keeps disk and records well typed.
LEMMA RecordEventType ==
    ASSUME TypeOK, NEW w \in Workers, NEW kind \in Kinds, RecordEvent(w, kind)
    PROVE  disk' \in Snapshots /\ rec' \in [Workers -> Records]
<1>1. rec[w] \in Records /\ rec[w].snap \in Snapshots
  BY DEF TypeOK, Records
<1>2. Appended(rec[w].snap, kind) \in Snapshots
  BY <1>1, AppendedType
<1> QED  BY <1>1, <1>2 DEF TypeOK, RecordEvent, Records

LEMMA FinishTaskType ==
    ASSUME TypeOK, NEW w \in Workers, FinishTask(w)
    PROVE  /\ tk' \in [Workers -> Tasks] /\ rec' \in [Workers -> Records]
           /\ owner' \in [Workers -> Handles]
<1>1. owner' \in [Workers -> Handles]
  BY ReleaseType DEF FinishTask, Release
<1>2. tk' \in [Workers -> Tasks]
  BY NullTypes DEF TypeOK, FinishTask
<1>3. rec' \in [Workers -> Records]
  BY DEF TypeOK, FinishTask, Records, Handles
<1> QED  BY <1>1, <1>2, <1>3

LEMMA TaskEmitsType ==
    ASSUME TypeOK, NEW w \in Workers, NEW kind \in Kinds,
           NEW next \in EmitTargets,
           TaskEmits(w, kind, next)
    PROVE  /\ disk' \in Snapshots /\ tk' \in [Workers -> Tasks]
           /\ rec' \in [Workers -> Records] /\ owner' \in [Workers -> Handles]
           /\ fails' \in Nat
<1>1. CASE /\ RecordEvent(w, kind)
           /\ tk' = [tk EXCEPT ![w].pc = next, ![w].cancel = FALSE]
           /\ UNCHANGED <<owner, fails>>
  <2>1. tk' \in [Workers -> Tasks]
    <3> DEFINE t == [tk[w] EXCEPT !.pc = next, !.cancel = FALSE]
    <3>1. t \in Tasks
      BY UpdatesTyped DEF TypeOK
    <3>2. tk' = [tk EXCEPT ![w] = t]
      BY <1>1
    <3> HIDE DEF t
    <3> QED  BY <3>1, <3>2 DEF TypeOK
  <2> QED  BY <1>1, <2>1, RecordEventType DEF TypeOK
<1>2. CASE /\ StorageFails
           /\ rec' = [rec EXCEPT ![w] = NoRec]
           /\ tk' = [tk EXCEPT ![w].pc = "closing", ![w].cancel = FALSE]
           /\ UNCHANGED <<disk, owner>>
  <2>1. tk' \in [Workers -> Tasks]
    <3> DEFINE t == [tk[w] EXCEPT !.pc = "closing", !.cancel = FALSE]
    <3>1. t \in Tasks
      BY UpdatesTyped DEF TypeOK, EmitTargets
    <3>2. tk' = [tk EXCEPT ![w] = t]
      BY <1>2
    <3> HIDE DEF t
    <3> QED  BY <3>1, <3>2 DEF TypeOK
  <2> QED  BY <1>2, <2>1, NullTypes DEF TypeOK, StorageFails
<1>3. CASE FinishTask(w) /\ UNCHANGED <<disk, fails>>
  BY <1>3, FinishTaskType DEF TypeOK
<1> QED  BY <1>1, <1>2, <1>3 DEF TaskEmits

LEMMA TaskStepType ==
    ASSUME TypeOK, NEW w \in Workers, TaskStep(w)
    PROVE  TypeOK'
<1>1. CASE TaskStart(w)
  <2>1. CASE tk[w].resume
    <3>1. tk' \in [Workers -> Tasks]
      BY <1>1, <2>1, OnwardType DEF TaskStart, Onward
    <3> QED  BY <1>1, <2>1, <3>1 DEF TaskStart, TypeOK
  <2>2. CASE ~tk[w].resume
    <3>1. /\ TaskEmits(w, "session_created", "session")
          /\ "session_created" \in Kinds /\ "session" \in EmitTargets
      BY <1>1, <2>2 DEF TaskStart, Kinds, EmitTargets
    <3> QED  BY <1>1, <3>1, TaskEmitsType DEF TaskStart, TypeOK
  <2> QED  BY <2>1, <2>2
<1>2. CASE TaskProgress(w)
  <2>1. /\ TaskEmits(w, "intent_resolved", "progress")
        /\ "intent_resolved" \in Kinds /\ "progress" \in EmitTargets
    BY <1>2 DEF TaskProgress, Kinds, EmitTargets
  <2> QED  BY <1>2, <2>1, TaskEmitsType DEF TaskProgress, TypeOK
<1>3. CASE TaskOutcome(w)
  <2>1. \E kind \in Kinds, next \in EmitTargets : TaskEmits(w, kind, next)
    BY <1>3 DEF TaskOutcome, Kinds, EmitTargets
  <2> QED  BY <1>3, <2>1, TaskEmitsType DEF TaskOutcome, TypeOK
<1>4. CASE TaskCancelled(w)
  <2>1. UNCHANGED <<tomb, cmd, h, rv, runs, crashes>>
    BY <1>4 DEF TaskCancelled
  <2>2. CASE tk' = [tk EXCEPT ![w] = NoTask] /\ UNCHANGED <<disk, rec, owner, fails>>
    BY <2>1, <2>2, NullTypes DEF TypeOK
  <2>3. CASE TaskEmits(w, "task_cancelled", "cancelled")
    <3>1. "task_cancelled" \in Kinds /\ "cancelled" \in EmitTargets
      BY DEF Kinds, EmitTargets
    <3> QED  BY <2>1, <2>3, <3>1, TaskEmitsType DEF TypeOK
  <2>4. CASE FinishTask(w) /\ UNCHANGED <<disk, fails>>
    BY <2>1, <2>4, FinishTaskType DEF TypeOK
  <2> QED  BY <1>4, <2>2, <2>3, <2>4 DEF TaskCancelled
<1>5. CASE TaskBroadcastDone(w)
  <2>1. UNCHANGED <<disk, tomb, cmd, h, rv, runs, fails, crashes>>
    BY <1>5 DEF TaskBroadcastDone
  <2>2. ASSUME NEW p \in Onward, tk' = [tk EXCEPT ![w].pc = p], UNCHANGED <<rec, owner>>
        PROVE  TypeOK'
    BY <2>1, <2>2, OnwardType DEF TypeOK
  <2>3. CASE FinishTask(w)
    BY <2>1, <2>3, FinishTaskType DEF TypeOK
  <2> QED  BY <1>5, <2>2, <2>3 DEF TaskBroadcastDone, AfterBroadcast, Onward
<1>6. CASE TaskQueues(w)
  <2>1. "intent_resolved" \in Kinds /\ "told" \in EmitTargets /\ "waiting" \in Onward
    BY DEF Kinds, EmitTargets, Onward
  <2>2. UNCHANGED <<tomb, cmd, h, rv, runs, crashes>>
    BY <1>6 DEF TaskQueues
  <2>3. CASE tk' = [tk EXCEPT ![w].pc = "waiting"] /\ UNCHANGED <<disk, rec, owner, fails>>
    BY <2>1, <2>2, <2>3, OnwardType DEF TypeOK
  <2>4. CASE TaskEmits(w, "intent_resolved", "told")
    BY <2>1, <2>2, <2>4, TaskEmitsType DEF TypeOK
  <2> QED  BY <1>6, <2>3, <2>4 DEF TaskQueues
<1>7. CASE TaskAdmitted(w)
  <2>1. tk' \in [Workers -> Tasks]
    BY <1>7, OnwardType DEF TaskAdmitted, Onward
  <2> QED  BY <1>7, <2>1 DEF TaskAdmitted, TypeOK
<1> QED  BY <1>1, <1>2, <1>3, <1>4, <1>5, <1>6, <1>7 DEF TaskStep

LEMMA CreateType ==
    ASSUME TypeOK, NEW w \in Workers,
           CreateStart(w) \/ CreateAwaited(w) \/ CreateClear(w) \/ CreateCommit(w)
    PROVE  TypeOK'
<1>1. CASE CreateStart(w)
  <2>1. ASSUME NEW n \in Handles, NEW p \in {"wait", "clear"}
        PROVE  [NoHandler EXCEPT !.op = "create", !.pc = p, !.handle = n] \in Handlers
    BY NullTypes DEF Handlers
  <2>2. rec[w].handle \in Handles
    BY DEF TypeOK, Records
  <2>3. h' \in [Workers -> Handlers]
    <3>1. CASE rec[w] # NoRec /\ tk[w].pc # "none"
      <4>1. h' = [h EXCEPT ![w] = [NoHandler EXCEPT !.op = "create", !.pc = "wait",
                                                   !.handle = rec[w].handle]]
        BY <1>1, <3>1 DEF CreateStart
      <4>2. [NoHandler EXCEPT !.op = "create", !.pc = "wait", !.handle = rec[w].handle]
              \in Handlers
        BY <2>1, <2>2
      <4> QED  BY <4>1, <4>2 DEF TypeOK
    <3>2. CASE ~(rec[w] # NoRec /\ tk[w].pc # "none")
      <4>1. h' = [h EXCEPT ![w] = [NoHandler EXCEPT !.op = "create", !.pc = "clear",
                                                   !.handle = rec[w].handle]]
        BY <1>1, <3>2 DEF CreateStart
      <4>2. [NoHandler EXCEPT !.op = "create", !.pc = "clear", !.handle = rec[w].handle]
              \in Handlers
        BY <2>1, <2>2
      <4> QED  BY <4>1, <4>2 DEF TypeOK
    <3> QED  BY <3>1, <3>2
  <2>4. rec' \in [Workers -> Records] /\ tk' \in [Workers -> Tasks]
    <3>1. rec' = [rec EXCEPT ![w] = NoRec] \/ rec' = rec
      BY <1>1 DEF CreateStart
    <3>2. tk' = [tk EXCEPT ![w] = [tk[w] EXCEPT !.cancel = TRUE]] \/ tk' = tk
      BY <1>1 DEF CreateStart
    <3>3. rec' \in [Workers -> Records]
      BY <3>1, NullTypes DEF TypeOK
    <3>4. [tk[w] EXCEPT !.cancel = TRUE] \in Tasks
      BY UpdatesTyped DEF TypeOK
    <3> QED  BY <3>2, <3>3, <3>4 DEF TypeOK
  <2> QED  BY <1>1, <2>3, <2>4 DEF CreateStart, TypeOK
<1>2. CASE CreateAwaited(w)
  BY <1>2 DEF CreateAwaited, TypeOK, Handlers
<1>3. CASE CreateClear(w)
  <2> DEFINE b == (disk # NoSnap)
  <2>1. b \in BOOLEAN
    OBVIOUS
  <2> DEFINE g == [h[w] EXCEPT !.pc = "commit", !.flag = b]
  <2>2. h' = [h EXCEPT ![w] = g]
    BY <1>3 DEF CreateClear
  <2>3. h' \in [Workers -> Handlers]
    <3> HIDE DEF b
    <3>1. g \in Handlers
      BY <2>1, UpdatesTyped DEF TypeOK
    <3> HIDE DEF g
    <3> QED  BY <2>2, <3>1 DEF TypeOK
  <2> QED  BY <1>3, <2>3 DEF CreateClear, TypeOK
<1>4. CASE CreateCommit(w)
  <2>1. UNCHANGED <<tomb, cmd, rv, crashes>>
    BY <1>4 DEF CreateCommit
  <2>2. ASSUME CreateFails(w)
        PROVE  /\ h' \in [Workers -> Handlers] /\ owner' \in [Workers -> Handles]
               /\ UNCHANGED <<rec, tk, runs>>
    BY <2>2, NullTypes, ReleaseType DEF CreateFails, TypeOK, Release
  <2>3. CASE CreateFails(w) /\ UNCHANGED <<disk, fails>>
    BY <2>1, <2>2, <2>3 DEF TypeOK
  <2>4. CASE /\ CreateFails(w) /\ StorageFails
             /\ disk' = IF h[w].flag THEN disk ELSE NoSnap
    BY <2>1, <2>2, <2>4, NullTypes DEF TypeOK, StorageFails
  <2>5. CASE /\ LET n == NewHandle(w)
                    s == [run |-> runs + 1, status |-> "running", events |-> <<>>]
                IN  /\ disk' = s
                    /\ rec' = [rec EXCEPT ![w] =
                                 [NoRec EXCEPT !.run = s.run, !.snap = s, !.handle = n]]
                    /\ tk' = [tk EXCEPT ![w] =
                                 [NoTask EXCEPT !.pc = "new", !.run = s.run, !.handle = n]]
                    /\ owner' = [owner EXCEPT ![w] = n]
             /\ runs' = runs + 1
             /\ h' = [h EXCEPT ![w] = NoHandler]
             /\ UNCHANGED fails
    <3> DEFINE n == NewHandle(w)
               s == [run |-> runs + 1, status |-> "running", events |-> <<>>]
    <3>1. n \in Handles
      BY NewHandleType DEF Handles
    <3>2. s \in Snapshots /\ s.run \in Nat
      BY DEF TypeOK, Snapshots, Statuses
    <3> HIDE DEF n, s
    <3>3. rec' \in [Workers -> Records]
      BY <2>5, <3>1, <3>2 DEF TypeOK, Records, NoRec, n, s
    <3>4. tk' \in [Workers -> Tasks]
      BY <2>5, <3>1, <3>2 DEF TypeOK, Tasks, NoTask, n, s
    <3>5. owner' \in [Workers -> Handles] /\ disk' \in Snapshots
      BY <2>5, <3>1, <3>2 DEF TypeOK, n, s
    <3>6. h' \in [Workers -> Handlers]
      BY <2>5, NullTypes DEF TypeOK
    <3> QED  BY <2>1, <2>5, <3>3, <3>4, <3>5, <3>6 DEF TypeOK
  <2> QED  BY <1>4, <2>3, <2>4, <2>5 DEF CreateCommit
<1> QED  BY <1>1, <1>2, <1>3, <1>4

LEMMA AdoptedType ==
    ASSUME NEW s \in Snapshots
    PROVE  Adopted(s) \in Records
<1>1. s.run \in Nat
  BY DEF Snapshots
<1> QED  BY <1>1, NullTypes DEF Adopted, Records

LEMMA TakeOwnershipType ==
    ASSUME TypeOK, NEW w \in Workers, NEW r \in Records, TakeOwnership(w, r, "emit")
    PROVE  /\ owner' \in [Workers -> Handles] /\ rec' \in [Workers -> Records]
           /\ h' \in [Workers -> Handlers]
<1> DEFINE n == IF r.handle # 0 THEN r.handle ELSE NewHandle(w)
<1>1. n \in Handles
  BY NewHandleType DEF Handles, Records
<1> HIDE DEF n
<1>2. owner' \in [Workers -> Handles]
  BY <1>1 DEF TypeOK, TakeOwnership, n
<1>3. rec' \in [Workers -> Records]
  <2>1. rec' = [rec EXCEPT ![w] = [r EXCEPT !.handle = n]]
    BY DEF TakeOwnership, n
  <2> QED  BY <1>1, <2>1 DEF TypeOK, Records
<1>4. h' \in [Workers -> Handlers]
  <2> DEFINE b == (rec[w] = NoRec)
  <2>1. b \in BOOLEAN
    OBVIOUS
  <2> DEFINE g == [h[w] EXCEPT !.pc = "emit", !.run = r.run, !.handle = n, !.flag = b]
  <2>2. h' = [h EXCEPT ![w] = g]
    BY DEF TakeOwnership, n
  <2> HIDE DEF b
  <2>3. h[w] \in Handlers /\ r.run \in Nat
    BY DEF TypeOK, Records
  <2>4. g \in Handlers
    BY <1>1, <2>1, <2>3 DEF Handlers
  <2> HIDE DEF g
  <2> QED  BY <2>2, <2>4 DEF TypeOK
<1> QED  BY <1>2, <1>3, <1>4

LEMMA ClarifyAbortType ==
    ASSUME TypeOK, NEW w \in Workers, ClarifyAbort(w)
    PROVE  /\ rec' \in [Workers -> Records] /\ owner' \in [Workers -> Handles]
           /\ h' \in [Workers -> Handlers] /\ cmd' \in SUBSET Workers
<1>1. owner' \in [Workers -> Handles]
  BY ReleaseType DEF ClarifyAbort, Release
<1>2. \/ rec' = [rec EXCEPT ![w] = NoRec]
      \/ rec' = [rec EXCEPT ![w] = [rec[w] EXCEPT !.handle = 0]]
      \/ rec' = rec
  BY DEF ClarifyAbort
<1>3. rec' \in [Workers -> Records]
  <2>1. [rec[w] EXCEPT !.handle = 0] \in Records
    BY UpdatesTyped DEF TypeOK
  <2> QED  BY <1>2, <2>1, NullTypes DEF TypeOK
<1>4. h' \in [Workers -> Handlers] /\ cmd' \in SUBSET Workers
  BY NullTypes DEF ClarifyAbort, TypeOK
<1> QED  BY <1>1, <1>3, <1>4

LEMMA ClarifyType ==
    ASSUME TypeOK, NEW w \in Workers,
           ClarifyRead(w) \/ ClarifyOwn(w) \/ ClarifyEmit(w) \/ ClarifyResume(w)
    PROVE  TypeOK'
<1>1. CASE ClarifyRead(w)
  <2>1. disk \in Snapshots /\ rec[w].snap \in Snapshots
    BY DEF TypeOK, Records
  <2>2. Persisted \in Snapshots
    BY <2>1, NullTypes DEF Persisted
  <2>3. PICK s \in Snapshots :
            h' = [h EXCEPT ![w] = [NoHandler EXCEPT !.op = "clarify", !.pc = "own", !.snap = s]]
    BY <1>1, <2>1, <2>2 DEF ClarifyRead
  <2>4. [NoHandler EXCEPT !.op = "clarify", !.pc = "own", !.snap = s] \in Handlers
    BY NullTypes DEF Handlers
  <2>5. h' \in [Workers -> Handlers]
    BY <2>3, <2>4 DEF TypeOK
  <2>6. cmd' \in SUBSET Workers
    BY <1>1 DEF ClarifyRead
  <2> QED  BY <1>1, <2>5, <2>6 DEF ClarifyRead, TypeOK
<1>2. CASE ClarifyOwn(w)
  <2>1. UNCHANGED <<disk, tomb, tk, rv, runs, fails, crashes>>
    BY <1>2 DEF ClarifyOwn
  <2>2. rec[w] \in Records /\ h[w].snap \in Snapshots
    BY DEF TypeOK, Handlers
  <2>3. CASE /\ h' = [h EXCEPT ![w] = NoHandler]
             /\ cmd' = cmd \ {w}
             /\ UNCHANGED <<rec, owner>>
    BY <2>1, <2>3, NullTypes DEF TypeOK
  <2>4. CASE \E r \in Records : TakeOwnership(w, r, "emit") /\ UNCHANGED cmd
    BY <2>1, <2>4, TakeOwnershipType DEF TypeOK
  <2> QED  BY <1>2, <2>2, <2>3, <2>4, AdoptedType DEF ClarifyOwn
<1>3. CASE ClarifyEmit(w)
  <2>1. UNCHANGED <<tomb, tk, rv, runs, crashes>>
    BY <1>3 DEF ClarifyEmit
  <2>2. CASE /\ RecordEvent(w, "clarification_resolved")
             /\ h' = [h EXCEPT ![w].pc = "broadcast"]
             /\ UNCHANGED <<owner, cmd, fails>>
    <3>1. "clarification_resolved" \in Kinds
      BY DEF Kinds
    <3>2. h' \in [Workers -> Handlers]
      BY <2>2 DEF TypeOK, Handlers
    <3> QED  BY <2>1, <2>2, <3>1, <3>2, RecordEventType DEF TypeOK
  <2>3. CASE ClarifyAbort(w) /\ UNCHANGED disk /\ (StorageFails \/ UNCHANGED fails)
    BY <2>1, <2>3, ClarifyAbortType DEF TypeOK, StorageFails
  <2> QED  BY <1>3, <2>2, <2>3 DEF ClarifyEmit
<1>4. CASE ClarifyResume(w)
  <2>1. UNCHANGED <<disk, tomb, rv, runs, fails, crashes>>
    BY <1>4 DEF ClarifyResume
  <2>2. CASE /\ tk' = [tk EXCEPT ![w] = [NoTask EXCEPT !.pc = "new", !.run = h[w].run,
                                            !.resume = TRUE, !.handle = h[w].handle]]
             /\ h' = [h EXCEPT ![w] = NoHandler]
             /\ cmd' = cmd \ {w}
             /\ UNCHANGED <<rec, owner>>
    <3>1. h[w].run \in Nat /\ h[w].handle \in Handles
      BY DEF TypeOK, Handlers
    <3>2. [NoTask EXCEPT !.pc = "new", !.run = h[w].run,
                         !.resume = TRUE, !.handle = h[w].handle] \in Tasks
      BY <3>1, NullTypes DEF Tasks
    <3>3. tk' \in [Workers -> Tasks]
      BY <2>2, <3>2 DEF TypeOK
    <3>4. h' \in [Workers -> Handlers] /\ cmd' \in SUBSET Workers
      BY <2>2, NullTypes DEF TypeOK
    <3> QED  BY <2>1, <2>2, <3>3, <3>4 DEF TypeOK
  <2>3. CASE ClarifyAbort(w) /\ UNCHANGED tk
    BY <2>1, <2>3, ClarifyAbortType DEF TypeOK
  <2> QED  BY <1>4, <2>2, <2>3 DEF ClarifyResume
<1> QED  BY <1>1, <1>2, <1>3, <1>4

LEMMA CancelReleaseType ==
    ASSUME TypeOK, NEW w \in Workers, CancelRelease(w)
    PROVE  /\ rec' \in [Workers -> Records] /\ owner' \in [Workers -> Handles]
           /\ h' \in [Workers -> Handlers]
<1>1. owner' \in [Workers -> Handles]
  BY ReleaseType DEF CancelRelease, Release
<1>2. rec' = [rec EXCEPT ![w].handle = 0] \/ rec' = rec
  BY DEF CancelRelease
<1>3. rec' \in [Workers -> Records]
  BY <1>2 DEF TypeOK, Records, Handles
<1>4. h' \in [Workers -> Handlers]
  BY NullTypes DEF CancelRelease, TypeOK
<1> QED  BY <1>1, <1>3, <1>4

LEMMA CancelType ==
    ASSUME TypeOK, NEW w \in Workers,
           \/ CancelStart(w) \/ CancelOwn(w) \/ CancelAwaited(w)
           \/ CancelEmit(w) \/ CancelDone(w)
    PROVE  TypeOK'
<1>1. CASE CancelStart(w)
  <2>1. UNCHANGED <<disk, tomb, owner, cmd, rec, rv, runs, fails, crashes>>
    BY <1>1 DEF CancelStart
  <2>2. /\ disk \in Snapshots /\ rec[w].snap \in Snapshots /\ rec[w].run \in Nat
        /\ Persisted \in Snapshots
    BY NullTypes DEF TypeOK, Records, Persisted
  <2>3. CASE /\ \E s \in Snapshots :
                  h' = [h EXCEPT ![w] =
                          [NoHandler EXCEPT !.op = "cancel", !.pc = "own", !.snap = s]]
             /\ UNCHANGED tk
    <3>1. PICK s \in Snapshots :
            h' = [h EXCEPT ![w] = [NoHandler EXCEPT !.op = "cancel", !.pc = "own", !.snap = s]]
      BY <2>3
    <3>2. [NoHandler EXCEPT !.op = "cancel", !.pc = "own", !.snap = s] \in Handlers
      BY NullTypes DEF Handlers
    <3>3. h' \in [Workers -> Handlers]
      BY <3>1, <3>2 DEF TypeOK
    <3> QED  BY <2>1, <2>3, <3>3 DEF TypeOK
  <2>4. CASE /\ tk' = [tk EXCEPT ![w].cancel = TRUE]
             /\ h' = [h EXCEPT ![w] =
                        [NoHandler EXCEPT !.op = "cancel", !.pc = "wait", !.run = rec[w].run]]
    <3>1. [NoHandler EXCEPT !.op = "cancel", !.pc = "wait", !.run = rec[w].run] \in Handlers
      BY <2>2, NullTypes DEF Handlers
    <3>2. h' \in [Workers -> Handlers]
      BY <2>4, <3>1 DEF TypeOK
    <3>3. tk' \in [Workers -> Tasks]
      BY <2>4 DEF TypeOK, Tasks
    <3> QED  BY <2>1, <3>2, <3>3 DEF TypeOK
  <2> QED  BY <1>1, <2>2, <2>3, <2>4 DEF CancelStart
<1>2. CASE CancelOwn(w)
  <2>1. UNCHANGED <<disk, tomb, cmd, tk, rv, runs, fails, crashes>>
    BY <1>2 DEF CancelOwn
  <2>2. rec[w] \in Records /\ h[w].snap \in Snapshots
    BY DEF TypeOK, Handlers
  <2>3. CASE h' = [h EXCEPT ![w] = NoHandler] /\ UNCHANGED <<rec, owner>>
    BY <2>1, <2>3, NullTypes DEF TypeOK
  <2>4. CASE \E r \in Records : TakeOwnership(w, r, "emit")
    BY <2>1, <2>4, TakeOwnershipType DEF TypeOK
  <2> QED  BY <1>2, <2>2, <2>3, <2>4, AdoptedType DEF CancelOwn
<1>3. CASE CancelAwaited(w)
  <2>1. UNCHANGED <<disk, tomb, owner, cmd, rec, tk, rv, runs, fails, crashes>>
    BY <1>3 DEF CancelAwaited
  <2>2. h' = [h EXCEPT ![w].pc = "emit"] \/ h' = [h EXCEPT ![w] = NoHandler]
    BY <1>3 DEF CancelAwaited
  <2>3. [h EXCEPT ![w].pc = "emit"] \in [Workers -> Handlers]
    BY DEF TypeOK, Handlers
  <2>4. [h EXCEPT ![w] = NoHandler] \in [Workers -> Handlers]
    BY NullTypes DEF TypeOK
  <2> QED  BY <2>1, <2>2, <2>3, <2>4 DEF TypeOK
<1>4. CASE CancelEmit(w)
  <2>1. UNCHANGED <<tomb, cmd, tk, rv, runs, crashes>>
    BY <1>4 DEF CancelEmit
  <2>2. CASE /\ RecordEvent(w, "task_cancelled")
             /\ h' = [h EXCEPT ![w].pc = "broadcast"]
             /\ UNCHANGED <<owner, fails>>
    <3>1. "task_cancelled" \in Kinds
      BY DEF Kinds
    <3>2. h' \in [Workers -> Handlers]
      BY <2>2 DEF TypeOK, Handlers
    <3> QED  BY <2>1, <2>2, <3>1, <3>2, RecordEventType DEF TypeOK
  <2>3. CASE CancelRelease(w) /\ UNCHANGED disk /\ (StorageFails \/ UNCHANGED fails)
    BY <2>1, <2>3, CancelReleaseType DEF TypeOK, StorageFails
  <2> QED  BY <1>4, <2>2, <2>3 DEF CancelEmit
<1>5. CASE CancelDone(w)
  BY <1>5, CancelReleaseType DEF CancelDone, TypeOK
<1> QED  BY <1>1, <1>2, <1>3, <1>4, <1>5

LEMMA DeleteType ==
    ASSUME TypeOK, NEW w \in Workers,
           DeleteStart(w) \/ DeleteAwaited(w) \/ DeleteRemove(w)
    PROVE  TypeOK'
<1>1. CASE DeleteStart(w)
  <2>1. UNCHANGED <<disk, owner, cmd, rv, runs, crashes>>
    BY <1>1 DEF DeleteStart
  <2>2. rec' = [rec EXCEPT ![w] = [rec[w] EXCEPT !.deleting = TRUE]] \/ rec' = rec
    BY <1>1 DEF DeleteStart
  <2>3. tk' = [tk EXCEPT ![w] = [tk[w] EXCEPT !.cancel = TRUE]] \/ tk' = tk
    BY <1>1 DEF DeleteStart
  <2>4. h' \in [Workers -> Handlers]
    <3> DEFINE b == (rec[w] # NoRec)
               g == [NoHandler EXCEPT !.op = "delete", !.pc = "wait",
                                      !.handle = rec[w].handle, !.flag = b]
    <3>1. b \in BOOLEAN
      OBVIOUS
    <3>2. h' = [h EXCEPT ![w] = g] \/ h' = h
      BY <1>1 DEF DeleteStart
    <3> HIDE DEF b
    <3>3. rec[w].handle \in Handles
      BY DEF TypeOK, Records
    <3>4. g \in Handlers
      BY <3>1, <3>3, NullTypes DEF Handlers
    <3> HIDE DEF g
    <3> QED  BY <3>2, <3>4 DEF TypeOK
  <2>5. rec' \in [Workers -> Records]
    <3>1. [rec[w] EXCEPT !.deleting = TRUE] \in Records
      BY UpdatesTyped DEF TypeOK
    <3> QED  BY <2>2, <3>1 DEF TypeOK
  <2>6. tk' \in [Workers -> Tasks]
    <3>1. [tk[w] EXCEPT !.cancel = TRUE] \in Tasks
      BY UpdatesTyped DEF TypeOK
    <3> QED  BY <2>3, <3>1 DEF TypeOK
  <2>7. tomb' = TRUE \/ tomb' = tomb
    BY <1>1 DEF DeleteStart
  <2>8. fails' = fails \/ fails' = fails + 1
    BY <1>1 DEF DeleteStart, StorageFails
  <2>9. fails' \in Nat
    BY <2>8 DEF TypeOK
  <2>10. tomb' \in BOOLEAN
    BY <2>7 DEF TypeOK
  <2> QED  BY <2>1, <2>4, <2>5, <2>6, <2>9, <2>10 DEF TypeOK
<1>2. CASE DeleteAwaited(w)
  <2>1. owner' \in [Workers -> Handles]
    BY <1>2, ReleaseType DEF DeleteAwaited, Release, TypeOK
  <2>2. rec' \in [Workers -> Records]
    BY <1>2, NullTypes DEF DeleteAwaited, TypeOK
  <2>3. h' \in [Workers -> Handlers]
    BY <1>2 DEF DeleteAwaited, TypeOK, Handlers
  <2> QED  BY <1>2, <2>1, <2>2, <2>3 DEF DeleteAwaited, TypeOK
<1>3. CASE DeleteRemove(w)
  <2>1. /\ disk' \in Snapshots /\ owner' \in [Workers -> Handles]
        /\ cmd' \in SUBSET Workers /\ fails' \in Nat
    BY <1>3, NullTypes DEF DeleteRemove, TypeOK, Handles, StorageFails
  <2>2. h' \in [Workers -> Handlers]
    BY <1>3, NullTypes DEF DeleteRemove, TypeOK
  <2> QED  BY <1>3, <2>1, <2>2 DEF DeleteRemove, TypeOK
<1> QED  BY <1>1, <1>2, <1>3

LEMMA ProcessExitType ==
    ASSUME TypeOK, NEW w \in Workers, ProcessExit(w)
    PROVE  TypeOK'
<1>1. rec' \in [Workers -> Records] /\ tk' \in [Workers -> Tasks]
  BY NullTypes DEF ProcessExit, TypeOK
<1>2. h' \in [Workers -> Handlers] /\ rv' \in [Workers -> Snapshots]
  BY NullTypes DEF ProcessExit, TypeOK
<1>3. owner' \in [Workers -> Handles] /\ cmd' \in SUBSET Workers /\ crashes' \in Nat
  BY DEF ProcessExit, TypeOK, Handles
<1> QED  BY <1>1, <1>2, <1>3 DEF ProcessExit, TypeOK

LEMMA BackgroundType ==
    ASSUME TypeOK, NEW w \in Workers,
           \/ RecoverRead(w) \/ RecoverWrite(w) \/ PruneRecord(w)
           \/ Crash(w) \/ ShutdownStart(w) \/ ShutdownExit(w)
    PROVE  TypeOK'
<1>1. CASE RecoverRead(w)
  BY <1>1 DEF RecoverRead, TypeOK
<1>2. CASE RecoverWrite(w)
  <2>1. "task_interrupted" \in Kinds /\ rv[w] \in Snapshots
    BY DEF Kinds, TypeOK
  <2>2. Appended(rv[w], "task_interrupted") \in Snapshots
    BY <2>1, AppendedType
  <2>3. rv' \in [Workers -> Snapshots] /\ disk' \in Snapshots /\ fails' \in Nat
    BY <1>2, <2>2, NullTypes DEF RecoverWrite, TypeOK, StorageFails
  <2> QED  BY <1>2, <2>3 DEF RecoverWrite, TypeOK
<1>3. CASE PruneRecord(w)
  <2>1. rec' \in [Workers -> Records] /\ owner' \in [Workers -> Handles]
    BY <1>3, NullTypes, ReleaseType DEF PruneRecord, Release, TypeOK
  <2> QED  BY <1>3, <2>1 DEF PruneRecord, TypeOK
<1>4. CASE Crash(w)
  BY <1>4, ProcessExitType DEF Crash
<1>5. CASE ShutdownStart(w)
  <2>1. [NoHandler EXCEPT !.op = "shutdown", !.pc = "wait"] \in Handlers
    BY NullTypes DEF Handlers
  <2>2. h' \in [Workers -> Handlers]
    BY <1>5, <2>1 DEF ShutdownStart, TypeOK
  <2>3. tk' \in [Workers -> Tasks]
    BY <1>5 DEF ShutdownStart, TypeOK, Tasks
  <2> QED  BY <1>5, <2>2, <2>3 DEF ShutdownStart, TypeOK
<1>6. CASE ShutdownExit(w)
  BY <1>6, ProcessExitType DEF ShutdownExit
<1> QED  BY <1>1, <1>2, <1>3, <1>4, <1>5, <1>6

LEMMA InitType == Init => TypeOK
<1> SUFFICES ASSUME Init
             PROVE  TypeOK
  OBVIOUS
<1>1. disk \in Snapshots /\ rv \in [Workers -> Snapshots]
  BY NullTypes DEF Init
<1>2. rec \in [Workers -> Records] /\ tk \in [Workers -> Tasks]
  BY NullTypes DEF Init
<1>3. h \in [Workers -> Handlers]
  BY NullTypes DEF Init
<1>4. owner \in [Workers -> Handles] /\ cmd \in SUBSET Workers
  BY DEF Init, Handles
<1>5. tomb \in BOOLEAN /\ runs \in Nat /\ fails \in Nat /\ crashes \in Nat
  BY DEF Init
<1> QED  BY <1>1, <1>2, <1>3, <1>4, <1>5 DEF TypeOK

LEMMA NextType == TypeOK /\ [Next]_vars => TypeOK'
<1> SUFFICES ASSUME TypeOK, [Next]_vars
             PROVE  TypeOK'
  OBVIOUS
<1>1. CASE UNCHANGED vars
  BY <1>1 DEF vars, TypeOK
<1>2. ASSUME NEW w \in Workers, TaskStep(w)
      PROVE  TypeOK'
  BY <1>2, TaskStepType
<1>3. ASSUME NEW w \in Workers, HandlerStep(w)
      PROVE  TypeOK'
  BY <1>3, CreateType, ClarifyType, CancelType, DeleteType DEF HandlerStep
<1>4. ASSUME NEW w \in Workers,
             CreateStart(w) \/ ClarifyRead(w) \/ CancelStart(w) \/ DeleteStart(w)
      PROVE  TypeOK'
  BY <1>4, CreateType, ClarifyType, CancelType, DeleteType
<1>5. ASSUME NEW w \in Workers,
             \/ RecoverRead(w) \/ RecoverWrite(w) \/ PruneRecord(w)
             \/ Crash(w) \/ ShutdownStart(w) \/ ShutdownExit(w)
      PROVE  TypeOK'
  BY <1>5, BackgroundType
<1> QED  BY <1>1, <1>2, <1>3, <1>4, <1>5 DEF Next

\* Every variable keeps its type in every behaviour: no handler, task or recovery ever puts
\* a snapshot on disk, a record or a lock handle together wrongly.
THEOREM TypeCorrect == Spec => []TypeOK
BY InitType, NextType, PTL DEF Spec

-----------------------------------------------------------------------------
(* Deletion *)

\* No step removes a tombstone or, once it is there, writes a snapshot.
LEMMA TombstoneStays ==
    ASSUME [Next]_vars, tomb
    PROVE  tomb' /\ disk' \in {disk, NoSnap}
<1>1. CASE UNCHANGED vars
  BY <1>1 DEF vars
<1>2. ASSUME NEW w \in Workers, NEW kind, NEW next, TaskEmits(w, kind, next)
      PROVE  disk' = disk
  BY <1>2 DEF TaskEmits, CanRecord, Deleted
<1>3. ASSUME NEW w \in Workers, TaskStep(w)
      PROVE  tomb' = tomb /\ disk' = disk
  <2>1. CASE TaskStart(w)
    BY <1>2, <2>1 DEF TaskStart
  <2>2. CASE TaskProgress(w)
    BY <1>2, <2>2 DEF TaskProgress
  <2>3. CASE TaskOutcome(w)
    BY <1>2, <2>3 DEF TaskOutcome
  <2>4. CASE TaskCancelled(w)
    BY <1>2, <2>4 DEF TaskCancelled
  <2>5. CASE TaskBroadcastDone(w)
    BY <2>5 DEF TaskBroadcastDone
  <2>6. CASE TaskQueues(w) \/ TaskAdmitted(w)
    BY <1>2, <2>6 DEF TaskQueues, TaskAdmitted
  <2> QED  BY <1>3, <2>1, <2>2, <2>3, <2>4, <2>5, <2>6 DEF TaskStep
<1>4. ASSUME NEW w \in Workers,
             \/ CreateStart(w) \/ CreateAwaited(w) \/ CreateClear(w)
             \/ ClarifyRead(w) \/ ClarifyOwn(w) \/ ClarifyResume(w)
             \/ CancelStart(w) \/ CancelOwn(w) \/ CancelAwaited(w) \/ CancelDone(w)
             \/ DeleteAwaited(w)
      PROVE  tomb' = tomb /\ disk' = disk
  BY <1>4 DEF CreateStart, CreateAwaited, CreateClear, ClarifyRead, ClarifyOwn,
              ClarifyResume, CancelStart, CancelOwn, CancelAwaited, CancelDone, DeleteAwaited
<1>5. ASSUME NEW w \in Workers, CreateCommit(w)
      PROVE  tomb' = tomb /\ disk' \in {disk, NoSnap}
  BY <1>5 DEF CreateCommit, Deleted
<1>6. ASSUME NEW w \in Workers, ClarifyEmit(w) \/ CancelEmit(w)
      PROVE  tomb' = tomb /\ disk' = disk
  BY <1>6 DEF ClarifyEmit, CancelEmit, CanRecord, Deleted
<1>7. ASSUME NEW w \in Workers, DeleteStart(w)
      PROVE  tomb' /\ disk' = disk
  BY <1>7 DEF DeleteStart
<1>8. ASSUME NEW w \in Workers, DeleteRemove(w)
      PROVE  tomb' = tomb /\ disk' \in {disk, NoSnap}
  BY <1>8 DEF DeleteRemove
<1>9. ASSUME NEW w \in Workers, RecoverWrite(w)
      PROVE  tomb' = tomb /\ disk' = disk
  BY <1>9 DEF RecoverWrite, Deleted
<1>10. ASSUME NEW w \in Workers,
              \/ RecoverRead(w) \/ PruneRecord(w) \/ Crash(w)
              \/ ShutdownStart(w) \/ ShutdownExit(w)
       PROVE  tomb' = tomb /\ disk' = disk
  BY <1>10 DEF RecoverRead, PruneRecord, Crash, ShutdownStart, ShutdownExit, ProcessExit
<1>11. ASSUME NEW w \in Workers, HandlerStep(w)
       PROVE  tomb' /\ disk' \in {disk, NoSnap}
  BY <1>4, <1>5, <1>6, <1>8, <1>11 DEF HandlerStep
<1> QED  BY <1>1, <1>3, <1>4, <1>7, <1>9, <1>10, <1>11 DEF Next

\* Every write of a snapshot looks for the tombstone under the mutation lock, and nothing
\* removes a tombstone: after deletion the snapshot stays as it is until it is removed,
\* whatever handlers, tasks and recoveries are still under way in any worker.
THEOREM DeletionIsFinal == Spec => DeletionFences
<1>1. [Next]_vars => [tomb => tomb' /\ disk' \in {disk, NoSnap}]_<<disk, tomb>>
  BY TombstoneStays
<1> QED  BY <1>1, PTL DEF Spec, DeletionFences

-----------------------------------------------------------------------------
(* Timelines.  An event may be appended to a record, to a snapshot a handler adopted, or to *)
(* what a recovery read, so all of them have to be legal for the disk to stay legal.        *)

TimelineInv == TypeOK /\ TimelineConsistent /\ RecoveryReadsRunning

LEMMA NullLegal ==
    /\ LegalTimeline(NoSnap)
    /\ NoRec.snap = NoSnap /\ NoHandler.snap = NoSnap
<1>1. NoSnap.events = <<>> /\ NoSnap.status = "absent" /\ NoSnap.run = 0
  BY DEF NoSnap
<1>2. LegalTimeline(NoSnap)
  BY <1>1 DEF LegalTimeline, StatusTold
<1> QED  BY <1>2 DEF NoRec, NoHandler

\* A new run starts with an empty, legal timeline.
LEMMA NewRunLegal ==
    ASSUME NEW r \in Nat \ {0}
    PROVE  LegalTimeline([run |-> r, status |-> "running", events |-> <<>>])
<1> DEFINE s == [run |-> r, status |-> "running", events |-> <<>>]
<1>1. s.events = <<>> /\ s.status = "running" /\ s.run # 0
  OBVIOUS
<1> HIDE DEF s
<1>2. LegalTimeline(s)
  BY <1>1 DEF LegalTimeline, StatusTold
<1> QED  BY <1>2 DEF s

\* Recording an event through a record keeps the disk and every record legal.
LEMMA RecordEventLegal ==
    ASSUME TypeOK, TimelineConsistent, NEW w \in Workers, NEW kind \in Kinds, NEW r,
           CanRecord(w, r, kind), RecordEvent(w, kind)
    PROVE  LegalTimeline(disk') /\ \A v \in Workers : LegalTimeline(rec'[v].snap)
<1> DEFINE s == Appended(rec[w].snap, kind)
<1>1. rec[w] \in Records /\ rec[w].snap \in Snapshots /\ LegalTimeline(rec[w].snap)
  BY DEF TypeOK, Records, TimelineConsistent
<1>2. LegalTimeline(s)
  BY <1>1, AppendedLegal DEF CanRecord
<1>3. disk' = s /\ rec' = [rec EXCEPT ![w].snap = s]
  BY DEF RecordEvent
<1> HIDE DEF s
<1>4. ASSUME NEW v \in Workers
      PROVE  rec'[v].snap = s \/ rec'[v].snap = rec[v].snap
  BY <1>1, <1>3 DEF TypeOK, Records
<1> QED  BY <1>2, <1>3, <1>4 DEF TimelineConsistent

\* Steps that change records only in their other fields, or drop some.
LEMMA FinishTaskLegal ==
    ASSUME TypeOK, TimelineConsistent, NEW w \in Workers, FinishTask(w)
    PROVE  \A v \in Workers : LegalTimeline(rec'[v].snap)
<1>1. rec' = [rec EXCEPT ![w].handle = 0] \/ rec' = rec
  BY DEF FinishTask
<1>2. ASSUME NEW v \in Workers
      PROVE  rec'[v].snap = rec[v].snap
  BY <1>1 DEF TypeOK, Records
<1> QED  BY <1>2 DEF TimelineConsistent

LEMMA TaskEmitsLegal ==
    ASSUME TypeOK, TimelineConsistent, NEW w \in Workers, NEW kind \in Kinds, NEW next,
           TaskEmits(w, kind, next)
    PROVE  LegalTimeline(disk') /\ \A v \in Workers : LegalTimeline(rec'[v].snap)
<1>1. CASE CanRecord(w, tk[w].run, kind) /\ RecordEvent(w, kind)
  BY <1>1, RecordEventLegal
<1>2. CASE rec' = [rec EXCEPT ![w] = NoRec] /\ UNCHANGED disk
  <2>1. ASSUME NEW v \in Workers
        PROVE  rec'[v].snap = NoSnap \/ rec'[v].snap = rec[v].snap
    BY <1>2, NullLegal DEF TypeOK
  <2> QED  BY <1>2, <2>1, NullLegal DEF TimelineConsistent
<1>3. CASE FinishTask(w) /\ UNCHANGED disk
  BY <1>3, FinishTaskLegal DEF TimelineConsistent
<1> QED  BY <1>1, <1>2, <1>3 DEF TaskEmits

LEMMA TaskStepLegal ==
    ASSUME TypeOK, TimelineConsistent, RecoveryReadsRunning, NEW w \in Workers, TaskStep(w)
    PROVE  TimelineConsistent' /\ RecoveryReadsRunning'
<1>1. UNCHANGED <<h, rv>>
  BY DEF TaskStep, TaskStart, TaskQueues, TaskAdmitted, TaskProgress, TaskOutcome,
         TaskCancelled, TaskBroadcastDone
<1>2. \/ \E kind \in Kinds : \E next : TaskEmits(w, kind, next)
      \/ FinishTask(w) /\ UNCHANGED disk
      \/ UNCHANGED <<disk, rec>>
  <2>1. /\ "session_created" \in Kinds /\ "intent_resolved" \in Kinds
        /\ "task_result" \in Kinds /\ "error" \in Kinds
        /\ "clarification_required" \in Kinds /\ "task_cancelled" \in Kinds
    BY DEF Kinds
  <2>2. CASE TaskStart(w)
    BY <2>1, <2>2 DEF TaskStart
  <2>3. CASE TaskProgress(w)
    BY <2>1, <2>3 DEF TaskProgress
  <2>4. CASE TaskOutcome(w)
    BY <2>1, <2>4 DEF TaskOutcome
  <2>5. CASE TaskCancelled(w)
    BY <2>1, <2>5 DEF TaskCancelled
  <2>6. CASE TaskBroadcastDone(w)
    BY <2>6 DEF TaskBroadcastDone
  <2>7. CASE TaskQueues(w) \/ TaskAdmitted(w)
    BY <2>1, <2>7 DEF TaskQueues, TaskAdmitted
  <2> QED  BY <2>2, <2>3, <2>4, <2>5, <2>6, <2>7 DEF TaskStep
<1>3. LegalTimeline(disk') /\ \A v \in Workers : LegalTimeline(rec'[v].snap)
  BY <1>2, TaskEmitsLegal, FinishTaskLegal DEF TimelineConsistent
<1> QED  BY <1>1, <1>3 DEF TimelineConsistent, RecoveryReadsRunning

\* A handler that moves on, or ends, holds the snapshot it held, or none.
LEMMA HandlerMovesLegal ==
    ASSUME TypeOK, TimelineConsistent, NEW w \in Workers, NEW p,
           \/ h' = [h EXCEPT ![w] = NoHandler]
           \/ h' = [h EXCEPT ![w].pc = p]
           \/ UNCHANGED h
    PROVE  \A v \in Workers : LegalTimeline(h'[v].snap)
<1>1. ASSUME NEW v \in Workers
      PROVE  h'[v].snap = h[v].snap \/ h'[v].snap = NoSnap
  BY NullLegal DEF TypeOK, Handlers
<1> QED  BY <1>1, NullLegal DEF TimelineConsistent

LEMMA HandlerStartsLegal ==
    ASSUME TypeOK, TimelineConsistent, NEW w \in Workers, NEW g,
           h' = [h EXCEPT ![w] = g], LegalTimeline(g.snap)
    PROVE  \A v \in Workers : LegalTimeline(h'[v].snap)
<1>1. ASSUME NEW v \in Workers
      PROVE  h'[v] = h[v] \/ h'[v] = g
  BY DEF TypeOK
<1> QED  BY <1>1 DEF TimelineConsistent

\* Records that lose their handle, are marked or dropped.
LEMMA RecordMovesLegal ==
    ASSUME TypeOK, TimelineConsistent, NEW w \in Workers,
           \/ rec' = [rec EXCEPT ![w] = NoRec]
           \/ rec' = [rec EXCEPT ![w].handle = 0]
           \/ rec' = [rec EXCEPT ![w].deleting = TRUE]
           \/ UNCHANGED rec
    PROVE  \A v \in Workers : LegalTimeline(rec'[v].snap)
<1>1. ASSUME NEW v \in Workers
      PROVE  rec'[v].snap = rec[v].snap \/ rec'[v].snap = NoSnap
  BY NullLegal DEF TypeOK, Records
<1> QED  BY <1>1, NullLegal DEF TimelineConsistent

LEMMA PersistedLegal ==
    ASSUME TimelineConsistent
    PROVE  LegalTimeline(Persisted)
BY NullLegal DEF TimelineConsistent, Persisted

LEMMA CreateLegal ==
    ASSUME TypeOK, TimelineConsistent, RecoveryReadsRunning, NEW w \in Workers,
           CreateStart(w) \/ CreateAwaited(w) \/ CreateClear(w) \/ CreateCommit(w)
    PROVE  TimelineConsistent' /\ RecoveryReadsRunning'
<1>1. UNCHANGED rv
  BY DEF CreateStart, CreateAwaited, CreateClear, CreateCommit
<1>2. CASE CreateStart(w)
  <2>1. PICK g : h' = [h EXCEPT ![w] = g] /\ g.snap = NoSnap
    <3>1. ASSUME NEW p, NEW n
          PROVE  [NoHandler EXCEPT !.op = "create", !.pc = p, !.handle = n].snap = NoSnap
      BY DEF NoHandler
    <3>2. \E p, n : h' = [h EXCEPT ![w] = [NoHandler EXCEPT !.op = "create", !.pc = p,
                                                           !.handle = n]]
      BY <1>2 DEF CreateStart
    <3> QED  BY <3>1, <3>2
  <2>2. UNCHANGED disk /\ (UNCHANGED rec \/ rec' = [rec EXCEPT ![w] = NoRec])
    BY <1>2 DEF CreateStart
  <2>3. \A v \in Workers : LegalTimeline(h'[v].snap)
    BY <2>1, HandlerStartsLegal, NullLegal
  <2>4. \A v \in Workers : LegalTimeline(rec'[v].snap)
    BY <2>2, RecordMovesLegal
  <2> QED  BY <1>1, <2>2, <2>3, <2>4 DEF TimelineConsistent, RecoveryReadsRunning
<1>3. CASE CreateAwaited(w)
  <2>1. \A v \in Workers : LegalTimeline(h'[v].snap)
    BY <1>3, HandlerMovesLegal DEF CreateAwaited
  <2> QED  BY <1>1, <1>3, <2>1 DEF CreateAwaited, TimelineConsistent, RecoveryReadsRunning
<1>4. CASE CreateClear(w)
  <2>1. ASSUME NEW v \in Workers
        PROVE  h'[v].snap = h[v].snap
    BY <1>4 DEF CreateClear, TypeOK, Handlers
  <2> QED  BY <1>1, <1>4, <2>1 DEF CreateClear, TimelineConsistent, RecoveryReadsRunning
<1>5. CASE CreateCommit(w)
  <2>1. \A v \in Workers : LegalTimeline(h'[v].snap)
    <3>1. h' = [h EXCEPT ![w] = NoHandler]
      BY <1>5 DEF CreateCommit, CreateFails
    <3> QED  BY <3>1, HandlerMovesLegal
  <2>2. CASE UNCHANGED rec /\ disk' \in {disk, NoSnap}
    BY <1>1, <2>1, <2>2, NullLegal DEF TimelineConsistent, RecoveryReadsRunning
  <2>3. CASE \E n : LET s == [run |-> runs + 1, status |-> "running", events |-> <<>>]
                    IN  /\ disk' = s
                        /\ rec' = [rec EXCEPT ![w] =
                                     [NoRec EXCEPT !.run = s.run, !.snap = s, !.handle = n]]
    <3> DEFINE s == [run |-> runs + 1, status |-> "running", events |-> <<>>]
    <3>1. runs + 1 \in Nat \ {0}
      BY DEF TypeOK
    <3>2. LegalTimeline(s)
      BY <3>1, NewRunLegal
    <3>3. ASSUME NEW n
          PROVE  [NoRec EXCEPT !.run = s.run, !.snap = s, !.handle = n].snap = s
      BY DEF NoRec
    <3> HIDE DEF s
    <3>4. \A v \in Workers : rec'[v].snap = s \/ rec'[v].snap = rec[v].snap
      BY <2>3, <3>3 DEF TypeOK, s
    <3>5. disk' = s
      BY <2>3 DEF s
    <3> QED  BY <1>1, <2>1, <3>2, <3>4, <3>5 DEF TimelineConsistent, RecoveryReadsRunning
  <2> QED  BY <1>5, <2>2, <2>3 DEF CreateCommit, CreateFails
<1> QED  BY <1>2, <1>3, <1>4, <1>5

LEMMA TakeOwnershipLegal ==
    ASSUME TypeOK, TimelineConsistent, NEW w \in Workers, NEW r \in Records,
           LegalTimeline(r.snap), TakeOwnership(w, r, "emit")
    PROVE  \A v \in Workers : LegalTimeline(rec'[v].snap) /\ LegalTimeline(h'[v].snap)
<1>1. ASSUME NEW v \in Workers
      PROVE  rec'[v].snap = rec[v].snap \/ rec'[v].snap = r.snap
  <2>1. \E n : rec' = [rec EXCEPT ![w] = [r EXCEPT !.handle = n]]
    BY DEF TakeOwnership
  <2>2. \A n : [r EXCEPT !.handle = n].snap = r.snap
    BY DEF Records
  <2> QED  BY <2>1, <2>2 DEF TypeOK
<1>2. ASSUME NEW v \in Workers
      PROVE  h'[v].snap = h[v].snap
  <2>1. \E n, b : h' = [h EXCEPT ![w] = [@ EXCEPT !.pc = "emit", !.run = r.run,
                                                   !.handle = n, !.flag = b]]
    BY DEF TakeOwnership
  <2>2. \A n, b : [h[w] EXCEPT !.pc = "emit", !.run = r.run,
                               !.handle = n, !.flag = b].snap = h[w].snap
    BY DEF TypeOK, Handlers
  <2> QED  BY <2>1, <2>2 DEF TypeOK
<1> QED  BY <1>1, <1>2 DEF TimelineConsistent

LEMMA ClarifyAbortLegal ==
    ASSUME TypeOK, TimelineConsistent, NEW w \in Workers, ClarifyAbort(w)
    PROVE  \A v \in Workers : LegalTimeline(rec'[v].snap) /\ LegalTimeline(h'[v].snap)
BY HandlerMovesLegal, RecordMovesLegal DEF ClarifyAbort

LEMMA ClarifyLegal ==
    ASSUME TypeOK, TimelineConsistent, RecoveryReadsRunning, NEW w \in Workers,
           ClarifyRead(w) \/ ClarifyOwn(w) \/ ClarifyEmit(w) \/ ClarifyResume(w)
    PROVE  TimelineConsistent' /\ RecoveryReadsRunning'
<1>1. UNCHANGED rv
  BY DEF ClarifyRead, ClarifyOwn, ClarifyEmit, ClarifyResume
<1>2. CASE ClarifyRead(w)
  <2>1. PICK s : /\ s \in {Persisted, rec[w].snap}
                 /\ h' = [h EXCEPT ![w] =
                            [NoHandler EXCEPT !.op = "clarify", !.pc = "own", !.snap = s]]
    BY <1>2 DEF ClarifyRead
  <2>2. [NoHandler EXCEPT !.op = "clarify", !.pc = "own", !.snap = s].snap = s
    BY DEF NoHandler
  <2>3. LegalTimeline(s)
    BY <2>1, PersistedLegal DEF TimelineConsistent
  <2>4. \A v \in Workers : LegalTimeline(h'[v].snap)
    BY <2>1, <2>2, <2>3, HandlerStartsLegal
  <2> QED  BY <1>1, <1>2, <2>4 DEF ClarifyRead, TimelineConsistent, RecoveryReadsRunning
<1>3. CASE ClarifyOwn(w)
  <2>1. \E r \in Records : /\ r = Adopted(h[w].snap) \/ r = rec[w]
                           /\ \/ TakeOwnership(w, r, "emit")
                              \/ h' = [h EXCEPT ![w] = NoHandler] /\ UNCHANGED rec
    <3>1. rec[w] \in Records /\ h[w].snap \in Snapshots
      BY DEF TypeOK, Handlers
    <3>2. Adopted(h[w].snap) \in Records
      BY <3>1, AdoptedType
    <3> QED  BY <1>3, <3>1, <3>2 DEF ClarifyOwn
  <2>2. \A s : Adopted(s).snap = s
    BY DEF Adopted, NoRec
  <2>3. \A v \in Workers : LegalTimeline(rec'[v].snap) /\ LegalTimeline(h'[v].snap)
    BY <2>1, <2>2, TakeOwnershipLegal, HandlerMovesLegal DEF TimelineConsistent
  <2> QED  BY <1>1, <1>3, <2>3 DEF ClarifyOwn, TimelineConsistent, RecoveryReadsRunning
<1>4. CASE ClarifyEmit(w)
  <2>1. CASE ClarifyAbort(w) /\ UNCHANGED disk
    BY <1>1, <2>1, ClarifyAbortLegal DEF TimelineConsistent, RecoveryReadsRunning
  <2>2. CASE /\ CanRecord(w, h[w].run, "clarification_resolved")
             /\ RecordEvent(w, "clarification_resolved")
             /\ h' = [h EXCEPT ![w].pc = "broadcast"]
    <3>1. "clarification_resolved" \in Kinds
      BY DEF Kinds
    <3> QED  BY <1>1, <2>2, <3>1, RecordEventLegal, HandlerMovesLegal
             DEF TimelineConsistent, RecoveryReadsRunning
  <2> QED  BY <1>4, <2>1, <2>2 DEF ClarifyEmit
<1>5. CASE ClarifyResume(w)
  <2>1. CASE h' = [h EXCEPT ![w] = NoHandler] /\ UNCHANGED rec
    BY <1>1, <1>5, <2>1, HandlerMovesLegal
       DEF ClarifyResume, TimelineConsistent, RecoveryReadsRunning
  <2>2. CASE ClarifyAbort(w)
    BY <1>1, <1>5, <2>2, ClarifyAbortLegal
       DEF ClarifyResume, TimelineConsistent, RecoveryReadsRunning
  <2> QED  BY <1>5, <2>1, <2>2 DEF ClarifyResume
<1> QED  BY <1>2, <1>3, <1>4, <1>5

LEMMA CancelReleaseLegal ==
    ASSUME TypeOK, TimelineConsistent, NEW w \in Workers, CancelRelease(w)
    PROVE  \A v \in Workers : LegalTimeline(rec'[v].snap) /\ LegalTimeline(h'[v].snap)
BY HandlerMovesLegal, RecordMovesLegal DEF CancelRelease

LEMMA CancelLegal ==
    ASSUME TypeOK, TimelineConsistent, RecoveryReadsRunning, NEW w \in Workers,
           \/ CancelStart(w) \/ CancelOwn(w) \/ CancelAwaited(w)
           \/ CancelEmit(w) \/ CancelDone(w)
    PROVE  TimelineConsistent' /\ RecoveryReadsRunning'
<1>1. UNCHANGED rv
  BY DEF CancelStart, CancelOwn, CancelAwaited, CancelEmit, CancelDone
<1>2. CASE CancelStart(w)
  <2>1. ASSUME NEW s \in {Persisted, rec[w].snap},
               h' = [h EXCEPT ![w] = [NoHandler EXCEPT !.op = "cancel", !.pc = "own",
                                                      !.snap = s]]
        PROVE  \A v \in Workers : LegalTimeline(h'[v].snap)
    <3> DEFINE g == [NoHandler EXCEPT !.op = "cancel", !.pc = "own", !.snap = s]
    <3>1. h' = [h EXCEPT ![w] = g]
      BY <2>1
    <3>2. g.snap = s
      BY DEF NoHandler
    <3>3. LegalTimeline(g.snap)
      BY <3>2, PersistedLegal DEF TimelineConsistent
    <3> HIDE DEF g
    <3> QED  BY <3>1, <3>3, HandlerStartsLegal
  <2>2. ASSUME h' = [h EXCEPT ![w] = [NoHandler EXCEPT !.op = "cancel", !.pc = "wait",
                                                      !.run = rec[w].run]]
        PROVE  \A v \in Workers : LegalTimeline(h'[v].snap)
    <3> DEFINE g == [NoHandler EXCEPT !.op = "cancel", !.pc = "wait", !.run = rec[w].run]
    <3>1. h' = [h EXCEPT ![w] = g]
      BY <2>2
    <3>2. g.snap = NoSnap
      BY DEF NoHandler
    <3>3. LegalTimeline(g.snap)
      BY <3>2, NullLegal
    <3> HIDE DEF g
    <3> QED  BY <3>1, <3>3, HandlerStartsLegal
  <2>3. \A v \in Workers : LegalTimeline(h'[v].snap)
    BY <1>2, <2>1, <2>2 DEF CancelStart
  <2> QED  BY <1>1, <1>2, <2>3 DEF CancelStart, TimelineConsistent, RecoveryReadsRunning
<1>3. CASE CancelOwn(w)
  <2>1. \E r \in Records : /\ r = Adopted(h[w].snap) \/ r = rec[w]
                           /\ \/ TakeOwnership(w, r, "emit")
                              \/ h' = [h EXCEPT ![w] = NoHandler] /\ UNCHANGED rec
    <3>1. rec[w] \in Records /\ h[w].snap \in Snapshots
      BY DEF TypeOK, Handlers
    <3>2. Adopted(h[w].snap) \in Records
      BY <3>1, AdoptedType
    <3> QED  BY <1>3, <3>1, <3>2 DEF CancelOwn
  <2>2. \A s : Adopted(s).snap = s
    BY DEF Adopted, NoRec
  <2>3. \A v \in Workers : LegalTimeline(rec'[v].snap) /\ LegalTimeline(h'[v].snap)
    BY <2>1, <2>2, TakeOwnershipLegal, HandlerMovesLegal DEF TimelineConsistent
  <2> QED  BY <1>1, <1>3, <2>3 DEF CancelOwn, TimelineConsistent, RecoveryReadsRunning
<1>4. CASE CancelAwaited(w)
  <2>1. \A v \in Workers : LegalTimeline(h'[v].snap)
    BY <1>4, HandlerMovesLegal DEF CancelAwaited
  <2> QED  BY <1>1, <1>4, <2>1 DEF CancelAwaited, TimelineConsistent, RecoveryReadsRunning
<1>5. CASE CancelEmit(w)
  <2>1. CASE CancelRelease(w) /\ UNCHANGED disk
    BY <1>1, <2>1, CancelReleaseLegal DEF TimelineConsistent, RecoveryReadsRunning
  <2>2. CASE /\ CanRecord(w, h[w].run, "task_cancelled")
             /\ RecordEvent(w, "task_cancelled")
             /\ h' = [h EXCEPT ![w].pc = "broadcast"]
    <3>1. "task_cancelled" \in Kinds
      BY DEF Kinds
    <3> QED  BY <1>1, <2>2, <3>1, RecordEventLegal, HandlerMovesLegal
             DEF TimelineConsistent, RecoveryReadsRunning
  <2> QED  BY <1>5, <2>1, <2>2 DEF CancelEmit
<1>6. CASE CancelDone(w)
  BY <1>1, <1>6, CancelReleaseLegal DEF CancelDone, TimelineConsistent, RecoveryReadsRunning
<1> QED  BY <1>2, <1>3, <1>4, <1>5, <1>6

LEMMA DeleteLegal ==
    ASSUME TypeOK, TimelineConsistent, RecoveryReadsRunning, NEW w \in Workers,
           DeleteStart(w) \/ DeleteAwaited(w) \/ DeleteRemove(w)
    PROVE  TimelineConsistent' /\ RecoveryReadsRunning'
<1>1. UNCHANGED rv
  BY DEF DeleteStart, DeleteAwaited, DeleteRemove
<1>2. \A v \in Workers : LegalTimeline(rec'[v].snap)
  BY RecordMovesLegal DEF DeleteStart, DeleteAwaited, DeleteRemove
<1>3. \A v \in Workers : LegalTimeline(h'[v].snap)
  <2>1. CASE DeleteStart(w)
    <3>1. CASE UNCHANGED h
      BY <3>1, HandlerMovesLegal
    <3>2. ASSUME NEW n, NEW b,
                 h' = [h EXCEPT ![w] = [NoHandler EXCEPT !.op = "delete", !.pc = "wait",
                                                        !.handle = n, !.flag = b]]
          PROVE  \A v \in Workers : LegalTimeline(h'[v].snap)
      <4> DEFINE g == [NoHandler EXCEPT !.op = "delete", !.pc = "wait",
                                        !.handle = n, !.flag = b]
      <4>1. h' = [h EXCEPT ![w] = g]
        BY <3>2
      <4>2. g.snap = NoSnap
        BY DEF NoHandler
      <4>3. LegalTimeline(g.snap)
        BY <4>2, NullLegal
      <4> HIDE DEF g
      <4> QED  BY <4>1, <4>3, HandlerStartsLegal
    <3>3. \/ UNCHANGED h
          \/ \E n, b : h' = [h EXCEPT ![w] = [NoHandler EXCEPT !.op = "delete", !.pc = "wait",
                                                             !.handle = n, !.flag = b]]
      BY <2>1 DEF DeleteStart
    <3> QED  BY <3>1, <3>2, <3>3
  <2>2. CASE DeleteAwaited(w)
    BY <2>2, HandlerMovesLegal DEF DeleteAwaited
  <2>3. CASE DeleteRemove(w)
    BY <2>3, HandlerMovesLegal DEF DeleteRemove
  <2> QED  BY <2>1, <2>2, <2>3
<1>4. disk' \in {disk, NoSnap}
  BY DEF DeleteStart, DeleteAwaited, DeleteRemove
<1> QED  BY <1>1, <1>2, <1>3, <1>4, NullLegal DEF TimelineConsistent, RecoveryReadsRunning

LEMMA ProcessExitLegal ==
    ASSUME TypeOK, TimelineConsistent, RecoveryReadsRunning, NEW w \in Workers, ProcessExit(w)
    PROVE  TimelineConsistent' /\ RecoveryReadsRunning'
<1>1. \A v \in Workers : rv'[v] = rv[v] \/ rv'[v] = NoSnap
  BY DEF ProcessExit, TypeOK
<1>2. \A v \in Workers : LegalTimeline(rec'[v].snap) /\ LegalTimeline(h'[v].snap)
  BY RecordMovesLegal, HandlerMovesLegal DEF ProcessExit
<1>3. disk' = disk
  BY DEF ProcessExit
<1> QED  BY <1>1, <1>2, <1>3, NullLegal DEF TimelineConsistent, RecoveryReadsRunning

LEMMA BackgroundLegal ==
    ASSUME TypeOK, TimelineConsistent, RecoveryReadsRunning, NEW w \in Workers,
           \/ RecoverRead(w) \/ RecoverWrite(w) \/ PruneRecord(w)
           \/ Crash(w) \/ ShutdownStart(w) \/ ShutdownExit(w)
    PROVE  TimelineConsistent' /\ RecoveryReadsRunning'
<1>1. CASE RecoverRead(w)
  <2>1. disk.status = "running"
    <3>1. NoSnap.status # "running"
      BY DEF NoSnap
    <3> QED  BY <1>1, <3>1 DEF RecoverRead, Persisted
  <2>2. \A v \in Workers : rv'[v] = rv[v] \/ rv'[v] = disk
    BY <1>1 DEF RecoverRead, TypeOK
  <2>3. UNCHANGED <<disk, rec, h>>
    BY <1>1 DEF RecoverRead
  <2> QED  BY <2>1, <2>2, <2>3 DEF TimelineConsistent, RecoveryReadsRunning
<1>2. CASE RecoverWrite(w)
  <2>1. "task_interrupted" \in Kinds /\ rv[w] \in Snapshots /\ LegalTimeline(rv[w])
    BY DEF Kinds, TypeOK, TimelineConsistent
  <2>2. rv[w].status \in AllowedStatuses("task_interrupted")
    BY <1>2 DEF RecoverWrite, RecoveryReadsRunning, AllowedStatuses
  <2>3. LegalTimeline(Appended(rv[w], "task_interrupted"))
    BY <2>1, <2>2, AppendedLegal
  <2>4. disk' = disk \/ disk' = Appended(rv[w], "task_interrupted")
    BY <1>2 DEF RecoverWrite
  <2>5. \A v \in Workers : rv'[v] = rv[v] \/ rv'[v] = NoSnap
    BY <1>2 DEF RecoverWrite, TypeOK
  <2>6. UNCHANGED <<rec, h>>
    BY <1>2 DEF RecoverWrite
  <2> QED  BY <2>3, <2>4, <2>5, <2>6, NullLegal DEF TimelineConsistent, RecoveryReadsRunning
<1>3. CASE PruneRecord(w)
  <2>1. \A v \in Workers : LegalTimeline(rec'[v].snap)
    BY <1>3, RecordMovesLegal DEF PruneRecord
  <2> QED  BY <1>3, <2>1 DEF PruneRecord, TimelineConsistent, RecoveryReadsRunning
<1>4. CASE Crash(w)
  BY <1>4, ProcessExitLegal DEF Crash
<1>5. CASE ShutdownStart(w)
  <2>1. [NoHandler EXCEPT !.op = "shutdown", !.pc = "wait"].snap = NoSnap
    BY DEF NoHandler
  <2>2. \A v \in Workers : LegalTimeline(h'[v].snap)
    BY <1>5, <2>1, NullLegal, HandlerStartsLegal DEF ShutdownStart
  <2> QED  BY <1>5, <2>2 DEF ShutdownStart, TimelineConsistent, RecoveryReadsRunning
<1>6. CASE ShutdownExit(w)
  BY <1>6, ProcessExitLegal DEF ShutdownExit
<1> QED  BY <1>1, <1>2, <1>3, <1>4, <1>5, <1>6

\* No interleaving of workers, no stale record and no lock lost on the way ever puts an
\* illegal timeline on disk: a writer appends to a legal timeline only what its status allows.
THEOREM TimelinesStayLegal == Spec => []TimelineConsistent
<1>1. Init => TimelineInv
  <2>1. Init => TypeOK
    BY InitType
  <2>2. Init => TimelineConsistent /\ RecoveryReadsRunning
    BY NullLegal DEF Init, TimelineConsistent, RecoveryReadsRunning
  <2> QED  BY <2>1, <2>2 DEF TimelineInv
<1>2. TimelineInv /\ [Next]_vars => TimelineInv'
  <2> SUFFICES ASSUME TimelineInv, [Next]_vars
               PROVE  TimelineInv'
    OBVIOUS
  <2>1. TypeOK /\ TimelineConsistent /\ RecoveryReadsRunning
    BY DEF TimelineInv
  <2>2. TypeOK'
    BY <2>1, NextType
  <2>3. TimelineConsistent' /\ RecoveryReadsRunning'
    <3>1. CASE UNCHANGED vars
      BY <2>1, <3>1 DEF vars, TimelineConsistent, RecoveryReadsRunning
    <3>2. ASSUME NEW w \in Workers, TaskStep(w)
          PROVE  TimelineConsistent' /\ RecoveryReadsRunning'
      BY <2>1, <3>2, TaskStepLegal
    <3>3. ASSUME NEW w \in Workers, HandlerStep(w)
          PROVE  TimelineConsistent' /\ RecoveryReadsRunning'
      BY <2>1, <3>3, CreateLegal, ClarifyLegal, CancelLegal, DeleteLegal DEF HandlerStep
    <3>4. ASSUME NEW w \in Workers,
                 CreateStart(w) \/ ClarifyRead(w) \/ CancelStart(w) \/ DeleteStart(w)
          PROVE  TimelineConsistent' /\ RecoveryReadsRunning'
      BY <2>1, <3>4, CreateLegal, ClarifyLegal, CancelLegal, DeleteLegal
    <3>5. ASSUME NEW w \in Workers,
                 \/ RecoverRead(w) \/ RecoverWrite(w) \/ PruneRecord(w)
                 \/ Crash(w) \/ ShutdownStart(w) \/ ShutdownExit(w)
          PROVE  TimelineConsistent' /\ RecoveryReadsRunning'
      BY <2>1, <3>5, BackgroundLegal
    <3> QED  BY <3>1, <3>2, <3>3, <3>4, <3>5 DEF Next
  <2> QED  BY <2>1, <2>2, <2>3 DEF TimelineInv
<1>3. TimelineInv => TimelineConsistent
  BY DEF TimelineInv
<1> QED  BY <1>1, <1>2, <1>3, PTL DEF Spec

=============================================================================
