---------------------------- MODULE WorkerProofs ----------------------------
(***************************************************************************)
(* Theorems about what a worker holds back and lets through: the leases of *)
(* its admission queue, the active tasks of its release gate, the circuit  *)
(* of a provider and the locks of its threads.  The four share no state; a *)
(* theorem is about the specification it names.                            *)
(***************************************************************************)
EXTENDS RequestQueue, RuntimeDrain, ProviderCircuit, TaskLocks, FiniteSetTheorems, TLAPS

-----------------------------------------------------------------------------
(* RequestQueue: the lease counters are exact *)

Heap == [items : SUBSET Requests, head : Requests \cup {None}]

\* Inductive: who runs is a finite set, counted by active, within the capacity there is at most.
LeasesExact ==
    /\ \A k \in Kinds : IsFiniteSet(Running(k)) /\ active[k] = Cardinality(Running(k))
    /\ active["normal"] <= NormalWorkers /\ active["heavy"] <= HeavyWorkers

\* A notified request is still inside acquire, so it cannot take a second lease.
WokenWait == \A r \in woken : pc[r] = "waiting"

QueueInv == TypeOK /\ LeasesExact /\ WokenWait

-----------------------------------------------------------------------------
\* The heavy capacity is never above the heavy workers, and never zero.
LEMMA RebalancedBounded ==
    ASSUME NEW limit \in 1 .. HeavyWorkers, NEW n
    PROVE  Rebalanced(limit, n) \in 1 .. HeavyWorkers
<1>1. HeavyWorkers \in Nat /\ HeavyWorkers >= 1
    BY QueueConstantsOK
<1>2. ThrottledLimit \in 1 .. HeavyWorkers
    BY <1>1 DEF ThrottledLimit
<1> QED  BY <1>1, <1>2 DEF Rebalanced

\* Taking a request out of a heap leaves a heap, whichever request comes to its head.
LEMMA WithoutHeap ==
    ASSUME NEW q \in Heap, NEW r \in Requests, NEW p \in Without(q, r)
    PROVE  p \in Heap
<1>1. q.items \ {r} \in SUBSET Requests
    BY DEF Heap
<1>2. Heads(q.items \ {r}) \subseteq Requests \cup {None}
    BY <1>1 DEF Heads
<1> QED  BY <1>1, <1>2 DEF Without, Heap

LEMMA RemovedHeap ==
    ASSUME NEW q \in Heap, NEW r \in Requests, NEW p \in Removed(q, r)
    PROVE  p \in Heap
<1>1. Equals(q, r) \subseteq Requests
    BY DEF Equals, Heap
<1> QED  BY <1>1, WithoutHeap DEF Removed

\* One look inside acquire keeps the types.
LEMMA LookTyped ==
    ASSUME TypeOK, NEW r \in Requests, NEW k \in Kinds, NEW q \in [Kinds -> Heap],
           NEW limit \in 1 .. HeavyWorkers, Look(r, k, q, limit)
    PROVE  /\ pc' \in [Requests -> {"new", "queued", "waiting", "running", "done"}]
           /\ queue' \in [Kinds -> Heap]
           /\ active' \in [Kinds -> Nat]
           /\ heavyLimit' \in 1 .. HeavyWorkers
<1>1. CASE /\ \E p \in Without(q[k], r) : queue' = [q EXCEPT ![k] = p]
           /\ heavyLimit' = Rebalanced(limit, Backlog(queue'))
           /\ active' = [active EXCEPT ![k] = @ + 1]
           /\ pc' = [pc EXCEPT ![r] = "running"]
    <2>1. queue' \in [Kinds -> Heap]
        BY <1>1, WithoutHeap
    <2> QED  BY <1>1, <2>1, RebalancedBounded DEF TypeOK
<1>2. CASE /\ pc' = [pc EXCEPT ![r] = "waiting"]
           /\ queue' = q /\ heavyLimit' = limit
           /\ UNCHANGED active
    BY <1>2 DEF TypeOK
<1> QED  BY <1>1, <1>2 DEF Look

\* The request that looks becomes the only new one in a lease, or none does.
LEMMA LookCounted ==
    ASSUME TypeOK, LeasesExact, NEW r \in Requests, NEW k \in Kinds, NEW q,
           NEW limit \in 1 .. HeavyWorkers, Look(r, k, q, limit), pc[r] # "running",
           kind' = [kind EXCEPT ![r] = k]
    PROVE  LeasesExact'
<1> USE DEF TypeOK
<1>1. CASE /\ active[k] < (IF k = "heavy" THEN limit ELSE NormalWorkers)
           /\ active' = [active EXCEPT ![k] = @ + 1]
           /\ pc' = [pc EXCEPT ![r] = "running"]
    <2>1. Running(k)' = Running(k) \cup {r} /\ r \notin Running(k)
        BY <1>1 DEF Running
    <2>2. \A j \in Kinds \ {k} : Running(j)' = Running(j)
        BY <1>1 DEF Running
    <2>3. /\ IsFiniteSet(Running(k)')
          /\ Cardinality(Running(k)') = Cardinality(Running(k)) + 1
        BY <2>1, FS_AddElement DEF LeasesExact
    <2>4. \A j \in Kinds : IsFiniteSet(Running(j)') /\ active'[j] = Cardinality(Running(j)')
        BY <1>1, <2>2, <2>3 DEF LeasesExact
    <2>5. active'["normal"] <= NormalWorkers /\ active'["heavy"] <= HeavyWorkers
        BY <1>1, QueueConstantsOK DEF LeasesExact, Kinds
    <2> QED  BY <2>4, <2>5 DEF LeasesExact
<1>2. CASE pc' = [pc EXCEPT ![r] = "waiting"] /\ UNCHANGED active
    <2>1. \A j \in Kinds : Running(j)' = Running(j)
        BY <1>2 DEF Running
    <2> QED  BY <1>2, <2>1 DEF LeasesExact
<1> QED  BY <1>1, <1>2 DEF Look

\* Nobody enters or leaves a lease when pc keeps who is running.
LEMMA SameRunning ==
    ASSUME TypeOK, LeasesExact, UNCHANGED active,
           \A r \in Requests : (pc'[r] = "running") <=> (pc[r] = "running"),
           \A r \in Requests : pc[r] = "running" => kind'[r] = kind[r]
    PROVE  LeasesExact'
<1>1. \A j \in Kinds : Running(j)' = Running(j)
    BY DEF Running
<1> QED  BY <1>1 DEF LeasesExact

-----------------------------------------------------------------------------
LEMMA QueueStarts == Init => QueueInv
<1> SUFFICES ASSUME Init PROVE QueueInv
    OBVIOUS
<1>1. TypeOK
    BY QueueConstantsOK DEF Init, TypeOK, Kinds
<1>2. \A k \in Kinds : Running(k) = {}
    BY DEF Init, Running
<1>3. LeasesExact
    BY <1>2, FS_EmptySet, QueueConstantsOK DEF Init, LeasesExact, Kinds
<1> QED  BY <1>1, <1>3 DEF QueueInv, WokenWait, Init

LEMMA QueueStep == QueueInv /\ Next => QueueInv'
<1> SUFFICES ASSUME TypeOK, LeasesExact, WokenWait, Next PROVE QueueInv'
    BY DEF QueueInv
<1>a. heavyLimit \in 1 .. HeavyWorkers /\ queue \in [Kinds -> Heap]
    BY DEF TypeOK, Heap
<1>b. NotifyAll => woken' \in SUBSET Requests
    BY DEF NotifyAll
<1>1. ASSUME NEW r \in Requests, NEW k \in Kinds, Enqueue(r, k) PROVE TypeOK' /\ LeasesExact'
    <2> DEFINE first == queue[k].head = None \/ Priority[r] < Priority[queue[k].head]
               entered == [items |-> queue[k].items \cup {r},
                           head  |-> IF first THEN r ELSE queue[k].head]
               q == [queue EXCEPT ![k] = entered]
               limit == Rebalanced(heavyLimit, Backlog(q))
    <2>1. entered \in Heap
        BY <1>a DEF Heap
    <2>2. q \in [Kinds -> Heap] /\ limit \in 1 .. HeavyWorkers
        BY <1>a, <2>1, RebalancedBounded
    <2>3. /\ pc[r] = "new" /\ kind' = [kind EXCEPT ![r] = k] /\ NotifyAll
          /\ IF first THEN Look(r, k, q, limit)
             ELSE /\ pc' = [pc EXCEPT ![r] = "queued"]
                  /\ queue' = q /\ heavyLimit' = limit
                  /\ UNCHANGED active
        BY <1>1 DEF Enqueue
    <2> HIDE DEF first, entered, q, limit
    <2>4. CASE Look(r, k, q, limit)
        <3>1. LeasesExact'
            BY <2>2, <2>3, <2>4, LookCounted
        <3>2. TypeOK'
            BY <1>b, <2>2, <2>3, <2>4, LookTyped DEF TypeOK, Heap
        <3> QED  BY <3>1, <3>2
    <2>5. CASE /\ pc' = [pc EXCEPT ![r] = "queued"]
               /\ queue' = q /\ heavyLimit' = limit
               /\ UNCHANGED active
        <3>1. LeasesExact'
            BY <2>3, <2>5, SameRunning DEF TypeOK
        <3>2. TypeOK'
            BY <1>b, <2>2, <2>3, <2>5 DEF TypeOK, Heap
        <3> QED  BY <3>1, <3>2
    <2> QED  BY <2>3, <2>4, <2>5
<1>2. ASSUME NEW r \in Requests, pc[r] # "running", Look(r, kind[r], queue, heavyLimit),
             UNCHANGED kind, woken' \in SUBSET Requests
      PROVE  TypeOK' /\ LeasesExact'
    <2>1. kind[r] \in Kinds /\ kind' = [kind EXCEPT ![r] = kind[r]]
        BY <1>2 DEF TypeOK
    <2>2. LeasesExact'
        BY <1>2, <1>a, <2>1, LookCounted
    <2>3. TypeOK'
        BY <1>2, <1>a, <2>1, LookTyped DEF TypeOK, Heap
    <2> QED  BY <2>2, <2>3
<1>3. ASSUME NEW r \in Requests, Acquire(r) PROVE TypeOK' /\ LeasesExact'
    BY <1>2, <1>3 DEF Acquire, TypeOK
<1>4. ASSUME NEW r \in Requests, LookAgain(r) PROVE TypeOK' /\ LeasesExact'
    BY <1>2, <1>4 DEF LookAgain, TypeOK, WokenWait
<1>5. ASSUME NEW r \in Requests, Finish(r) PROVE TypeOK' /\ LeasesExact'
    <2>1. PICK k \in Kinds : k = kind[r]
        BY DEF TypeOK
    <2>2. TypeOK'
        <3>1. PICK q \in Removed(queue[k], r) : SetQueue(k, q)
            BY <1>5, <2>1 DEF Finish
        <3>2. q \in Heap
            BY <1>a, <2>1, <3>1, RemovedHeap
        <3>3. queue' \in [Kinds -> Heap] /\ heavyLimit' \in 1 .. HeavyWorkers
            BY <1>a, <2>1, <3>1, <3>2, RebalancedBounded DEF SetQueue
        <3>4. active' \in [Kinds -> Nat]
            <4>1. Released(active[k]) \in Nat
                BY <2>1 DEF Released, TypeOK
            <4>2. active' = [active EXCEPT ![k] = Released(active[k])]
                BY <1>5, <2>1 DEF Finish
            <4> QED  BY <4>1, <4>2 DEF TypeOK
        <3> QED  BY <1>5, <1>b, <3>3, <3>4 DEF Finish, TypeOK, Heap
    <2>3. /\ Running(k)' = Running(k) \ {r} /\ r \in Running(k)
          /\ \A j \in Kinds \ {k} : Running(j)' = Running(j)
        BY <1>5, <2>1 DEF Finish, Running, TypeOK
    <2>4. /\ IsFiniteSet(Running(k)')
          /\ Cardinality(Running(k)') = Cardinality(Running(k)) - 1
        BY <2>1, <2>3, FS_RemoveElement DEF LeasesExact
    <2>5. Cardinality(Running(k)) = active[k] /\ active[k] \in Nat
          /\ Cardinality(Running(k)') \in Nat
        BY <2>1, <2>4, FS_CardinalityType DEF LeasesExact, TypeOK
    <2>6. active' = [active EXCEPT ![k] = active[k] - 1]
        <3>1. active' = [active EXCEPT ![k] = Released(active[k])]
            BY <1>5, <2>1 DEF Finish
        <3>2. active[k] # 0
            BY <2>4, <2>5
        <3> QED  BY <3>1, <3>2 DEF Released
    <2>7. \A j \in Kinds : IsFiniteSet(Running(j)') /\ active'[j] = Cardinality(Running(j)')
        <3>1. ASSUME NEW j \in Kinds, j # k
              PROVE  IsFiniteSet(Running(j)') /\ active'[j] = Cardinality(Running(j)')
            BY <2>3, <2>6, <3>1 DEF LeasesExact, TypeOK
        <3>2. active'[k] = Cardinality(Running(k)')
            BY <2>1, <2>4, <2>5, <2>6 DEF TypeOK
        <3> QED  BY <2>4, <3>1, <3>2
    <2>8. active'["normal"] <= NormalWorkers /\ active'["heavy"] <= HeavyWorkers
        BY <2>1, <2>6, QueueConstantsOK DEF LeasesExact, TypeOK, Kinds
    <2> QED  BY <2>2, <2>7, <2>8 DEF LeasesExact
<1>6. ASSUME NEW r \in Requests, Withdraw(r) PROVE TypeOK' /\ LeasesExact'
    <2>1. PICK k \in Kinds : k = kind[r]
        BY DEF TypeOK
    <2>2. PICK q \in Heap :
            /\ SetQueue(k, q)
            /\ IF q = queue[k] THEN woken' = woken \ {r} ELSE NotifyAll
        <3>1. PICK q \in (IF pc[r] = "queued" THEN Removed(queue[k], r)
                          ELSE UNION {Removed(p, r) : p \in Removed(queue[k], r)}) :
                /\ SetQueue(k, q)
                /\ IF q = queue[k] THEN woken' = woken \ {r} ELSE NotifyAll
            BY <1>6, <2>1 DEF Withdraw
        <3>2. q \in Heap
            BY <1>a, <2>1, RemovedHeap
        <3> QED  BY <3>1, <3>2
    <2>3. queue' \in [Kinds -> Heap] /\ heavyLimit' \in 1 .. HeavyWorkers
        BY <1>a, <2>1, <2>2, RebalancedBounded DEF SetQueue
    <2>4. TypeOK'
        BY <1>6, <1>b, <2>2, <2>3 DEF Withdraw, TypeOK, Heap
    <2>5. LeasesExact'
        BY <1>6, SameRunning DEF Withdraw, TypeOK
    <2> QED  BY <2>4, <2>5
<1>7. ASSUME DynamicRebalance PROVE TypeOK' /\ LeasesExact'
    <2>1. TypeOK'
        BY <1>7, <1>a, <1>b, RebalancedBounded DEF DynamicRebalance, TypeOK
    <2>2. LeasesExact'
        BY <1>7, SameRunning DEF DynamicRebalance
    <2> QED  BY <2>1, <2>2
<1>8. TypeOK' /\ LeasesExact'
    BY <1>1, <1>3, <1>4, <1>5, <1>6, <1>7 DEF Next
<1>9. WokenWait'
    <2>1. ASSUME NotifyAll PROVE WokenWait'
        BY <2>1 DEF NotifyAll, WokenWait
    <2>2. ASSUME NEW r \in Requests, pc[r] # "waiting" \/ r \notin woken', woken' \subseteq woken,
                 \A x \in Requests \ {r} : pc'[x] = pc[x]
          PROVE  WokenWait'
        BY <2>2 DEF WokenWait, TypeOK
    <2>3. ASSUME NEW r \in Requests, NEW k, NEW q, NEW limit, Look(r, k, q, limit)
          PROVE  \A x \in Requests \ {r} : pc'[x] = pc[x]
        BY <2>3 DEF Look, TypeOK
    <2>4. ASSUME NEW r \in Requests, Acquire(r) PROVE WokenWait'
        BY <2>2, <2>3, <2>4 DEF Acquire
    <2>5. ASSUME NEW r \in Requests, LookAgain(r) PROVE WokenWait'
        BY <2>2, <2>3, <2>5 DEF LookAgain
    <2>6. ASSUME NEW r \in Requests, Withdraw(r) PROVE WokenWait'
        <3>1. woken' = woken \ {r} \/ NotifyAll
            BY <2>6 DEF Withdraw
        <3>2. \A x \in Requests \ {r} : pc'[x] = pc[x]
            BY <2>6 DEF Withdraw, TypeOK
        <3> QED  BY <2>1, <2>2, <3>1, <3>2
    <2>7. ASSUME NEW r \in Requests, NEW k \in Kinds, Enqueue(r, k) PROVE WokenWait'
        BY <2>1, <2>7 DEF Enqueue
    <2>8. ASSUME NEW r \in Requests, Finish(r) PROVE WokenWait'
        BY <2>1, <2>8 DEF Finish
    <2>9. CASE DynamicRebalance
        BY <2>1, <2>9 DEF DynamicRebalance
    <2> QED  BY <2>4, <2>5, <2>6, <2>7, <2>8, <2>9 DEF Next
<1> QED  BY <1>8, <1>9 DEF QueueInv

-----------------------------------------------------------------------------
LEMMA QueueStutter == QueueInv /\ UNCHANGED vars => QueueInv'
<1> SUFFICES ASSUME QueueInv, UNCHANGED vars PROVE QueueInv'
    OBVIOUS
<1>1. LeasesExact'
    BY SameRunning DEF QueueInv, vars
<1> QED  BY <1>1 DEF QueueInv, TypeOK, WokenWait, vars

\* QueueInv is inductive.
THEOREM QueueInvariant == Spec => []QueueInv
<1> QED  BY QueueStarts, QueueStep, QueueStutter, PTL DEF Spec

\* The variables of RequestQueue keep their types; the heavy capacity is never zero.
THEOREM QueueTyped == Spec => []TypeOK
<1>1. QueueInv => TypeOK
    BY DEF QueueInv
<1> QED  BY <1>1, QueueInvariant, PTL

\* The counters kept by hand count who is inside a lease, through cancellations and releases
\* in any order, and no pool is exceeded.
THEOREM LeasesAlwaysCounted == Spec => []LeasesCounted
<1>1. QueueInv => LeasesCounted
    BY DEF QueueInv, LeasesExact, LeasesCounted, Kinds
<1> QED  BY <1>1, QueueInvariant, PTL

-----------------------------------------------------------------------------
(* RuntimeDrain: the count of active tasks is explained *)

\* A request that has not been answered has no task yet.
TaskAfterRequest == \A r \in Posts : request[r] # "over" => job[r] = "none"

\* The count is exact, and a worker that was found idle has stopped to accept requests.
CountExact ==
    /\ IsFiniteSet(Outstanding)
    /\ activeTasks = Cardinality(Outstanding) + leaked
    /\ idle => Outstanding = {} /\ phase \in {"stopping", "stopped"}

DrainInv == DrainTypeOK /\ TaskAfterRequest /\ CountExact

-----------------------------------------------------------------------------
(* How a step changes the count *)

\* Nobody comes or goes.
LEMMA CountKept ==
    ASSUME DrainInv, Outstanding' = Outstanding, UNCHANGED <<activeTasks, leaked, idle, phase>>
    PROVE  CountExact'
BY DEF DrainInv, CountExact

\* A worker that serves accepts one more.
LEMMA CountRises ==
    ASSUME DrainInv, NEW r \in Posts, r \notin Outstanding, Outstanding' = Outstanding \cup {r},
           BeginTask, phase = "serving", UNCHANGED <<leaked, idle, phase>>
    PROVE  CountExact'
<1>1. /\ IsFiniteSet(Outstanding')
      /\ Cardinality(Outstanding') = Cardinality(Outstanding) + 1
    BY FS_AddElement DEF DrainInv, CountExact
<1>2. Cardinality(Outstanding) \in Nat /\ leaked \in Nat /\ activeTasks \in Nat
    BY FS_CardinalityType DEF DrainInv, CountExact, DrainTypeOK
<1>3. activeTasks' = Cardinality(Outstanding') + leaked'
    BY <1>1, <1>2 DEF DrainInv, CountExact, BeginTask
<1>4. ~idle'
    BY DEF DrainInv, CountExact
<1> QED  BY <1>1, <1>3, <1>4 DEF CountExact

\* One leaves, and is either given back or leaked.
LEMMA CountFalls ==
    ASSUME DrainInv, NEW r \in Outstanding, Outstanding' = Outstanding \ {r},
           \/ FinishTask /\ leaked' = leaked
           \/ activeTasks' = activeTasks /\ leaked' = leaked + 1,
           UNCHANGED <<idle, phase>>
    PROVE  CountExact' /\ activeTasks' \in Nat /\ leaked' \in Nat
<1>1. /\ IsFiniteSet(Outstanding')
      /\ Cardinality(Outstanding') = Cardinality(Outstanding) - 1
    BY FS_RemoveElement DEF DrainInv, CountExact
<1>2. Cardinality(Outstanding') \in Nat /\ leaked \in Nat /\ activeTasks \in Nat
    BY <1>1, FS_CardinalityType DEF DrainInv, DrainTypeOK
<1>3. activeTasks = Cardinality(Outstanding') + 1 + leaked
    BY <1>1, <1>2, FS_CardinalityType DEF DrainInv, CountExact
<1>4. activeTasks' = Cardinality(Outstanding') + leaked'
    BY <1>2, <1>3 DEF FinishTask
<1>5. activeTasks' \in Nat /\ leaked' \in Nat
    BY <1>2, <1>4
<1>6. ~idle'
    BY DEF DrainInv, CountExact
<1> QED  BY <1>1, <1>4, <1>5, <1>6 DEF CountExact

\* The thread whose record a request finds is one of the worker's tasks.
LEMMA RecordedTask ==
    ASSUME DrainTypeOK, NEW r \in Posts
    PROVE  record[target[r].thread] \in Posts \cup {Nobody}
BY DEF DrainTypeOK

-----------------------------------------------------------------------------
LEMMA DrainStarts == DrainInit => DrainInv
<1> SUFFICES ASSUME DrainInit PROVE DrainInv
    OBVIOUS
<1>1. (CHOOSE t \in Threads : TRUE) \in Threads
    BY DrainConstantsOK
<1>2. Outstanding = {}
    BY DEF DrainInit, Outstanding, Alive
<1>3. DrainTypeOK /\ TaskAfterRequest
    BY <1>1 DEF DrainInit, DrainTypeOK, TaskAfterRequest
<1>4. CountExact
    BY <1>2, FS_EmptySet DEF DrainInit, CountExact
<1> QED  BY <1>3, <1>4 DEF DrainInv

LEMMA DrainStep == DrainInv /\ DrainNext => DrainInv'
<1> SUFFICES ASSUME DrainInv, DrainNext PROVE DrainInv'
    OBVIOUS
<1>t. DrainTypeOK /\ TaskAfterRequest
    BY DEF DrainInv
<1>1. ASSUME NEW r \in Posts, NEW t \in Threads, AcceptCreate(r, t) PROVE DrainInv'
    <2>1. TaskAfterRequest'
        BY <1>1, <1>t DEF AcceptCreate, Over, TaskAfterRequest, DrainTypeOK
    <2>2. CASE BeginTask /\ request' = [request EXCEPT ![r] = "counted"]
        <3>1. r \notin Outstanding /\ Outstanding' = Outstanding \cup {r}
            BY <1>1, <1>t, <2>2 DEF AcceptCreate, Outstanding, Alive, TaskAfterRequest, DrainTypeOK
        <3>2. CountExact'
            BY <1>1, <2>2, <3>1, CountRises DEF AcceptCreate
        <3>3. DrainTypeOK'
            BY <1>1, <1>t, <2>2 DEF AcceptCreate, BeginTask, DrainTypeOK
        <3> QED  BY <2>1, <3>2, <3>3 DEF DrainInv
    <2>3. CASE Over(r) /\ UNCHANGED activeTasks
        <3>1. Outstanding' = Outstanding
            BY <1>1, <1>t, <2>3 DEF AcceptCreate, Over, Outstanding, Alive, TaskAfterRequest,
                              DrainTypeOK
        <3>2. CountExact'
            BY <1>1, <2>3, <3>1, CountKept DEF AcceptCreate
        <3>3. DrainTypeOK'
            BY <1>1, <1>t, <2>3 DEF AcceptCreate, Over, DrainTypeOK
        <3> QED  BY <2>1, <3>2, <3>3 DEF DrainInv
    <2> QED  BY <1>1, <2>2, <2>3 DEF AcceptCreate
<1>2. ASSUME NEW r \in Posts, RefuseCreate(r) PROVE DrainInv'
    <2>1. r \in Outstanding /\ Outstanding' = Outstanding \ {r}
        BY <1>2, <1>t DEF RefuseCreate, Entered, Replaced, Over, Outstanding, Alive,
                          TaskAfterRequest, DrainTypeOK
    <2>2. CountExact' /\ activeTasks' \in Nat /\ leaked' \in Nat
        BY <1>2, <2>1, CountFalls DEF RefuseCreate
    <2>3. DrainTypeOK' /\ TaskAfterRequest'
        BY <1>2, <1>t, <2>2 DEF RefuseCreate, Entered, Replaced, Over, DrainTypeOK,
                                TaskAfterRequest
    <2> QED  BY <2>2, <2>3 DEF DrainInv
<1>3. ASSUME NEW r \in Posts, ReplaceTask(r) PROVE DrainInv'
    <2>1. PICK old \in Posts :
            /\ old = record[target[r].thread] /\ Alive(old)
            /\ job' = [job EXCEPT ![old] = "cancelling"]
            /\ target' = [target EXCEPT ![r].old = old]
        BY <1>3, <1>t, RecordedTask DEF ReplaceTask
    <2>2. Outstanding' = Outstanding
        BY <1>3, <1>t, <2>1 DEF ReplaceTask, Entered, Outstanding, Alive, DrainTypeOK
    <2>3. CountExact'
        BY <1>3, <2>2, CountKept DEF ReplaceTask
    <2>4. DrainTypeOK'
        BY <1>3, <1>t, <2>1 DEF ReplaceTask, DrainTypeOK
    <2>5. TaskAfterRequest'
        BY <1>3, <1>t, <2>1 DEF ReplaceTask, Entered, TaskAfterRequest, Alive, DrainTypeOK
    <2> QED  BY <2>3, <2>4, <2>5 DEF DrainInv
<1>4. ASSUME NEW r \in Posts, StartCreate(r) PROVE DrainInv'
    <2>1. PICK t \in Threads : t = target[r].thread
        BY <1>t DEF DrainTypeOK
    <2>2. /\ request[r] \in {"counted", "replacing"} /\ job[r] = "none"
          /\ Over(r) /\ UNCHANGED <<phase, idle, target, leaked>>
          /\ \/ Started(r, t) /\ UNCHANGED activeTasks
             \/ FinishTask /\ UNCHANGED <<job, record>>
        BY <1>4, <1>t, <2>1 DEF StartCreate, Entered, Replaced, TaskAfterRequest
    <2>3. CASE Started(r, t) /\ UNCHANGED activeTasks
        <3>1. Outstanding' = Outstanding
            BY <1>t, <2>2, <2>3 DEF Started, Over, Outstanding, Alive, DrainTypeOK
        <3>2. CountExact'
            BY <2>2, <2>3, <3>1, CountKept
        <3>3. DrainTypeOK' /\ TaskAfterRequest'
            BY <1>t, <2>2, <2>3 DEF Started, Over, DrainTypeOK, TaskAfterRequest
        <3> QED  BY <3>2, <3>3 DEF DrainInv
    <2>4. CASE FinishTask /\ UNCHANGED <<job, record>>
        <3>1. r \in Outstanding /\ Outstanding' = Outstanding \ {r}
            BY <1>t, <2>2, <2>4 DEF Over, Outstanding, Alive, DrainTypeOK
        <3>2. CountExact' /\ activeTasks' \in Nat
            BY <2>2, <2>4, <3>1, CountFalls
        <3>3. DrainTypeOK' /\ TaskAfterRequest'
            BY <1>t, <2>2, <2>4, <3>2 DEF Over, DrainTypeOK, TaskAfterRequest
        <3> QED  BY <3>2, <3>3 DEF DrainInv
    <2> QED  BY <2>2, <2>3, <2>4
<1>5. ASSUME NEW r \in Posts, NEW t \in Threads, StartAtOnce(r, t) PROVE DrainInv'
    <2>1. /\ phase = "serving" /\ request[r] = "new" /\ job[r] = "none"
          /\ Over(r) /\ UNCHANGED <<phase, idle, target, leaked>>
          /\ \/ BeginTask /\ Started(r, t)
             \/ UNCHANGED <<activeTasks, job, record>>
        BY <1>5, <1>t DEF StartAtOnce, TaskAfterRequest
    <2>2. CASE BeginTask /\ Started(r, t)
        <3>1. r \notin Outstanding /\ Outstanding' = Outstanding \cup {r}
            BY <1>t, <2>1, <2>2 DEF Started, Over, Outstanding, Alive, DrainTypeOK
        <3>2. CountExact'
            BY <2>1, <2>2, <3>1, CountRises
        <3>3. DrainTypeOK' /\ TaskAfterRequest'
            BY <1>t, <2>1, <2>2 DEF BeginTask, Started, Over, DrainTypeOK, TaskAfterRequest
        <3> QED  BY <3>2, <3>3 DEF DrainInv
    <2>3. CASE UNCHANGED <<activeTasks, job, record>>
        <3>1. Outstanding' = Outstanding
            BY <1>t, <2>1, <2>3 DEF Over, Outstanding, Alive, DrainTypeOK
        <3>2. CountExact'
            BY <2>1, <2>3, <3>1, CountKept
        <3>3. DrainTypeOK' /\ TaskAfterRequest'
            BY <1>t, <2>1, <2>3 DEF Over, DrainTypeOK, TaskAfterRequest
        <3> QED  BY <3>2, <3>3 DEF DrainInv
    <2> QED  BY <2>1, <2>2, <2>3
<1>6. ASSUME NEW r \in Posts, DropRecord(r) PROVE DrainInv'
    <2>1. CountExact'
        BY <1>6, CountKept DEF DropRecord, Outstanding, Alive
    <2>2. DrainTypeOK' /\ TaskAfterRequest'
        BY <1>6, <1>t DEF DropRecord, DrainTypeOK, TaskAfterRequest
    <2> QED  BY <2>1, <2>2 DEF DrainInv
<1>7. ASSUME NEW r \in Posts, JobEnds(r) PROVE DrainInv'
    <2>1. Outstanding' = Outstanding
        BY <1>7, <1>t DEF JobEnds, Outstanding, Alive, DrainTypeOK
    <2>2. CountExact'
        BY <1>7, <2>1, CountKept DEF JobEnds
    <2>3. DrainTypeOK' /\ TaskAfterRequest'
        BY <1>7, <1>t DEF JobEnds, Alive, DrainTypeOK, TaskAfterRequest
    <2> QED  BY <2>2, <2>3 DEF DrainInv
<1>8. ASSUME NEW r \in Posts, JobCallback(r) PROVE DrainInv'
    <2>1. request[r] = "over"
        BY <1>8, <1>t DEF JobCallback, TaskAfterRequest
    <2>2. r \in Outstanding /\ Outstanding' = Outstanding \ {r}
        BY <1>8, <1>t, <2>1 DEF JobCallback, Outstanding, Alive, DrainTypeOK
    <2>3. CountExact' /\ activeTasks' \in Nat
        BY <1>8, <2>2, CountFalls DEF JobCallback
    <2>4. DrainTypeOK' /\ TaskAfterRequest'
        BY <1>8, <1>t, <2>1, <2>3 DEF JobCallback, DrainTypeOK, TaskAfterRequest
    <2> QED  BY <2>3, <2>4 DEF DrainInv
<1>9. CASE BeginDrain
    <2>1. Outstanding' = Outstanding /\ CountExact'
        BY <1>9, <1>t DEF BeginDrain, Outstanding, Alive, DrainInv, CountExact
    <2> QED  BY <1>9, <1>t, <2>1 DEF BeginDrain, DrainInv, DrainTypeOK, TaskAfterRequest
<1>10. CASE DrainOver
    <2>1. Outstanding' = Outstanding
        BY <1>10, <1>t DEF DrainOver, Outstanding, Alive, DrainTypeOK
    <2>2. activeTasks = 0 => Outstanding = {}
        <3>1. Cardinality(Outstanding) \in Nat /\ leaked \in Nat
            BY FS_CardinalityType DEF DrainInv, CountExact, DrainTypeOK
        <3>2. activeTasks = 0 => Cardinality(Outstanding) = 0
            BY <3>1 DEF DrainInv, CountExact
        <3> QED  BY <3>2, FS_EmptySet DEF DrainInv, CountExact
    <2>3. CountExact'
        BY <1>10, <2>1, <2>2 DEF DrainOver, DrainInv, CountExact
    <2>4. DrainTypeOK' /\ TaskAfterRequest'
        BY <1>10, <1>t DEF DrainOver, Alive, DrainTypeOK, TaskAfterRequest
    <2> QED  BY <2>3, <2>4 DEF DrainInv
<1>11. CASE Stop
    <2>1. Outstanding' = Outstanding /\ CountExact'
        BY <1>11, <1>t DEF Stop, Outstanding, Alive, DrainInv, CountExact
    <2> QED  BY <1>11, <1>t, <2>1 DEF Stop, DrainInv, DrainTypeOK, TaskAfterRequest
<1> QED
    BY <1>1, <1>2, <1>3, <1>4, <1>5, <1>6, <1>7, <1>8, <1>9, <1>10, <1>11 DEF DrainNext

LEMMA DrainStutter == DrainInv /\ UNCHANGED drainVars => DrainInv'
<1> SUFFICES ASSUME DrainInv, UNCHANGED drainVars PROVE DrainInv'
    OBVIOUS
<1>1. CountExact'
    BY CountKept DEF drainVars, Outstanding, Alive
<1> QED  BY <1>1 DEF drainVars, DrainInv, DrainTypeOK, TaskAfterRequest

\* DrainInv is inductive.
THEOREM DrainInvariant == DrainSpec => []DrainInv
<1> QED  BY DrainStarts, DrainStep, DrainStutter, PTL DEF DrainSpec

\* The variables of RuntimeDrain keep their types: the count never goes below zero.
THEOREM DrainTyped == DrainSpec => []DrainTypeOK
<1>1. DrainInv => DrainTypeOK
    BY DEF DrainInv
<1> QED  BY <1>1, DrainInvariant, PTL

\* runtime_control counts the requests and tasks that are outstanding plus the creations it
\* lost, and a drain that finds the worker idle leaves nothing running.
THEOREM CountAlwaysExplained == DrainSpec => []CountExplained
<1>1. DrainInv => CountExplained
    BY DEF DrainInv, CountExact, CountExplained
<1> QED  BY <1>1, DrainInvariant, PTL

-----------------------------------------------------------------------------
(* ProviderCircuit: the half-open place *)

Windows == {w \in Seq(BOOLEAN) : Len(w) <= WindowSize}
FailureIndexes(w) == {i \in DOMAIN w : ~w[i]}

\* Inductive: whatever is reported to an open circuit, its window still trips it.
OpenWindowTrips == opened # "closed" => Trips(outcomes)

CircuitInv == CircuitTypeOK /\ OpenWindowTrips /\ HalfOpenHasProbe

\* The failures of a window are finitely many, at most its length.
LEMMA FailuresCounted ==
    ASSUME NEW w \in Seq(BOOLEAN)
    PROVE  /\ IsFiniteSet(FailureIndexes(w)) /\ Failures(w) = Cardinality(FailureIndexes(w))
           /\ Failures(w) \in Nat /\ Failures(w) <= Len(w)
<1>1. Len(w) \in Nat /\ DOMAIN w = 1 .. Len(w)
    OBVIOUS
<1>2. IsFiniteSet(1 .. Len(w)) /\ Cardinality(1 .. Len(w)) = Len(w)
    BY <1>1, FS_Interval
<1>3. FailureIndexes(w) \in SUBSET (1 .. Len(w))
    BY <1>1 DEF FailureIndexes
<1>4. IsFiniteSet(FailureIndexes(w)) /\ Cardinality(FailureIndexes(w)) <= Len(w)
    BY <1>2, <1>3, FS_Subset
<1>5. Failures(w) = Cardinality(FailureIndexes(w))
    BY DEF Failures, FailureIndexes
<1> QED  BY <1>4, <1>5, FS_CardinalityType

\* A failure appended is one more.
LEMMA FailureAppended ==
    ASSUME NEW w \in Seq(BOOLEAN)
    PROVE  Failures(Append(w, FALSE)) = Failures(w) + 1
<1> DEFINE v == Append(w, FALSE)
           n == Len(w) + 1
<1>1. Len(w) \in Nat /\ DOMAIN w = 1 .. Len(w) /\ v \in Seq(BOOLEAN) /\ DOMAIN v = 1 .. n
    OBVIOUS
<1>2. v[n] = FALSE /\ \A i \in 1 .. Len(w) : v[i] = w[i]
    OBVIOUS
<1>3. n \in DOMAIN v /\ n \notin DOMAIN w /\ DOMAIN v = DOMAIN w \cup {n}
    BY <1>1
<1>4. FailureIndexes(v) = FailureIndexes(w) \cup {n} /\ n \notin FailureIndexes(w)
    <2> HIDE DEF v, n
    <2> QED  BY <1>1, <1>2, <1>3 DEF FailureIndexes
<1>5. Cardinality(FailureIndexes(v)) = Cardinality(FailureIndexes(w)) + 1
    BY <1>4, FailuresCounted, FS_AddElement
<1> QED  BY <1>1, <1>5, FailuresCounted

\* A failure that pushes the oldest outcome out leaves no fewer.
LEMMA FailureSlides ==
    ASSUME NEW w \in Seq(BOOLEAN), w # <<>>
    PROVE  /\ Append(Tail(w), FALSE) \in Seq(BOOLEAN) /\ Len(Append(Tail(w), FALSE)) = Len(w)
           /\ Failures(Append(Tail(w), FALSE)) >= Failures(w)
<1> DEFINE v == Append(Tail(w), FALSE)
           n == Len(w)
           S == FailureIndexes(w)
           T == FailureIndexes(v)
           f == [i \in S |-> IF i = 1 THEN n ELSE i - 1]
<1>1. n \in Nat \ {0} /\ DOMAIN w = 1 .. n /\ v \in Seq(BOOLEAN) /\ Len(v) = n /\ DOMAIN v = 1 .. n
    OBVIOUS
<1>2. v[n] = FALSE /\ \A i \in 2 .. n : v[i - 1] = w[i]
    OBVIOUS
<1>3. S \subseteq 1 .. n /\ n \in T
    BY <1>1, <1>2 DEF FailureIndexes
<1>4. ASSUME NEW i \in S, i # 1 PROVE i - 1 \in T
    <2> HIDE DEF v, n
    <2>0. i \in 1 .. n /\ ~w[i]
        BY <1>1, <1>4 DEF FailureIndexes
    <2>1. i \in 2 .. n /\ i - 1 \in 1 .. n /\ v[i - 1] = w[i] /\ ~w[i]
        BY <1>1, <1>2, <1>4, <2>0
    <2> QED  BY <1>1, <2>1 DEF FailureIndexes
<1>5. f \in [S -> T]
    <2> HIDE DEF S, T, v, n
    <2> QED  BY <1>3, <1>4
<1>6. \A i, j \in S : f[i] = f[j] => i = j
    <2> HIDE DEF S, T, v
    <2> QED  BY <1>1, <1>3
<1>7. f \in Injection(S, T)
    BY <1>5, <1>6 DEF Injection, IsInjective
<1>8. Cardinality(S) <= Cardinality(T)
    BY <1>1, <1>7, FailuresCounted, FS_Injection
<1> QED  BY <1>1, <1>8, FailuresCounted

LEMMA PushTyped ==
    ASSUME NEW w \in Windows, NEW ok \in BOOLEAN
    PROVE  Push(w, ok) \in Windows
<1>1. WindowSize \in Nat /\ WindowSize > 1
    BY CircuitConstants
<1>2. CASE Len(w) < WindowSize
    <2>1. Append(w, ok) \in Seq(BOOLEAN) /\ Len(Append(w, ok)) = Len(w) + 1
        BY DEF Windows
    <2> QED  BY <1>1, <1>2, <2>1 DEF Push, Windows
<1>3. CASE ~(Len(w) < WindowSize)
    <2>1. w \in Seq(BOOLEAN) /\ w # <<>> /\ Len(w) = WindowSize
        BY <1>1, <1>3 DEF Windows
    <2>2. Append(Tail(w), ok) \in Seq(BOOLEAN) /\ Len(Append(Tail(w), ok)) = Len(w)
        BY <2>1
    <2> QED  BY <1>1, <1>3, <2>1, <2>2 DEF Push, Windows
<1> QED  BY <1>2, <1>3

\* The window after a failure has one more of them, or as many or more in the same length.
LEMMA FailurePushed ==
    ASSUME NEW w \in Windows
    PROVE  \/ /\ Len(w) < WindowSize /\ Len(Push(w, FALSE)) = Len(w) + 1
              /\ Failures(Push(w, FALSE)) = Failures(w) + 1
           \/ /\ Len(Push(w, FALSE)) = Len(w)
              /\ Failures(Push(w, FALSE)) >= Failures(w)
<1>1. WindowSize \in Nat /\ WindowSize > 1 /\ w \in Seq(BOOLEAN)
    BY CircuitConstants DEF Windows
<1>2. CASE Len(w) < WindowSize
    <2>1. Push(w, FALSE) = Append(w, FALSE)
        BY <1>2 DEF Push
    <2>2. Len(Append(w, FALSE)) = Len(w) + 1
        BY <1>1
    <2> QED  BY <1>1, <1>2, <2>1, <2>2, FailureAppended
<1>3. CASE ~(Len(w) < WindowSize)
    <2>1. Push(w, FALSE) = Append(Tail(w), FALSE)
        BY <1>3 DEF Push
    <2>2. w # <<>>
        BY <1>1, <1>3
    <2> QED  BY <1>1, <2>1, <2>2, FailureSlides
<1> QED  BY <1>2, <1>3

\* A window that trips still trips after another failure, however far it has moved.
LEMMA FailureKeepsTripping ==
    ASSUME NEW w \in Windows, Trips(w)
    PROVE  Trips(Push(w, FALSE))
<1> DEFINE v == Push(w, FALSE)
<1>1. /\ WindowSize \in Nat /\ Threshold \in Nat
      /\ RateNum \in Nat /\ RateDen \in Nat /\ RateNum <= RateDen
    BY CircuitConstants
<1>2. v \in Windows
    BY PushTyped
<1>4. \/ Len(w) < WindowSize /\ Len(v) = Len(w) + 1 /\ Failures(v) = Failures(w) + 1
      \/ Len(v) = Len(w) /\ Failures(v) >= Failures(w)
    BY FailurePushed
<1> SUFFICES Trips(v)
    OBVIOUS
<1> HIDE DEF v
<1>3. Len(w) \in Nat /\ Len(v) \in Nat /\ Failures(w) \in Nat /\ Failures(v) \in Nat
    <2>1. v \in Seq(BOOLEAN) /\ w \in Seq(BOOLEAN)
        BY <1>2 DEF Windows
    <2> QED  BY <2>1, FailuresCounted
<1>5. CASE Failures(w) >= Threshold
    BY <1>1, <1>3, <1>4, <1>5 DEF Trips
<1>6. CASE EnoughSamples(w) /\ Failures(w) * RateDen >= RateNum * Len(w)
    <2>1. EnoughSamples(v)
        BY <1>1, <1>3, <1>4, <1>6 DEF EnoughSamples
    <2>2. PICK k \in Nat : Failures(v) = Failures(w) + k /\ (Len(v) # Len(w) => k = 1)
        <3>1. Failures(v) - Failures(w) \in Nat
            BY <1>3, <1>4
        <3>2. Failures(v) = Failures(w) + (Failures(v) - Failures(w))
            BY <1>3
        <3>3. Len(v) # Len(w) => Failures(v) - Failures(w) = 1
            BY <1>3, <1>4
        <3> QED  BY <3>1, <3>2, <3>3
    <2>3. (Failures(w) + k) * RateDen = Failures(w) * RateDen + k * RateDen
        BY <1>1, <1>3, <2>2
    <2>4. RateNum * (Len(w) + 1) = RateNum * Len(w) + RateNum
        BY <1>1, <1>3
    <2>5. /\ k * RateDen \in Nat /\ Failures(w) * RateDen \in Nat /\ RateNum * Len(w) \in Nat
          /\ 1 * RateDen = RateDen
        BY <1>1, <1>3, <2>2
    <2>6. CASE Len(v) = Len(w)
        BY <1>6, <2>1, <2>2, <2>3, <2>5, <2>6 DEF Trips
    <2>7. CASE Len(v) = Len(w) + 1
        <3>1. k = 1
            BY <1>3, <2>2, <2>7
        <3>2. Failures(v) * RateDen >= RateNum * Len(v)
            BY <1>1, <1>6, <2>2, <2>3, <2>4, <2>5, <2>7, <3>1
        <3> QED  BY <2>1, <3>2 DEF Trips
    <2> QED  BY <1>3, <1>4, <2>6, <2>7
<1>7. \/ Failures(w) >= Threshold
      \/ EnoughSamples(w) /\ Failures(w) * RateDen >= RateNum * Len(w)
    BY DEF Trips
<1> QED  BY <1>5, <1>6, <1>7

-----------------------------------------------------------------------------
\* A call that is recorded is over; an open circuit that is told of a failure trips again.
LEMMA FailureRecorded ==
    ASSUME CircuitInv, RecordFailure
    PROVE  /\ opened' \in {"closed", "cooling", "due"} /\ half' = FALSE
           /\ outcomes' \in Windows /\ OpenWindowTrips'
           /\ half => opened' = "cooling"
<1>1. opened \in {"closed", "cooling", "due"} /\ outcomes \in Windows
    BY DEF CircuitInv, CircuitTypeOK, Windows
<1>2. outcomes' \in Windows
    BY <1>1, PushTyped DEF RecordFailure
<1>3. opened # "closed" => Trips(outcomes')
    BY <1>1, FailureKeepsTripping DEF CircuitInv, OpenWindowTrips, RecordFailure
<1>4. half => opened = "due"
    BY DEF CircuitInv, HalfOpenHasProbe
<1>5. opened' = IF Trips(outcomes') THEN "cooling" ELSE opened
    BY DEF RecordFailure
<1>6. OpenWindowTrips'
    BY <1>3, <1>5 DEF OpenWindowTrips
<1>7. half => opened' = "cooling"
    BY <1>3, <1>4, <1>5
<1> QED  BY <1>1, <1>2, <1>5, <1>6, <1>7 DEF RecordFailure

LEMMA SuccessRecorded ==
    ASSUME CircuitInv, RecordSuccess
    PROVE  /\ opened' = "closed" /\ half' = FALSE /\ outcomes' \in Windows
<1>1. outcomes \in Windows
    BY DEF CircuitInv, CircuitTypeOK, Windows
<1>2. <<>> \in Windows
    BY CircuitConstants DEF Windows
<1> QED  BY <1>1, <1>2, PushTyped DEF RecordSuccess

CallRecords == [pc : {"idle", "slot", "operation", "backoff"},
                tries : 0 .. Attempts - 1, probe : BOOLEAN]

LEMMA CallMoves ==
    ASSUME CircuitInv, NEW c \in Callers
    PROVE  /\ Leaves(c) => call' \in [Callers -> CallRecords]
           /\ \A place \in {"slot", "operation", "backoff"} : CallGoes(c, place) =>
                  /\ call' \in [Callers -> CallRecords]
                  /\ \A d \in Callers : call'[d].probe = call[d].probe
<1>1. call \in [Callers -> CallRecords]
    BY DEF CircuitInv, CircuitTypeOK, CallRecords
<1>2. NoCall \in CallRecords
    BY CircuitConstants DEF NoCall, CallRecords
<1>3. Leaves(c) => call' \in [Callers -> CallRecords]
    BY <1>1, <1>2 DEF Leaves
<1>4. ASSUME NEW place \in {"slot", "operation", "backoff"}, CallGoes(c, place)
      PROVE  call' \in [Callers -> CallRecords] /\ \A d \in Callers : call'[d].probe = call[d].probe
    BY <1>1, <1>4 DEF CallGoes, CallRecords
<1> QED  BY <1>3, <1>4

LEMMA CircuitStarts == CircuitInit => CircuitInv
<1> SUFFICES ASSUME CircuitInit PROVE CircuitInv
    OBVIOUS
<1>1. NoCall \in CallRecords
    BY CircuitConstants DEF NoCall, CallRecords
<1>2. <<>> \in Seq(BOOLEAN) /\ Len(<<>>) <= WindowSize
    BY CircuitConstants
<1>3. call \in [Callers -> CallRecords]
    BY <1>1 DEF CircuitInit
<1>4. CircuitTypeOK
    BY <1>2, <1>3 DEF CircuitInit, CircuitTypeOK, CallRecords
<1> QED  BY <1>4 DEF CircuitInit, CircuitInv, OpenWindowTrips, HalfOpenHasProbe

LEMMA CircuitStep == CircuitInv /\ CircuitNext => CircuitInv'
<1> SUFFICES ASSUME CircuitInv, CircuitNext PROVE CircuitInv'
    OBVIOUS
<1>t. /\ opened \in {"closed", "cooling", "due"} /\ half \in BOOLEAN /\ probeLost \in BOOLEAN
      /\ outcomes \in Windows /\ call \in [Callers -> CallRecords]
    BY DEF CircuitInv, CircuitTypeOK, Windows, CallRecords
<1>h. OpenWindowTrips /\ HalfOpenHasProbe
    BY DEF CircuitInv
<1>typed. ASSUME opened' \in {"closed", "cooling", "due"}, half' \in BOOLEAN, probeLost' \in BOOLEAN,
                 outcomes' \in Windows, call' \in [Callers -> CallRecords]
          PROVE  CircuitTypeOK'
    BY <1>typed DEF CircuitTypeOK, Windows, CallRecords
<1>1. ASSUME NEW c \in Callers, BeforeCall(c) PROVE CircuitInv'
    <2>0. UNCHANGED <<opened, outcomes>>
        BY <1>1 DEF BeforeCall
    <2>1. CASE /\ opened = "closed"
               /\ call' = [call EXCEPT ![c].pc = "slot"]
               /\ UNCHANGED <<half, probeLost>>
        <3>1. call' \in [Callers -> CallRecords]
            BY <2>1, CallMoves DEF CallGoes
        <3>2. ~half'
            BY <1>h, <2>1 DEF HalfOpenHasProbe
        <3>3. CircuitTypeOK'
            BY <1>t, <1>typed, <2>0, <2>1, <3>1
        <3> QED  BY <1>h, <2>0, <3>2, <3>3 DEF CircuitInv, OpenWindowTrips, HalfOpenHasProbe
    <2>2. CASE /\ opened = "due" /\ ~half
               /\ half' = TRUE /\ probeLost' = FALSE
               /\ call' = [call EXCEPT ![c].pc = "slot", ![c].probe = TRUE]
        <3>1. call' \in [Callers -> CallRecords] /\ call'[c].probe
            BY <1>t, <2>2 DEF CallRecords
        <3>2. CircuitTypeOK'
            BY <1>t, <1>typed, <2>0, <2>2, <3>1
        <3> QED  BY <1>h, <2>0, <2>2, <3>1, <3>2 DEF CircuitInv, OpenWindowTrips, HalfOpenHasProbe
    <2> QED  BY <1>1, <2>1, <2>2 DEF BeforeCall
<1>2. ASSUME NEW c \in Callers, NEW place \in {"slot", "operation", "backoff"}, CallGoes(c, place),
             UNCHANGED <<opened, half, outcomes, probeLost>>
      PROVE  CircuitInv'
    <2>1. call' \in [Callers -> CallRecords] /\ \A d \in Callers : call'[d].probe = call[d].probe
        BY <1>2, CallMoves
    <2>2. CircuitTypeOK'
        BY <1>t, <1>typed, <1>2, <2>1
    <2> QED  BY <1>h, <1>2, <2>1, <2>2 DEF CircuitInv, OpenWindowTrips, HalfOpenHasProbe
<1>3. ASSUME NEW c \in Callers, OperationSucceeds(c) PROVE CircuitInv'
    <2>1. opened' = "closed" /\ half' = FALSE /\ outcomes' \in Windows
        BY <1>3, SuccessRecorded DEF OperationSucceeds
    <2>2. CircuitTypeOK'
        BY <1>t, <1>typed, <1>3, <2>1, CallMoves DEF OperationSucceeds
    <2> QED  BY <2>1, <2>2 DEF CircuitInv, OpenWindowTrips, HalfOpenHasProbe
<1>4. ASSUME NEW c \in Callers, OperationFails(c) PROVE CircuitInv'
    <2>0. UNCHANGED probeLost
        BY <1>4 DEF OperationFails
    <2>1. CASE /\ call[c].tries + 1 < Attempts
               /\ call' = [call EXCEPT ![c].pc = "backoff", ![c].tries = @ + 1]
               /\ UNCHANGED <<opened, half, outcomes>>
        <3>1. call[c].tries + 1 \in 0 .. Attempts - 1
            BY <1>t, <2>1, CircuitConstants DEF CallRecords
        <3>2. /\ call' \in [Callers -> CallRecords]
              /\ \A d \in Callers : call'[d].probe = call[d].probe
            BY <1>t, <2>1, <3>1 DEF CallRecords
        <3>3. CircuitTypeOK'
            BY <1>t, <1>typed, <2>0, <2>1, <3>2
        <3> QED  BY <1>h, <2>0, <2>1, <3>2, <3>3 DEF CircuitInv, OpenWindowTrips, HalfOpenHasProbe
    <2>2. CASE RecordFailure /\ Leaves(c)
        <3>1. /\ opened' \in {"closed", "cooling", "due"} /\ half' = FALSE
              /\ outcomes' \in Windows /\ OpenWindowTrips'
            BY <2>2, FailureRecorded
        <3>2. CircuitTypeOK'
            BY <1>t, <1>typed, <2>0, <2>2, <3>1, CallMoves
        <3> QED  BY <3>1, <3>2 DEF CircuitInv, HalfOpenHasProbe
    <2> QED  BY <1>4, <2>1, <2>2 DEF OperationFails
<1>5. ASSUME NEW c \in Callers, CallCancelled(c) PROVE CircuitInv'
    <2>1. call' = [call EXCEPT ![c] = NoCall] /\ probeLost' = (probeLost \/ call[c].probe)
        BY <1>5 DEF CallCancelled, Leaves
    <2>2. call' \in [Callers -> CallRecords]
        BY <1>5, CallMoves DEF CallCancelled
    <2>3. probeLost' \in BOOLEAN
        BY <2>1
    <2>4. CircuitTypeOK'
        BY <1>t, <1>typed, <1>5, <2>2, <2>3 DEF CallCancelled
    <2>5. \A d \in Callers : call[d].probe => probeLost' \/ call'[d].probe
        BY <1>t, <2>1
    <2>6. HalfOpenHasProbe'
        BY <1>h, <1>5, <2>1, <2>5 DEF CallCancelled, HalfOpenHasProbe
    <2> QED  BY <1>h, <1>5, <2>4, <2>6 DEF CallCancelled, CircuitInv, OpenWindowTrips
<1>6. CASE ResetTimePasses
    <2>1. CircuitTypeOK'
        BY <1>6, <1>t, <1>typed DEF ResetTimePasses
    <2> QED  BY <1>6, <1>h, <2>1 DEF ResetTimePasses, CircuitInv, OpenWindowTrips, HalfOpenHasProbe
<1> QED
    BY <1>1, <1>2, <1>3, <1>4, <1>5, <1>6 DEF CircuitNext, CallSteps, TakeSlot, Retry

LEMMA CircuitStutter == CircuitInv /\ UNCHANGED circuitVars => CircuitInv'
<1> QED
    BY DEF circuitVars, CircuitInv, CircuitTypeOK, OpenWindowTrips, HalfOpenHasProbe

\* CircuitInv is inductive.
THEOREM CircuitInvariant == CircuitSpec => []CircuitInv
<1> QED  BY CircuitStarts, CircuitStep, CircuitStutter, PTL DEF CircuitSpec

\* The variables of ProviderCircuit keep their types: the window never outgrows its size, and no
\* call is tried more often than provider_retry_attempts allows.
THEOREM CircuitTyped == CircuitSpec => []CircuitTypeOK
<1>1. CircuitInv => CircuitTypeOK
    BY DEF CircuitInv
<1> QED  BY <1>1, CircuitInvariant, PTL

\* half_open_in_flight is set only in a quarantine that is over, while a probe will give it back
\* or once the last probe was cancelled.
THEOREM HalfOpenAlwaysHasProbe == CircuitSpec => []HalfOpenHasProbe
<1>1. CircuitInv => HalfOpenHasProbe
    BY DEF CircuitInv
<1> QED  BY <1>1, CircuitInvariant, PTL

\* The half-open place is given back by a success, which closes the circuit, or by a failure,
\* which trips it again.
THEOREM FailedProbesQuarantine == CircuitSpec => FailedProbeQuarantines
<1>1. ASSUME CircuitInv, [CircuitNext]_circuitVars
      PROVE  [half /\ ~half' => opened' \in {"closed", "cooling"}]_circuitVars
    <2> SUFFICES ASSUME CircuitNext, half, ~half' PROVE opened' \in {"closed", "cooling"}
        BY <1>1
    <2>1. (\E c \in Callers : OperationSucceeds(c)) \/ RecordFailure
        BY DEF CircuitNext, CallSteps, BeforeCall, TakeSlot, OperationFails, Retry, CallCancelled,
               ResetTimePasses
    <2> QED  BY <1>1, <2>1, FailureRecorded DEF OperationSucceeds, RecordSuccess
<1> QED  BY <1>1, CircuitInvariant, PTL DEF CircuitSpec, FailedProbeQuarantines

\* Quarantines are decided by probes, for any callers, window and thresholds.
THEOREM ProbesAlwaysDecide == CircuitSpec => ProbesDecide
<1> QED  BY HalfOpenAlwaysHasProbe, FailedProbesQuarantine, PTL DEF ProbesDecide

-----------------------------------------------------------------------------
(* TaskLocks: who blocks on a flock of its own worker *)

Places == {"queued", "running", "flock", "emitting", "awaiting", "over"}

\* The lock that v was given on arrival is no longer the one in the table.
Dropped(v) == visits[v].lock # taskLocks[visits[v].worker][visits[v].thread]

DeleteFailed(v) == <<visits[v].worker, visits[v].thread>> \in failedDeletes

\* A visit has a lock: 0 stands for a table without one.
HasLock == \A v \in DOMAIN visits : visits[v].lock # 0

\* One visit at a time is inside a lock, a dropped one included.
OneInside == \A u, v \in DOMAIN visits :
    Inside(u) /\ Inside(v) /\ visits[u].lock = visits[v].lock => u = v

\* A lock is dropped by a deletion, and that one removed the thread or left it in place.
DropExplained == \A v \in DOMAIN visits :
    Dropped(v) => taskFolder[visits[v].thread] = "gone" \/ DeleteFailed(v)

\* Inductive: a visit that waited for a dropped lock reaches the flock only where the deletion
\* left the thread in place.  A visit that is there already cannot lose its lock, as the deletion
\* would have to be inside it.
DroppedReachFlock == \A v \in DOMAIN visits :
    Dropped(v) /\ At(v, {"flock", "emitting"}) => DeleteFailed(v)

LocksInv ==
    LocksTypeOK /\ HasLock /\ OneInside /\ DropExplained /\ DroppedReachFlock

LEMMA VisitKnown ==
    ASSUME LocksTypeOK, NEW v \in DOMAIN visits
    PROVE  /\ visits[v] \in VisitRecords
           /\ visits[v].worker \in ApiWorkers /\ visits[v].thread \in TaskIds
<1>1. visits[v] \in VisitRecords
    BY DEF LocksTypeOK
<1> QED  BY <1>1 DEF VisitRecords

LEMMA VisitMoved ==
    ASSUME LocksTypeOK, NEW v \in DOMAIN visits, NEW place \in Places, Move(v, place)
    PROVE  /\ visits' \in Seq(VisitRecords) /\ Len(visits') = Len(visits)
           /\ DOMAIN visits' = DOMAIN visits
           /\ visits'[v].at = place
           /\ \A u \in DOMAIN visits : u # v => visits'[u].at = visits[u].at
           /\ \A u \in DOMAIN visits :
                  /\ visits'[u].op = visits[u].op /\ visits'[u].worker = visits[u].worker
                  /\ visits'[u].thread = visits[u].thread /\ visits'[u].lock = visits[u].lock
<1>1. visits \in Seq(VisitRecords) /\ visits' = [visits EXCEPT ![v].at = place]
    BY DEF LocksTypeOK, Move
<1>2. \A u \in DOMAIN visits : visits[u] \in VisitRecords
    BY <1>1
<1>3. \A u \in DOMAIN visits : [visits[u] EXCEPT !.at = place] \in VisitRecords
    BY <1>2 DEF VisitRecords, Places
<1>4. DOMAIN visits' = DOMAIN visits /\ DOMAIN visits = 1 .. Len(visits) /\ Len(visits) \in Nat
    BY <1>1
<1>5. \A u \in DOMAIN visits : visits'[u] = IF u = v THEN [visits[u] EXCEPT !.at = place]
                                                   ELSE visits[u]
    BY <1>1
<1>6. visits' \in [1 .. Len(visits) -> VisitRecords]
    BY <1>1, <1>2, <1>3, <1>4, <1>5
<1>7. visits' \in Seq(VisitRecords) /\ Len(visits') = Len(visits)
    BY <1>4, <1>6
<1>8. /\ [visits[v] EXCEPT !.at = place].at = place
      /\ [visits[v] EXCEPT !.at = place].op = visits[v].op
      /\ [visits[v] EXCEPT !.at = place].worker = visits[v].worker
      /\ [visits[v] EXCEPT !.at = place].thread = visits[v].thread
      /\ [visits[v] EXCEPT !.at = place].lock = visits[v].lock
    BY <1>2 DEF VisitRecords
<1> QED  BY <1>4, <1>5, <1>7, <1>8

\* A visit that is inside moves on, or one enters in its turn: still one at a time.
LEMMA InsideMoved ==
    ASSUME LocksInv, NEW v \in DOMAIN visits, NEW place \in Places, Move(v, place),
           Inside(v) \/ TurnOf(v, visits[v].lock)
    PROVE  HasLock' /\ OneInside'
<1>1. /\ LocksTypeOK /\ HasLock /\ OneInside
    BY DEF LocksInv
<1>2. /\ Len(visits') = Len(visits) /\ DOMAIN visits' = DOMAIN visits
      /\ \A u \in DOMAIN visits : u # v => visits'[u].at = visits[u].at
      /\ \A u \in DOMAIN visits : visits'[u].lock = visits[u].lock
    BY <1>1, VisitMoved
<1>3. HasLock'
    BY <1>1, <1>2 DEF HasLock
<1>4. ASSUME NEW u \in DOMAIN visits, u # v, Inside(u)'
      PROVE  visits[u].lock # visits[v].lock
    <2>1. Inside(u)
        BY <1>2, <1>4 DEF Inside, At
    <2> QED  BY <1>1, <1>4, <2>1 DEF OneInside, TurnOf
<1>5. ASSUME NEW u \in DOMAIN visits, NEW t \in DOMAIN visits, u # v, t # v,
             Inside(u)', Inside(t)', visits[u].lock = visits[t].lock
      PROVE  u = t
    <2>1. Inside(u) /\ Inside(t)
        BY <1>2, <1>5 DEF Inside, At
    <2> QED  BY <1>1, <1>5, <2>1 DEF OneInside
<1>6. OneInside'
    BY <1>2, <1>4, <1>5 DEF OneInside
<1> QED  BY <1>3, <1>6

\* A step that leaves the table of locks and the deletions alone, and sends no visit with a
\* dropped lock to the flock but where a deletion failed.
LEMMA LocksKept ==
    ASSUME LocksInv, NEW v \in DOMAIN visits, NEW place \in Places, Move(v, place),
           Inside(v) \/ TurnOf(v, visits[v].lock), UNCHANGED <<taskLocks, failedDeletes>>,
           taskFolder' \in [TaskIds -> {"kept", "fenced", "gone"}],
           \A x \in TaskIds : taskFolder[x] = "gone" => taskFolder'[x] = "gone",
           place \in {"flock", "emitting"} /\ Dropped(v) => DeleteFailed(v)
    PROVE  LocksInv'
<1>1. LocksTypeOK /\ DropExplained /\ DroppedReachFlock
    BY DEF LocksInv
<1>2. /\ visits' \in Seq(VisitRecords) /\ Len(visits') = Len(visits)
      /\ DOMAIN visits' = DOMAIN visits /\ visits'[v].at = place
      /\ \A u \in DOMAIN visits : u # v => visits'[u].at = visits[u].at
      /\ \A u \in DOMAIN visits :
             /\ visits'[u].worker = visits[u].worker
             /\ visits'[u].thread = visits[u].thread /\ visits'[u].lock = visits[u].lock
    BY <1>1, VisitMoved
<1>3. \A u \in DOMAIN visits : visits[u].thread \in TaskIds
    BY <1>1, VisitKnown
<1>4. LocksTypeOK'
    BY <1>1, <1>2 DEF LocksTypeOK
<1>5. \A u \in DOMAIN visits : (Dropped(u)' <=> Dropped(u)) /\ (DeleteFailed(u)' <=> DeleteFailed(u))
    BY <1>2 DEF Dropped, DeleteFailed
<1>6. DropExplained'
    BY <1>1, <1>2, <1>3, <1>5 DEF DropExplained
<1>7. DroppedReachFlock'
    BY <1>1, <1>2, <1>5 DEF DroppedReachFlock, At
<1> QED  BY <1>4, <1>6, <1>7, InsideMoved DEF LocksInv

\* A deletion gives its lock up: whoever waits for that lock is outside, and the thread is gone
\* or left in place.
LEMMA LockDropped ==
    ASSUME LocksInv, NEW d \in DOMAIN visits, Inside(d), Move(d, "over"), DropLock(d),
           taskFolder' \in [TaskIds -> {"kept", "fenced", "gone"}],
           \A x \in TaskIds : taskFolder[x] = "gone" => taskFolder'[x] = "gone",
           failedDeletes \subseteq failedDeletes', failedDeletes' \subseteq ApiWorkers \X TaskIds,
           taskFolder'[visits[d].thread] = "gone" \/ DeleteFailed(d)'
    PROVE  LocksInv'
<1> DEFINE w == visits[d].worker
           x == visits[d].thread
<1>1. LocksTypeOK /\ HasLock /\ OneInside /\ DropExplained /\ DroppedReachFlock
    BY DEF LocksInv
<1>2. /\ visits' \in Seq(VisitRecords) /\ Len(visits') = Len(visits)
      /\ DOMAIN visits' = DOMAIN visits /\ visits'[d].at = "over"
      /\ \A u \in DOMAIN visits : u # d => visits'[u].at = visits[u].at
      /\ \A u \in DOMAIN visits :
             /\ visits'[u].worker = visits[u].worker
             /\ visits'[u].thread = visits[u].thread /\ visits'[u].lock = visits[u].lock
    BY <1>1, VisitMoved DEF Places
<1>3. \A u \in DOMAIN visits : visits[u].thread \in TaskIds /\ visits[u].worker \in ApiWorkers
    BY <1>1, VisitKnown
<1>4. taskLocks' = [taskLocks EXCEPT ![w][x] = IF @ = visits[d].lock THEN 0 ELSE @]
    BY DEF DropLock
<1>5. taskLocks' \in [ApiWorkers -> [TaskIds -> Locks]]
    <2>1. taskLocks \in [ApiWorkers -> [TaskIds -> Locks]] /\ 0 \in Locks
        BY <1>1, TaskLocksOK DEF LocksTypeOK, Locks
    <2> QED  BY <1>3, <1>4, <2>1
<1>6. LocksTypeOK'
    BY <1>1, <1>2, <1>5 DEF LocksTypeOK
\* Only visits of this lock lose it.
<1>7. ASSUME NEW u \in DOMAIN visits, Dropped(u)'
      PROVE  \/ Dropped(u)
             \/ /\ visits[u].worker = w /\ visits[u].thread = x
                /\ visits[u].lock = visits[d].lock
    <2>1. CASE visits[u].worker = w /\ visits[u].thread = x
        <3>1. taskLocks'[w][x] = IF taskLocks[w][x] = visits[d].lock THEN 0 ELSE taskLocks[w][x]
            BY <1>1, <1>3, <1>4 DEF LocksTypeOK
        <3> QED  BY <1>2, <1>7, <2>1, <3>1 DEF Dropped
    <2>2. CASE ~(visits[u].worker = w /\ visits[u].thread = x)
        <3>1. taskLocks'[visits[u].worker][visits[u].thread]
                = taskLocks[visits[u].worker][visits[u].thread]
            BY <1>1, <1>3, <1>4, <2>2 DEF LocksTypeOK
        <3> QED  BY <1>2, <1>7, <3>1 DEF Dropped
    <2> QED  BY <2>1, <2>2
<1>8. \A u \in DOMAIN visits : DeleteFailed(u) => DeleteFailed(u)'
    BY <1>2 DEF DeleteFailed
<1>9. ASSUME NEW u \in DOMAIN visits, Dropped(u)'
      PROVE  taskFolder'[visits[u].thread] = "gone" \/ DeleteFailed(u)'
    <2>1. CASE Dropped(u)
        BY <1>1, <1>3, <1>8, <2>1 DEF DropExplained
    <2>2. CASE visits[u].worker = w /\ visits[u].thread = x
        BY <1>2, <2>2 DEF DeleteFailed
    <2> QED  BY <1>7, <1>9, <2>1, <2>2
<1>10. DropExplained'
    BY <1>2, <1>9 DEF DropExplained
<1>11. ASSUME NEW u \in DOMAIN visits, Dropped(u)', At(u, {"flock", "emitting"})'
       PROVE  DeleteFailed(u)'
    <2>1. u # d /\ At(u, {"flock", "emitting"})
        BY <1>2, <1>11 DEF At
    <2>2. Inside(u)
        BY <2>1 DEF Inside, At
    <2>3. visits[u].lock # visits[d].lock
        BY <1>1, <2>1, <2>2 DEF OneInside
    <2>4. Dropped(u)
        BY <1>7, <1>11, <2>3
    <2> QED  BY <1>1, <1>8, <2>1, <2>4 DEF DroppedReachFlock
<1>12. DroppedReachFlock'
    BY <1>2, <1>11 DEF DroppedReachFlock
<1> QED  BY <1>6, <1>10, <1>12, InsideMoved DEF LocksInv, Places

LEMMA LocksStart == LocksInit => LocksInv
<1> SUFFICES ASSUME LocksInit PROVE LocksInv
    OBVIOUS
<1>1. visits \in Seq(VisitRecords) /\ Len(visits) = 0 /\ DOMAIN visits = {}
    BY DEF LocksInit
<1>2. LocksTypeOK
    BY <1>1, TaskLocksOK DEF LocksInit, LocksTypeOK, Locks
<1> QED
    BY <1>1, <1>2 DEF LocksInv, HasLock, OneInside, DropExplained, DroppedReachFlock

LEMMA ArriveStep ==
    ASSUME LocksInv, NEW to \in Arrivals, NEW x \in TaskIds, Arrive(to[1], x, to[2])
    PROVE  LocksInv'
<1>0. PICK n : n = Len(visits) + 1
    OBVIOUS
<1> DEFINE w == to[1]
           l == IF taskLocks[w][x] = 0 THEN n ELSE taskLocks[w][x]
           new == [at |-> IF TurnOf(n, l) THEN "running" ELSE "queued",
                   op |-> to[2], worker |-> w, thread |-> x, lock |-> l]
<1>1. LocksTypeOK /\ HasLock /\ OneInside /\ DropExplained /\ DroppedReachFlock
    BY DEF LocksInv
<1>2. w \in ApiWorkers /\ to[2] \in Operations
    BY TaskLocksOK
<1>3. /\ n <= MaxVisits /\ taskLocks' = [taskLocks EXCEPT ![w][x] = l]
      /\ visits' = Append(visits, new) /\ UNCHANGED <<taskFolder, failedDeletes>>
    BY <1>0 DEF Arrive
<1>4. /\ visits \in Seq(VisitRecords) /\ Len(visits) \in Nat /\ DOMAIN visits = 1 .. Len(visits)
      /\ MaxVisits \in Nat /\ taskLocks \in [ApiWorkers -> [TaskIds -> 0 .. MaxVisits]]
    BY <1>1, TaskLocksOK DEF LocksTypeOK, Locks
<1>5. l \in 1 .. MaxVisits
    BY <1>0, <1>2, <1>3, <1>4
<1>6. new \in VisitRecords
    BY <1>2, <1>5 DEF VisitRecords, Locks
<1>7. /\ visits' \in Seq(VisitRecords) /\ Len(visits') = n /\ DOMAIN visits' = 1 .. n
      /\ visits'[n] = new /\ \A u \in DOMAIN visits : visits'[u] = visits[u]
    <2> HIDE DEF new
    <2> QED  BY <1>0, <1>3, <1>4, <1>6
<1>8. new.worker = w /\ new.thread = x /\ new.lock = l /\ new.at \in {"running", "queued"}
    OBVIOUS
<1>9. taskLocks' \in [ApiWorkers -> [TaskIds -> Locks]]
    BY <1>2, <1>3, <1>4, <1>5 DEF Locks
<1>10. LocksTypeOK'
    BY <1>1, <1>3, <1>7, <1>9 DEF LocksTypeOK
<1>11. taskLocks'[w][x] = l
    BY <1>2, <1>3, <1>4
<1>12. ~Dropped(n)'
    <2> HIDE DEF new, l
    <2> QED  BY <1>7, <1>8, <1>11 DEF Dropped
<1>13. ASSUME NEW u \in DOMAIN visits, Dropped(u)' PROVE Dropped(u)
    <2>1. visits[u] \in VisitRecords /\ visits[u].lock # 0
        BY <1>1, <1>4 DEF HasLock
    <2>2. visits[u].worker \in ApiWorkers /\ visits[u].thread \in TaskIds
        BY <2>1 DEF VisitRecords
    <2>3. CASE taskLocks[w][x] = 0 /\ visits[u].worker = w /\ visits[u].thread = x
        BY <2>1, <2>3 DEF Dropped
    <2>4. CASE ~(taskLocks[w][x] = 0 /\ visits[u].worker = w /\ visits[u].thread = x)
        <3>1. taskLocks'[visits[u].worker][visits[u].thread]
                = taskLocks[visits[u].worker][visits[u].thread]
            BY <1>2, <1>3, <1>4, <2>2, <2>4
        <3> QED  BY <1>7, <1>13, <3>1 DEF Dropped
    <2> QED  BY <2>3, <2>4
<1>14. \A u \in DOMAIN visits' : u = n \/ u \in DOMAIN visits
    BY <1>0, <1>4, <1>7
<1>15. ASSUME NEW u \in DOMAIN visits', Dropped(u)'
       PROVE  u \in DOMAIN visits /\ visits'[u] = visits[u] /\ Dropped(u)
    BY <1>7, <1>12, <1>13, <1>14, <1>15
<1>16. DropExplained' /\ DroppedReachFlock'
    BY <1>1, <1>3, <1>15 DEF DropExplained, DroppedReachFlock, DeleteFailed, At
<1>17. HasLock'
    <2> HIDE DEF new, l
    <2> QED  BY <1>1, <1>5, <1>7, <1>8, <1>14 DEF HasLock
<1>18. ASSUME NEW u \in DOMAIN visits, Inside(n)', Inside(u)', visits'[u].lock = l PROVE FALSE
    <2>1. new.at = "running" /\ Inside(u) /\ visits[u].lock = l
        <3> HIDE DEF new, l
        <3> QED  BY <1>7, <1>8, <1>18 DEF Inside, At
    <2>2. TurnOf(n, l)
        BY <2>1
    <2> QED  BY <2>1, <2>2 DEF TurnOf
<1>19. OneInside'
    <2> SUFFICES ASSUME NEW u \in DOMAIN visits', NEW v \in DOMAIN visits',
                        Inside(u)', Inside(v)', visits'[u].lock = visits'[v].lock
                 PROVE  u = v
        BY DEF OneInside
    <2>1. CASE u \in DOMAIN visits /\ v \in DOMAIN visits
        <3>1. Inside(u) /\ Inside(v) /\ visits[u].lock = visits[v].lock
            BY <1>7, <2>1 DEF Inside, At
        <3> QED  BY <1>1, <2>1, <3>1 DEF OneInside
    <2>2. CASE u = n /\ v \in DOMAIN visits
        <3>1. visits'[v].lock = l
            BY <1>7, <1>8, <2>2
        <3> HIDE DEF l, new
        <3> QED  BY <1>18, <2>2, <3>1
    <2>3. CASE v = n /\ u \in DOMAIN visits
        <3>1. visits'[u].lock = l
            BY <1>7, <1>8, <2>3
        <3> HIDE DEF l, new
        <3> QED  BY <1>18, <2>3, <3>1
    <2> QED  BY <1>14, <2>1, <2>2, <2>3
<1> QED  BY <1>10, <1>16, <1>17, <1>19 DEF LocksInv

LEMMA VisitStep ==
    ASSUME LocksInv, NEW v \in DOMAIN visits, VisitSteps(v)
    PROVE  LocksInv'
<1> DEFINE w == visits[v].worker
           x == visits[v].thread
<1>1. LocksTypeOK /\ DropExplained /\ DroppedReachFlock
    BY DEF LocksInv
<1>2. /\ w \in ApiWorkers /\ x \in TaskIds
      /\ taskFolder \in [TaskIds -> {"kept", "fenced", "gone"}]
      /\ failedDeletes \subseteq ApiWorkers \X TaskIds
    BY <1>1, VisitKnown DEF LocksTypeOK
\* A failed deletion is remembered, and one of a thread that is gone needs no excuse.
<1>3. ASSUME LeftInPlace(v), Move(v, "over"), UNCHANGED taskFolder
      PROVE  /\ failedDeletes \subseteq failedDeletes' /\ failedDeletes' \subseteq ApiWorkers \X TaskIds
             /\ taskFolder'[x] = "gone" \/ DeleteFailed(v)'
    <2>1. visits'[v].worker = w /\ visits'[v].thread = x
        BY <1>1, <1>3, VisitMoved DEF Places
    <2>2. CASE taskFolder[x] = "gone"
        BY <1>2, <1>3, <2>2 DEF LeftInPlace
    <2>3. CASE taskFolder[x] # "gone"
        <3>1. failedDeletes' = failedDeletes \cup {<<w, x>>}
            BY <1>3, <2>3 DEF LeftInPlace
        <3> QED  BY <1>2, <2>1, <3>1 DEF DeleteFailed
    <2> QED  BY <2>2, <2>3
<1>4. CASE Enter(v)
    <2>1. Move(v, "running") /\ TurnOf(v, visits[v].lock)
        BY <1>4 DEF Enter
    <2> QED  BY <1>2, <1>4, <2>1, LocksKept DEF Enter, Places
<1>5. CASE Other(v)
    <2>1. Inside(v)
        BY <1>5 DEF Other, Inside, At
    <2> QED  BY <1>2, <1>5, <2>1, LocksKept DEF Other, Places
<1>6. CASE Command(v)
    <2>1. Inside(v)
        BY <1>6 DEF Command, Inside, At
    <2>2. CASE taskFolder[x] = "gone"
        <3>1. Move(v, "over")
            BY <1>6, <2>2 DEF Command
        <3> QED  BY <1>2, <1>6, <2>1, <3>1, LocksKept DEF Command, Places
    <2>3. CASE taskFolder[x] # "gone"
        <3>1. Move(v, "flock")
            BY <1>6, <2>3 DEF Command
        <3>2. Dropped(v) => DeleteFailed(v)
            BY <1>1, <2>3 DEF DropExplained
        <3> QED  BY <1>2, <1>6, <2>1, <3>1, <3>2, LocksKept DEF Command, Places
    <2> QED  BY <2>2, <2>3
<1>7. CASE TakeFlock(v)
    <2>1. At(v, {"flock"}) /\ Inside(v)
        BY <1>7 DEF TakeFlock, Inside, At
    <2>2. Dropped(v) => DeleteFailed(v)
        BY <1>1, <2>1 DEF DroppedReachFlock, At
    <2>3. Move(v, "emitting") \/ Move(v, "over")
        BY <1>7 DEF TakeFlock
    <2> QED  BY <1>2, <1>7, <2>1, <2>2, <2>3, LocksKept DEF TakeFlock, Places
<1>8. CASE GoOn(v)
    <2>1. Inside(v) /\ Move(v, "over")
        BY <1>8 DEF GoOn, Inside, At
    <2> QED  BY <1>2, <1>8, <2>1, LocksKept DEF GoOn, Places
<1>9. CASE RefuseDelete(v)
    <2>1. Inside(v)
        BY <1>9 DEF RefuseDelete, Inside, At
    <2> QED  BY <1>2, <1>3, <1>9, <2>1, LockDropped DEF RefuseDelete
<1>10. CASE Fence(v)
    <2>1. Inside(v) /\ Move(v, "awaiting")
        BY <1>10 DEF Fence, Inside, At
    <2>2. taskFolder' = [taskFolder EXCEPT ![x] = IF @ = "kept" THEN "fenced" ELSE @]
        BY <1>10 DEF Fence
    <2>3. /\ taskFolder' \in [TaskIds -> {"kept", "fenced", "gone"}]
          /\ \A y \in TaskIds : taskFolder[y] = "gone" => taskFolder'[y] = "gone"
        BY <1>2, <2>2
    <2> QED  BY <1>10, <2>1, <2>3, LocksKept DEF Fence, Places
<1>11. CASE Remove(v)
    <2>1. Inside(v) /\ Move(v, "over") /\ DropLock(v)
        BY <1>11 DEF Remove, Inside, At
    <2>2. CASE taskFolder' = [taskFolder EXCEPT ![x] = "gone"] /\ UNCHANGED failedDeletes
        <3>1. /\ taskFolder' \in [TaskIds -> {"kept", "fenced", "gone"}]
              /\ \A y \in TaskIds : taskFolder[y] = "gone" => taskFolder'[y] = "gone"
              /\ taskFolder'[x] = "gone"
            BY <1>2, <2>2
        <3> QED  BY <1>2, <2>1, <2>2, <3>1, LockDropped
    <2>3. CASE LeftInPlace(v) /\ UNCHANGED taskFolder
        BY <1>2, <1>3, <2>1, <2>3, LockDropped
    <2> QED  BY <1>11, <2>2, <2>3 DEF Remove
<1> QED  BY <1>4, <1>5, <1>6, <1>7, <1>8, <1>9, <1>10, <1>11 DEF VisitSteps

LEMMA LocksStutter == LocksInv /\ UNCHANGED locksVars => LocksInv'
<1> QED
    BY DEF locksVars, LocksInv, LocksTypeOK, HasLock, OneInside, DropExplained,
           DroppedReachFlock, Dropped, DeleteFailed, Inside, At

\* LocksInv is inductive.
THEOREM LocksInvariant == LocksSpec => []LocksInv
<1>1. LocksInv /\ LocksNext => LocksInv'
    BY ArriveStep, VisitStep DEF LocksNext
<1> QED  BY <1>1, LocksStart, LocksStutter, PTL DEF LocksSpec

\* The variables of TaskLocks keep their types.
THEOREM LocksTyped == LocksSpec => []LocksTypeOK
<1>1. LocksInv => LocksTypeOK
    BY DEF LocksInv
<1> QED  BY <1>1, LocksInvariant, PTL

\* Two handlers of one thread and worker are at the flock together only if one of them waited
\* for a lock that a deletion dropped although it left the thread in place.
THEOREM OwnFlockAfterFailedDelete == LocksSpec => []OwnFlockOnlyAfterFailedDelete
<1>1. ASSUME LocksInv PROVE OwnFlockOnlyAfterFailedDelete
    <2> SUFFICES ASSUME NEW u \in DOMAIN visits, NEW v \in DOMAIN visits, WaitsFor(u, v),
                        visits[u].worker = visits[v].worker, ~DeleteFailed(u)
                 PROVE  FALSE
        BY DEF OwnFlockOnlyAfterFailedDelete, DeleteFailed
    <2>1. /\ visits[u].at = "flock" /\ visits[v].at = "emitting"
          /\ visits[u].thread = visits[v].thread
        BY DEF WaitsFor, HoldsFlock, At
    <2>2. Inside(u) /\ Inside(v) /\ At(u, {"flock", "emitting"}) /\ At(v, {"flock", "emitting"})
        BY <2>1 DEF Inside, At
    <2>3. ~DeleteFailed(v)
        BY <2>1 DEF DeleteFailed
    <2>4. ~Dropped(u) /\ ~Dropped(v)
        BY <1>1, <2>2, <2>3 DEF LocksInv, DroppedReachFlock
    <2>5. visits[u].lock = visits[v].lock
        BY <2>1, <2>4 DEF Dropped
    <2>6. u = v
        BY <1>1, <2>2, <2>5 DEF LocksInv, OneInside
    <2> QED  BY <2>1, <2>6
<1> QED  BY <1>1, LocksInvariant, PTL

=============================================================================
