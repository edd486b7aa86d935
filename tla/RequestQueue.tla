---------------------------- MODULE RequestQueue ----------------------------
(***************************************************************************)
(* The admission queue of one API worker, src/app/resilience/              *)
(* request_queue.py, as _execute_task drives it (src/app/api/server.py):   *)
(* enqueue, perhaps tell the client its position, acquire a lease, run,    *)
(* release, and discard in every case.                                     *)
(*                                                                         *)
(* Every critical section of the condition is free of awaits and its lock  *)
(* is never contended, so release-and-discard at the end of a task, and    *)
(* the removals of a cancelled waiter, each run as one step, before any    *)
(* notified waiter looks again.                                            *)
(*                                                                         *)
(* A heap is abstracted to its members and its head, which is some member  *)
(* of least priority value.                                                *)
(*                                                                         *)
(* A definition written just above another, with its parameters and a name *)
(* that says what is wrong with it, is a mutant: the properties are known  *)
(* to notice when it takes the place of the definition below it.           *)
(***************************************************************************)
EXTENDS Integers, FiniteSets

CONSTANTS
    Requests,           \* the requests of this worker's life
    None,               \* no request
    Priority,           \* Priority[r]: lower is served first
    NormalWorkers,
    HeavyWorkers,
    RebalanceThreshold  \* normal backlog above which heavy work is throttled

ASSUME QueueConstantsOK ==
    /\ None \notin Requests
    /\ Priority \in [Requests -> Nat]
    /\ NormalWorkers \in Nat \ {0}
    /\ HeavyWorkers \in Nat \ {0}
    /\ RebalanceThreshold \in Nat \ {0}

VARIABLES
    pc,          \* pc[r]: new, queued (before acquire), waiting (in it), running, done
    kind,        \* kind[r]: the queue r is classified to
    queue,       \* queue[k]: the members and the head of the heap
    active,      \* active[k]: the counter of leases
    heavyLimit,  \* the present capacity for heavy requests
    woken        \* the waiters notified and not yet looking again

vars == <<pc, kind, queue, active, heavyLimit, woken>>

Kinds == {"normal", "heavy"}

\* _rebalance_locked, when n normal requests wait; between the two marks nothing changes.
ThrottledLimit == IF HeavyWorkers \div 2 = 0 THEN 1 ELSE HeavyWorkers \div 2
Rebalanced(limit, n) ==
    IF n > RebalanceThreshold THEN ThrottledLimit
    ELSE IF n < RebalanceThreshold \div 4 + 1 THEN HeavyWorkers ELSE limit

Backlog(q) == Cardinality(q["normal"].items)

SetQueue(k, q) ==
    /\ queue' = [queue EXCEPT ![k] = q]
    /\ heavyLimit' = Rebalanced(heavyLimit, Backlog(queue'))

\* The possible heads of a heap with members s.
Heads(s) == IF s = {} THEN {None} ELSE {m \in s : \A x \in s : Priority[m] <= Priority[x]}

Without(q, r) == {[items |-> q.items \ {r}, head |-> m] : m \in Heads(q.items \ {r})}

\* _remove(r): list.remove compares with ==, and requests of one priority are equal.
Equals(q, r) ==
    LET same == {x \in q.items : Priority[x] = Priority[r]}
    IN  IF q.head \in same THEN {q.head} ELSE same

Removed(q, r) == IF Equals(q, r) = {} THEN {q} ELSE UNION {Without(q, x) : x \in Equals(q, r)}

\* condition.notify_all: everyone inside acquire looks again.
NotifyNobody == woken' = {r \in woken : pc'[r] = "waiting"}
NotifyAll == woken' = {r \in Requests : pc[r] = "waiting" /\ pc'[r] = "waiting"}

\* One look of a request of kind k inside acquire, at queues q and heavy capacity limit:
\* admitted at the head when a lease is free.
Look(r, k, q, limit) ==
    IF q[k].head = r /\ active[k] < (IF k = "heavy" THEN limit ELSE NormalWorkers)
    THEN /\ \E p \in Without(q[k], r) : queue' = [q EXCEPT ![k] = p]
         /\ heavyLimit' = Rebalanced(limit, Backlog(queue'))
         /\ active' = [active EXCEPT ![k] = @ + 1]
         /\ pc' = [pc EXCEPT ![r] = "running"]
    ELSE /\ pc' = [pc EXCEPT ![r] = "waiting"]
         /\ queue' = q /\ heavyLimit' = limit
         /\ UNCHANGED active

\* A request that enters at position one goes on to acquire without an await; any other
\* tells its client first.
Enqueue(r, k) ==
    LET first == queue[k].head = None \/ Priority[r] < Priority[queue[k].head]
        entered == [items |-> queue[k].items \cup {r},
                    head  |-> IF first THEN r ELSE queue[k].head]
        q == [queue EXCEPT ![k] = entered]
        limit == Rebalanced(heavyLimit, Backlog(q))
    IN  /\ pc[r] = "new"
        /\ kind' = [kind EXCEPT ![r] = k]
        /\ IF first THEN Look(r, k, q, limit)
           ELSE /\ pc' = [pc EXCEPT ![r] = "queued"]
                /\ queue' = q /\ heavyLimit' = limit
                /\ UNCHANGED active
        /\ NotifyAll

Acquire(r) ==
    /\ pc[r] = "queued"
    /\ Look(r, kind[r], queue, heavyLimit)
    /\ UNCHANGED <<kind, woken>>

LookAgain(r) ==
    /\ r \in woken
    /\ Look(r, kind[r], queue, heavyLimit)
    /\ woken' = woken \ {r}
    /\ UNCHANGED kind

ReleasedTwice(n) == IF n < 2 THEN 0 ELSE n - 2
Released(n) == IF n = 0 THEN 0 ELSE n - 1

\* The task leaves its lease, however the agent ended, and discards its request.
Finish(r) ==
    /\ pc[r] = "running"
    /\ pc' = [pc EXCEPT ![r] = "done"]
    /\ active' = [active EXCEPT ![kind[r]] = Released(@)]
    /\ \E q \in Removed(queue[kind[r]], r) : SetQueue(kind[r], q)
    /\ NotifyAll
    /\ UNCHANGED kind

\* The task is cancelled (or its queue_status event cannot be written) before it has a
\* lease: acquire removes the request if it was entered, the task discards it.
Withdraw(r) ==
    /\ pc[r] \in {"queued", "waiting"}
    /\ pc' = [pc EXCEPT ![r] = "done"]
    /\ LET once == Removed(queue[kind[r]], r)
       IN  \E q \in (IF pc[r] = "queued" THEN once ELSE UNION {Removed(p, r) : p \in once}) :
             /\ SetQueue(kind[r], q)
             /\ IF q = queue[kind[r]] THEN woken' = woken \ {r} ELSE NotifyAll
    /\ UNCHANGED <<kind, active>>

DynamicRebalance ==
    /\ UNCHANGED <<pc, kind, queue, active>>
    /\ heavyLimit' = Rebalanced(heavyLimit, Backlog(queue))
    /\ NotifyAll

Init ==
    /\ pc = [r \in Requests |-> "new"]
    /\ kind = [r \in Requests |-> "normal"]
    /\ queue = [k \in Kinds |-> [items |-> {}, head |-> None]]
    /\ active = [k \in Kinds |-> 0]
    /\ heavyLimit = HeavyWorkers
    /\ woken = {}

Next ==
    \/ \E r \in Requests, k \in Kinds : Enqueue(r, k)
    \/ \E r \in Requests : Acquire(r) \/ LookAgain(r) \/ Finish(r) \/ Withdraw(r)
    \/ DynamicRebalance

Spec == Init /\ [][Next]_vars

\* The event loop runs ready tasks, and an admitted agent ends within the task timeout; nobody
\* owes a request, a cancellation or an external rebalance.  The requests are finitely many:
\* a heap of equal priorities is not first-in first-out, so under an endless stream of new
\* requests an old one may be passed over for ever.
Fairness == \A r \in Requests :
    WF_vars(Acquire(r)) /\ WF_vars(LookAgain(r)) /\ WF_vars(Finish(r))

FairSpec == Spec /\ Fairness

-----------------------------------------------------------------------------
(* Properties *)

\* The type of every variable; heavy work always keeps at least one lease.
TypeOK ==
    /\ pc \in [Requests -> {"new", "queued", "waiting", "running", "done"}]
    /\ kind \in [Requests -> Kinds]
    /\ queue \in [Kinds -> [items : SUBSET Requests, head : Requests \cup {None}]]
    /\ active \in [Kinds -> Nat]
    /\ heavyLimit \in 1 .. HeavyWorkers
    /\ woken \in SUBSET Requests

Running(k) == {r \in Requests : pc[r] = "running" /\ kind[r] = k}

\* The lease counters count exactly the tasks inside a lease, through every cancellation and
\* release, so neither pool is exceeded nor slowly lost.
LeasesCounted ==
    /\ \A k \in Kinds : active[k] = Cardinality(Running(k))
    /\ Cardinality(Running("normal")) <= NormalWorkers
    /\ Cardinality(Running("heavy")) <= HeavyWorkers

\* A task waiting in acquire is in its queue: no other task's end takes it out.
NoWaiterLost == \A r \in Requests :
    pc[r] \in {"queued", "waiting"} => r \in queue[kind[r]].items

\* A finished request that another's removal left in its queue, at the head: no later
\* request of the queue can be admitted past it.
GhostAtHead(k) == queue[k].head # None /\ pc[queue[k].head] = "done"

\* Every queued task is served, or leaves by its own cancellation: no admission, wake-up or
\* rebalancing is missed.  The only exceptions are those of the equal priorities: a removal
\* takes out the wrong request, which then waits outside the heap, or leaves a ghost at the head.
WaitersServed == \A r \in Requests :
    pc[r] \in {"queued", "waiting"}
        ~> \/ pc[r] \in {"running", "done"}
           \/ r \notin queue[kind[r]].items
           \/ GhostAtHead(kind[r])
=============================================================================
