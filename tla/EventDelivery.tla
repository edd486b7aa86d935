---------------------------- MODULE EventDelivery ----------------------------
(***************************************************************************)
(* How the timeline of one thread reaches its viewers: Monitor.emit        *)
(* (src/app/api/monitor.py), the ConnectionManager                         *)
(* (src/app/api/connection.py), the socket handler and the handlers that   *)
(* delete or replace a task (src/app/api/server.py), and the socket loop   *)
(* of the browser (src/frontend/src/hooks/useShoppingAgent.ts).            *)
(*                                                                         *)
(* Two locks are visible.  The task lock of the thread is a lock OBJECT    *)
(* found by name: a delete forgets the object on its way out, refused or   *)
(* not, so that a handler that waited on the old object runs beside one    *)
(* that takes the new one.  The connection lock is held across steps by a  *)
(* replay and by a pong; every other user of it does its work and its one  *)
(* bounded send or close in a single step.  The monitor's lock admits one  *)
(* emit at a time, so `emit` is that emit.                                 *)
(*                                                                         *)
(* An event is its sequence number.  The buffer the manager keeps is left  *)
(* out: a socket of the server always boots from the snapshot.             *)
(*                                                                         *)
(* A definition written just above another, with its parameters and a name *)
(* that says what is wrong with it, is a mutant: the properties are known  *)
(* to notice when it takes the place of the definition below it.           *)
(***************************************************************************)
EXTENDS Integers, FiniteSets

CONSTANTS
    Viewers,        \* the browser tabs that show the thread
    NoSocket,
    MaxReconnects,  \* reconnects before a tab polls; no reset of the budget (a bound)
    MaxEvents,      \* bound: progress events of a run
    MaxRuns,        \* bound: runs of the thread
    MaxLocks,       \* bound: task lock objects made for the thread
    MaxStalls       \* bound: times a client stops reading for a while

ASSUME DeliveryConstantsOK ==
    /\ MaxReconnects \in Nat /\ MaxEvents \in Nat /\ MaxRuns \in Nat
    /\ MaxLocks \in Nat /\ MaxStalls \in Nat
    /\ NoSocket \notin Viewers \X Nat

\* The socket of a viewer's n-th reconnect.
Sockets == Viewers \X (0 .. MaxReconnects)
Owner(s) == s[1]

VARIABLES
    phase,     \* the record: running, settled, popped (being replaced), deleting, gone
    run,       \* the run it is of
    recorded,  \* the length of its durable timeline
    emit,      \* the emit holding the monitor's lock: events at..upto are still to be sent
    cut,       \* events whose emit was cancelled between recording and sending
    active,    \* ConnectionManager.active
    discarded, \* the thread is in _discarded, and its generation has moved on
    connLock,  \* the socket handler in a replay or a pong, or NoSocket
    lockNow,   \* the task lock object task_locks holds for the thread
    sv,        \* sv[s]: the socket handler of s
    link,      \* link[s]: up, stalled (the client is not reading), or down
    sent,      \* sent[s]: the <<run, event>> its handler's socket was sent; 0 is the snapshot
    co,        \* the handler that deletes or replaces the task (at most one)
    view,      \* view[v]: what tab v knows, and its reconnection state
    stalls     \* stalls so far

vars == <<phase, run, recorded, emit, cut, active, discarded, connLock, lockNow,
          sv, link, sent, co, view, stalls>>
record == <<phase, run, recorded>>

-----------------------------------------------------------------------------
(* Helpers *)

NoEmit == [at |-> 1, upto |-> 0, run |-> 0, final |-> FALSE]
Emitting == emit # NoEmit
Pending == emit.at .. emit.upto

Current(v) == <<v, view[v].try>>

\* Frames of run r reach the tab of s, which ignores every socket but its latest.  fin says
\* that the last of them is terminal; the tab then stops listening.
SnapshotView(v, r, ns, fin) ==
    [v EXCEPT !.run = r, !.seen = IF v.run = r THEN @ \cup ns ELSE ns,
              !.mode = IF fin THEN "done" ELSE @]
EventView(v, r, n, fin) ==
    [v EXCEPT !.seen = IF v.run = r THEN @ \cup {n} ELSE @,
              !.mode = IF fin THEN "done" ELSE @]
Listening(s) == view[Owner(s)].mode = "socket" /\ Current(Owner(s)) = s
ToView(s, w) == view' = IF Listening(s) THEN [view EXCEPT ![Owner(s)] = w] ELSE view

\* The task lock object n is held.
TaskLockHeld(n) ==
    \/ \E s \in Sockets : sv[s].pc \in {"accept", "replay"} /\ sv[s].lock = n
    \/ co.pc \in {"await", "transport"} /\ co.lock = n

NoHandler == [pc |-> "none", lock |-> 0, run |-> 0, upto |-> 0, final |-> FALSE]
At(pc) == [NoHandler EXCEPT !.pc = pc]

\* The coroutine of s is over and its connection closed.
HandlerEnds(s) ==
    /\ sv' = [sv EXCEPT ![s] = At("closed")]
    /\ link' = [link EXCEPT ![s] = "down"]
    /\ sent' = [sent EXCEPT ![s] = {}]

-----------------------------------------------------------------------------
(* Monitor.emit *)

\* The recorder writes the event, or a report and the result after it.  It refuses while the
\* record is gone, being deleted or settled.
Record(n, final) ==
    /\ ~Emitting /\ phase = "running"
    /\ recorded' = recorded + n
    /\ phase' = IF final THEN "settled" ELSE phase
    /\ emit' = [at |-> recorded + 1, upto |-> recorded + n, run |-> run, final |-> final]
    /\ UNCHANGED <<run, cut, active, discarded, connLock, lockNow, sv, link, sent, co, view,
                   stalls>>

RecordProgress == recorded < MaxEvents /\ Record(1, FALSE)
RecordOutcome == Record(1, TRUE) \/ Record(2, TRUE)

RestNeverEnds == [emit EXCEPT !.at = @ + 1]
Rest == IF emit.at = emit.upto THEN NoEmit ELSE [emit EXCEPT !.at = @ + 1]

\* send_to_thread for the next event of the emit.  A send that does not return in time, or
\* raises, takes the socket out of `active` and leaves it open; its frame may still arrive.
TimedOutKept == active
TimedOut == NoSocket

Broadcast ==
    LET n == emit.at
        s == active
        fin == emit.final /\ n = emit.upto
    IN  /\ Emitting /\ connLock = NoSocket
        /\ emit' = Rest
        /\ \/ /\ active = NoSocket \/ discarded
              /\ UNCHANGED <<active, link, sent, view>>
           \/ /\ active # NoSocket /\ ~discarded /\ link[s] = "up"
              /\ sent' = [sent EXCEPT ![s] = @ \cup {<<emit.run, n>>}]
              /\ \/ ToView(s, EventView(view[Owner(s)], emit.run, n, fin)) /\ UNCHANGED link
                 \/ link' = [link EXCEPT ![s] = "down"] /\ UNCHANGED view
              /\ UNCHANGED active
           \/ /\ active # NoSocket /\ ~discarded /\ link[s] # "up"
              /\ active' = TimedOut
              /\ \/ link[s] = "stalled" /\ ToView(s, EventView(view[Owner(s)], emit.run, n, fin))
                 \/ UNCHANGED view
              /\ UNCHANGED <<link, sent>>
        /\ UNCHANGED <<record, cut, discarded, connLock, lockNow, sv, co, stalls>>

\* CancelledError is delivered inside the emit: the run was cancelled, ran into its deadline,
\* or lost a sibling branch.  A settled run is cancelled only by its deletion.
EmitCutWhenSettled ==
    /\ Emitting
    /\ emit' = NoEmit
    /\ cut' = cut \cup Pending
    /\ UNCHANGED <<record, active, discarded, connLock, lockNow, sv, link, sent, co, view,
                   stalls>>
EmitCut ==
    /\ Emitting /\ (emit.final => phase = "deleting")
    /\ emit' = NoEmit
    /\ cut' = cut \cup Pending
    /\ UNCHANGED <<record, active, discarded, connLock, lockNow, sv, link, sent, co, view,
                   stalls>>

-----------------------------------------------------------------------------
(* task_socket and ConnectionManager.connect *)

\* The handler has the task lock: it refuses a deleted task, or goes on to accept().
Enter(s) ==
    /\ sv[s].pc = "dial" /\ ~TaskLockHeld(sv[s].lock)
    /\ IF phase \in {"deleting", "gone"} THEN HandlerEnds(s)
       ELSE sv' = [sv EXCEPT ![s].pc = "accept"] /\ UNCHANGED <<link, sent>>
    /\ UNCHANGED <<record, emit, cut, active, discarded, connLock, lockNow, co, view, stalls>>

\* Accepted, and the connection lock obtained: refuse a discarded thread, close the previous
\* socket, become the active one and read the snapshot, which raises for a deleted task.
MayConnect == ~discarded
SnapshotReadable == phase \notin {"deleting", "gone"}

Adopt(s) ==
    /\ sv[s].pc = "accept" /\ connLock = NoSocket
    /\ IF link[s] = "down" \/ ~MayConnect
       THEN HandlerEnds(s) /\ UNCHANGED <<active, connLock>>
       ELSE IF ~SnapshotReadable
       THEN /\ sv' = [sv EXCEPT ![s] = At("closed")]
            /\ link' = [t \in Sockets |-> IF t \in {s, active} THEN "down" ELSE link[t]]
            /\ active' = NoSocket
            /\ UNCHANGED <<connLock, sent>>
       ELSE /\ sv' = [sv EXCEPT ![s].pc = "replay", ![s].upto = recorded,
                                ![s].run = run, ![s].final = (phase = "settled")]
            /\ link' = [t \in Sockets |-> IF t = active /\ t # s THEN "down" ELSE link[t]]
            /\ active' = s
            /\ connLock' = s
            /\ UNCHANGED sent
    /\ UNCHANGED <<record, emit, cut, discarded, lockNow, co, view, stalls>>

ReplayKeepsLock(s) == connLock
AfterReplay(s) == NoSocket

\* The snapshot and its events are written; or the connection breaks under the last of them
\* unnoticed; or a write fails or times out (the snapshot may have arrived) and the socket
\* is closed.
Replay(s) ==
    LET frames == {<<sv[s].run, n>> : n \in 0 .. sv[s].upto}
        told == SnapshotView(view[Owner(s)], sv[s].run, 1 .. sv[s].upto, sv[s].final)
    IN  /\ sv[s].pc = "replay"
        /\ \/ /\ link[s] = "up"
              /\ sv' = [sv EXCEPT ![s] = At("open")]
              /\ sent' = [sent EXCEPT ![s] = @ \cup frames]
              /\ \/ ToView(s, told) /\ UNCHANGED link
                 \/ link' = [link EXCEPT ![s] = "down"] /\ UNCHANGED view
              /\ UNCHANGED active
           \/ /\ link[s] # "up"
              /\ HandlerEnds(s)
              /\ active' = NoSocket
              /\ \/ link[s] = "stalled" /\ ToView(s, told)
                 \/ UNCHANGED view
        /\ connLock' = AfterReplay(s)
        /\ UNCHANGED <<record, emit, cut, discarded, lockNow, co, stalls>>

\* A ping is answered on the thread's active socket, whichever pinged, and the answer has no
\* deadline: the client may have stalled since it pinged.  (Answered at once, it changes nothing.)
Ping(s) ==
    /\ sv[s].pc = "open" /\ link[s] # "down" /\ connLock = NoSocket
    /\ active # NoSocket /\ ~discarded /\ link[active] # "up"
    /\ connLock' = s
    /\ sv' = [sv EXCEPT ![s].pc = "pong"]
    /\ UNCHANGED <<record, emit, cut, active, discarded, lockNow, link, sent, co, view, stalls>>

\* The pong is written once the client reads again, or raises once it is known to be gone.
PongEnds(s) ==
    /\ sv[s].pc = "pong" /\ link[active] # "stalled"
    /\ connLock' = NoSocket
    /\ sv' = [sv EXCEPT ![s].pc = IF link[active] = "up" THEN "open" ELSE "leave"]
    /\ UNCHANGED <<record, emit, cut, active, discarded, lockNow, link, sent, co, view, stalls>>

\* The receive loop ended: disconnect takes the socket out only if it is still the active one.
LeavesAlways(s) == NoSocket
LeftBy(s) == IF active = s THEN NoSocket ELSE active

Leave(s) ==
    /\ connLock = NoSocket
    /\ \/ sv[s].pc = "leave"
       \/ sv[s].pc = "open" /\ link[s] = "down"
    /\ HandlerEnds(s)
    /\ active' = LeftBy(s)
    /\ UNCHANGED <<record, emit, cut, discarded, connLock, lockNow, co, view, stalls>>

-----------------------------------------------------------------------------
(* The handlers that delete and replace the task *)

NoCo == [op |-> "idle", pc |-> "idle", lock |-> 0]

CoArrives(op) ==
    /\ co = NoCo /\ phase \in (IF op = "delete" THEN {"running", "settled"} ELSE {"running"})
    /\ op = "replace" => run < MaxRuns
    /\ co' = [op |-> op, pc |-> "dial", lock |-> lockNow]
    /\ UNCHANGED <<record, emit, cut, active, discarded, connLock, lockNow, sv, link, sent, view,
                   stalls>>

\* It has the task lock.  A settled run cannot be replaced; an unsettled one is cancelled.
CoEnters ==
    /\ co.pc = "dial" /\ ~TaskLockHeld(co.lock)
    /\ IF co.op = "replace" /\ phase # "running"
       THEN co' = NoCo /\ UNCHANGED phase
       ELSE /\ phase' = IF co.op = "delete" THEN "deleting" ELSE "popped"
            /\ co' = [co EXCEPT !.pc = "await"]
    /\ UNCHANGED <<run, recorded, emit, cut, active, discarded, connLock, lockNow, sv, link, sent,
                   view, stalls>>

\* The cancelled task has ended, and with it any emit of its own.  The emit may also be the
\* outcome of a cancel handler that holds another lock object, which a delete does not await.
TaskNotAwaited == TRUE
TaskEnded == ~Emitting \/ (co.op = "delete" /\ emit.final)

CoAwaits ==
    /\ co.pc = "await" /\ TaskEnded
    /\ co' = [co EXCEPT !.pc = "transport"]
    /\ UNCHANGED <<record, emit, cut, active, discarded, connLock, lockNow, sv, link, sent, view,
                   stalls>>

TransportKept == active
TransportClosed == NoSocket

\* manager.discard, and the lock object is forgotten; or manager.clear, and the new run.
CoTransport ==
    /\ co.pc = "transport" /\ connLock = NoSocket
    /\ active' = TransportClosed
    /\ link' = [s \in Sockets |-> IF s = active THEN "down" ELSE link[s]]
    /\ co' = NoCo
    /\ IF co.op = "delete"
       THEN /\ discarded' = TRUE /\ phase' = "gone"
            /\ lockNow' = IF lockNow = co.lock /\ lockNow < MaxLocks THEN lockNow + 1 ELSE lockNow
            /\ UNCHANGED <<run, recorded, cut>>
       ELSE /\ phase' = "running" /\ run' = run + 1 /\ recorded' = 0 /\ cut' = {}
            /\ UNCHANGED <<discarded, lockNow>>
    /\ UNCHANGED <<emit, connLock, sv, sent, view, stalls>>

\* A delete that is refused (not the shopper's task) still forgets the lock object.
DeleteRefused ==
    /\ ~TaskLockHeld(lockNow) /\ lockNow < MaxLocks
    /\ lockNow' = lockNow + 1
    /\ UNCHANGED <<record, emit, cut, active, discarded, connLock, sv, link, sent, co, view,
                   stalls>>

-----------------------------------------------------------------------------
(* The tab and the network *)

\* openSocket, at the start and when the reconnect timer fires.
Dial(v) ==
    /\ view[v].mode = "dial"
    /\ view' = [view EXCEPT ![v].mode = "socket"]
    /\ sv' = [sv EXCEPT ![Current(v)] = [At("dial") EXCEPT !.lock = lockNow]]
    /\ link' = [link EXCEPT ![Current(v)] = "up"]
    /\ UNCHANGED <<record, emit, cut, active, discarded, connLock, lockNow, sent, co, stalls>>

\* socketCloseDecision: reconnect, or recover from the durable snapshot.
SettlesInstead == "closed"
Recovery == "poll"

SocketClosed(v) ==
    /\ view[v].mode = "socket" /\ link[Current(v)] = "down"
    /\ \/ /\ view[v].try >= MaxReconnects
          /\ view' = [view EXCEPT ![v].mode = Recovery]
       \/ /\ view[v].try < MaxReconnects
          /\ view' = [view EXCEPT ![v].mode = "dial", ![v].try = @ + 1]
    /\ UNCHANGED <<record, emit, cut, active, discarded, connLock, lockNow, sv, link, sent, co,
                   stalls>>

\* runSnapshotRecovery: GET the snapshot until it is no longer running.
Poll(v) ==
    /\ view[v].mode = "poll" /\ phase \in {"running", "settled", "popped"}
    /\ view' = [view EXCEPT ![v] = SnapshotView(@, run, 1 .. recorded, phase = "settled")]
    /\ UNCHANGED <<record, emit, cut, active, discarded, connLock, lockNow, sv, link, sent, co,
                   stalls>>

\* A tab that knows the outcome closes its socket; any connection may break.
Break(s) ==
    /\ sv[s].pc \notin {"none", "closed"} /\ link[s] # "down"
    /\ link' = [link EXCEPT ![s] = "down"]
    /\ UNCHANGED <<record, emit, cut, active, discarded, connLock, lockNow, sv, sent, co, view,
                   stalls>>
ClientCloses(v) == view[v].mode = "done" /\ Break(Current(v))

Stall(s) ==
    /\ link[s] = "up" /\ stalls < MaxStalls /\ sv[s].pc \in {"replay", "open", "pong"}
    /\ link' = [link EXCEPT ![s] = "stalled"]
    /\ stalls' = stalls + 1
    /\ UNCHANGED <<record, emit, cut, active, discarded, connLock, lockNow, sv, sent, co, view>>

Resume(s) ==
    /\ link[s] = "stalled"
    /\ link' = [link EXCEPT ![s] = "up"]
    /\ UNCHANGED <<record, emit, cut, active, discarded, connLock, lockNow, sv, sent, co, view,
                   stalls>>

-----------------------------------------------------------------------------
Init ==
    /\ phase = "running" /\ run = 1 /\ recorded = 0
    /\ emit = NoEmit /\ cut = {}
    /\ active = NoSocket /\ discarded = FALSE /\ connLock = NoSocket
    /\ lockNow = 1
    /\ sv = [s \in Sockets |-> NoHandler]
    /\ link = [s \in Sockets |-> "up"]
    /\ sent = [s \in Sockets |-> {}]
    /\ co = NoCo
    /\ view = [v \in Viewers |-> [mode |-> "dial", try |-> 0, run |-> 0, seen |-> {}]]
    /\ stalls = 0

SocketStep(s) == Enter(s) \/ Adopt(s) \/ Replay(s) \/ PongEnds(s) \/ Leave(s)
CoStep == CoEnters \/ CoAwaits \/ CoTransport
ViewerStep(v) == Dial(v) \/ SocketClosed(v) \/ Poll(v) \/ ClientCloses(v)

Next ==
    \/ RecordProgress \/ RecordOutcome \/ Broadcast \/ EmitCut
    \/ \E s \in Sockets : SocketStep(s) \/ Ping(s) \/ Break(s) \/ Stall(s) \/ Resume(s)
    \/ \E op \in {"delete", "replace"} : CoArrives(op)
    \/ CoStep \/ DeleteRefused
    \/ \E v \in Viewers : ViewerStep(v)

Spec == Init /\ [][Next]_vars

\* The event loop runs ready coroutines, sends and closes have deadlines, a stall ends (the
\* server's keepalive breaks a connection that stays silent), and the tab's timers fire.
\* Nobody owes an event, an outcome, a cancellation, a ping, a break or a delete.
Fairness ==
    /\ WF_vars(Broadcast) /\ WF_vars(CoStep)
    /\ \A s \in Sockets : WF_vars(SocketStep(s)) /\ WF_vars(Resume(s))
    /\ \A v \in Viewers : WF_vars(ViewerStep(v))

FairSpec == Spec /\ Fairness

-----------------------------------------------------------------------------
(* Properties *)

\* The type of every variable.
TypeOK ==
    /\ phase \in {"running", "settled", "popped", "deleting", "gone"}
    /\ run \in 1 .. MaxRuns + 1 /\ recorded \in 0 .. MaxEvents + 2
    /\ emit = NoEmit \/ emit \in [at : 1 .. emit.upto, upto : 1 .. recorded, run : {run},
                                 final : BOOLEAN]
    /\ cut \subseteq 1 .. recorded
    /\ active \in Sockets \cup {NoSocket} /\ connLock \in Sockets \cup {NoSocket}
    /\ discarded \in BOOLEAN /\ lockNow \in 1 .. MaxLocks + 1
    /\ sv \in [Sockets -> [pc : {"none", "dial", "accept", "replay", "open", "pong", "leave",
                                 "closed"},
                           lock : Nat, run : Nat, upto : Nat, final : BOOLEAN]]
    /\ link \in [Sockets -> {"up", "stalled", "down"}]
    /\ \A s \in Sockets : sent[s] \subseteq Nat \X Nat
    /\ co \in [op : {"idle", "delete", "replace"}, pc : {"idle", "dial", "await", "transport"},
               lock : Nat]
    /\ view \in [Viewers -> [mode : {"dial", "socket", "poll", "done"},
                             try : 0 .. MaxReconnects, run : Nat, seen : SUBSET Nat]]
    /\ stalls \in 0 .. MaxStalls

Established(s) == active = s /\ sv[s].pc \in {"open", "pong"} /\ link[s] # "down"

\* A socket the manager still serves has been sent the whole timeline of the run: its
\* snapshot, the replayed events and every event recorded since, whichever way its connect
\* and the emits interleaved.  Only the event now being sent, and one whose emit was
\* cancelled after it was recorded, can be missing.
LiveSocketMissesOnlyCut == \A s \in Sockets :
    Established(s) =>
        \A n \in 1 .. recorded : <<run, n>> \in sent[s] \/ n \in cut \cup Pending

\* No socket is sent frames of two runs: a replaced run's socket is closed before the first
\* event of the next one (docs/API_CONTRACT.md, "instead of mixing both runs").
SocketServesOneRun == \A s \in Sockets : \A a, b \in sent[s] : a[1] = b[1]

\* After the transport of a deleted task was discarded no connection is adopted, not even one
\* that was being accepted, on another lock object, while the delete ran.
DiscardIsFinal ==
    discarded => active = NoSocket /\ \A s \in Sockets : sv[s].pc # "replay"

\* A tab that stops listening because it saw the outcome has every event of that timeline,
\* except those whose emit was cancelled.  ImplementsTimelineFeed, below, says this and more.
SettledViewComplete == \A v \in Viewers :
    view[v].mode = "done" /\ view[v].run = run => 1 .. recorded \subseteq view[v].seen \cup cut

\* No emit waits forever for a slow client: not for its own send, nor for the connection lock
\* behind a replay or a pong.
EmitReturns == Emitting ~> ~Emitting

\* A tab whose socket the server keeps open and no longer serves.
Orphaned(v) ==
    view[v].mode = "socket" /\ sv[Current(v)].pc = "open" /\ active # Current(v)

\* Only a client that stopped reading loses its place: a reconnect, a replacement or the late
\* end of an older socket's handler never takes a connected tab out of `active`.
OrphanedOnlyByStall == \A v \in Viewers :
    Orphaned(v) /\ link[Current(v)] = "up" => stalls > 0

\* When a run has settled every tab comes to know it, through its socket, a reconnect or
\* polling, unless the task is deleted or the tab was orphaned by a send that timed out.
OutcomeReachesServedTabs == \A v \in Viewers :
    phase = "settled" ~> (view[v].mode = "done" \/ phase = "gone" \/ Orphaned(v))

\* docs/API_CONTRACT.md: after the replay the server "continues with live events", and a
\* client that has spent its reconnects polls; so every tab learns the outcome.
OutcomeReachesEveryTab == \A v \in Viewers :
    phase = "settled" ~> (view[v].mode = "done" \/ phase = "gone")

\* What a tab has of the timeline.  The run of a record that is being replaced still runs.
FeedPhase == IF phase = "popped" THEN "running" ELSE phase
ShownRuns == [v \in Viewers |-> view[v].run]
SeenEvents == [v \in Viewers |-> view[v].seen]
StoppedTabs == {v \in Viewers : view[v].mode = "done"}

\* Whatever the sockets, locks, reconnects and polls do in between, every step is one of the
\* feed or changes nothing of it: no tab is ever shown an event that is not on disk, goes back to
\* a run that was replaced, forgets an event or learns one after it stopped, and none stops, be
\* it on a snapshot, an event or a poll, before it has the timeline up to the end.
Feed == INSTANCE TimelineFeed WITH
    phase <- FeedPhase, lost <- cut,
    shown <- ShownRuns, seen <- SeenEvents, stopped <- StoppedTabs
ImplementsTimelineFeed == Feed!Spec
=============================================================================
