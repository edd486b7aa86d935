------------------------ MODULE EventDeliveryProofs ------------------------
(***************************************************************************)
(* Theorems about EventDelivery, for any number of tabs and any bounds:    *)
(* the shapes and the locks, then the emit in flight, the places of the    *)
(* sockets and the runs of their frames; on these the timeline and the     *)
(* types, what a served socket has been sent, who is taken out of service, *)
(* what a tab has been shown, and that all of it implements TimelineFeed.  *)
(***************************************************************************)
EXTENDS EventDelivery, TLAPS

-----------------------------------------------------------------------------
(* The locks *)

\* A replay or a pong holds the connection lock, and a replay serves the active socket: what
\* every other user of the lock relies on.
ReplayExcludes == \A s \in Sockets :
    /\ sv[s].pc \in {"replay", "pong"} => connLock = s
    /\ sv[s].pc = "replay" => active = s

Places == {"none", "dial", "accept", "replay", "open", "pong", "leave", "closed"}
Handlers == [pc : Places, lock : Nat, run : Nat, upto : Nat, final : BOOLEAN]
Emits == [at : Nat, upto : Nat, run : Nat, final : BOOLEAN]
Phases == {"running", "settled", "popped", "deleting", "gone"}

Modes == {"dial", "socket", "poll", "done"}
Views == [mode : Modes, try : 0 .. MaxReconnects, run : Nat, seen : SUBSET Nat]

\* Handlers are functions of the sockets, so that updating one leaves the others.
Shapes ==
    /\ sv \in [Sockets -> Handlers]
    /\ sent \in [Sockets -> SUBSET (Nat \X Nat)]
    /\ run \in Nat /\ recorded \in Nat /\ lockNow \in Nat
    /\ phase \in Phases
    /\ emit \in Emits
    /\ active \in Sockets \cup {NoSocket}
    /\ view \in [Viewers -> Views]

\* A handler at any of its places is a handler.
LEMMA AtIsHandler == \A pc \in Places : At(pc) \in Handlers /\ At(pc).pc = pc
PROOF
  BY DEF At, NoHandler, Handlers, Places

\* So is one that takes the snapshot it is going to replay.
LEMMA ReplayTyped ==
    ASSUME NEW w \in Handlers, NEW n \in Nat, NEW r \in Nat, NEW b \in BOOLEAN
    PROVE  [w EXCEPT !.pc = "replay", !.upto = n, !.run = r, !.final = b] \in Handlers
PROOF
  <1>1. "replay" \in Places
    BY DEF Places
  <1> QED BY <1>1 DEF Handlers

\* A handler that ends leaves the others alone.
LEMMA EndKeepsShapes ==
    ASSUME Shapes, NEW s \in Sockets, HandlerEnds(s)
    PROVE  sv' \in [Sockets -> Handlers] /\ sent' \in [Sockets -> SUBSET (Nat \X Nat)]
PROOF
  <1>1. At("closed") \in Handlers
    BY AtIsHandler DEF Places
  <1> QED BY <1>1 DEF Shapes, HandlerEnds

\* Nor does one that adopts its socket.
LEMMA AdoptKeepsShapes ==
    ASSUME Shapes, NEW s \in Sockets, Adopt(s)
    PROVE  sv' \in [Sockets -> Handlers] /\ sent' \in [Sockets -> SUBSET (Nat \X Nat)]
PROOF
  <1>1. CASE HandlerEnds(s)
    BY <1>1, EndKeepsShapes
  <1>2. CASE sv' = [sv EXCEPT ![s] = At("closed")] /\ UNCHANGED sent
    <2>1. At("closed") \in Handlers
      BY AtIsHandler DEF Places
    <2> QED BY <1>2, <2>1 DEF Shapes
  <1>3. CASE /\ sv' = [sv EXCEPT ![s].pc = "replay", ![s].upto = recorded,
                                  ![s].run = run, ![s].final = (phase = "settled")]
             /\ UNCHANGED sent
    <2>1. PICK fin \in BOOLEAN : fin = (phase = "settled")
      OBVIOUS
    <2> DEFINE w == [sv[s] EXCEPT !.pc = "replay", !.upto = recorded, !.run = run, !.final = fin]
    <2>2. sv[s] \in Handlers /\ recorded \in Nat /\ run \in Nat
      BY DEF Shapes
    <2>3. w \in Handlers
      BY <2>2, ReplayTyped
    <2>4. sv' = [sv EXCEPT ![s] = w]
      BY <1>3, <2>1
    <2>5. sent' = sent
      BY <1>3
    <2> HIDE DEF w
    <2> QED BY <2>3, <2>4, <2>5 DEF Shapes
  <1> QED BY <1>1, <1>2, <1>3 DEF Adopt

\* What a tab is told keeps its place in the sequence of its sockets, and never makes it dial.
ViewStable ==
    /\ view' \in [Viewers -> Views]
    /\ \A v \in Viewers : /\ view'[v].try = view[v].try
                          /\ view'[v].mode = "dial" => view[v].mode = "dial"

\* An event told to a tab, a snapshot told to it, and so the steps that tell them, keep its
\* place.
LEMMA EventKeepsView ==
    ASSUME Shapes, NEW s \in Sockets, NEW r, NEW n \in Nat, NEW fin \in BOOLEAN,
           ToView(s, EventView(view[Owner(s)], r, n, fin))
    PROVE  ViewStable
PROOF
  <1> DEFINE v == Owner(s)
             w == EventView(view[v], r, n, fin)
  <1>1. v \in Viewers
    BY DEF Owner, Sockets
  <1>2. view[v] \in Views /\ view \in [Viewers -> Views]
    BY <1>1 DEF Shapes
  <1>3. w \in Views /\ w.try = view[v].try /\ w.mode \in {view[v].mode, "done"}
    BY <1>2 DEF EventView, Views, Modes
  <1>4. view' = [view EXCEPT ![v] = w] \/ view' = view
    BY DEF ToView
  <1> HIDE DEF w, v
  <1> QED BY <1>1, <1>2, <1>3, <1>4 DEF ViewStable

\* A snapshot may end what a tab listens to, and changes nothing else of its connection.
LEMMA SnapshotTyped ==
    ASSUME MaxReconnects \in Nat, NEW w \in Views, NEW r \in Nat, NEW n \in Nat,
           NEW fin \in BOOLEAN
    PROVE  LET x == SnapshotView(w, r, 1 .. n, fin)
           IN  x \in Views /\ x.try = w.try /\ x.mode \in {w.mode, "done"}
PROOF
  <1>1. 1 .. n \subseteq Nat
    OBVIOUS
  <1> QED BY <1>1 DEF SnapshotView, Views, Modes

\* A snapshot told through a socket.
LEMMA SnapshotKeepsView ==
    ASSUME Shapes, MaxReconnects \in Nat, NEW s \in Sockets, NEW r \in Nat, NEW n \in Nat,
           NEW fin \in BOOLEAN, ToView(s, SnapshotView(view[Owner(s)], r, 1 .. n, fin))
    PROVE  ViewStable
PROOF
  <1> DEFINE v == Owner(s)
             w == SnapshotView(view[v], r, 1 .. n, fin)
  <1>1. v \in Viewers
    BY DEF Owner, Sockets
  <1>2. view[v] \in Views /\ view \in [Viewers -> Views]
    BY <1>1 DEF Shapes
  <1>3. w \in Views /\ w.try = view[v].try /\ w.mode \in {view[v].mode, "done"}
    BY <1>2, SnapshotTyped
  <1>4. view' = [view EXCEPT ![v] = w] \/ view' = view
    BY DEF ToView
  <1> HIDE DEF w, v
  <1> QED BY <1>1, <1>2, <1>3, <1>4 DEF ViewStable

\* send_to_thread keeps the place of every tab.
LEMMA BroadcastKeepsView == ASSUME Shapes, Broadcast PROVE ViewStable
PROOF
  <1> DEFINE fin == emit.final /\ emit.at = emit.upto
  <1>1. emit.at \in Nat /\ fin \in BOOLEAN
    BY DEF Shapes, Emits
  <1>2. CASE UNCHANGED view
    BY <1>2 DEF ViewStable, Shapes
  <1>3. CASE /\ active # NoSocket
             /\ ToView(active, EventView(view[Owner(active)], emit.run, emit.at, fin))
    <2>1. active \in Sockets
      BY <1>3 DEF Shapes
    <2> HIDE DEF fin
    <2> QED BY <2>1, <1>1, <1>3, EventKeepsView
  <1> QED BY <1>2, <1>3 DEF Broadcast

\* So does a replay.
LEMMA ReplayKeepsView == ASSUME Shapes, NEW s \in Sockets, Replay(s) PROVE ViewStable
PROOF
  <1>1. sv[s].run \in Nat /\ sv[s].upto \in Nat /\ sv[s].final \in BOOLEAN
    BY DEF Shapes, Handlers
  <1>2. CASE UNCHANGED view
    BY <1>2 DEF ViewStable, Shapes
  <1>3. CASE ToView(s, SnapshotView(view[Owner(s)], sv[s].run, 1 .. sv[s].upto, sv[s].final))
    BY <1>1, <1>3, SnapshotKeepsView, DeliveryConstantsOK
  <1> QED BY <1>2, <1>3 DEF Replay

\* So does a poll of the snapshot.
LEMMA PollKeepsView == ASSUME Shapes, NEW v \in Viewers, Poll(v) PROVE ViewStable
PROOF
  <1>1. view[v] \in Views /\ view \in [Viewers -> Views] /\ run \in Nat /\ recorded \in Nat
    BY DEF Shapes
  <1>2. PICK fin \in BOOLEAN : fin = (phase = "settled")
    OBVIOUS
  <1> DEFINE w == SnapshotView(view[v], run, 1 .. recorded, fin)
  <1>3. w \in Views /\ w.try = view[v].try /\ w.mode \in {view[v].mode, "done"}
    BY <1>1, SnapshotTyped, DeliveryConstantsOK
  <1>4. view' = [view EXCEPT ![v] = w]
    BY <1>2 DEF Poll
  <1> HIDE DEF w
  <1> QED BY <1>1, <1>3, <1>4 DEF ViewStable

\* Which steps move a tab, and how.
LEMMA ViewSteps ==
    ASSUME Shapes, [Next]_vars
    PROVE  \/ ViewStable
           \/ \E v \in Viewers : Dial(v) \/ SocketClosed(v)
PROOF
  <1>0. UNCHANGED view => ViewStable
    BY DEF ViewStable, Shapes
  <1>1. CASE RecordProgress \/ RecordOutcome \/ EmitCut
    BY <1>1, <1>0 DEF RecordProgress, RecordOutcome, Record, EmitCut
  <1>2. ASSUME NEW s \in Sockets,
               Enter(s) \/ Adopt(s) \/ PongEnds(s) \/ Leave(s) \/ Ping(s) \/ Break(s)
               \/ Stall(s) \/ Resume(s)
        PROVE  ViewStable
    BY <1>2, <1>0 DEF Enter, Adopt, PongEnds, Leave, Ping, Break, Stall, Resume
  <1>3. CASE (\E op \in {"delete", "replace"} : CoArrives(op)) \/ CoStep \/ DeleteRefused
    BY <1>3, <1>0 DEF CoArrives, CoStep, CoEnters, CoAwaits, CoTransport, DeleteRefused
  <1>4. ASSUME NEW v \in Viewers, ClientCloses(v) PROVE ViewStable
    BY <1>4, <1>0 DEF ClientCloses, Break
  <1>5. CASE UNCHANGED vars
    BY <1>5, <1>0 DEF vars
  <1> QED
    BY <1>1, <1>2, <1>3, <1>4, <1>5, BroadcastKeepsView, ReplayKeepsView, PollKeepsView
    DEF Next, SocketStep, ViewerStep

\* The tabs keep their type: a reconnect stays within the budget.
LEMMA ViewTyped ==
    ASSUME Shapes, [Next]_vars
    PROVE  view' \in [Viewers -> Views]
PROOF
  <1> USE DeliveryConstantsOK
  <1>1. CASE ViewStable
    BY <1>1 DEF ViewStable
  <1>2. ASSUME NEW v \in Viewers, Dial(v) PROVE view' \in [Viewers -> Views]
    BY <1>2 DEF Dial, Shapes, Views, Modes
  <1>3. ASSUME NEW v \in Viewers, SocketClosed(v) PROVE view' \in [Viewers -> Views]
    <2>1. CASE view' = [view EXCEPT ![v].mode = Recovery]
      BY <2>1 DEF Shapes, Views, Modes, Recovery
    <2>2. CASE /\ view[v].try < MaxReconnects
               /\ view' = [view EXCEPT ![v].mode = "dial", ![v].try = @ + 1]
      BY <2>2 DEF Shapes, Views, Modes
    <2> QED BY <1>3, <2>1, <2>2 DEF SocketClosed
  <1> QED BY <1>1, <1>2, <1>3, ViewSteps

\* Every handler, tab and emit keeps the shape the code gives it, whatever the steps.
THEOREM ShapesKept == Spec => []Shapes
PROOF
<1>1. Init => Shapes
  BY DeliveryConstantsOK
  DEF Views, Modes, Init, Shapes, Handlers, Places, Emits, Phases, NoHandler, NoEmit
<1>2. Shapes /\ [Next]_vars => Shapes'
  <2> SUFFICES ASSUME Shapes, [Next]_vars PROVE Shapes'
    OBVIOUS
  <2>0. view' \in [Viewers -> Views]
    BY ViewTyped
  <2> USE <2>0 DEF Shapes, Handlers, Places, Emits, Phases
  <2>1. ASSUME NEW n \in {1, 2}, NEW final \in BOOLEAN, Record(n, final) PROVE Shapes'
    <3>1. recorded + 1 \in Nat /\ recorded + n \in Nat
      OBVIOUS
    <3>2. emit' \in Emits /\ phase' \in Phases /\ recorded' \in Nat
      BY <2>1, <3>1 DEF Record
    <3>3. UNCHANGED <<sv, sent, run, lockNow, active>>
      BY <2>1 DEF Record
    <3> QED BY <3>2, <3>3
  <2>2. CASE Broadcast
    <3>1. emit' \in Emits
      BY <2>2 DEF Broadcast, Rest, NoEmit
    <3>2. sent' \in [Sockets -> SUBSET (Nat \X Nat)] /\ active' \in Sockets \cup {NoSocket}
      BY <2>2 DEF Broadcast, TimedOut
    <3> QED BY <2>2, <3>1, <3>2 DEF Broadcast, record
  <2>3. CASE EmitCut
    BY <2>3 DEF EmitCut, NoEmit, record
  <2>4. ASSUME NEW s \in Sockets, Enter(s) PROVE Shapes'
    <3>1. UNCHANGED <<run, recorded, phase, emit, lockNow, active>>
      BY <2>4 DEF Enter, record
    <3>2. sv' \in [Sockets -> Handlers] /\ sent' \in [Sockets -> SUBSET (Nat \X Nat)]
      <4>1. CASE HandlerEnds(s)
        BY <4>1, EndKeepsShapes
      <4>2. CASE sv' = [sv EXCEPT ![s].pc = "accept"] /\ UNCHANGED sent
        BY <4>2
      <4> QED BY <2>4, <4>1, <4>2 DEF Enter
    <3> QED BY <3>1, <3>2
  <2>5. ASSUME NEW s \in Sockets, Adopt(s) PROVE Shapes'
    <3>1. UNCHANGED <<run, recorded, phase, emit, lockNow>>
      BY <2>5 DEF Adopt, record
    <3>2. active' \in Sockets \cup {NoSocket}
      BY <2>5 DEF Adopt
    <3>3. sv' \in [Sockets -> Handlers] /\ sent' \in [Sockets -> SUBSET (Nat \X Nat)]
      BY <2>5, AdoptKeepsShapes
    <3> QED BY <3>1, <3>2, <3>3
  <2>6. ASSUME NEW s \in Sockets, Replay(s) PROVE Shapes'
    <3>1. UNCHANGED <<run, recorded, phase, emit, lockNow>>
      BY <2>6 DEF Replay, record
    <3>2. active' \in Sockets \cup {NoSocket}
      BY <2>6 DEF Replay
    <3>3. sv' \in [Sockets -> Handlers] /\ sent' \in [Sockets -> SUBSET (Nat \X Nat)]
      <4>1. CASE HandlerEnds(s)
        BY <4>1, EndKeepsShapes
      <4>2. CASE /\ sv' = [sv EXCEPT ![s] = At("open")]
                 /\ sent' = [sent EXCEPT ![s] = @ \cup {<<sv[s].run, n>> : n \in 0 .. sv[s].upto}]
        <5>1. {<<sv[s].run, n>> : n \in 0 .. sv[s].upto} \subseteq Nat \X Nat
          OBVIOUS
        <5>2. At("open") \in Handlers
          BY AtIsHandler
        <5> QED BY <4>2, <5>1, <5>2
      <4> QED BY <2>6, <4>1, <4>2 DEF Replay
    <3> QED BY <3>1, <3>2, <3>3
  <2>7. ASSUME NEW s \in Sockets, Ping(s) \/ PongEnds(s) PROVE Shapes'
    BY <2>7 DEF Ping, PongEnds, record
  <2>8. ASSUME NEW s \in Sockets, Leave(s) PROVE Shapes'
    BY <2>8 DEF Leave, HandlerEnds, LeftBy, At, NoHandler, record
  <2>9. ASSUME NEW s \in Sockets, Break(s) \/ Stall(s) \/ Resume(s) PROVE Shapes'
    BY <2>9 DEF Break, Stall, Resume, record
  <2>10. CASE (\E op \in {"delete", "replace"} : CoArrives(op)) \/ CoAwaits \/ DeleteRefused
    BY <2>10 DEF CoArrives, CoAwaits, DeleteRefused, record
  <2>11. CASE CoEnters
    BY <2>11 DEF CoEnters
  <2>12. CASE CoTransport
    BY <2>12 DEF CoTransport, TransportClosed
  <2>13. ASSUME NEW v \in Viewers, ViewerStep(v) PROVE Shapes'
    <3>1. CASE Dial(v)
      BY <3>1 DEF Dial, At, NoHandler, record
    <3>2. CASE SocketClosed(v) \/ Poll(v) \/ ClientCloses(v)
      BY <3>2 DEF SocketClosed, Poll, ClientCloses, Break, record
    <3> QED BY <2>13, <3>1, <3>2 DEF ViewerStep
  <2>14. CASE UNCHANGED vars
    BY <2>14 DEF vars
  <2> QED
    BY <2>1, <2>2, <2>3, <2>4, <2>5, <2>6, <2>7, <2>8, <2>9, <2>10, <2>11, <2>12, <2>13, <2>14
    DEF Next, SocketStep, CoStep, RecordProgress, RecordOutcome
<1> QED
  BY <1>1, <1>2, PTL DEF Spec

-----------------------------------------------------------------------------
(* The connection lock, and deletion *)

\* A step that takes nobody into a replay and leaves the lock and the transport alone.
TransportLeft ==
    /\ UNCHANGED <<active, connLock, discarded>>
    /\ \A s \in Sockets : sv'[s].pc \in {"replay", "pong"} => sv'[s].pc = sv[s].pc

\* Every other step is one of these.
LEMMA NobodyEntersReplay ==
    ASSUME Shapes, Shapes', [Next]_vars
    PROVE  \/ TransportLeft
           \/ Broadcast \/ CoTransport
           \/ \E s \in Sockets : Adopt(s) \/ Replay(s) \/ Leave(s) \/ Ping(s) \/ PongEnds(s)
PROOF
  <1> USE DEF TransportLeft
  <1>1. CASE RecordProgress \/ RecordOutcome \/ EmitCut
    BY <1>1 DEF RecordProgress, RecordOutcome, Record, EmitCut
  <1>2. ASSUME NEW s \in Sockets, Enter(s) PROVE TransportLeft
    <2>1. At("closed").pc = "closed"
      BY AtIsHandler DEF Places
    <2>2. CASE sv' = [sv EXCEPT ![s] = At("closed")]
      BY <1>2, <2>1, <2>2 DEF Enter, Shapes
    <2>3. CASE sv' = [sv EXCEPT ![s].pc = "accept"]
      BY <1>2, <2>3 DEF Enter, Shapes, Handlers
    <2> QED BY <1>2, <2>2, <2>3 DEF Enter, HandlerEnds
  <1>3. ASSUME NEW s \in Sockets, Break(s) \/ Stall(s) \/ Resume(s) PROVE TransportLeft
    BY <1>3 DEF Break, Stall, Resume
  <1>4. CASE (\E op \in {"delete", "replace"} : CoArrives(op)) \/ CoEnters \/ CoAwaits
             \/ DeleteRefused
    BY <1>4 DEF CoArrives, CoEnters, CoAwaits, DeleteRefused
  <1>5. ASSUME NEW v \in Viewers, Dial(v) PROVE TransportLeft
    <2> DEFINE d == [At("dial") EXCEPT !.lock = lockNow]
    <2>1. d.pc = "dial"
      BY DEF At, NoHandler
    <2>2. sv' = [sv EXCEPT ![Current(v)] = d]
      BY <1>5 DEF Dial
    <2> HIDE DEF d
    <2> QED BY <1>5, <2>1, <2>2 DEF Dial, Shapes
  <1>6. ASSUME NEW v \in Viewers, SocketClosed(v) \/ Poll(v) \/ ClientCloses(v)
        PROVE  TransportLeft
    BY <1>6 DEF SocketClosed, Poll, ClientCloses, Break
  <1>7. CASE UNCHANGED vars
    BY <1>7 DEF vars
  <1> QED
    BY <1>1, <1>2, <1>3, <1>4, <1>5, <1>6, <1>7 DEF Next, SocketStep, CoStep, ViewerStep

ConnInv == ReplayExcludes /\ DiscardIsFinal

\* The connection lock excludes, and a discarded thread stays without a connection: connect
\* looks at _discarded under the lock that discard takes.
LEMMA ConnectionExcludes == Spec => []ConnInv
PROOF
<1>1. Init => ConnInv
  BY DEF Init, ConnInv, ReplayExcludes, DiscardIsFinal, NoHandler
<1>2. Shapes /\ Shapes' /\ ConnInv /\ [Next]_vars => ConnInv'
  <2> SUFFICES ASSUME Shapes, Shapes', ConnInv, [Next]_vars PROVE ConnInv'
    OBVIOUS
  <2> USE DEF ConnInv, ReplayExcludes, DiscardIsFinal
  <2>0. NoSocket \notin Sockets
    BY DeliveryConstantsOK DEF Sockets
  <2>1. CASE TransportLeft
    BY <2>1 DEF TransportLeft
  <2>2. CASE Broadcast
    BY <2>0, <2>2 DEF Broadcast, TimedOut
  <2>3. CASE CoTransport
    BY <2>0, <2>3 DEF CoTransport, TransportClosed
  <2>4. ASSUME NEW s \in Sockets, Adopt(s) PROVE ConnInv'
    <3>1. connLock = NoSocket /\ \A t \in Sockets : sv[t].pc \notin {"replay", "pong"}
      BY <2>0, <2>4 DEF Adopt
    <3>2. CASE HandlerEnds(s) /\ UNCHANGED <<active, connLock, discarded>>
      BY <3>1, <3>2, AtIsHandler DEF HandlerEnds, Shapes, Places
    <3>3. CASE sv' = [sv EXCEPT ![s] = At("closed")] /\ active' = NoSocket
               /\ UNCHANGED <<connLock, discarded>>
      BY <3>1, <3>3, AtIsHandler DEF Shapes, Places
    <3>4. CASE /\ ~discarded /\ active' = s /\ connLock' = s /\ UNCHANGED discarded
               /\ sv' = [sv EXCEPT ![s].pc = "replay", ![s].upto = recorded,
                                   ![s].run = run, ![s].final = (phase = "settled")]
      BY <3>1, <3>4 DEF Shapes
    <3> QED BY <2>4, <3>2, <3>3, <3>4 DEF Adopt, MayConnect
  <2>5. ASSUME NEW s \in Sockets, Replay(s) PROVE ConnInv'
    <3>1. connLock = s /\ ~discarded /\ \A t \in Sockets : sv[t].pc \in {"replay", "pong"} => t = s
      BY <2>5 DEF Replay
    <3>2. \A t \in Sockets : sv'[t].pc \notin {"replay", "pong"}
      <4>1. At("open").pc = "open" /\ At("closed").pc = "closed"
        BY AtIsHandler DEF Places
      <4>2. sv' = [sv EXCEPT ![s] = At("open")] \/ sv' = [sv EXCEPT ![s] = At("closed")]
        BY <2>5 DEF Replay, HandlerEnds
      <4> QED BY <3>1, <4>1, <4>2 DEF Shapes
    <3>3. ~discarded'
      BY <2>5, <3>1 DEF Replay
    <3> QED BY <3>2, <3>3
  <2>6. ASSUME NEW s \in Sockets, Leave(s) PROVE ConnInv'
    <3>1. \A t \in Sockets : sv[t].pc \notin {"replay", "pong"}
      BY <2>0, <2>6 DEF Leave
    <3>2. \A t \in Sockets : sv'[t].pc \notin {"replay", "pong"}
      BY <2>6, <3>1, AtIsHandler DEF Leave, HandlerEnds, Shapes, Places
    <3> QED BY <2>6, <3>2 DEF Leave, LeftBy
  <2>7. ASSUME NEW s \in Sockets, Ping(s) PROVE ConnInv'
    <3>1. \A t \in Sockets : sv[t].pc \notin {"replay", "pong"}
      BY <2>0, <2>7 DEF Ping
    <3>2. \A t \in Sockets : sv'[t].pc \in {"replay", "pong"} => t = s /\ sv'[t].pc = "pong"
      BY <2>7, <3>1 DEF Ping, Shapes, Handlers
    <3> QED BY <2>7, <3>2 DEF Ping
  <2>8. ASSUME NEW s \in Sockets, PongEnds(s) PROVE ConnInv'
    <3>1. \A t \in Sockets : sv[t].pc \in {"replay", "pong"} => t = s
      BY <2>8 DEF PongEnds
    <3>2. \A t \in Sockets : sv'[t].pc \notin {"replay", "pong"}
      BY <2>8, <3>1 DEF PongEnds, Shapes, Handlers
    <3> QED BY <2>8, <3>2 DEF PongEnds
  <2> QED
    BY <2>1, <2>2, <2>3, <2>4, <2>5, <2>6, <2>7, <2>8, NobodyEntersReplay
<1> QED
  BY <1>1, <1>2, ShapesKept, PTL DEF Spec

\* The connection lock keeps the transport of a deleted task closed, whatever connects while
\* the delete runs and on whichever task lock object.
THEOREM DiscardedStaysClosed == Spec => []DiscardIsFinal
PROOF
<1>1. ConnInv => DiscardIsFinal
  BY DEF ConnInv
<1> QED
  BY <1>1, ConnectionExcludes, PTL

-----------------------------------------------------------------------------
(* One socket, one run *)

\* A replacement fences the recorder before it waits, so once the task has ended nothing is
\* being emitted until the next run begins.
EmitInv ==
    /\ co \in [op : {"idle", "delete", "replace"}, pc : {"idle", "dial", "await", "transport"},
               lock : Nat]
    /\ Emitting => emit.run = run
    /\ co.pc \in {"await", "transport"} => phase \in {"deleting", "popped"}
    /\ co.pc = "transport" /\ co.op # "delete" => ~Emitting

\* The emit in flight is of the current run: a replacement waits for the old task to end.
LEMMA EmitsAreCurrent == Spec => []EmitInv
PROOF
<1>1. Init => EmitInv
  BY DEF Init, EmitInv, Emitting, NoCo
<1>2. Shapes /\ EmitInv /\ [Next]_vars => EmitInv'
  <2> SUFFICES ASSUME Shapes, EmitInv, [Next]_vars PROVE EmitInv'
    OBVIOUS
  <2> USE DEF EmitInv, Emitting
  <2>1. ASSUME NEW n, NEW final, Record(n, final) PROVE EmitInv'
    BY <2>1 DEF Record
  <2>2. CASE Broadcast
    <3>1. Emitting /\ (emit' = NoEmit \/ emit'.run = emit.run)
      BY <2>2 DEF Broadcast, Rest, Shapes, Emits
    <3> QED BY <2>2, <3>1 DEF Broadcast, record
  <2>3. CASE EmitCut
    BY <2>3 DEF EmitCut, record
  <2>4. ASSUME NEW op \in {"delete", "replace"}, CoArrives(op) PROVE EmitInv'
    <3>1. co' = [op |-> op, pc |-> "dial", lock |-> lockNow] /\ lockNow \in Nat
      BY <2>4 DEF CoArrives, Shapes
    <3> QED BY <2>4, <3>1 DEF CoArrives, record
  <2>5. CASE CoEnters
    BY <2>5 DEF CoEnters, NoCo
  <2>6. CASE CoAwaits
    <3>1. co.op # "delete" => ~Emitting
      BY <2>6 DEF CoAwaits, TaskEnded
    <3>2. co' = [co EXCEPT !.pc = "transport"] /\ UNCHANGED <<emit, run, phase>> /\ co.pc = "await"
      BY <2>6 DEF CoAwaits, record
    <3>3. co'.op = co.op /\ co'.pc = "transport"
      BY <3>2
    <3> QED BY <3>1, <3>2, <3>3
  <2>7. CASE CoTransport
    BY <2>7 DEF CoTransport, NoCo
  <2>8. ASSUME UNCHANGED <<emit, run, phase, co>> PROVE EmitInv'
    BY <2>8
  <2>9. ASSUME NEW s \in Sockets,
               SocketStep(s) \/ Ping(s) \/ Break(s) \/ Stall(s) \/ Resume(s)
        PROVE  EmitInv'
    BY <2>8, <2>9 DEF SocketStep, Enter, Adopt, Replay, PongEnds, Leave, Ping, Break, Stall,
                      Resume, record
  <2>10. ASSUME NEW v \in Viewers, ViewerStep(v) PROVE EmitInv'
    BY <2>8, <2>10 DEF ViewerStep, Dial, SocketClosed, Poll, ClientCloses, Break, record
  <2>11. CASE DeleteRefused \/ UNCHANGED vars
    BY <2>8, <2>11 DEF DeleteRefused, vars, record
  <2> QED
    BY <2>1, <2>2, <2>3, <2>4, <2>5, <2>6, <2>7, <2>9, <2>10, <2>11
    DEF Next, CoStep, RecordProgress, RecordOutcome
<1> QED
  BY <1>1, <1>2, ShapesKept, PTL DEF Spec

\* The sockets a tab has not dialled yet have no handler; only an established socket has been
\* sent anything, and only one whose handler runs is active.
Undialled(v, k) == k > view[v].try \/ (k = view[v].try /\ view[v].mode = "dial")
PlaceInv ==
    /\ \A v \in Viewers, k \in 0 .. MaxReconnects : Undialled(v, k) => sv[<<v, k>>].pc = "none"
    /\ \A s \in Sockets : sent[s] # {} => sv[s].pc \in {"open", "pong", "leave"}
    /\ active # NoSocket => sv[active].pc \in {"replay", "open", "pong", "leave"}

\* A step of the handler of s, seen from the other sockets and from the tabs.
LEMMA HandlerStepKeepsPlaces ==
    ASSUME Shapes, PlaceInv, ViewStable, NEW s \in Sockets, NEW w \in Handlers,
           sv[s].pc # "none", sv' = [sv EXCEPT ![s] = w],
           \A t \in Sockets : t # s => sent'[t] = sent[t],
           sent'[s] # {} => w.pc \in {"open", "pong", "leave"},
           \/ active' = NoSocket
           \/ active' = s /\ w.pc \in {"replay", "open", "pong", "leave"}
           \/ active' = active /\ active # s
    PROVE  PlaceInv'
PROOF
  <1>1. \A t \in Sockets : t # s => sv'[t] = sv[t]
    BY DEF Shapes
  <1>2. sv'[s] = w
    BY DEF Shapes
  <1>3. ASSUME NEW v \in Viewers, NEW k \in 0 .. MaxReconnects, Undialled(v, k)'
        PROVE  sv'[<<v, k>>].pc = "none"
    <2>1. Undialled(v, k)
      BY <1>3 DEF Undialled, ViewStable
    <2>2. sv[<<v, k>>].pc = "none" /\ <<v, k>> \in Sockets
      BY <2>1 DEF PlaceInv, Sockets
    <2> QED BY <1>1, <2>2
  <1>4. \A t \in Sockets : sent'[t] # {} => sv'[t].pc \in {"open", "pong", "leave"}
    BY <1>1, <1>2 DEF PlaceInv
  <1>5. active' # NoSocket => sv'[active'].pc \in {"replay", "open", "pong", "leave"}
    BY <1>1, <1>2 DEF PlaceInv, Shapes
  <1> QED BY <1>3, <1>4, <1>5 DEF PlaceInv

\* Any other step leaves the handlers alone.
LEMMA OtherStepKeepsPlaces ==
    ASSUME Shapes, PlaceInv, ViewStable, UNCHANGED sv,
           active' \in {active, NoSocket},
           \A s \in Sockets : \/ sent'[s] = sent[s]
                              \/ s = active /\ sv[s].pc \in {"open", "pong", "leave"}
    PROVE  PlaceInv'
PROOF
  <1>1. \A v \in Viewers, k \in 0 .. MaxReconnects : Undialled(v, k)' => Undialled(v, k)
    BY DEF Undialled, ViewStable
  <1> QED BY <1>1 DEF PlaceInv

\* A socket that was never dialled has no handler, and only an adopted one was sent anything.
LEMMA PlacesKept == Spec => []PlaceInv
PROOF
<1>1. Init => PlaceInv
  BY DEF Init, PlaceInv, NoHandler, Sockets
<1>2. Shapes /\ ConnInv /\ PlaceInv /\ [Next]_vars => PlaceInv'
  <2> SUFFICES ASSUME Shapes, ConnInv, PlaceInv, [Next]_vars PROVE PlaceInv'
    OBVIOUS
  <2>0. /\ NoSocket \notin Sockets
        /\ \A s \in Sockets : sv[s] \in Handlers
        /\ \A pc \in Places : At(pc) \in Handlers /\ At(pc).pc = pc
        /\ connLock = NoSocket => \A s \in Sockets : sv[s].pc \notin {"replay", "pong"}
    BY DeliveryConstantsOK, AtIsHandler DEF Sockets, Shapes, ConnInv, ReplayExcludes
  <2>1. UNCHANGED view => ViewStable
    BY DEF ViewStable, Shapes
  <2>2. CASE Broadcast
    <3>1. ViewStable
      BY <2>2, BroadcastKeepsView
    <3>2. \A s \in Sockets : sent'[s] = sent[s] \/ s = active
      BY <2>2 DEF Broadcast, Shapes
    <3>3. active \in Sockets => sv[active].pc \in {"open", "pong", "leave"}
      BY <2>0, <2>2 DEF PlaceInv, Broadcast
    <3>4. active' \in {active, NoSocket} /\ UNCHANGED sv
      BY <2>2 DEF Broadcast, TimedOut
    <3> QED BY <3>1, <3>2, <3>3, <3>4, OtherStepKeepsPlaces
  <2>3. ASSUME NEW s \in Sockets, Enter(s) PROVE PlaceInv'
    <3>1. sv[s].pc = "dial" /\ active # s /\ active' = active /\ UNCHANGED view
      BY <2>0, <2>3 DEF Enter, PlaceInv
    <3>2. sent[s] = {} /\ sent' \in {sent, [sent EXCEPT ![s] = {}]}
      BY <2>3, <3>1 DEF Enter, HandlerEnds, PlaceInv
    <3>3. PICK w \in Handlers : sv' = [sv EXCEPT ![s] = w]
      BY <2>0, <2>3 DEF Enter, HandlerEnds, Places, Handlers
    <3> QED BY <2>1, <3>1, <3>2, <3>3, HandlerStepKeepsPlaces DEF Shapes
  <2>4. ASSUME NEW s \in Sockets, Adopt(s) PROVE PlaceInv'
    <3>1. sv[s].pc = "accept" /\ active # s /\ UNCHANGED view
      BY <2>0, <2>4 DEF Adopt, PlaceInv
    <3>2. sent[s] = {} /\ sent' \in {sent, [sent EXCEPT ![s] = {}]}
      BY <2>4, <3>1 DEF Adopt, HandlerEnds, PlaceInv
    <3>3. CASE sv' = [sv EXCEPT ![s] = At("closed")] /\ active' \in {active, NoSocket}
      BY <2>0, <2>1, <3>1, <3>2, <3>3, HandlerStepKeepsPlaces DEF Shapes, Places
    <3>4. CASE active' = s /\ sv' = [sv EXCEPT ![s].pc = "replay", ![s].upto = recorded,
                                   ![s].run = run, ![s].final = (phase = "settled")]
      <4> DEFINE w == [sv[s] EXCEPT !.pc = "replay", !.upto = recorded, !.run = run,
                                    !.final = (phase = "settled")]
      <4>1. (phase = "settled") \in BOOLEAN
        OBVIOUS
      <4>2. w \in Handlers /\ w.pc = "replay"
        BY <4>1 DEF Shapes, Handlers, Places
      <4>3. sv' = [sv EXCEPT ![s] = w]
        BY <3>4
      <4>4. sent'[s] = {} /\ \A t \in Sockets : t # s => sent'[t] = sent[t]
        BY <3>2 DEF Shapes
      <4> HIDE DEF w
      <4> QED BY <2>1, <3>1, <3>4, <4>2, <4>3, <4>4, HandlerStepKeepsPlaces
    <3> QED BY <2>4, <3>3, <3>4 DEF Adopt, HandlerEnds
  <2>5. ASSUME NEW s \in Sockets, Replay(s) PROVE PlaceInv'
    <3>1. sv[s].pc = "replay" /\ active = s
      BY <2>5 DEF Replay, ConnInv, ReplayExcludes
    <3>2. ViewStable
      BY <2>5, ReplayKeepsView
    <3>3. \A t \in Sockets : t # s => sent'[t] = sent[t]
      BY <2>5 DEF Replay, HandlerEnds, Shapes
    <3>4. CASE sv' = [sv EXCEPT ![s] = At("open")] /\ active' = active
      BY <2>0, <3>1, <3>2, <3>3, <3>4, HandlerStepKeepsPlaces DEF Places
    <3>5. CASE sv' = [sv EXCEPT ![s] = At("closed")] /\ active' = NoSocket /\ sent'[s] = {}
      BY <2>0, <3>1, <3>2, <3>3, <3>5, HandlerStepKeepsPlaces DEF Places
    <3> QED BY <2>5, <3>4, <3>5 DEF Replay, HandlerEnds, Shapes
  <2>6. ASSUME NEW s \in Sockets, Leave(s) PROVE PlaceInv'
    <3>1. sv[s].pc # "none" /\ UNCHANGED view /\ sent' = [sent EXCEPT ![s] = {}]
          /\ sv' = [sv EXCEPT ![s] = At("closed")]
      BY <2>6 DEF Leave, HandlerEnds
    <3>2. active' = NoSocket \/ (active' = active /\ active # s)
      BY <2>6 DEF Leave, LeftBy
    <3> QED BY <2>0, <2>1, <3>1, <3>2, HandlerStepKeepsPlaces DEF Shapes, Places
  <2>7. ASSUME NEW s \in Sockets, Ping(s) \/ PongEnds(s) PROVE PlaceInv'
    <3>1. sv[s].pc \in {"open", "pong"} /\ UNCHANGED <<view, sent, active>>
      BY <2>7 DEF Ping, PongEnds
    <3>2. PICK pc \in {"open", "pong", "leave"} : sv' = [sv EXCEPT ![s].pc = pc]
      BY <2>7 DEF Ping, PongEnds
    <3> DEFINE w == [sv[s] EXCEPT !.pc = pc]
    <3>3. w \in Handlers /\ w.pc = pc /\ sv' = [sv EXCEPT ![s] = w]
      BY <2>0, <3>2 DEF Handlers, Places
    <3> HIDE DEF w
    <3>4. active' = s \/ (active' = active /\ active # s)
      BY <3>1
    <3> QED BY <2>1, <3>1, <3>3, <3>4, HandlerStepKeepsPlaces
  <2>8. ASSUME NEW v \in Viewers, Dial(v) PROVE PlaceInv'
    <3> DEFINE s == Current(v)
               w == [At("dial") EXCEPT !.lock = lockNow]
    <3>1. s = <<v, view[v].try>> /\ view[v].try \in 0 .. MaxReconnects /\ s \in Sockets
      BY DEF Current, Shapes, Views, Sockets
    <3>2. sv[s].pc = "none" /\ sent[s] = {} /\ active # s
      <4>1. Undialled(v, view[v].try)
        BY <2>8 DEF Dial, Undialled
      <4>2. sv[<<v, view[v].try>>].pc = "none"
        BY <3>1, <4>1 DEF PlaceInv
      <4>3. sv[s].pc = "none"
        BY <3>1, <4>2
      <4> HIDE DEF s
      <4> QED BY <2>0, <3>1, <4>3 DEF PlaceInv
    <3>3. sv' = [sv EXCEPT ![s] = w] /\ UNCHANGED <<sent, active>>
      BY <2>8 DEF Dial
    <3>4. \A t \in Sockets : t # s => sv'[t] = sv[t]
      BY <3>3 DEF Shapes
    <3>5. \A u \in Viewers, k \in 0 .. MaxReconnects :
             Undialled(u, k)' => Undialled(u, k) /\ <<u, k>> # s
      <4>1. view' = [view EXCEPT ![v].mode = "socket"]
        BY <2>8 DEF Dial
      <4>2. /\ view'[v].try = view[v].try /\ view'[v].mode = "socket"
            /\ \A u \in Viewers : u # v => view'[u] = view[u]
        BY <4>1 DEF Shapes, Views
      <4> QED BY <2>8, <3>1, <4>2 DEF Undialled, Dial
    <3> HIDE DEF s, w
    <3>6. \A u \in Viewers, k \in 0 .. MaxReconnects : Undialled(u, k)' => sv'[<<u, k>>].pc = "none"
      BY <3>4, <3>5 DEF PlaceInv, Sockets
    <3> QED BY <3>2, <3>3, <3>4, <3>6 DEF PlaceInv, Shapes
  <2>9. ASSUME NEW v \in Viewers, SocketClosed(v) PROVE PlaceInv'
    <3>1. UNCHANGED <<sv, sent, active>> /\ view[v].mode = "socket"
      BY <2>9 DEF SocketClosed
    <3>2. \A u \in Viewers : u # v => view'[u] = view[u]
      BY <2>9 DEF SocketClosed, Shapes
    <3>3. \/ view'[v].mode = Recovery /\ view'[v].try = view[v].try
          \/ view'[v].try = view[v].try + 1
      BY <2>9 DEF SocketClosed, Shapes, Views
    <3>4. view[v].try \in Nat
      BY DeliveryConstantsOK DEF Shapes, Views
    <3>5. \A u \in Viewers, k \in 0 .. MaxReconnects : Undialled(u, k)' => Undialled(u, k)
      BY <3>2, <3>3, <3>4 DEF Undialled, Recovery
    <3> QED BY <3>1, <3>5 DEF PlaceInv
  <2>10. CASE UNCHANGED <<sv, sent>> /\ active' \in {active, NoSocket} /\ ViewStable
    BY <2>10, OtherStepKeepsPlaces
  <2>11. CASE RecordProgress \/ RecordOutcome \/ EmitCut \/ CoStep \/ DeleteRefused
              \/ \E op \in {"delete", "replace"} : CoArrives(op)
    BY <2>1, <2>10, <2>11 DEF RecordProgress, RecordOutcome, Record, EmitCut, CoStep, CoEnters,
       CoAwaits, CoTransport, TransportClosed, DeleteRefused, CoArrives
  <2>12. ASSUME NEW s \in Sockets, Break(s) \/ Stall(s) \/ Resume(s) PROVE PlaceInv'
    BY <2>1, <2>10, <2>12 DEF Break, Stall, Resume
  <2>13. ASSUME NEW v \in Viewers, Poll(v) \/ ClientCloses(v) PROVE PlaceInv'
    <3>1. CASE Poll(v)
      <4>1. ViewStable
        BY <3>1, PollKeepsView
      <4> QED BY <2>10, <3>1, <4>1 DEF Poll
    <3>2. CASE ClientCloses(v)
      BY <2>1, <2>10, <3>2 DEF ClientCloses, Break
    <3> QED BY <2>13, <3>1, <3>2
  <2>14. CASE UNCHANGED vars
    BY <2>1, <2>10, <2>14 DEF vars
  <2> QED
    BY <2>2, <2>3, <2>4, <2>5, <2>6, <2>7, <2>8, <2>9, <2>11, <2>12, <2>13, <2>14
    DEF Next, SocketStep, ViewerStep
<1> QED
  BY <1>1, <1>2, ShapesKept, ConnectionExcludes, PTL DEF Spec

\* A replay sends, and the active socket has been sent, only frames of the current run.
RunInv ==
    /\ \A s \in Sockets : sv[s].pc = "replay" => sv[s].run = run
    /\ \A s \in Sockets : active = s => \A p \in sent[s] : p[1] = run
    /\ SocketServesOneRun

\* A step that sends nothing to the sockets it does not empty.
LEMMA QuietStepKeepsRuns ==
    ASSUME Shapes, RunInv, UNCHANGED run,
           \A s \in Sockets : sent'[s] = sent[s] \/ sent'[s] = {},
           \A s \in Sockets : sv'[s].pc = "replay" => sv'[s].run = run,
           \A s \in Sockets : active' = s => active = s \/ sent'[s] = {}
    PROVE  RunInv'
PROOF
  BY DEF RunInv, SocketServesOneRun

\* The frames of a socket are of one run, and those of the active one of the current run.
LEMMA RunsKept == Spec => []RunInv
PROOF
<1>1. Init => RunInv
  BY DEF Init, RunInv, SocketServesOneRun, NoHandler
<1>2. Shapes /\ Shapes' /\ ConnInv /\ EmitInv /\ PlaceInv /\ RunInv /\ [Next]_vars => RunInv'
  <2> SUFFICES ASSUME Shapes, Shapes', ConnInv, EmitInv, PlaceInv, RunInv, [Next]_vars
               PROVE  RunInv'
    OBVIOUS
  <2>0. /\ NoSocket \notin Sockets
        /\ \A s \in Sockets : sv[s] \in Handlers
        /\ \A pc \in Places : At(pc) \in Handlers /\ At(pc).pc = pc
        /\ connLock = NoSocket => \A s \in Sockets : sv[s].pc \notin {"replay", "pong"}
    BY DeliveryConstantsOK, AtIsHandler DEF Sockets, Shapes, ConnInv, ReplayExcludes
  <2>1. CASE UNCHANGED <<run, sv, sent, active>>
    BY <2>1 DEF RunInv, SocketServesOneRun
  <2>2. CASE Broadcast
    <3>1. UNCHANGED <<run, sv>> /\ active' \in {active, NoSocket} /\ emit.run = run
      BY <2>2 DEF Broadcast, TimedOut, record, EmitInv
    <3>2. \A s \in Sockets : \/ sent'[s] = sent[s]
                             \/ s = active /\ sent'[s] = sent[s] \cup {<<run, emit.at>>}
      BY <2>2, <3>1 DEF Broadcast, Shapes
    <3>3. \A s \in Sockets : active = s => \A p \in sent'[s] : p[1] = run
      BY <3>2 DEF RunInv
    <3>4. \A s \in Sockets : \A a, b \in sent'[s] : a[1] = b[1]
      BY <3>2, <3>3 DEF RunInv, SocketServesOneRun
    <3> QED BY <2>0, <3>1, <3>3, <3>4 DEF RunInv, SocketServesOneRun
  <2>3. ASSUME NEW s \in Sockets, Enter(s) PROVE RunInv'
    <3>1. UNCHANGED <<run, active>> /\ sent' \in {sent, [sent EXCEPT ![s] = {}]}
      BY <2>3 DEF Enter, HandlerEnds, record
    <3>2. sv' \in {[sv EXCEPT ![s] = At("closed")], [sv EXCEPT ![s].pc = "accept"]}
      BY <2>3 DEF Enter, HandlerEnds
    <3>3. \A t \in Sockets : sv'[t].pc = "replay" => sv'[t] = sv[t]
      BY <2>0, <3>2 DEF Shapes, Handlers, Places
    <3> QED BY <3>1, <3>3, QuietStepKeepsRuns DEF Shapes, RunInv
  <2>4. ASSUME NEW s \in Sockets, Adopt(s) PROVE RunInv'
    <3>1. sv[s].pc = "accept" /\ sent[s] = {} /\ UNCHANGED run
      BY <2>4 DEF Adopt, PlaceInv, record
    <3>2. sent' \in {sent, [sent EXCEPT ![s] = {}]} /\ active' \in {active, NoSocket, s}
      BY <2>4 DEF Adopt, HandlerEnds
    <3>3. \A t \in Sockets : t # s => sv'[t] = sv[t]
      BY <2>4 DEF Adopt, HandlerEnds, Shapes
    <3>4. sv'[s].pc = "replay" => sv'[s].run = run
      <4>1. CASE sv' = [sv EXCEPT ![s] = At("closed")]
        BY <2>0, <4>1 DEF Shapes, Places
      <4>2. CASE sv' = [sv EXCEPT ![s].pc = "replay", ![s].upto = recorded,
                                  ![s].run = run, ![s].final = (phase = "settled")]
        BY <2>0, <4>2 DEF Shapes, Handlers
      <4> QED BY <2>4, <4>1, <4>2 DEF Adopt, HandlerEnds
    <3>5. \A t \in Sockets : sent'[t] = sent[t] \/ sent'[t] = {}
      BY <3>2 DEF Shapes
    <3>6. sent'[s] = {}
      BY <3>1, <3>2 DEF Shapes
    <3>7. \A t \in Sockets : active' = t => active = t \/ sent'[t] = {}
      BY <2>0, <3>2, <3>6
    <3>8. \A t \in Sockets : sv'[t].pc = "replay" => sv'[t].run = run
      BY <3>3, <3>4 DEF RunInv
    <3> QED BY <3>1, <3>5, <3>7, <3>8, QuietStepKeepsRuns
  <2>5. ASSUME NEW s \in Sockets, Replay(s) PROVE RunInv'
    <3>1. /\ active = s /\ sent[s] = {} /\ sv[s].run = run /\ UNCHANGED run
          /\ active' \in {active, NoSocket}
      BY <2>5 DEF Replay, ConnInv, ReplayExcludes, PlaceInv, RunInv, record
    <3>2. \A t \in Sockets : t # s => sent'[t] = sent[t] /\ sv'[t] = sv[t]
      BY <2>5 DEF Replay, HandlerEnds, Shapes
    <3>3. sv'[s].pc # "replay"
      <4>1. sv' \in {[sv EXCEPT ![s] = At("closed")], [sv EXCEPT ![s] = At("open")]}
        BY <2>5 DEF Replay, HandlerEnds
      <4> QED BY <2>0, <4>1 DEF Shapes, Places
    <3>4. \A p \in sent'[s] : p[1] = run
      <4>1. sent'[s] \subseteq {<<run, n>> : n \in 0 .. sv[s].upto}
        BY <2>5, <3>1 DEF Replay, HandlerEnds, Shapes
      <4> QED BY <4>1
    <3>5. \A t \in Sockets : \A a, b \in sent'[t] : a[1] = b[1]
      BY <3>2, <3>4 DEF RunInv, SocketServesOneRun
    <3>6. \A t \in Sockets : sv'[t].pc = "replay" => sv'[t].run = run
      BY <3>2, <3>3 DEF RunInv
    <3>7. \A t \in Sockets : active' = t => \A p \in sent'[t] : p[1] = run
      BY <2>0, <3>1, <3>4
    <3> QED BY <3>1, <3>5, <3>6, <3>7 DEF RunInv, SocketServesOneRun
  <2>6. ASSUME NEW s \in Sockets, Leave(s) PROVE RunInv'
    <3>1. /\ UNCHANGED run /\ active' \in {active, NoSocket}
          /\ sent' = [sent EXCEPT ![s] = {}] /\ sv' = [sv EXCEPT ![s] = At("closed")]
      BY <2>6 DEF Leave, LeftBy, HandlerEnds, record
    <3>2. \A t \in Sockets : sv'[t].pc = "replay" => sv'[t] = sv[t]
      BY <2>0, <3>1 DEF Shapes, Places
    <3> QED BY <2>0, <3>1, <3>2, QuietStepKeepsRuns DEF Shapes, RunInv
  <2>7. ASSUME NEW s \in Sockets, Ping(s) \/ PongEnds(s) PROVE RunInv'
    <3>1. UNCHANGED <<run, active, sent>>
      BY <2>7 DEF Ping, PongEnds, record
    <3>2. \E pc \in {"open", "pong", "leave"} : sv' = [sv EXCEPT ![s].pc = pc]
      BY <2>7 DEF Ping, PongEnds
    <3>3. \A t \in Sockets : sv'[t].pc = "replay" => sv'[t] = sv[t]
      BY <2>0, <3>2 DEF Shapes, Handlers
    <3> QED BY <3>1, <3>3 DEF RunInv, SocketServesOneRun
  <2>8. CASE CoTransport
    <3>1. UNCHANGED <<sv, sent>> /\ active' = NoSocket /\ connLock = NoSocket
      BY <2>8 DEF CoTransport, TransportClosed
    <3> QED BY <2>0, <3>1 DEF RunInv, SocketServesOneRun
  <2>9. ASSUME NEW v \in Viewers, Dial(v) PROVE RunInv'
    <3> DEFINE w == [At("dial") EXCEPT !.lock = lockNow]
    <3>1. w.pc = "dial" /\ sv' = [sv EXCEPT ![Current(v)] = w] /\ UNCHANGED <<run, sent, active>>
      BY <2>9 DEF Dial, At, NoHandler, record
    <3> HIDE DEF w
    <3>2. \A t \in Sockets : sv'[t].pc = "replay" => sv'[t] = sv[t]
      BY <3>1 DEF Shapes
    <3> QED BY <3>1, <3>2 DEF RunInv, SocketServesOneRun
  <2>10. CASE RecordProgress \/ RecordOutcome \/ EmitCut \/ CoEnters \/ CoAwaits \/ DeleteRefused
              \/ \E op \in {"delete", "replace"} : CoArrives(op)
    BY <2>1, <2>10 DEF RecordProgress, RecordOutcome, Record, EmitCut, CoEnters, CoAwaits,
       DeleteRefused, CoArrives, record
  <2>11. ASSUME NEW s \in Sockets, Break(s) \/ Stall(s) \/ Resume(s) PROVE RunInv'
    BY <2>1, <2>11 DEF Break, Stall, Resume, record
  <2>12. ASSUME NEW v \in Viewers, SocketClosed(v) \/ Poll(v) \/ ClientCloses(v) PROVE RunInv'
    BY <2>1, <2>12 DEF SocketClosed, Poll, ClientCloses, Break, record
  <2>13. CASE UNCHANGED vars
    BY <2>1, <2>13 DEF vars
  <2> QED
    BY <2>2, <2>3, <2>4, <2>5, <2>6, <2>7, <2>8, <2>9, <2>10, <2>11, <2>12, <2>13
    DEF Next, SocketStep, CoStep, ViewerStep
<1> QED
  BY <1>1, <1>2, ShapesKept, ConnectionExcludes, EmitsAreCurrent, PlacesKept, PTL DEF Spec

\* The replacement of a run closes the old socket before the new run can emit, and a replay
\* cannot straddle it: no socket is ever sent frames of two runs.
THEOREM OneRunPerSocket == Spec => []SocketServesOneRun
PROOF
<1>1. RunInv => SocketServesOneRun
  BY DEF RunInv
<1> QED
  BY <1>1, RunsKept, PTL

-----------------------------------------------------------------------------
(* The timeline and the types *)

\* A run that has ended is never recorded to again.
Ended == {"settled", "deleting", "gone"}

\* An emit in flight ends the timeline, and an outcome in flight has ended the run.
TimelineInv ==
    /\ Emitting => emit.upto = recorded /\ emit.at \in 1 .. emit.upto
    /\ Emitting /\ emit.final => phase \in Ended
    /\ cut \subseteq 1 .. recorded
    /\ run >= 1 /\ (run = 1 \/ run <= MaxRuns)
    /\ co.op = "replace" => run < MaxRuns
    /\ co.op = "idle" => co.pc = "idle"
    /\ phase \notin Ended => recorded <= MaxEvents
    /\ recorded <= MaxEvents + 2
    /\ co.pc \in {"await", "transport"} => (phase = "popped" <=> co.op # "delete")

\* The steps that touch the record, an emit or the handler that deletes or replaces.
LEMMA RecordSteps ==
    ASSUME [Next]_vars
    PROVE  \/ RecordProgress \/ RecordOutcome \/ Broadcast \/ EmitCut \/ CoStep
           \/ \E op \in {"delete", "replace"} : CoArrives(op)
           \/ UNCHANGED <<phase, run, recorded, emit, cut, co>>
<1>1. ASSUME NEW s \in Sockets, SocketStep(s) \/ Ping(s) \/ Break(s) \/ Stall(s) \/ Resume(s)
      PROVE  UNCHANGED <<phase, run, recorded, emit, cut, co>>
  BY <1>1 DEF SocketStep, Enter, Adopt, Replay, PongEnds, Leave, Ping, Break, Stall, Resume,
     record
<1>2. ASSUME NEW v \in Viewers, ViewerStep(v)
      PROVE  UNCHANGED <<phase, run, recorded, emit, cut, co>>
  BY <1>2 DEF ViewerStep, Dial, SocketClosed, Poll, ClientCloses, Break, record
<1>3. CASE DeleteRefused \/ UNCHANGED vars
  BY <1>3 DEF DeleteRefused, vars, record
<1> QED  BY <1>1, <1>2, <1>3 DEF Next

\* The record, the emit in flight and the commands in flight agree on where the timeline ends
\* and on whether the run has ended.
LEMMA TimelineKept == Spec => []TimelineInv
<1>1. Init => TimelineInv
  BY DeliveryConstantsOK DEF Init, TimelineInv, Emitting, Ended, NoCo
<1>2. Shapes /\ EmitInv /\ TimelineInv /\ [Next]_vars => TimelineInv'
  <2> SUFFICES ASSUME Shapes, EmitInv, TimelineInv, [Next]_vars
               PROVE  TimelineInv'
    OBVIOUS
  <2> USE DeliveryConstantsOK
  <2>0. run \in Nat /\ recorded \in Nat /\ emit \in Emits /\ phase \in Phases
    BY DEF Shapes
  <2>1. ASSUME NEW n \in {1, 2}, NEW final \in BOOLEAN, Record(n, final),
               ~final => n = 1 /\ recorded < MaxEvents
        PROVE  TimelineInv'
    <3>1. emit' = [at |-> recorded + 1, upto |-> recorded + n, run |-> run, final |-> final]
          /\ recorded' = recorded + n /\ phase = "running"
          /\ phase' = (IF final THEN "settled" ELSE phase) /\ UNCHANGED <<run, cut, co>>
      BY <2>1 DEF Record
    <3>2. emit'.upto = recorded' /\ emit'.at = recorded + 1 /\ emit'.final = final
      BY <3>1
    <3>3. co.pc \notin {"await", "transport"}
      BY <3>1 DEF EmitInv
    <3> QED  BY <2>0, <2>1, <3>1, <3>2, <3>3 DEF TimelineInv, Emitting, Ended
  <2>2. CASE Broadcast
    <3>1. UNCHANGED <<phase, run, recorded, cut, co>> /\ emit' = Rest /\ Emitting
      BY <2>2 DEF Broadcast, record
    <3>2. \/ emit' = NoEmit
          \/ /\ emit'.upto = emit.upto /\ emit'.at = emit.at + 1 /\ emit'.final = emit.final
             /\ emit.at # emit.upto
      BY <2>0, <3>1 DEF Rest, Emits
    <3> QED  BY <2>0, <3>1, <3>2 DEF TimelineInv, Emitting
  <2>3. CASE EmitCut
    <3>1. /\ UNCHANGED <<phase, run, recorded, co>> /\ emit' = NoEmit
          /\ Emitting /\ cut' = cut \cup Pending
      BY <2>3 DEF EmitCut, record
    <3>2. Pending \subseteq 1 .. recorded
      BY <2>0, <3>1 DEF TimelineInv, Pending
    <3> QED  BY <3>1, <3>2 DEF TimelineInv, Emitting
  <2>4. CASE \E op \in {"delete", "replace"} : CoArrives(op)
    <3>1. /\ UNCHANGED <<phase, run, recorded, cut, emit>> /\ co'.pc = "dial"
          /\ co'.op \in {"delete", "replace"} /\ (co'.op = "replace" => run < MaxRuns)
      BY <2>4 DEF CoArrives, record
    <3> QED  BY <3>1 DEF TimelineInv, Emitting
  <2>5. CASE CoEnters
    <3>1. UNCHANGED <<run, recorded, cut, emit>> /\ co.pc = "dial"
      BY <2>5 DEF CoEnters
    <3>2. CASE co' = NoCo /\ UNCHANGED phase
      BY <3>1, <3>2 DEF TimelineInv, Emitting, NoCo
    <3>3. CASE /\ phase' = IF co.op = "delete" THEN "deleting" ELSE "popped"
               /\ co' = [co EXCEPT !.pc = "await"]
               /\ co.op = "delete" \/ phase = "running"
      <4>1. co'.op = co.op
        BY <3>3 DEF EmitInv
      <4>2. Emitting /\ emit.final => co.op = "delete"
        BY <3>3 DEF TimelineInv, Ended
      <4> QED  BY <2>0, <3>1, <3>3, <4>1, <4>2 DEF TimelineInv, Emitting, Ended, Phases
    <3>4. co.op \in {"delete", "replace"}
      BY <3>1 DEF EmitInv, TimelineInv
    <3> QED  BY <2>5, <3>2, <3>3, <3>4 DEF CoEnters
  <2>6. CASE CoAwaits
    <3>1. /\ UNCHANGED <<phase, run, recorded, cut, emit>> /\ co'.op = co.op
          /\ co.pc = "await" /\ co'.pc = "transport"
      BY <2>6 DEF CoAwaits, record, EmitInv
    <3> QED  BY <3>1 DEF TimelineInv, Emitting
  <2>7. CASE CoTransport
    <3>1. co' = NoCo /\ UNCHANGED emit /\ co.pc = "transport"
      BY <2>7 DEF CoTransport
    <3>2. CASE co.op = "delete"
      <4>1. phase' = "gone" /\ UNCHANGED <<run, recorded, cut>>
        BY <2>7, <3>2 DEF CoTransport
      <4> QED  BY <3>1, <4>1 DEF TimelineInv, Emitting, NoCo, Ended
    <3>3. CASE co.op # "delete"
      <4>1. phase' = "running" /\ run' = run + 1 /\ recorded' = 0 /\ cut' = {} /\ ~Emitting
        BY <2>7, <3>1, <3>3 DEF CoTransport, EmitInv
      <4>2. co.op = "replace"
        BY <3>1, <3>3 DEF EmitInv, TimelineInv
      <4> QED  BY <2>0, <3>1, <4>1, <4>2 DEF TimelineInv, Emitting, NoCo, Ended
    <3> QED  BY <3>2, <3>3
  <2>8. CASE UNCHANGED <<phase, run, recorded, emit, cut, co>>
    BY <2>8 DEF TimelineInv, Emitting
  <2>9. CASE RecordProgress \/ RecordOutcome
    BY <2>1, <2>9 DEF RecordProgress, RecordOutcome
  <2> QED  BY <2>2, <2>3, <2>4, <2>5, <2>6, <2>7, <2>8, <2>9, RecordSteps DEF CoStep
<1> QED  BY <1>1, <1>2, ShapesKept, EmitsAreCurrent, PTL DEF Spec

\* What Shapes leaves out: the links, the locks and the bounded counters.
RestTyped ==
    /\ link \in [Sockets -> {"up", "stalled", "down"}]
    /\ connLock \in Sockets \cup {NoSocket} /\ discarded \in BOOLEAN
    /\ lockNow \in 1 .. MaxLocks + 1 /\ stalls \in 0 .. MaxStalls

\* The links, the connection lock and the counters keep their types.
LEMMA RestKept == Spec => []RestTyped
<1>1. Init => RestTyped
  <2> SUFFICES ASSUME Init
               PROVE  RestTyped
    OBVIOUS
  <2>1. 1 \in 1 .. MaxLocks + 1 /\ 0 \in 0 .. MaxStalls
    BY DeliveryConstantsOK
  <2> QED  BY <2>1 DEF Init, RestTyped
<1>2. Shapes /\ RestTyped /\ [Next]_vars => RestTyped'
  <2> SUFFICES ASSUME Shapes, RestTyped, [Next]_vars
               PROVE  RestTyped'
    OBVIOUS
  <2> USE DeliveryConstantsOK DEF RestTyped
  <2>1. CASE RecordProgress \/ RecordOutcome \/ EmitCut \/ CoEnters \/ CoAwaits
             \/ \E op \in {"delete", "replace"} : CoArrives(op)
    BY <2>1 DEF RecordProgress, RecordOutcome, Record, EmitCut, CoEnters, CoAwaits, CoArrives
  <2>2. CASE Broadcast
    BY <2>2 DEF Broadcast
  <2>3. CASE CoTransport
    <3>1. link' \in [Sockets -> {"up", "stalled", "down"}]
      BY <2>3 DEF CoTransport
    <3>2. lockNow' \in {lockNow, lockNow + 1} /\ (lockNow' = lockNow \/ lockNow < MaxLocks)
      BY <2>3 DEF CoTransport
    <3>3. lockNow' \in 1 .. MaxLocks + 1
      BY <3>2
    <3> QED  BY <2>3, <3>1, <3>3 DEF CoTransport
  <2>4. ASSUME NEW s \in Sockets, Enter(s) \/ Replay(s) \/ Leave(s)
        PROVE  RestTyped'
    <3>1. link' \in [Sockets -> {"up", "stalled", "down"}]
      BY <2>4 DEF Enter, Replay, Leave, HandlerEnds
    <3> QED  BY <2>4, <3>1 DEF Enter, Replay, Leave, AfterReplay
  <2>5. ASSUME NEW s \in Sockets, Adopt(s)
        PROVE  RestTyped'
    <3>1. link' \in [Sockets -> {"up", "stalled", "down"}]
      BY <2>5 DEF Adopt, HandlerEnds
    <3> QED  BY <2>5, <3>1 DEF Adopt
  <2>6. ASSUME NEW s \in Sockets, Ping(s) \/ PongEnds(s) \/ Break(s) \/ Stall(s) \/ Resume(s)
        PROVE  RestTyped'
    BY <2>6 DEF Ping, PongEnds, Break, Stall, Resume
  <2>7. ASSUME NEW v \in Viewers, ViewerStep(v)
        PROVE  RestTyped'
    BY <2>7 DEF ViewerStep, Dial, SocketClosed, Poll, ClientCloses, Break
  <2>8. CASE DeleteRefused \/ UNCHANGED vars
    BY <2>8 DEF DeleteRefused, vars
  <2> QED  BY <2>1, <2>2, <2>3, <2>4, <2>5, <2>6, <2>7, <2>8 DEF Next, SocketStep, CoStep
<1> QED  BY <1>1, <1>2, ShapesKept, PTL DEF Spec

\* Every variable keeps its type; in particular a timeline holds at most the events of a run
\* and its outcome, and an emit sends no event that is not recorded (Monitor.emit).
THEOREM DeliveryTyped == Spec => []TypeOK
<1>1. Shapes /\ RestTyped /\ EmitInv /\ TimelineInv => TypeOK
  <2> SUFFICES ASSUME Shapes, RestTyped, EmitInv, TimelineInv
               PROVE  TypeOK
    OBVIOUS
  <2>1. run \in 1 .. MaxRuns + 1 /\ recorded \in 0 .. MaxEvents + 2
    BY DeliveryConstantsOK DEF TimelineInv, Shapes
  <2>2. emit = NoEmit \/ emit \in [at : 1 .. emit.upto, upto : 1 .. recorded, run : {run},
                                   final : BOOLEAN]
    <3> SUFFICES ASSUME Emitting
                 PROVE  emit \in [at : 1 .. emit.upto, upto : 1 .. recorded, run : {run},
                                  final : BOOLEAN]
      BY DEF Emitting
    <3>1. /\ emit \in Emits /\ emit.at \in 1 .. emit.upto /\ emit.upto \in 1 .. recorded
          /\ emit.run = run
      BY DEF Shapes, Emits, TimelineInv, EmitInv
    <3> QED  BY <3>1 DEF Emits
  <2>3. cut \subseteq 1 .. recorded
    BY DEF TimelineInv
  <2>4. sv \in [Sockets -> [pc : {"none", "dial", "accept", "replay", "open", "pong", "leave",
                                  "closed"},
                            lock : Nat, run : Nat, upto : Nat, final : BOOLEAN]]
    BY DEF Shapes, Handlers, Places
  <2>5. \A s \in Sockets : sent[s] \subseteq Nat \X Nat
    BY DEF Shapes
  <2>6. view \in [Viewers -> [mode : {"dial", "socket", "poll", "done"},
                              try : 0 .. MaxReconnects, run : Nat, seen : SUBSET Nat]]
    BY DEF Shapes, Views, Modes
  <2> QED  BY <2>1, <2>2, <2>3, <2>4, <2>5, <2>6 DEF TypeOK, Shapes, Phases, RestTyped, EmitInv
<1> QED  BY <1>1, ShapesKept, RestKept, EmitsAreCurrent, TimelineKept, PTL

-----------------------------------------------------------------------------
(* What a served socket has been sent *)

\* Recorded and not sent: about to be sent, or never to be.
Unsent == cut \cup Pending

\* No step makes an event go unsaid: one that is recorded is unsent, and leaves that set only
\* in its broadcast.
LEMMA UnsentMoves ==
    ASSUME Shapes, TimelineInv, [Next]_vars, NEW n \in 1 .. recorded'
    PROVE  \/ n \in Unsent'
           \/ n \in 1 .. recorded /\ n \notin Unsent
           \/ Broadcast /\ n = emit.at
<1>0. recorded \in Nat /\ emit \in Emits
  BY DEF Shapes
<1>1. ASSUME NEW k \in {1, 2}, NEW final, Record(k, final)
      PROVE  n \in Unsent' \/ (n \in 1 .. recorded /\ n \notin Unsent)
  <2>1. /\ emit = NoEmit /\ recorded' = recorded + k /\ cut' = cut
        /\ emit' = [at |-> recorded + 1, upto |-> recorded + k, run |-> run, final |-> final]
    BY <1>1 DEF Record, Emitting
  <2>2. Pending' = recorded + 1 .. recorded + k /\ Pending = {}
    BY <2>1 DEF Pending, NoEmit
  <2> QED  BY <1>0, <2>1, <2>2 DEF Unsent
<1>2. CASE Broadcast
  <2>1. UNCHANGED <<recorded, cut>> /\ emit' = Rest
    BY <1>2 DEF Broadcast, record
  <2>2. \A m \in Pending : m = emit.at \/ m \in Pending'
    BY <1>0, <2>1 DEF Pending, Rest, Emits, NoEmit
  <2> QED  BY <1>2, <2>1, <2>2 DEF Unsent
<1>3. CASE EmitCut
  <2>1. recorded' = recorded /\ cut' = cut \cup Pending
    BY <1>3 DEF EmitCut, record
  <2> QED  BY <2>1 DEF Unsent
<1>4. CASE CoStep
  <2>1. UNCHANGED <<recorded, cut, emit>> \/ recorded' = 0
    BY <1>4 DEF CoStep, CoEnters, CoAwaits, CoTransport, record
  <2> QED  BY <2>1 DEF Unsent, Pending
<1>5. CASE \/ \E op \in {"delete", "replace"} : CoArrives(op)
           \/ UNCHANGED <<phase, run, recorded, emit, cut, co>>
  BY <1>5 DEF Unsent, Pending, CoArrives, record
<1> QED  BY <1>1, <1>2, <1>3, <1>4, <1>5, RecordSteps DEF RecordProgress, RecordOutcome

\* A socket becomes established only by its replay, and keeps what it was sent.
LEMMA EstablishedMoves ==
    ASSUME Shapes, RestTyped, ConnInv, PlaceInv, [Next]_vars,
           NEW s \in Sockets, Established(s)'
    PROVE  \/ Replay(s)
           \/ /\ Established(s) /\ run' = run /\ sent[s] \subseteq sent'[s]
              /\ sv'[s].pc # "replay"
<1> DEFINE Stays == Established(s) /\ run' = run /\ sent[s] \subseteq sent'[s]
                    /\ sv'[s].pc # "replay"
<1>0. /\ s # NoSocket /\ NoSocket \notin Sockets
      /\ At("closed").pc = "closed" /\ At("open").pc = "open" /\ At("dial").pc = "dial"
  BY DeliveryConstantsOK, AtIsHandler DEF Sockets, Places
<1>a. active' = s /\ sv'[s].pc \in {"open", "pong"} /\ link'[s] # "down"
  BY DEF Established
<1>1. ASSUME UNCHANGED <<run, sent, sv, link, active>>
      PROVE  Stays
  BY <1>1, <1>a DEF Established
<1>2. CASE RecordProgress \/ RecordOutcome \/ EmitCut \/ CoEnters \/ CoAwaits
           \/ (\E op \in {"delete", "replace"} : CoArrives(op)) \/ DeleteRefused \/ UNCHANGED vars
  BY <1>1, <1>2 DEF RecordProgress, RecordOutcome, Record, EmitCut, CoEnters, CoAwaits,
     CoArrives, DeleteRefused, vars, record
<1>3. CASE Broadcast
  <2>1. UNCHANGED <<run, sv>> /\ active = s /\ (link' = link \/ link' = [link EXCEPT ![s] = "down"])
    BY <1>0, <1>3, <1>a DEF Broadcast, TimedOut, record
  <2>2. link'[s] = link[s] /\ sent[s] \subseteq sent'[s]
    BY <1>3, <1>a, <2>1 DEF Broadcast, RestTyped, Shapes
  <2> QED  BY <1>a, <2>1, <2>2 DEF Established
<1>4. CASE CoTransport
  BY <1>0, <1>4, <1>a DEF CoTransport, TransportClosed
<1>5. ASSUME NEW t \in Sockets, HandlerEnds(t), active' \in {active, NoSocket}, run' = run
      PROVE  Stays
  <2>1. s # t
    BY <1>0, <1>5, <1>a DEF HandlerEnds, Shapes
  <2> QED  BY <1>0, <1>5, <1>a, <2>1 DEF HandlerEnds, Shapes, RestTyped, Established
<1>6. ASSUME NEW t \in Sockets, Enter(t)
      PROVE  Stays
  <2>1. CASE sv' = [sv EXCEPT ![t].pc = "accept"] /\ UNCHANGED <<link, sent, active, run>>
    BY <1>a, <2>1 DEF Shapes, Handlers, Established
  <2> QED  BY <1>5, <1>6, <2>1 DEF Enter, record
<1>7. ASSUME NEW t \in Sockets, Adopt(t)
      PROVE  Stays
  <2>1. CASE /\ sv' = [sv EXCEPT ![t] = At("closed")]
             /\ active' = NoSocket
    BY <1>0, <1>a, <2>1
  <2>2. CASE sv' = [sv EXCEPT ![t].pc = "replay", ![t].upto = recorded,
                              ![t].run = run, ![t].final = (phase = "settled")] /\ active' = t
    <3>1. sv'[t].pc = "replay"
      BY <2>2 DEF Shapes, Handlers
    <3> QED  BY <1>a, <2>2, <3>1
  <2> QED  BY <1>5, <1>7, <2>1, <2>2 DEF Adopt, record
<1>8. ASSUME NEW t \in Sockets, Replay(t)
      PROVE  t = s
  BY <1>0, <1>8, <1>a DEF Replay, ConnInv, ReplayExcludes
<1>9. ASSUME NEW t \in Sockets, Leave(t)
      PROVE  Stays
  BY <1>5, <1>9 DEF Leave, LeftBy, record
<1>10. ASSUME NEW t \in Sockets, Ping(t) \/ PongEnds(t)
       PROVE  Stays
  <2>1. UNCHANGED <<run, sent, link, active>> /\ sv[t].pc \in {"open", "pong"}
    BY <1>10 DEF Ping, PongEnds, record
  <2>2. \A u \in Sockets : u # t => sv'[u] = sv[u]
    BY <1>10 DEF Ping, PongEnds, Shapes
  <2> QED  BY <1>a, <2>1, <2>2 DEF Established
<1>11. ASSUME NEW t \in Sockets, Break(t) \/ Stall(t) \/ Resume(t)
       PROVE  Stays
  BY <1>11, <1>a DEF Break, Stall, Resume, RestTyped, Established, record
<1>12. ASSUME NEW v \in Viewers, Dial(v)
       PROVE  Stays
  <2> DEFINE w == [At("dial") EXCEPT !.lock = lockNow]
  <2>1. w.pc = "dial"
    BY DEF At, NoHandler
  <2>2. /\ sv' = [sv EXCEPT ![Current(v)] = w] /\ link' = [link EXCEPT ![Current(v)] = "up"]
        /\ UNCHANGED <<run, sent, active>>
    BY <1>12 DEF Dial, record
  <2> HIDE DEF w
  <2>3. s # Current(v)
    BY <1>a, <2>1, <2>2 DEF Shapes
  <2> QED  BY <1>a, <2>2, <2>3 DEF Shapes, RestTyped, Established
<1>13. ASSUME NEW v \in Viewers, SocketClosed(v) \/ Poll(v)
       PROVE  Stays
  BY <1>1, <1>13 DEF SocketClosed, Poll, record
<1>14. ASSUME NEW v \in Viewers, ClientCloses(v)
       PROVE  Stays
  BY <1>14, <1>a DEF ClientCloses, Break, RestTyped, Established, record
<1> QED  BY <1>2, <1>3, <1>4, <1>6, <1>7, <1>8, <1>9, <1>10, <1>11, <1>12, <1>13, <1>14
         DEF Next, SocketStep, CoStep, ViewerStep

\* The inductive invariant: what a replay will not send is unsent, and it will not send the
\* end of a timeline that goes on.
LiveInv ==
    /\ LiveSocketMissesOnlyCut
    /\ \A s \in Sockets : sv[s].pc = "replay" =>
          /\ \A n \in 1 .. recorded : n <= sv[s].upto \/ n \in Unsent
          /\ sv[s].final => phase \in Ended /\ sv[s].upto = recorded

\* Only an adoption starts a replay.
LEMMA ReplayMoves ==
    ASSUME Shapes, ConnInv, [Next]_vars, NEW s \in Sockets, sv'[s].pc = "replay"
    PROVE  \/ sv'[s] = sv[s] /\ ~Broadcast /\ ~CoTransport
           \/ /\ sv'[s].upto = recorded /\ (sv'[s].final => phase = "settled")
              /\ UNCHANGED <<phase, recorded, run, emit, cut>>
<1>0. /\ NoSocket \notin Sockets
      /\ At("closed").pc = "closed" /\ At("open").pc = "open"
  BY DeliveryConstantsOK, AtIsHandler DEF Sockets, Places
<1>1. ASSUME sv'[s] = sv[s]
      PROVE  ~Broadcast /\ ~CoTransport
  BY <1>0, <1>1 DEF ConnInv, ReplayExcludes, Broadcast, CoTransport
<1>2. ASSUME UNCHANGED sv
      PROVE  sv'[s] = sv[s]
  BY <1>2
<1>3. CASE RecordProgress \/ RecordOutcome \/ EmitCut \/ CoStep \/ Broadcast
           \/ (\E op \in {"delete", "replace"} : CoArrives(op)) \/ DeleteRefused \/ UNCHANGED vars
  BY <1>1, <1>2, <1>3 DEF RecordProgress, RecordOutcome, Record, EmitCut, CoStep, CoEnters,
     CoAwaits, CoTransport, CoArrives, DeleteRefused, vars, Broadcast
<1>4. ASSUME NEW t \in Sockets, HandlerEnds(t)
      PROVE  sv'[s] = sv[s]
  BY <1>0, <1>4 DEF HandlerEnds, Shapes
<1>5. ASSUME NEW t \in Sockets, Enter(t)
      PROVE  sv'[s] = sv[s]
  BY <1>4, <1>5 DEF Enter, Shapes, Handlers
<1>6. ASSUME NEW t \in Sockets, Adopt(t)
      PROVE  \/ sv'[s] = sv[s]
             \/ /\ sv'[s].upto = recorded /\ (sv'[s].final => phase = "settled")
                /\ UNCHANGED <<phase, recorded, run, emit, cut>>
  <2>1. CASE sv' = [sv EXCEPT ![t] = At("closed")]
    BY <1>0, <2>1 DEF Shapes
  <2>2. CASE sv' = [sv EXCEPT ![t].pc = "replay", ![t].upto = recorded,
                              ![t].run = run, ![t].final = (phase = "settled")]
    BY <1>6, <2>2 DEF Adopt, Shapes, Handlers, record
  <2> QED  BY <1>4, <1>6, <2>1, <2>2 DEF Adopt
<1>7. ASSUME NEW t \in Sockets, Replay(t)
      PROVE  sv'[s] = sv[s]
  BY <1>0, <1>4, <1>7 DEF Replay, Shapes
<1>8. ASSUME NEW t \in Sockets, Leave(t)
      PROVE  sv'[s] = sv[s]
  BY <1>4, <1>8 DEF Leave
<1>9. ASSUME NEW t \in Sockets, Ping(t) \/ PongEnds(t)
      PROVE  sv'[s] = sv[s]
  BY <1>9 DEF Ping, PongEnds, Shapes, Handlers
<1>10. ASSUME NEW t \in Sockets, Break(t) \/ Stall(t) \/ Resume(t)
       PROVE  sv'[s] = sv[s]
  BY <1>10 DEF Break, Stall, Resume
<1>11. ASSUME NEW v \in Viewers, Dial(v)
       PROVE  sv'[s] = sv[s]
  <2> DEFINE w == [At("dial") EXCEPT !.lock = lockNow]
  <2>1. w.pc = "dial"
    BY DEF At, NoHandler
  <2>2. sv' = [sv EXCEPT ![Current(v)] = w]
    BY <1>11 DEF Dial
  <2> HIDE DEF w
  <2> QED  BY <2>1, <2>2 DEF Shapes
<1>12. ASSUME NEW v \in Viewers, SocketClosed(v) \/ Poll(v) \/ ClientCloses(v)
       PROVE  sv'[s] = sv[s]
  BY <1>12 DEF SocketClosed, Poll, ClientCloses, Break
<1> QED  BY <1>1, <1>3, <1>5, <1>6, <1>7, <1>8, <1>9, <1>10, <1>11, <1>12
         DEF Next, SocketStep, ViewerStep

\* An ended run stays ended, and its timeline as it is, until the next run begins.
LEMMA EndedMoves ==
    ASSUME Shapes, TimelineInv, EmitInv, [Next]_vars, phase \in Ended
    PROVE  phase' \in Ended /\ UNCHANGED <<run, recorded>> /\ cut \subseteq cut'
<1>1. CASE RecordProgress \/ RecordOutcome
  BY <1>1 DEF RecordProgress, RecordOutcome, Record, Ended
<1>2. CASE Broadcast \/ EmitCut \/ CoAwaits
  BY <1>2 DEF Broadcast, EmitCut, CoAwaits, record
<1>3. CASE CoEnters
  BY <1>3 DEF CoEnters, EmitInv, TimelineInv, Ended
<1>4. CASE CoTransport
  BY <1>4 DEF CoTransport, TimelineInv, Ended
<1>5. CASE \/ \E op \in {"delete", "replace"} : CoArrives(op)
           \/ UNCHANGED <<phase, run, recorded, emit, cut, co>>
  BY <1>5 DEF CoArrives, record
<1> QED  BY <1>1, <1>2, <1>3, <1>4, <1>5, RecordSteps DEF CoStep

\* A replay and the emits leave no gap: what connect read the snapshot too early for is still
\* to be broadcast, behind the connection lock the replay holds.
LEMMA LiveKept == Spec => []LiveInv
<1>1. Init => LiveInv
  BY DeliveryConstantsOK DEF Init, LiveInv, LiveSocketMissesOnlyCut, Established, NoHandler
<1>2. /\ Shapes /\ RestTyped /\ ConnInv /\ EmitInv /\ TimelineInv /\ PlaceInv /\ RunInv
      /\ LiveInv /\ [Next]_vars
      => LiveInv'
  <2> SUFFICES ASSUME Shapes, RestTyped, ConnInv, EmitInv, TimelineInv, PlaceInv, RunInv,
                      LiveInv, [Next]_vars
               PROVE  LiveInv'
    OBVIOUS
  <2>0. NoSocket \notin Sockets /\ recorded \in Nat
    BY DeliveryConstantsOK DEF Sockets, Shapes
  <2>1. ASSUME NEW s \in Sockets, Established(s)', NEW n \in 1 .. recorded'
        PROVE  <<run', n>> \in sent'[s] \/ n \in Unsent'
    <3>1. \/ n \in Unsent'
          \/ n \in 1 .. recorded /\ n \notin Unsent
          \/ Broadcast /\ n = emit.at
      BY <2>1, UnsentMoves
    <3>2. CASE Replay(s)
      <4>1. ~Broadcast /\ UNCHANGED <<run, recorded>> /\ sv[s].pc = "replay" /\ sv[s].run = run
        BY <2>0, <3>2 DEF Broadcast, Replay, ConnInv, ReplayExcludes, RunInv, record
      <4>2. sent'[s] = sent[s] \cup {<<sv[s].run, m>> : m \in 0 .. sv[s].upto}
        <5>1. ~HandlerEnds(s)
          BY <2>1, AtIsHandler DEF HandlerEnds, Established, Shapes, Places
        <5> QED  BY <3>2, <5>1 DEF Replay, Shapes
      <4>3. n \in 1 .. recorded
        BY <4>1
      <4>4. n <= sv[s].upto \/ n \in Unsent
        BY <4>1, <4>3 DEF LiveInv
      <4>5. n \in 0 .. sv[s].upto => <<run', n>> \in sent'[s]
        BY <4>1, <4>2
      <4>6. sv[s].upto \in Nat
        BY DEF Shapes, Handlers
      <4> QED  BY <3>1, <4>1, <4>3, <4>4, <4>5, <4>6
    <3>3. CASE Established(s) /\ run' = run /\ sent[s] \subseteq sent'[s]
      <4>1. CASE n \in 1 .. recorded /\ n \notin Unsent
        BY <3>3, <4>1 DEF LiveInv, LiveSocketMissesOnlyCut, Unsent
      <4>2. CASE Broadcast /\ n = emit.at
        <5>1. active = s /\ active' = s /\ emit.run = run /\ ~discarded
          BY <2>1, <3>3, <4>2, <2>0 DEF Established, EmitInv, Broadcast, ConnInv, DiscardIsFinal
        <5>2. <<emit.run, n>> \in sent'[s]
          BY <2>0, <4>2, <5>1 DEF Broadcast, TimedOut, Shapes
        <5> QED  BY <3>3, <5>1, <5>2
      <4> QED  BY <3>1, <4>1, <4>2
    <3> QED  BY <2>1, <3>2, <3>3, EstablishedMoves
  <2>2. ASSUME NEW s \in Sockets, sv'[s].pc = "replay"
        PROVE  /\ \A n \in 1 .. recorded' : n <= sv'[s].upto \/ n \in Unsent'
               /\ sv'[s].final => phase' \in Ended /\ sv'[s].upto = recorded'
    <3>1. CASE sv'[s] = sv[s] /\ ~Broadcast
      <4>1. /\ \A n \in 1 .. recorded : n <= sv[s].upto \/ n \in Unsent
            /\ sv[s].final => phase \in Ended /\ sv[s].upto = recorded
        BY <2>2, <3>1 DEF LiveInv
      <4>2. \A n \in 1 .. recorded' : n \in Unsent' \/ (n \in 1 .. recorded /\ n \notin Unsent)
        BY <3>1, UnsentMoves
      <4>3. phase \in Ended => phase' \in Ended /\ recorded' = recorded
        BY EndedMoves
      <4> QED  BY <3>1, <4>1, <4>2, <4>3
    <3>2. CASE /\ sv'[s].upto = recorded /\ (sv'[s].final => phase = "settled")
               /\ UNCHANGED <<phase, recorded, run, emit, cut>>
      BY <2>0, <3>2 DEF Ended
    <3> QED  BY <2>2, <3>1, <3>2, ReplayMoves
  <2> QED  BY <2>1, <2>2 DEF LiveInv, LiveSocketMissesOnlyCut, Unsent
<1> QED  BY <1>1, <1>2, ShapesKept, RestKept, ConnectionExcludes, EmitsAreCurrent, TimelineKept,
            PlacesKept, RunsKept, PTL DEF Spec

\* A socket the manager serves misses only events that are being sent or whose emit was
\* cancelled, for any number of tabs, runs, events and reconnects (ConnectionManager.connect
\* and send_to_thread).
THEOREM ServedSocketMissesNothing == Spec => []LiveSocketMissesOnlyCut
<1>1. LiveInv => LiveSocketMissesOnlyCut
  BY DEF LiveInv
<1> QED  BY <1>1, LiveKept, PTL

-----------------------------------------------------------------------------
(* Who is taken out of service *)

\* As long as no client has stopped reading, a connected socket whose handler reads on is the
\* one in service.
ServedInv == stalls = 0 => \A s \in Sockets :
    /\ link[s] # "stalled"
    /\ sv[s].pc \in {"open", "pong"} /\ link[s] = "up" => active = s

\* The stalls are only counted up.
LEMMA StallsGrow == ASSUME RestTyped, [Next]_vars PROVE stalls' \in {stalls, stalls + 1}
<1>1. CASE RecordProgress \/ RecordOutcome \/ Broadcast \/ EmitCut \/ CoStep \/ DeleteRefused
           \/ (\E op \in {"delete", "replace"} : CoArrives(op)) \/ UNCHANGED vars
  BY <1>1 DEF RecordProgress, RecordOutcome, Record, Broadcast, EmitCut, CoStep, CoEnters,
     CoAwaits, CoTransport, DeleteRefused, CoArrives, vars
<1>2. ASSUME NEW t \in Sockets, SocketStep(t) \/ Ping(t) \/ Break(t) \/ Resume(t)
      PROVE  stalls' = stalls
  BY <1>2 DEF SocketStep, Enter, Adopt, Replay, PongEnds, Leave, Ping, Break, Resume
<1>3. ASSUME NEW t \in Sockets, Stall(t)
      PROVE  stalls' = stalls + 1
  BY <1>3 DEF Stall
<1>4. ASSUME NEW v \in Viewers, ViewerStep(v)
      PROVE  stalls' = stalls
  BY <1>4 DEF ViewerStep, Dial, SocketClosed, Poll, ClientCloses, Break
<1> QED  BY <1>1, <1>2, <1>3, <1>4 DEF Next

\* No step but the send that times out on a client that does not read takes a connected socket
\* out of service and leaves it open.
LEMMA ServedKept == Spec => []ServedInv
<1>1. Init => ServedInv
  BY DEF Init, ServedInv, NoHandler
<1>2. Shapes /\ RestTyped /\ ConnInv /\ PlaceInv /\ ServedInv /\ [Next]_vars => ServedInv'
  <2> SUFFICES ASSUME Shapes, RestTyped, ConnInv, PlaceInv, ServedInv, [Next]_vars,
                      stalls' = 0, NEW s \in Sockets
               PROVE  /\ link'[s] # "stalled"
                      /\ sv'[s].pc \in {"open", "pong"} /\ link'[s] = "up" => active' = s
    BY DEF ServedInv
  <2> DEFINE Serves == /\ link'[s] # "stalled"
                       /\ sv'[s].pc \in {"open", "pong"} /\ link'[s] = "up" => active' = s
  <2>0. /\ NoSocket \notin Sockets
        /\ At("closed").pc = "closed" /\ At("open").pc = "open" /\ At("dial").pc = "dial"
    BY DeliveryConstantsOK, AtIsHandler DEF Sockets, Places
  <2>1. stalls = 0
    BY StallsGrow DEF RestTyped
  <2>a. /\ link[s] # "stalled"
        /\ sv[s].pc \in {"open", "pong"} /\ link[s] = "up" => active = s
    BY <2>1 DEF ServedInv
  <2>2. ASSUME UNCHANGED <<sv, link, active>>
        PROVE  Serves
    BY <2>2, <2>a
  <2>3. CASE RecordProgress \/ RecordOutcome \/ EmitCut \/ CoEnters \/ CoAwaits
             \/ (\E op \in {"delete", "replace"} : CoArrives(op)) \/ DeleteRefused
             \/ UNCHANGED vars
    BY <2>2, <2>3 DEF RecordProgress, RecordOutcome, Record, EmitCut, CoEnters, CoAwaits,
       CoArrives, DeleteRefused, vars
  <2>4. CASE Broadcast
    <3>1. /\ UNCHANGED sv
          /\ \/ link' = link /\ active' = active
             \/ link' = [link EXCEPT ![active] = "down"] /\ active' = active
             \/ link' = link /\ link[active] # "up" /\ active' = NoSocket
      BY <2>4 DEF Broadcast, TimedOut
    <3> QED  BY <2>a, <3>1 DEF RestTyped
  <2>5. CASE CoTransport
    <3>1. /\ UNCHANGED sv
          /\ link' = [t \in Sockets |-> IF t = active THEN "down" ELSE link[t]]
      BY <2>5 DEF CoTransport
    <3> QED  BY <2>a, <3>1
  <2>6. ASSUME NEW t \in Sockets, HandlerEnds(t), active' = active \/ active = t
        PROVE  Serves
    BY <2>0, <2>6, <2>a DEF HandlerEnds, Shapes, RestTyped
  <2>7. ASSUME NEW t \in Sockets, Enter(t)
        PROVE  Serves
    <3>1. CASE sv' = [sv EXCEPT ![t].pc = "accept"] /\ UNCHANGED <<link, active>>
      BY <2>a, <3>1 DEF Shapes, Handlers
    <3> QED  BY <2>6, <2>7, <3>1 DEF Enter
  <2>8. ASSUME NEW t \in Sockets, Adopt(t)
        PROVE  Serves
    <3>1. CASE /\ sv' = [sv EXCEPT ![t] = At("closed")]
               /\ link' = [u \in Sockets |-> IF u \in {t, active} THEN "down" ELSE link[u]]
      BY <2>a, <3>1 DEF Shapes
    <3>2. CASE /\ sv' = [sv EXCEPT ![t].pc = "replay", ![t].upto = recorded,
                                   ![t].run = run, ![t].final = (phase = "settled")]
               /\ link' = [u \in Sockets |-> IF u = active /\ u # t THEN "down" ELSE link[u]]
      <4>1. sv'[t].pc = "replay" /\ \A u \in Sockets : u # t => sv'[u] = sv[u]
        BY <3>2 DEF Shapes, Handlers
      <4> QED  BY <2>a, <3>2, <4>1
    <3> QED  BY <2>6, <2>8, <3>1, <3>2 DEF Adopt
  <2>9. ASSUME NEW t \in Sockets, Replay(t)
        PROVE  Serves
    <3>1. active = t
      BY <2>9 DEF Replay, ConnInv, ReplayExcludes
    <3>2. CASE /\ sv' = [sv EXCEPT ![t] = At("open")] /\ active' = active
               /\ link' = link \/ link' = [link EXCEPT ![t] = "down"]
      BY <2>a, <3>1, <3>2 DEF Shapes, RestTyped
    <3> QED  BY <2>6, <2>9, <3>1, <3>2 DEF Replay
  <2>10. ASSUME NEW t \in Sockets, Leave(t)
         PROVE  Serves
    BY <2>6, <2>10 DEF Leave, LeftBy
  <2>11. ASSUME NEW t \in Sockets, Ping(t) \/ PongEnds(t)
         PROVE  Serves
    <3>1. UNCHANGED <<link, active>> /\ sv[t].pc \in {"open", "pong"}
      BY <2>11 DEF Ping, PongEnds
    <3>2. \A u \in Sockets : u # t => sv'[u] = sv[u]
      BY <2>11 DEF Ping, PongEnds, Shapes
    <3> QED  BY <2>a, <3>1, <3>2
  <2>12. ASSUME NEW t \in Sockets, Break(t)
         PROVE  Serves
    BY <2>12, <2>a DEF Break, RestTyped
  <2>13. ASSUME NEW t \in Sockets, Resume(t)
         PROVE  Serves
    BY <2>1, <2>13 DEF Resume, ServedInv
  <2>14. ASSUME NEW t \in Sockets, Stall(t)
         PROVE  Serves
    BY <2>1, <2>14 DEF Stall
  <2>15. ASSUME NEW v \in Viewers, Dial(v)
         PROVE  Serves
    <3> DEFINE w == [At("dial") EXCEPT !.lock = lockNow]
    <3>1. w.pc = "dial"
      BY DEF At, NoHandler
    <3>2. /\ sv' = [sv EXCEPT ![Current(v)] = w] /\ link' = [link EXCEPT ![Current(v)] = "up"]
          /\ active' = active
      BY <2>15 DEF Dial
    <3> HIDE DEF w
    <3> QED  BY <2>a, <3>1, <3>2 DEF Shapes, RestTyped
  <2>16. ASSUME NEW v \in Viewers, SocketClosed(v) \/ Poll(v)
         PROVE  Serves
    BY <2>2, <2>16 DEF SocketClosed, Poll
  <2>17. ASSUME NEW v \in Viewers, ClientCloses(v)
         PROVE  Serves
    BY <2>17, <2>a DEF ClientCloses, Break, RestTyped
  <2> QED  BY <2>3, <2>4, <2>5, <2>7, <2>8, <2>9, <2>10, <2>11, <2>12, <2>13, <2>14, <2>15,
              <2>16, <2>17 DEF Next, SocketStep, CoStep, ViewerStep
<1> QED  BY <1>1, <1>2, ShapesKept, RestKept, ConnectionExcludes, PlacesKept, PTL DEF Spec

\* A tab whose connection is up loses its place in `active` only after some client stopped
\* reading (ConnectionManager.disconnect removes nobody but the socket that leaves).
THEOREM OnlyAStallOrphans == Spec => []OrphanedOnlyByStall
<1>1. Shapes /\ RestTyped /\ ServedInv => OrphanedOnlyByStall
  <2> SUFFICES ASSUME Shapes, RestTyped, ServedInv, NEW v \in Viewers, Orphaned(v),
                      link[Current(v)] = "up"
               PROVE  stalls > 0
    BY DEF OrphanedOnlyByStall
  <2>1. Current(v) \in Sockets
    BY DEF Current, Sockets, Shapes, Views
  <2>2. stalls # 0
    BY <2>1 DEF ServedInv, Orphaned
  <2> QED  BY <2>2, DeliveryConstantsOK DEF RestTyped
<1> QED  BY <1>1, ShapesKept, RestKept, ServedKept, PTL

-----------------------------------------------------------------------------
(* What a tab has been shown *)

\* What a tab has been told of the run it shows: everything, when it stopped at the end of that
\* run; everything but the unsent, while the server serves the socket it listens to.
ShownInv ==
    /\ \A v \in Viewers : view[v].run <= run
    /\ \A v \in Viewers : view[v].mode = "done" /\ view[v].run = run =>
          phase \in Ended /\ 1 .. recorded \subseteq view[v].seen \cup cut
    /\ \A s \in Sockets : Established(s) /\ Listening(s) =>
          /\ view[Owner(s)].run = run
          /\ 1 .. recorded \subseteq view[Owner(s)].seen \cup Unsent
    /\ \A s \in Sockets : sv[s].pc = "leave" /\ active = s => link[s] = "down"

\* The event being broadcast ends its run.
LastOfRun == emit.final /\ emit.at = emit.upto

\* Who changes what a tab shows: a broadcast to the active socket, a replay to its own, a poll.
LEMMA ShownMoves ==
    ASSUME Shapes, ConnInv, [Next]_vars, NEW v \in Viewers
    PROVE  \/ view'[v] = view[v]
           \/ /\ Dial(v) \/ SocketClosed(v)
              /\ view'[v].mode # "done" /\ view'[v].run = view[v].run
           \/ /\ Broadcast /\ active \in Sockets /\ Owner(active) = v /\ Listening(active)
              /\ link[active] # "down"
              /\ view'[v] = EventView(view[v], emit.run, emit.at, LastOfRun)
           \/ \E s \in Sockets :
                 /\ Replay(s) /\ Owner(s) = v /\ Listening(s)
                 /\ view'[v] = SnapshotView(view[v], sv[s].run, 1 .. sv[s].upto, sv[s].final)
           \/ /\ Poll(v)
              /\ view'[v] = SnapshotView(view[v], run, 1 .. recorded, phase = "settled")
<1> DEFINE Moves == \/ view'[v] = view[v]
                    \/ /\ Dial(v) \/ SocketClosed(v)
                       /\ view'[v].mode # "done" /\ view'[v].run = view[v].run
                    \/ /\ Broadcast /\ active \in Sockets /\ Owner(active) = v
                       /\ Listening(active) /\ link[active] # "down"
                       /\ view'[v] = EventView(view[v], emit.run, emit.at, LastOfRun)
                    \/ \E s \in Sockets :
                          /\ Replay(s) /\ Owner(s) = v /\ Listening(s)
                          /\ view'[v] = SnapshotView(view[v], sv[s].run, 1 .. sv[s].upto,
                                                     sv[s].final)
                    \/ /\ Poll(v)
                       /\ view'[v] = SnapshotView(view[v], run, 1 .. recorded,
                                                  phase = "settled")
<1>0. /\ view \in [Viewers -> Views] /\ active \in Sockets \cup {NoSocket}
      /\ \A s \in Sockets : Owner(s) \in Viewers
  BY DEF Shapes, Owner, Sockets
<1>1. ASSUME UNCHANGED view
      PROVE  Moves
  BY <1>1
<1>2. ASSUME NEW s \in Sockets, NEW w, ToView(s, w)
      PROVE  view'[v] = view[v] \/ (Owner(s) = v /\ Listening(s) /\ view'[v] = w)
  BY <1>0, <1>2 DEF ToView
<1>3. CASE RecordProgress \/ RecordOutcome \/ EmitCut \/ CoStep \/ DeleteRefused
           \/ (\E op \in {"delete", "replace"} : CoArrives(op)) \/ UNCHANGED vars
  BY <1>1, <1>3 DEF RecordProgress, RecordOutcome, Record, EmitCut, CoStep, CoEnters, CoAwaits,
     CoTransport, DeleteRefused, CoArrives, vars
<1>4. CASE Broadcast
  <2> DEFINE w == EventView(view[Owner(active)], emit.run, emit.at, LastOfRun)
  <2>1. CASE active \in Sockets /\ link[active] # "down" /\ ToView(active, w)
    <3> HIDE DEF w
    <3>1. view'[v] = view[v] \/ (Owner(active) = v /\ Listening(active) /\ view'[v] = w)
      BY <1>2, <2>1
    <3> QED  BY <1>4, <2>1, <3>1 DEF w
  <2>2. \/ UNCHANGED view
        \/ active \in Sockets /\ link[active] # "down" /\ ToView(active, w)
    BY <1>0, <1>4 DEF Broadcast, LastOfRun
  <2> QED  BY <1>1, <2>1, <2>2
<1>5. ASSUME NEW s \in Sockets, Replay(s)
      PROVE  Moves
  <2> DEFINE w == SnapshotView(view[Owner(s)], sv[s].run, 1 .. sv[s].upto, sv[s].final)
  <2>1. CASE ToView(s, w)
    <3> HIDE DEF w
    <3>1. view'[v] = view[v] \/ (Owner(s) = v /\ Listening(s) /\ view'[v] = w)
      BY <1>2, <2>1
    <3> QED  BY <1>5, <3>1 DEF w
  <2>2. UNCHANGED view \/ ToView(s, w)
    BY <1>5 DEF Replay
  <2> QED  BY <1>1, <2>1, <2>2
<1>6. ASSUME NEW s \in Sockets, Enter(s) \/ Adopt(s) \/ PongEnds(s) \/ Leave(s) \/ Ping(s)
                                \/ Break(s) \/ Stall(s) \/ Resume(s)
      PROVE  Moves
  BY <1>1, <1>6 DEF Enter, Adopt, PongEnds, Leave, Ping, Break, Stall, Resume
<1>7. ASSUME NEW u \in Viewers, u # v, ViewerStep(u)
      PROVE  view'[v] = view[v]
  BY <1>0, <1>7 DEF ViewerStep, Dial, SocketClosed, Poll, ClientCloses, Break
<1>8. CASE Dial(v) \/ SocketClosed(v)
  BY <1>0, <1>8 DEF Dial, SocketClosed, Recovery, Views
<1>9. CASE Poll(v)
  <2> DEFINE w == SnapshotView(view[v], run, 1 .. recorded, phase = "settled")
  <2>1. view' = [view EXCEPT ![v] = w]
    BY <1>9 DEF Poll
  <2> HIDE DEF w
  <2>2. view'[v] = w
    BY <1>0, <2>1
  <2> QED  BY <1>9, <2>2 DEF w
<1>10. CASE ClientCloses(v)
  BY <1>1, <1>10 DEF ClientCloses, Break
<1> QED  BY <1>3, <1>4, <1>5, <1>6, <1>7, <1>8, <1>9, <1>10
         DEF Next, SocketStep, ViewerStep

\* A frame of the run a tab shows adds to what it has seen.
LEMMA EventShows ==
    ASSUME NEW w \in Views, NEW r \in Nat, NEW n \in Nat, NEW fin \in BOOLEAN
    PROVE  LET x == EventView(w, r, n, fin)
           IN  /\ x.run = w.run /\ w.seen \subseteq x.seen
               /\ w.run = r => n \in x.seen
               /\ x.mode = "done" => fin \/ w.mode = "done"
BY DEF EventView, Views

\* A snapshot shows a tab the whole timeline it was read from.
LEMMA SnapshotShows ==
    ASSUME NEW w \in Views, NEW r \in Nat, NEW n \in Nat, NEW fin \in BOOLEAN
    PROVE  LET x == SnapshotView(w, r, 1 .. n, fin)
           IN  /\ x.run = r /\ 1 .. n \subseteq x.seen
               /\ x.mode = "done" => fin \/ w.mode = "done"
               /\ x.mode \in {w.mode, "done"}
<1>1. 1 .. n \subseteq Nat
  OBVIOUS
<1> QED  BY <1>1 DEF SnapshotView, Views

\* A handler that is to leave although its socket is in service leaves a broken connection.
LEMMA LeaveMoves ==
    ASSUME Shapes, RestTyped, ConnInv, [Next]_vars, NEW s \in Sockets,
           sv'[s].pc = "leave", active' = s,
           sv[s].pc = "leave" /\ active = s => link[s] = "down"
    PROVE  link'[s] = "down"
<1>0. /\ NoSocket \notin Sockets
      /\ At("closed").pc = "closed" /\ At("open").pc = "open"
  BY DeliveryConstantsOK, AtIsHandler DEF Sockets, Places
<1>1. ASSUME UNCHANGED <<sv, active>>, link' = link \/ link'[s] = "down" \/ link[s] # "down"
      PROVE  link'[s] = "down"
  BY <1>1
<1>2. CASE RecordProgress \/ RecordOutcome \/ EmitCut \/ CoEnters \/ CoAwaits \/ DeleteRefused
           \/ (\E op \in {"delete", "replace"} : CoArrives(op)) \/ UNCHANGED vars
  BY <1>1, <1>2 DEF RecordProgress, RecordOutcome, Record, EmitCut, CoEnters, CoAwaits,
     CoArrives, DeleteRefused, vars
<1>3. CASE Broadcast
  BY <1>0, <1>3 DEF Broadcast, TimedOut, RestTyped
<1>4. CASE CoTransport
  BY <1>0, <1>4 DEF CoTransport, TransportClosed
<1>5. ASSUME NEW t \in Sockets, HandlerEnds(t)
      PROVE  s # t /\ sv'[s] = sv[s] /\ link'[s] = link[s]
  BY <1>0, <1>5 DEF HandlerEnds, Shapes, RestTyped
<1>6. ASSUME NEW t \in Sockets, Enter(t)
      PROVE  link'[s] = "down"
  <2>1. CASE sv' = [sv EXCEPT ![t].pc = "accept"] /\ UNCHANGED link
    BY <1>6, <2>1 DEF Enter, Shapes, Handlers
  <2> QED  BY <1>5, <1>6, <2>1 DEF Enter
<1>7. ASSUME NEW t \in Sockets, Adopt(t)
      PROVE  link'[s] = "down"
  <2>1. CASE active' = t /\ sv' = [sv EXCEPT ![t].pc = "replay", ![t].upto = recorded,
                                   ![t].run = run, ![t].final = (phase = "settled")]
    BY <2>1 DEF Shapes, Handlers
  <2>2. CASE HandlerEnds(t) /\ active' = active
    BY <1>5, <2>2
  <2> QED  BY <1>0, <1>7, <2>1, <2>2 DEF Adopt
<1>8. ASSUME NEW t \in Sockets, Replay(t)
      PROVE  link'[s] = "down"
  <2>1. active = t /\ active' \in {active, NoSocket}
    BY <1>8 DEF Replay, ConnInv, ReplayExcludes
  <2>2. sv'[t].pc # "leave"
    BY <1>0, <1>8 DEF Replay, HandlerEnds, Shapes
  <2> QED  BY <1>0, <2>1, <2>2
<1>9. ASSUME NEW t \in Sockets, Leave(t)
      PROVE  link'[s] = "down"
  BY <1>0, <1>5, <1>9 DEF Leave, LeftBy
<1>10. ASSUME NEW t \in Sockets, Ping(t) \/ PongEnds(t)
       PROVE  link'[s] = "down"
  <2>1. UNCHANGED <<link, active>>
    BY <1>10 DEF Ping, PongEnds
  <2>2. CASE sv'[s] = sv[s]
    BY <2>1, <2>2
  <2>3. CASE sv'[s] # sv[s]
    <3>1. PongEnds(t) /\ t = s /\ link[s] # "stalled" /\ link[s] # "up"
      BY <1>10, <2>1, <2>3 DEF Ping, PongEnds, Shapes, Handlers
    <3> QED  BY <2>1, <3>1 DEF RestTyped
  <2> QED  BY <2>2, <2>3
<1>11. ASSUME NEW t \in Sockets, Break(t) \/ Stall(t) \/ Resume(t)
       PROVE  link'[s] = "down"
  BY <1>11 DEF Break, Stall, Resume, RestTyped
<1>12. ASSUME NEW v \in Viewers, Dial(v)
       PROVE  link'[s] = "down"
  <2> DEFINE w == [At("dial") EXCEPT !.lock = lockNow]
  <2>1. w.pc = "dial"
    BY DEF At, NoHandler
  <2>2. /\ sv' = [sv EXCEPT ![Current(v)] = w] /\ link' = [link EXCEPT ![Current(v)] = "up"]
        /\ active' = active
    BY <1>12 DEF Dial
  <2> HIDE DEF w
  <2> QED  BY <2>1, <2>2 DEF Shapes, RestTyped
<1>13. ASSUME NEW v \in Viewers, SocketClosed(v) \/ Poll(v)
       PROVE  link'[s] = "down"
  BY <1>1, <1>13 DEF SocketClosed, Poll
<1>14. ASSUME NEW v \in Viewers, ClientCloses(v)
       PROVE  link'[s] = "down"
  BY <1>14 DEF ClientCloses, Break, RestTyped
<1> QED  BY <1>2, <1>3, <1>4, <1>6, <1>7, <1>8, <1>9, <1>10, <1>11, <1>12, <1>13, <1>14
         DEF Next, SocketStep, CoStep, ViewerStep

\* The number of the run is only counted up.
LEMMA RunMoves == ASSUME [Next]_vars PROVE run' \in {run, run + 1}
<1>1. CASE RecordProgress \/ RecordOutcome \/ Broadcast \/ EmitCut \/ CoStep
           \/ \E op \in {"delete", "replace"} : CoArrives(op)
  BY <1>1 DEF RecordProgress, RecordOutcome, Record, Broadcast, EmitCut, CoStep, CoEnters,
     CoAwaits, CoTransport, CoArrives, record
<1> QED  BY <1>1, RecordSteps

\* A tab is shown all that its socket is sent, and stops listening only at the end of a
\* timeline it has been shown.
LEMMA ShownKept == Spec => []ShownInv
<1>1. Init => ShownInv
  BY DeliveryConstantsOK DEF Init, ShownInv, Established, NoHandler
<1>2. /\ Shapes /\ RestTyped /\ ConnInv /\ EmitInv /\ TimelineInv /\ PlaceInv /\ RunInv
      /\ LiveInv /\ ShownInv /\ [Next]_vars
      => ShownInv'
  <2> SUFFICES ASSUME Shapes, RestTyped, ConnInv, EmitInv, TimelineInv, PlaceInv, RunInv,
                      LiveInv, ShownInv, [Next]_vars
               PROVE  ShownInv'
    OBVIOUS
  <2>0. /\ NoSocket \notin Sockets /\ recorded \in Nat /\ run \in Nat /\ emit \in Emits
        /\ \A v \in Viewers : view[v] \in Views /\ view[v].run \in Nat
        /\ \A s \in Sockets : /\ sv[s] \in Handlers /\ Owner(s) \in Viewers
                              /\ sv[s].run \in Nat /\ sv[s].upto \in Nat
                              /\ sv[s].final \in BOOLEAN
    BY DeliveryConstantsOK DEF Sockets, Shapes, Views, Handlers, Owner
  \* The active socket that an emit finds connected is established.
  <2>1. ASSUME Broadcast, active \in Sockets, link[active] # "down"
        PROVE  Established(active) /\ emit.run = run /\ emit.at \in Nat
    <3>1. sv[active].pc \in {"open", "pong", "leave"}
      BY <2>0, <2>1 DEF PlaceInv, Broadcast, ConnInv, ReplayExcludes
    <3> QED  BY <2>0, <2>1, <3>1 DEF ShownInv, Established, Broadcast, EmitInv, Emits
  <2>2. ASSUME NEW v \in Viewers
        PROVE  /\ view'[v].run <= run'
               /\ view'[v].mode = "done" /\ view'[v].run = run' =>
                    phase' \in Ended /\ 1 .. recorded' \subseteq view'[v].seen \cup cut'
    <3> DEFINE Told == /\ view'[v].run <= run'
                       /\ view'[v].mode = "done" /\ view'[v].run = run' =>
                            /\ phase' \in Ended
                            /\ 1 .. recorded' \subseteq view'[v].seen \cup cut'
    <3>0. /\ view[v].run <= run
          /\ view[v].mode = "done" /\ view[v].run = run =>
                phase \in Ended /\ 1 .. recorded \subseteq view[v].seen \cup cut
      BY DEF ShownInv
    <3>1. CASE view'[v] = view[v]
      <4>1. CASE run' = run
        BY <3>0, <3>1, <4>1, EndedMoves
      <4>2. CASE run' = run + 1
        BY <2>0, <3>0, <3>1, <4>2
      <4> QED  BY <4>1, <4>2, RunMoves
    <3>2. CASE view'[v].mode # "done" /\ view'[v].run = view[v].run
      BY <2>0, <3>0, <3>2, RunMoves
    <3>3. CASE /\ Broadcast /\ active \in Sockets /\ Owner(active) = v /\ Listening(active)
               /\ link[active] # "down"
               /\ view'[v] = EventView(view[v], emit.run, emit.at, LastOfRun)
      <4>1. Established(active) /\ emit.run = run /\ emit.at \in Nat
        BY <2>1, <3>3
      <4>2. /\ view[v].mode = "socket" /\ view[v].run = run
            /\ 1 .. recorded \subseteq view[v].seen \cup Unsent
        BY <3>3, <4>1 DEF ShownInv, Listening
      <4>3. LastOfRun \in BOOLEAN
        BY <2>0 DEF LastOfRun, Emits
      <4>4. /\ view'[v].run = run /\ view[v].seen \subseteq view'[v].seen
            /\ emit.at \in view'[v].seen
            /\ view'[v].mode = "done" => LastOfRun
        <5> HIDE DEF LastOfRun
        <5> QED  BY <2>0, <3>3, <4>1, <4>2, <4>3, EventShows
      <4>5. UNCHANGED <<phase, run, recorded, cut>>
        BY <3>3 DEF Broadcast, record
      <4>6. ASSUME LastOfRun
            PROVE  phase \in Ended /\ Pending = {emit.at}
        BY <2>0, <3>3, <4>6 DEF TimelineInv, LastOfRun, Broadcast, Pending, Emits
      <4> QED  BY <2>0, <4>2, <4>4, <4>5, <4>6 DEF Unsent
    <3>4. ASSUME NEW s \in Sockets, Replay(s), Owner(s) = v, Listening(s),
                 view'[v] = SnapshotView(view[v], sv[s].run, 1 .. sv[s].upto, sv[s].final)
          PROVE  Told
      <4>1. /\ sv[s].pc = "replay" /\ sv[s].run = run /\ view[v].mode = "socket"
            /\ UNCHANGED <<phase, run, recorded, cut>>
        BY <3>4 DEF Replay, RunInv, Listening, record
      <4>2. /\ view'[v].run = run /\ 1 .. sv[s].upto \subseteq view'[v].seen
            /\ view'[v].mode = "done" => sv[s].final
        <5>1. /\ view[v] \in Views /\ sv[s].run \in Nat /\ sv[s].upto \in Nat
              /\ sv[s].final \in BOOLEAN
          BY <2>0
        <5> QED  BY <3>4, <4>1, <5>1, SnapshotShows
      <4>3. sv[s].final => phase \in Ended /\ sv[s].upto = recorded
        BY <4>1 DEF LiveInv
      <4> QED  BY <2>0, <4>1, <4>2, <4>3
    <3>5. CASE /\ Poll(v)
               /\ view'[v] = SnapshotView(view[v], run, 1 .. recorded, phase = "settled")
      <4>1. view[v].mode = "poll" /\ UNCHANGED <<phase, run, recorded, cut>>
        BY <3>5 DEF Poll, record
      <4>2. PICK fin \in BOOLEAN : fin = (phase = "settled")
        OBVIOUS
      <4> DEFINE x == SnapshotView(view[v], run, 1 .. recorded, fin)
      <4>a. /\ x.run = run /\ 1 .. recorded \subseteq x.seen
            /\ x.mode = "done" => fin \/ view[v].mode = "done"
        <5>1. view[v] \in Views /\ run \in Nat /\ recorded \in Nat
          BY <2>0
        <5> QED  BY <5>1, SnapshotShows
      <4>b. view'[v] = x
        BY <3>5, <4>2
      <4> HIDE DEF x
      <4>3. /\ view'[v].run = run /\ 1 .. recorded \subseteq view'[v].seen
            /\ view'[v].mode = "done" => phase = "settled"
        BY <4>1, <4>2, <4>a, <4>b
      <4> QED  BY <2>0, <4>1, <4>3 DEF Ended
    <3> QED  BY <3>1, <3>2, <3>3, <3>4, <3>5, ShownMoves
  <2>3. ASSUME NEW s \in Sockets, Established(s)', Listening(s)'
        PROVE  /\ view'[Owner(s)].run = run'
               /\ 1 .. recorded' \subseteq view'[Owner(s)].seen \cup Unsent'
    <3> DEFINE v == Owner(s)
    <3>1. /\ v \in Viewers /\ view'[v].mode = "socket" /\ s = <<v, view'[v].try>>
      BY <2>0, <2>3 DEF Listening, Current
    <3>2. active' = s /\ sv'[s].pc \in {"open", "pong"} /\ link'[s] # "down"
      BY <2>3 DEF Established
    <3> HIDE DEF v
    <3>3. CASE Replay(s)
      <4>1. /\ view' = view \/ view' = [view EXCEPT ![v] =
                  SnapshotView(view[v], sv[s].run, 1 .. sv[s].upto, sv[s].final)]
            /\ sv[s].pc = "replay" /\ sv[s].run = run
            /\ UNCHANGED <<run, recorded, cut, emit>>
        BY <3>3 DEF Replay, ToView, RunInv, record, v
      <4>2. Listening(s)
        <5>1. view'[v].mode = "socket" => view[v].mode = "socket"
          <6>1. /\ view[v] \in Views /\ sv[s].run \in Nat /\ sv[s].upto \in Nat
                /\ sv[s].final \in BOOLEAN
            BY <2>0, <3>1
          <6>2. SnapshotView(view[v], sv[s].run, 1 .. sv[s].upto, sv[s].final).mode
                   \in {view[v].mode, "done"}
            BY <6>1, SnapshotShows
          <6> QED  BY <3>1, <4>1, <6>2 DEF Shapes
        <5>2. view'[v].try = view[v].try
          BY <3>1, <3>3, ReplayKeepsView DEF ViewStable
        <5> QED  BY <3>1, <5>1, <5>2 DEF Listening, Current, v
      <4>3. view'[v] = SnapshotView(view[v], sv[s].run, 1 .. sv[s].upto, sv[s].final)
        <5>1. ToView(s, SnapshotView(view[v], sv[s].run, 1 .. sv[s].upto, sv[s].final))
          BY <3>2, <3>3 DEF Replay, HandlerEnds, RestTyped, v
        <5> QED  BY <3>1, <4>2, <5>1 DEF ToView, Shapes, v
      <4>4. view'[v].run = run /\ 1 .. sv[s].upto \subseteq view'[v].seen
        <5> DEFINE x == SnapshotView(view[v], sv[s].run, 1 .. sv[s].upto, sv[s].final)
        <5>0. /\ view[v] \in Views /\ sv[s].run \in Nat /\ sv[s].upto \in Nat
              /\ sv[s].final \in BOOLEAN
          BY <2>0, <3>1
        <5>1. x.run = sv[s].run /\ 1 .. sv[s].upto \subseteq x.seen
          BY <5>0, SnapshotShows
        <5> HIDE DEF x
        <5>2. view'[v] = x
          BY <4>3 DEF x
        <5> QED  BY <4>1, <5>1, <5>2
      <4>5. \A n \in 1 .. recorded : n <= sv[s].upto \/ n \in Unsent
        BY <4>1 DEF LiveInv
      <4>6. Unsent' = Unsent
        BY <4>1 DEF Unsent, Pending
      <4>7. \A n \in 1 .. recorded : n \in view'[v].seen \/ n \in Unsent
        BY <2>0, <4>4, <4>5
      <4> QED  BY <4>1, <4>4, <4>6, <4>7 DEF v
    <3>4. CASE Established(s) /\ run' = run /\ ~Replay(s)
      <4>1. active = s /\ sv[s].pc \in {"open", "pong"}
        BY <3>4 DEF Established
      <4>2. CASE view'[v] = view[v]
        <5>1. Listening(s)
          BY <3>1, <4>2 DEF Listening, Current, v
        <5>2. view[v].run = run /\ 1 .. recorded \subseteq view[v].seen \cup Unsent
          BY <3>4, <5>1 DEF ShownInv, v
        <5>3. ASSUME NEW n \in 1 .. recorded'
              PROVE  n \in view[v].seen \/ n \in Unsent'
          <6>1. \/ n \in Unsent'
                \/ n \in 1 .. recorded /\ n \notin Unsent
                \/ Broadcast /\ n = emit.at
            BY UnsentMoves
          <6>2. ASSUME Broadcast, n = emit.at
                PROVE  n \in view[v].seen
            <7>1. /\ active # NoSocket /\ ~discarded
              BY <2>0, <4>1 DEF ConnInv, DiscardIsFinal
            <7>2. ToView(s, EventView(view[v], emit.run, emit.at, LastOfRun))
              <8>1. active' # NoSocket
                BY <2>0, <3>2
              <8> QED  BY <3>2, <4>1, <6>2, <7>1, <8>1
                       DEF Broadcast, TimedOut, RestTyped, LastOfRun, v
            <7>3. view'[v] = EventView(view[v], emit.run, emit.at, LastOfRun)
              BY <3>1, <5>1, <7>2 DEF ToView, Shapes, v
            <7>4. emit.run = run /\ emit.at \in Nat /\ LastOfRun \in BOOLEAN
              BY <2>0, <6>2 DEF Broadcast, EmitInv, LastOfRun, Emits
            <7>5. emit.at \in view'[v].seen
              <8> HIDE DEF LastOfRun
              <8> QED  BY <2>0, <3>1, <5>2, <7>3, <7>4, EventShows
            <7> QED  BY <4>2, <6>2, <7>5
          <6> QED  BY <5>2, <6>1, <6>2
        <5> QED  BY <3>4, <4>2, <5>2, <5>3 DEF v
      <4>3. CASE Dial(v) \/ SocketClosed(v)
        <5>1. Dial(v)
          BY <3>1, <4>3 DEF SocketClosed, Recovery, Shapes, Views
        <5>2. view'[v].try = view[v].try
          BY <3>1, <5>1 DEF Dial, Shapes, Views
        <5>3. Undialled(v, view[v].try)
          BY <5>1 DEF Undialled, Dial
        <5>4. view[v].try \in 0 .. MaxReconnects
          BY <2>0, <3>1 DEF Views
        <5>5. sv[s].pc = "none"
          BY <3>1, <5>2, <5>3, <5>4 DEF PlaceInv
        <5> QED  BY <4>1, <5>5
      <4>4. CASE /\ Broadcast /\ Owner(active) = v /\ Listening(active) /\ link[active] # "down"
                 /\ view'[v] = EventView(view[v], emit.run, emit.at, LastOfRun)
        <5>1. view[v].run = run /\ 1 .. recorded \subseteq view[v].seen \cup Unsent
          BY <3>4, <4>1, <4>4 DEF ShownInv
        <5>2. emit.run = run /\ emit.at \in Nat /\ LastOfRun \in BOOLEAN
          BY <2>0, <4>4 DEF Broadcast, EmitInv, LastOfRun, Emits
        <5>3. /\ view'[v].run = run /\ view[v].seen \subseteq view'[v].seen
              /\ emit.at \in view'[v].seen
          <6> HIDE DEF LastOfRun
          <6> QED  BY <2>0, <3>1, <4>4, <5>1, <5>2, EventShows
        <5>4. \A n \in 1 .. recorded' : n \in view'[v].seen \/ n \in Unsent'
          BY <5>1, <5>3, UnsentMoves
        <5> QED  BY <3>4, <5>3, <5>4 DEF v
      <4>5. ASSUME NEW t \in Sockets, Replay(t), Owner(t) = v, Listening(t)
            PROVE  FALSE
        <5>1. active = t
          BY <4>5 DEF Replay, ConnInv, ReplayExcludes
        <5> QED  BY <3>4, <4>1, <4>5, <5>1
      <4>6. CASE /\ Poll(v)
                 /\ view'[v] = SnapshotView(view[v], run, 1 .. recorded, phase = "settled")
        <5>1. PICK fin \in BOOLEAN : fin = (phase = "settled")
          OBVIOUS
        <5>2. view[v].mode = "poll"
          BY <4>6 DEF Poll
        <5> DEFINE x == SnapshotView(view[v], run, 1 .. recorded, fin)
        <5>a. view[v] \in Views /\ run \in Nat /\ recorded \in Nat
          BY <2>0, <3>1
        <5>3. x.mode \in {view[v].mode, "done"}
          BY <5>a, SnapshotShows
        <5>4. view'[v] = x
          BY <4>6, <5>1
        <5> HIDE DEF x
        <5> QED  BY <3>1, <5>2, <5>3, <5>4
      <4> QED  BY <3>1, <4>1, <4>2, <4>3, <4>4, <4>5, <4>6, ShownMoves
    <3> QED  BY <2>3, <3>3, <3>4, EstablishedMoves
  <2>4. ASSUME NEW s \in Sockets, sv'[s].pc = "leave", active' = s
        PROVE  link'[s] = "down"
    BY <2>4, LeaveMoves DEF ShownInv
  <2> QED  BY <2>2, <2>3, <2>4 DEF ShownInv
<1> QED  BY <1>1, <1>2, ShapesKept, RestKept, ConnectionExcludes, EmitsAreCurrent, TimelineKept,
            PlacesKept, RunsKept, LiveKept, PTL DEF Spec

\* A tab that stopped at the outcome of the run it shows has every event of that run, except
\* those whose emit was cancelled, whichever of its socket, a reconnect and a poll told it.
THEOREM SettledTabSawAll == Spec => []SettledViewComplete
<1>1. ShownInv => SettledViewComplete
  BY DEF ShownInv, SettledViewComplete
<1> QED  BY <1>1, ShownKept, PTL

-----------------------------------------------------------------------------
(* The feed the tabs implement *)

\* Only an outcome is in flight once the run has settled or its task is gone; a handler that
\* waits for the task lock has not fenced the record yet; a replay and a tab have nothing that
\* is not recorded.
FeedInv ==
    /\ phase \in {"settled", "gone"} /\ Emitting => emit.final
    /\ co.pc = "transport" /\ Emitting => emit.final
    /\ co.pc = "dial" => phase \in {"running", "settled"}
    /\ phase = "gone" => discarded
    /\ \A s \in Sockets : sv[s].pc = "replay" => sv[s].upto <= recorded
    /\ \A v \in Viewers : view[v].run = run => view[v].seen \subseteq 1 .. recorded

\* A timeline only grows within its run.
LEMMA TimelineMoves ==
    ASSUME Shapes, [Next]_vars
    PROVE  \/ run' = run /\ recorded <= recorded'
           \/ run' = run + 1 /\ CoTransport
<1>0. recorded \in Nat
  BY DEF Shapes
<1>1. CASE RecordProgress \/ RecordOutcome
  BY <1>0, <1>1 DEF RecordProgress, RecordOutcome, Record
<1>2. CASE Broadcast \/ EmitCut \/ CoEnters \/ CoAwaits
           \/ \E op \in {"delete", "replace"} : CoArrives(op)
  BY <1>0, <1>2 DEF Broadcast, EmitCut, CoEnters, CoAwaits, CoArrives, record
<1>3. CASE CoTransport
  BY <1>0, <1>3 DEF CoTransport
<1> QED  BY <1>0, <1>1, <1>2, <1>3, RecordSteps DEF CoStep

\* The socket that an emit finds connected shows its run.
LEMMA BroadcastServes ==
    ASSUME Shapes, ConnInv, EmitInv, TimelineInv, PlaceInv, ShownInv,
           Broadcast, active \in Sockets, Listening(active), link[active] # "down"
    PROVE  /\ emit.run = run /\ view[Owner(active)].run = run
           /\ emit.at \in 1 .. recorded /\ ~discarded
<1>0. NoSocket \notin Sockets
  BY DeliveryConstantsOK DEF Sockets
<1>1. sv[active].pc \in {"open", "pong", "leave"}
  BY <1>0 DEF PlaceInv, Broadcast, ConnInv, ReplayExcludes
<1>2. Established(active)
  BY <1>1 DEF ShownInv, Established
<1>3. ~discarded
  BY <1>0 DEF ConnInv, DiscardIsFinal
<1>4. emit.at \in 1 .. recorded
  BY DEF Broadcast, TimelineInv
<1> QED  BY <1>2, <1>3, <1>4 DEF ShownInv, Broadcast, EmitInv

\* A tab that dials or loses its socket knows what it knew.
LEMMA ReconnectShows ==
    ASSUME Shapes, NEW v \in Viewers, Dial(v) \/ SocketClosed(v)
    PROVE  /\ \A u \in Viewers : view'[u].run = view[u].run /\ view'[u].seen = view[u].seen
           /\ \A u \in Viewers : view'[u].mode = "done" <=> view[u].mode = "done"
<1>1. view \in [Viewers -> Views]
  BY DEF Shapes
<1>2. CASE Dial(v)
  BY <1>1, <1>2 DEF Dial, Views
<1>3. CASE SocketClosed(v)
  <2>1. CASE view' = [view EXCEPT ![v].mode = Recovery] /\ view[v].mode = "socket"
    BY <1>1, <2>1 DEF Recovery, Views
  <2>2. CASE view' = [view EXCEPT ![v].mode = "dial", ![v].try = @ + 1] /\ view[v].mode = "socket"
    BY <1>1, <2>2 DEF Views
  <2> QED  BY <1>3, <2>1, <2>2 DEF SocketClosed
<1> QED  BY <1>2, <1>3

\* A tab learns recorded events of the current run, by a broadcast, a replay or a poll, while it
\* listens and while there is a task.
Learns(v) ==
    /\ view[v].mode # "done" /\ phase # "gone" /\ view'[v].run = run
    /\ UNCHANGED <<phase, run, recorded, cut>>
    /\ \E events \in SUBSET (1 .. recorded) :
          view'[v].seen = IF view[v].run = run THEN view[v].seen \cup events ELSE events

LEMMA TabMoves ==
    ASSUME Shapes, ConnInv, EmitInv, TimelineInv, PlaceInv, RunInv, ShownInv, FeedInv,
           [Next]_vars, NEW v \in Viewers
    PROVE  view'[v] = view[v] \/ Dial(v) \/ SocketClosed(v) \/ Learns(v)
<1>0. /\ NoSocket \notin Sockets /\ recorded \in Nat /\ run \in Nat /\ emit \in Emits
      /\ view[v] \in Views
      /\ \A s \in Sockets : sv[s].upto \in Nat /\ sv[s].run \in Nat /\ sv[s].final \in BOOLEAN
  BY DeliveryConstantsOK DEF Sockets, Shapes, Handlers
<1>1. CASE /\ Broadcast /\ active \in Sockets /\ Owner(active) = v /\ Listening(active)
           /\ link[active] # "down"
           /\ view'[v] = EventView(view[v], emit.run, emit.at, LastOfRun)
  <2>1. /\ emit.run = run /\ view[v].run = run /\ {emit.at} \in SUBSET (1 .. recorded)
        /\ phase # "gone"
    BY <1>1, BroadcastServes DEF FeedInv
  <2>2. view[v].mode # "done"
    BY <1>1 DEF Listening
  <2>3. view'[v].run = run /\ view'[v].seen = view[v].seen \cup {emit.at}
    <3> HIDE DEF LastOfRun
    <3> QED  BY <1>0, <1>1, <2>1 DEF EventView, Views
  <2>4. UNCHANGED <<phase, run, recorded, cut>>
    BY <1>1 DEF Broadcast, record
  <2> QED  BY <2>1, <2>2, <2>3, <2>4 DEF Learns
<1>2. ASSUME NEW s \in Sockets, Replay(s), Owner(s) = v, Listening(s),
             view'[v] = SnapshotView(view[v], sv[s].run, 1 .. sv[s].upto, sv[s].final)
      PROVE  Learns(v)
  <2>1. /\ sv[s].pc = "replay" /\ sv[s].run = run /\ sv[s].upto <= recorded
        /\ UNCHANGED <<phase, run, recorded, cut>>
    BY <1>2 DEF Replay, RunInv, FeedInv, record
  <2>2. view[v].mode # "done" /\ phase # "gone"
    BY <1>2, <2>1 DEF Listening, FeedInv, ConnInv, DiscardIsFinal
  <2>3. /\ view'[v].run = run
        /\ \E events \in SUBSET (1 .. recorded) :
              view'[v].seen = IF view[v].run = run THEN view[v].seen \cup events ELSE events
    <3> DEFINE x == SnapshotView(view[v], sv[s].run, 1 .. sv[s].upto, sv[s].final)
    <3>1. x.run = sv[s].run /\ x.seen = IF view[v].run = sv[s].run
                                        THEN view[v].seen \cup (1 .. sv[s].upto)
                                        ELSE 1 .. sv[s].upto
      <4>1. PICK w \in Views, r \in Nat, n \in Nat, fin \in BOOLEAN :
                   w = view[v] /\ r = sv[s].run /\ n = sv[s].upto /\ fin = sv[s].final
        BY <1>0
      <4>2. x = SnapshotView(w, r, 1 .. n, fin)
        BY <4>1
      <4> HIDE DEF x
      <4>3. x.run = r /\ x.seen = IF w.run = r THEN w.seen \cup (1 .. n) ELSE 1 .. n
        BY <4>2 DEF SnapshotView, Views
      <4> QED  BY <4>1, <4>3
    <3>2. view'[v] = x
      BY <1>2
    <3>3. 1 .. sv[s].upto \in SUBSET (1 .. recorded)
      BY <1>0, <2>1
    <3> HIDE DEF x
    <3> QED  BY <2>1, <3>1, <3>2, <3>3
  <2> QED  BY <2>1, <2>2, <2>3 DEF Learns
<1>3. CASE /\ Poll(v)
           /\ view'[v] = SnapshotView(view[v], run, 1 .. recorded, phase = "settled")
  <2>1. view[v].mode # "done" /\ phase # "gone" /\ UNCHANGED <<phase, run, recorded, cut>>
    BY <1>3 DEF Poll, record
  <2>2. PICK fin \in BOOLEAN : fin = (phase = "settled")
    OBVIOUS
  <2> DEFINE x == SnapshotView(view[v], run, 1 .. recorded, fin)
  <2>3. view'[v] = x
    BY <1>3, <2>2
  <2>x. x.run = run /\ x.seen = IF view[v].run = run THEN view[v].seen \cup (1 .. recorded)
                                                    ELSE 1 .. recorded
    <3>1. PICK w \in Views, r \in Nat, n \in Nat : w = view[v] /\ r = run /\ n = recorded
      BY <1>0
    <3>2. x = SnapshotView(w, r, 1 .. n, fin)
      BY <3>1
    <3> HIDE DEF x
    <3>3. x.run = r /\ x.seen = IF w.run = r THEN w.seen \cup (1 .. n) ELSE 1 .. n
      BY <3>2 DEF SnapshotView, Views
    <3> QED  BY <3>1, <3>3
  <2> HIDE DEF x
  <2>4. /\ view'[v].run = run
        /\ \E events \in SUBSET (1 .. recorded) :
              view'[v].seen = IF view[v].run = run THEN view[v].seen \cup events ELSE events
    BY <2>3, <2>x
  <2> QED  BY <2>1, <2>4 DEF Learns
<1> QED  BY <1>1, <1>2, <1>3, ShownMoves

\* FeedInv is inductive with the invariants before it.
LEMMA FeedKept == Spec => []FeedInv
<1>1. Init => FeedInv
  BY DEF Init, FeedInv, Emitting, NoCo, NoHandler
<1>2. /\ Shapes /\ Shapes' /\ ConnInv /\ EmitInv /\ TimelineInv /\ PlaceInv /\ RunInv
      /\ ShownInv /\ FeedInv /\ [Next]_vars
      => FeedInv'
  <2> SUFFICES ASSUME Shapes, Shapes', ConnInv, EmitInv, TimelineInv, PlaceInv, RunInv, ShownInv,
                      FeedInv, [Next]_vars
               PROVE  FeedInv'
    OBVIOUS
  <2>0. /\ recorded \in Nat /\ recorded' \in Nat /\ run \in Nat /\ emit \in Emits
        /\ phase \in Phases
    BY DEF Shapes
  <2> DEFINE Fenced == /\ phase \in {"settled", "gone"} /\ Emitting => emit.final
                       /\ co.pc = "transport" /\ Emitting => emit.final
                       /\ co.pc = "dial" => phase \in {"running", "settled"}
                       /\ phase = "gone" => discarded
  <2>1. Fenced'
    <3>0. Fenced
      BY DEF FeedInv
    <3>1. ASSUME NEW n, NEW final, Record(n, final)
          PROVE  Fenced'
      <4>1. /\ phase = "running" /\ phase' = (IF final THEN "settled" ELSE phase)
            /\ UNCHANGED <<co, discarded>>
            /\ emit' = [at |-> recorded + 1, upto |-> recorded + n, run |-> run,
                        final |-> final]
        BY <3>1 DEF Record
      <4>2. co.pc # "transport"
        BY <4>1 DEF EmitInv
      <4>3. emit'.final = final
        BY <4>1
      <4> QED  BY <4>1, <4>2, <4>3
    <3>2. CASE Broadcast
      <4>1. UNCHANGED <<phase, co, discarded>> /\ emit' = Rest /\ Emitting
        BY <3>2 DEF Broadcast, record
      <4>2. emit' = NoEmit \/ emit'.final = emit.final
        BY <2>0, <4>1 DEF Rest, Emits
      <4> QED  BY <3>0, <4>1, <4>2 DEF Emitting
    <3>3. CASE EmitCut
      BY <3>0, <3>3 DEF EmitCut, Emitting, record
    <3>4. CASE \E op \in {"delete", "replace"} : CoArrives(op)
      <4>1. /\ co'.pc = "dial" /\ phase \in {"running", "settled"}
            /\ UNCHANGED <<phase, emit, discarded>>
        BY <3>4 DEF CoArrives, record
      <4> QED  BY <3>0, <4>1 DEF Emitting
    <3>5. CASE CoEnters
      <4>1. UNCHANGED <<emit, discarded>> /\ co.pc = "dial"
        BY <3>5 DEF CoEnters
      <4>2. \/ co'.pc = "idle" /\ UNCHANGED phase
            \/ co'.pc = "await" /\ phase' \in {"deleting", "popped"}
        BY <3>5 DEF CoEnters, NoCo, EmitInv
      <4> QED  BY <3>0, <4>1, <4>2 DEF Emitting
    <3>6. CASE CoAwaits
      <4>1. /\ UNCHANGED <<phase, emit, discarded>> /\ co.pc = "await" /\ co'.pc = "transport"
            /\ ~Emitting \/ emit.final
        BY <3>6 DEF CoAwaits, TaskEnded, EmitInv, record
      <4> QED  BY <3>0, <4>1 DEF Emitting
    <3>7. CASE CoTransport
      <4>1. co'.pc = "idle" /\ UNCHANGED emit /\ (Emitting => emit.final)
        BY <3>0, <3>7 DEF CoTransport, NoCo
      <4>2. phase' = "running" \/ (phase' = "gone" /\ discarded')
        BY <3>7 DEF CoTransport
      <4> QED  BY <4>1, <4>2 DEF Emitting
    <3>8. CASE UNCHANGED <<phase, run, recorded, emit, cut, co>>
      <4>1. discarded => discarded'
        <5>1. CASE CoTransport
          BY <5>1 DEF CoTransport
        <5>2. CASE ~CoTransport
          BY <5>2 DEF Next, vars, RecordProgress, RecordOutcome, Record, Broadcast, EmitCut,
             SocketStep, Enter, Adopt, Replay, PongEnds, Leave, Ping, Break, Stall, Resume,
             CoArrives, CoStep, CoEnters, CoAwaits, DeleteRefused, ViewerStep, Dial, SocketClosed,
             Poll, ClientCloses
        <5> QED  BY <5>1, <5>2
      <4> QED  BY <3>0, <3>8, <4>1 DEF Emitting
    <3> QED
      BY <3>1, <3>2, <3>3, <3>4, <3>5, <3>6, <3>7, <3>8, RecordSteps
      DEF RecordProgress, RecordOutcome, CoStep
  <2>2. ASSUME NEW s \in Sockets, sv'[s].pc = "replay"
        PROVE  sv'[s].upto <= recorded'
    <3>1. CASE sv'[s] = sv[s] /\ ~CoTransport
      <4>1. sv[s].upto \in Nat /\ sv[s].upto <= recorded /\ recorded <= recorded'
        BY <2>2, <3>1, TimelineMoves DEF FeedInv, Shapes, Handlers
      <4> QED  BY <2>0, <3>1, <4>1
    <3>2. CASE sv'[s].upto = recorded /\ UNCHANGED recorded
      BY <2>0, <3>2
    <3> QED  BY <2>2, <3>1, <3>2, ReplayMoves
  <2>3. ASSUME NEW v \in Viewers, view'[v].run = run'
        PROVE  view'[v].seen \subseteq 1 .. recorded'
    <3>0. /\ view[v].run \in Nat /\ view[v].run <= run
          /\ view[v].run = run => view[v].seen \subseteq 1 .. recorded
      BY DEF ShownInv, FeedInv, Shapes, Views
    <3>1. CASE view'[v].run = view[v].run /\ view'[v].seen = view[v].seen
      <4>1. run' = run /\ recorded <= recorded'
        BY <2>0, <2>3, <3>0, <3>1, TimelineMoves
      <4>2. view[v].seen \subseteq 1 .. recorded
        BY <2>3, <3>0, <3>1, <4>1
      <4> QED  BY <2>0, <3>1, <4>1, <4>2
    <3>2. CASE Learns(v)
      BY <3>0, <3>2 DEF Learns
    <3> QED  BY <3>1, <3>2, TabMoves, ReconnectShows
  <2> QED  BY <2>1, <2>2, <2>3 DEF FeedInv
<1> QED  BY <1>1, <1>2, ShapesKept, ConnectionExcludes, EmitsAreCurrent, TimelineKept, PlacesKept,
            RunsKept, ShownKept, PTL DEF Spec

\* A step moves one tab at most, and then it leaves the record alone.
LEMMA OneTabMoves ==
    ASSUME Shapes, [Next]_vars
    PROVE  \/ UNCHANGED view
           \/ /\ UNCHANGED <<phase, run, recorded, cut>>
              /\ \E v \in Viewers : \A u \in Viewers : u # v => view'[u] = view[u]
<1>0. view \in [Viewers -> Views] /\ \A s \in Sockets : Owner(s) \in Viewers
  BY DEF Shapes, Owner, Sockets
<1>1. ASSUME NEW s \in Sockets, NEW w, ToView(s, w)
      PROVE  \A u \in Viewers : u # Owner(s) => view'[u] = view[u]
  BY <1>0, <1>1 DEF ToView
<1>2. CASE Broadcast
  <2>1. CASE UNCHANGED view
    BY <2>1
  <2>2. CASE /\ active \in Sockets
             /\ ToView(active, EventView(view[Owner(active)], emit.run, emit.at, LastOfRun))
    <3>1. \A u \in Viewers : u # Owner(active) => view'[u] = view[u]
      BY <1>1, <2>2
    <3> QED  BY <1>0, <1>2, <2>2, <3>1 DEF Broadcast, record
  <2> QED  BY <1>2, <2>1, <2>2 DEF Broadcast, LastOfRun, Shapes
<1>3. ASSUME NEW s \in Sockets, Replay(s)
      PROVE  \/ UNCHANGED view
             \/ /\ UNCHANGED <<phase, run, recorded, cut>>
                /\ \E v \in Viewers : \A u \in Viewers : u # v => view'[u] = view[u]
  <2> DEFINE w == SnapshotView(view[Owner(s)], sv[s].run, 1 .. sv[s].upto, sv[s].final)
  <2>1. UNCHANGED view \/ ToView(s, w)
    BY <1>3 DEF Replay
  <2> HIDE DEF w
  <2>2. UNCHANGED view \/ \A u \in Viewers : u # Owner(s) => view'[u] = view[u]
    BY <1>1, <2>1
  <2> QED  BY <1>0, <1>3, <2>2 DEF Replay, record
<1>4. ASSUME NEW v \in Viewers, Dial(v) \/ SocketClosed(v) \/ Poll(v) \/ ClientCloses(v)
      PROVE  /\ UNCHANGED <<phase, run, recorded, cut>>
             /\ \A u \in Viewers : u # v => view'[u] = view[u]
  <2>1. UNCHANGED <<phase, run, recorded, cut>>
    BY <1>4 DEF Dial, SocketClosed, Poll, ClientCloses, Break, record
  <2>2. \A u \in Viewers : u # v => view'[u] = view[u]
    BY <1>0, <1>4 DEF Dial, SocketClosed, Poll, ClientCloses, Break
  <2> QED  BY <2>1, <2>2
<1>5. CASE \/ RecordProgress \/ RecordOutcome \/ EmitCut \/ CoStep \/ DeleteRefused \/ UNCHANGED vars
           \/ \E op \in {"delete", "replace"} : CoArrives(op)
           \/ \E s \in Sockets : Enter(s) \/ Adopt(s) \/ PongEnds(s) \/ Leave(s) \/ Ping(s)
                                 \/ Break(s) \/ Stall(s) \/ Resume(s)
  BY <1>5 DEF RecordProgress, RecordOutcome, Record, EmitCut, CoStep, CoEnters, CoAwaits,
     CoTransport, DeleteRefused, CoArrives, vars, Enter, Adopt, PongEnds, Leave, Ping, Break,
     Stall, Resume
<1> QED  BY <1>2, <1>3, <1>4, <1>5 DEF Next, SocketStep, ViewerStep

\* A step of the record, seen from the tabs.
LEMMA RecordIsFeed ==
    ASSUME Shapes, EmitInv, TimelineInv, FeedInv, [Next]_vars, UNCHANGED view
    PROVE  Feed!Next \/ UNCHANGED <<Feed!timeline, Feed!tabs>>
<1>0. recorded \in Nat /\ run \in Nat /\ emit \in Emits /\ phase \in Phases
  BY DEF Shapes
<1>t. UNCHANGED Feed!tabs
  BY DEF Feed!tabs, ShownRuns, SeenEvents, StoppedTabs
<1>1. ASSUME NEW n \in {1, 2}, NEW final \in BOOLEAN, Record(n, final), ~final => n = 1
      PROVE  Feed!Grow
  <2>1. /\ phase = "running" /\ recorded' = recorded + n /\ UNCHANGED <<run, cut>>
        /\ phase' = IF final THEN "settled" ELSE phase
    BY <1>1 DEF Record
  <2> QED  BY <1>0, <1>1, <1>t, <2>1 DEF Feed!Grow, FeedPhase
<1>2. CASE EmitCut
  <2>1. /\ UNCHANGED <<phase, run, recorded>> /\ cut' = cut \cup Pending
        /\ Emitting /\ (emit.final => phase = "deleting")
    BY <1>2 DEF EmitCut, record
  <2>2. Pending \in SUBSET (1 .. recorded)
    BY <1>0, <2>1 DEF TimelineInv, Pending
  <2>3. FeedPhase \in {"running", "deleting"} /\ UNCHANGED FeedPhase
    BY <1>0, <2>1 DEF FeedInv, FeedPhase, Phases
  <2>4. Feed!Lose
    BY <1>t, <2>1, <2>2, <2>3 DEF Feed!Lose
  <2> QED  BY <2>4 DEF Feed!Next
<1>3. CASE CoEnters
  <2>1. UNCHANGED <<run, recorded, cut>> /\ co.pc = "dial" /\ phase \in {"running", "settled"}
    BY <1>3 DEF CoEnters, FeedInv
  <2>2. \/ UNCHANGED phase
        \/ phase' = "deleting"
        \/ phase = "running" /\ phase' = "popped"
    BY <1>3 DEF CoEnters, EmitInv, TimelineInv
  <2>3. UNCHANGED FeedPhase \/ (FeedPhase \in {"running", "settled"} /\ FeedPhase' = "deleting")
    BY <2>1, <2>2 DEF FeedPhase
  <2>4. Feed!Delete \/ UNCHANGED Feed!timeline
    BY <1>t, <2>1, <2>3 DEF Feed!Delete, Feed!timeline
  <2> QED  BY <1>t, <2>4 DEF Feed!Next
<1>4. CASE CoTransport
  <2>1. co.pc = "transport"
    BY <1>4 DEF CoTransport
  <2>2. CASE co.op = "delete"
    <3>1. phase = "deleting" /\ phase' = "gone" /\ UNCHANGED <<run, recorded, cut>>
      BY <1>4, <2>1, <2>2 DEF CoTransport, EmitInv, TimelineInv
    <3>2. FeedPhase = "deleting" /\ FeedPhase' = "gone"
      BY <3>1 DEF FeedPhase
    <3>3. Feed!Remove
      BY <1>t, <3>1, <3>2 DEF Feed!Remove
    <3> QED  BY <3>3 DEF Feed!Next
  <2>3. CASE co.op # "delete"
    <3>1. /\ phase = "popped" /\ phase' = "running"
          /\ run' = run + 1 /\ recorded' = 0 /\ cut' = {}
      BY <1>4, <2>1, <2>3 DEF CoTransport, EmitInv, TimelineInv
    <3>2. FeedPhase = "running" /\ UNCHANGED FeedPhase
      BY <3>1 DEF FeedPhase
    <3>3. Feed!Replace
      BY <1>t, <3>1, <3>2 DEF Feed!Replace
    <3> QED  BY <3>3 DEF Feed!Next
  <2> QED  BY <2>2, <2>3
<1>5. CASE \/ Broadcast \/ CoAwaits \/ \E op \in {"delete", "replace"} : CoArrives(op)
           \/ UNCHANGED <<phase, run, recorded, emit, cut, co>>
  <2>1. UNCHANGED <<phase, run, recorded, cut>>
    BY <1>5 DEF Broadcast, CoAwaits, CoArrives, record
  <2> QED  BY <1>t, <2>1 DEF Feed!timeline, FeedPhase
<1> QED
  BY <1>1, <1>2, <1>3, <1>4, <1>5, RecordSteps
  DEF RecordProgress, RecordOutcome, CoStep, Feed!Next

\* A step that moves a tab teaches it something, or nothing.
LEMMA LearningIsFeed ==
    ASSUME Shapes, Shapes', ShownInv', NEW v \in Viewers, Learns(v),
           \A u \in Viewers : u # v => view'[u] = view[u]
    PROVE  Feed!Learn(v)
<1>0. view \in [Viewers -> Views] /\ view' \in [Viewers -> Views] /\ phase \in Phases
  BY DEF Shapes
<1>1. /\ view[v].mode # "done" /\ phase # "gone" /\ view'[v].run = run
      /\ UNCHANGED <<phase, run, recorded, cut>>
  BY DEF Learns
<1>2. v \notin StoppedTabs /\ FeedPhase # "gone"
  BY <1>1 DEF StoppedTabs, FeedPhase
<1>3. ShownRuns' = [ShownRuns EXCEPT ![v] = run]
  BY <1>0, <1>1 DEF ShownRuns
<1>4. PICK events \in SUBSET (1 .. recorded) :
          view'[v].seen = IF view[v].run = run THEN view[v].seen \cup events ELSE events
  BY DEF Learns
<1>5. SeenEvents' = [SeenEvents EXCEPT ![v] = IF ShownRuns[v] = run THEN @ \cup events ELSE events]
  BY <1>0, <1>4 DEF SeenEvents, ShownRuns
<1>6. StoppedTabs' = StoppedTabs \/ (StoppedTabs' = StoppedTabs \cup {v} /\ view'[v].mode = "done")
  BY <1>0, <1>1 DEF StoppedTabs
<1>7. view'[v].mode = "done" => FeedPhase # "running" /\ 1 .. recorded \subseteq SeenEvents'[v] \cup cut
  <2>1. view'[v].mode = "done" => phase \in Ended /\ 1 .. recorded \subseteq view'[v].seen \cup cut
    BY <1>1 DEF ShownInv, Ended
  <2>2. SeenEvents'[v] = view'[v].seen
    BY DEF SeenEvents
  <2> QED  BY <2>1, <2>2 DEF Ended, FeedPhase
<1>8. UNCHANGED FeedPhase
  BY <1>1 DEF FeedPhase
<1> QED
  BY <1>1, <1>2, <1>3, <1>5, <1>6, <1>7, <1>8
  DEF Feed!Learn, Feed!Complete, Feed!timeline

\* Every step of the delivery is a step of TimelineFeed or changes nothing of it, for any number
\* of tabs, sockets, reconnects and runs.
THEOREM DeliveryImplementsFeed == Spec => ImplementsTimelineFeed
<1>1. Init => Feed!Init
  <2> SUFFICES ASSUME Init
               PROVE  Feed!Init
    OBVIOUS
  <2>1. \A v \in Viewers : view[v].run = 0 /\ view[v].seen = {} /\ view[v].mode # "done"
    BY DEF Init
  <2>2. /\ ShownRuns = [v \in Viewers |-> 0] /\ SeenEvents = [v \in Viewers |-> {}]
        /\ StoppedTabs = {}
    BY <2>1 DEF ShownRuns, SeenEvents, StoppedTabs
  <2>3. phase = "running" /\ run = 1 /\ recorded = 0 /\ cut = {}
    BY DEF Init
  <2> QED  BY <2>2, <2>3 DEF Feed!Init, FeedPhase
<1>2. /\ Shapes /\ Shapes' /\ ConnInv /\ EmitInv /\ TimelineInv /\ PlaceInv /\ RunInv /\ ShownInv
      /\ ShownInv' /\ FeedInv /\ [Next]_vars
      => [Feed!Next]_<<Feed!timeline, Feed!tabs>>
  <2> SUFFICES ASSUME Shapes, Shapes', ConnInv, EmitInv, TimelineInv, PlaceInv, RunInv, ShownInv,
                      ShownInv', FeedInv, [Next]_vars
               PROVE  Feed!Next \/ UNCHANGED <<Feed!timeline, Feed!tabs>>
    OBVIOUS
  <2>1. CASE UNCHANGED view
    BY <2>1, RecordIsFeed
  <2>2. ASSUME UNCHANGED <<phase, run, recorded, cut>>,
               NEW v \in Viewers, \A u \in Viewers : u # v => view'[u] = view[u]
        PROVE  Feed!Next \/ UNCHANGED <<Feed!timeline, Feed!tabs>>
    <3>1. CASE Learns(v)
      BY <2>2, <3>1, LearningIsFeed DEF Feed!Next
    <3>2. CASE /\ \A u \in Viewers : view'[u].run = view[u].run /\ view'[u].seen = view[u].seen
               /\ \A u \in Viewers : view'[u].mode = "done" <=> view[u].mode = "done"
      <4>1. UNCHANGED <<ShownRuns, SeenEvents, StoppedTabs>>
        BY <3>2 DEF ShownRuns, SeenEvents, StoppedTabs
      <4>2. UNCHANGED FeedPhase
        BY <2>2 DEF FeedPhase
      <4> QED  BY <2>2, <4>1, <4>2 DEF Feed!timeline, Feed!tabs
    <3>3. CASE view'[v] = view[v]
      BY <2>2, <3>2, <3>3
    <3> QED  BY <3>1, <3>2, <3>3, TabMoves, ReconnectShows
  <2> QED  BY <2>1, <2>2, OneTabMoves
<1> QED
  BY <1>1, <1>2, ShapesKept, ConnectionExcludes, EmitsAreCurrent, TimelineKept, PlacesKept,
     RunsKept, ShownKept, FeedKept, PTL DEF Spec, ImplementsTimelineFeed, Feed!Spec
=============================================================================
