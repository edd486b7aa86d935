# Verification of Shopping Agent

TLA+ models of the Shopping Agent backend (`src/`, a FastAPI service, a research agent and a
React workspace), the TLC runs that check them on small instances and the TLAPS proofs about
them. Every definition that models code is listed with its lines in `PROJECT.json` ("map").

## The system

A client posts a shopping query. The **task coordinator** of one API worker creates a durable
task, runs the **research pipeline** for it under an **admission queue**, records every event in
the task's snapshot *before* broadcasting it over the **connection manager**, and answers reads,
clarifications, cancellations and deletions meanwhile. Several workers may share the output
directory; they see each other only through files and `flock`s.

| component | state | operations | hard behaviour |
| --- | --- | --- | --- |
| task coordinator `app/api/server.py` | `task.json`, tombstone, owner/command/mutation/recovery locks; per worker `records`, `task_locks`, one asyncio task per run | create, clarify, cancel, delete, read, rerun, relax, reports, socket, startup and shutdown | handlers, tasks and workers interleave at every await; stale records; crash and failed write between two steps; lock handles passed from one owner to the next |
| admission queue `app/resilience/request_queue.py` | two heaps, two lease counters, heavy capacity, one condition | enqueue, acquire, release, discard, rebalance | cancellation at any await, wakeups, the capacity changing under waiters |
| event monitor `app/api/monitor.py` | a lock per thread | emit | record and broadcast under one lock |
| connection manager `app/api/connection.py` | live socket, buffer, generation, discarded set | connect, send, replay, discard, clear | reconnects racing broadcasts, stalled sockets |
| runtime control `app/runtime.py` | draining flag, active-task counter | begin, finish, wait for idle | counter leaks, drain racing creation |
| provider resilience `app/provider_resilience.py` | per-provider circuit, window, slots | before, success, failure | half-open probe, cancellation |
| research pipeline `app/agent`, harness `app/harness` | phase, budget, loop guard, branches | plan, fan out, compare, summarise | parallel branches, limits, early exits |
| shopping tools `app/tools` | the offers of a research and what is known of them | search, evidence, comparison, cost, identity, ranking, summary; questions | fallback order, offers that change shape between tools, rounding |
| recall `app/recall` | per call: vectors, scores, a report per channel | towers, index, scorers, selection | optional channels failing one by one; what the result says of them |
| compression `app/compress` | the window of one model call | summarise, cut, fit | estimates by integer division at a limit |
| preference memory `app/memory` | one object per user, fallback store | get, put, delete, remember, forget | lost updates, fallback diverging from the primary |
| evolution `app/evolution` | prompt versions on disk | save, activate, rollback | crash between two files |
| reports `app/reports.py`, uploads | the folder of a task | write, rebuild, download, copy, remove | three files replaced one by one, downloads and copies without the lock |
| configuration `app/config.py` | the settings of the process | data mode, readiness, required actions | combinations nobody deploys on purpose |
| workspace client `frontend/src/hooks` | reducer state, socket, timers | events, snapshots, reconnect | events of older runs and sockets |

Correctness, by component:

* **coordinator**: one executor per task; a running snapshot has someone behind it or is closed;
  a settled run is final; a deleted task stays deleted; the timeline is legal and only grows;
  what a worker answers is what is on disk.
* **queue**: leases are counted exactly, nobody is lost, no lease idles, everyone is served.
* **connections**: no client misses or reorders a recorded event; a stalled socket stalls nobody.
* **runtime control**: the counter equals the tasks in flight; a drain ends.
* **circuit**: one probe at a time, and a quarantine that can always end.
* **pipeline**: only legal phases and tools, nothing left running, a result rests on all answers.
* **tools**: no offer vanishes, the order of answers does not decide, matching offers agree, the
  shopper's current words win, a question is put once.
* **recall, compression, configuration**: what is shown is what took part; a window keeps the newest
  message and its limit; a result of a task called live never holds a fixture, whatever settings the
  task meets, and a task that carries its process's own label is not refused for it.
* **preferences**: a durable record is what the commands made of it, and only they change it.
* **files**: what is offered, sent or copied is of the run the snapshot tells of.
* **client**: the shown task is the newest snapshot plus newer events of the same run.

## Modules

* `ResearchTask` - the abstract promise of one task: runs start, ask, resume and settle; only
  deletion follows a settled run (one exception, kept because the code has it, is explained there).
* `TaskLifecycle` - the coordinator for one thread id and any number of workers. One thread is
  enough because threads share no state. State: `disk` (task.json), `tomb`, `owner` (who holds the
  owner flock, through which open file), `cmd` (command flock); per worker `rec` (`TaskRecord`),
  `tk` (the asyncio task in `_execute`), `h` (the handler inside the thread's asyncio lock) and
  `rv` (a recovery that has read the snapshot and not yet written it).
* `TaskFiles` - the folder of that thread: uploaded images bound to a snapshot, the three reports,
  a rerun that copies images, a download, the deletion. `copying` and `reading` are the two readers
  that hold no lock.
* `ResearchLineage` - reruns and relaxations of a finished parent: the command lock (whose file a
  deletion unlinks), the scan for a child of the same key, and what a retry is answered.
* `TaskLocks` - the two locks around a command: the thread's asyncio lock, with the table that a
  deletion drops it from, and the command flock that blocks a whole event loop. A visit is one
  request in its handler.
* `RuntimeDrain` - the release gate of a worker: what `active_tasks` counts, and the end of the
  lifespan (drain, cancel, gather).
* `Clarification` and `ContextWindow` - what a query leaves open, the answers, and the window of
  the conversation that the model is shown afterwards.
* `RequestQueue` - the admission queue of one worker.
* `EventDelivery` - the way of a thread's timeline to its viewers: `Monitor.emit`, the
  `ConnectionManager`, the socket handler, the handlers that delete and replace a task, and the
  socket loop of the browser tab. State: the record (`phase`, `run`, `recorded`), the emit in
  flight, `active`, the connection lock, the task lock *object*, per socket its handler (`sv`), its
  link and what it was sent, per tab what it knows and where its reconnection stands.
* `TimelineFeed` - the abstract promise to the viewers of a thread: a timeline that grows until its
  run settles, and tabs that learn only what is recorded, never go back to an earlier run, and stop
  at an end whose timeline they have. `EventDelivery` implements it.
* `ProviderCircuit` - retry, circuit and slots of one provider.
* `ResearchPipeline` - the control of one research: `run_agent`'s coroutine, the category task of
  the legacy path, one branch per marketplace, phases, guard and the semaphore shared with other
  researches (`slots`, `others`).
* `ProductSearch` over `Settings` - what the search of each marketplace asks, and what the task's
  label, the summary and the result contract of `app/schemas.py` make of it. A new task has the label
  of its process, which had to be ready; a rerun or a relaxation brings its parent's, unchecked
  (`api/server.py:2043`), so every label meets every setting.
* `Recall` over `Settings` and `Ordering` - the towers, the index and the scorers, the selection,
  the report of every channel.
* `OfferFlow` over `Costs` (`ImportTax`), `Identity`, `Decisions` and `Ordering` - the offers from
  recall to the summary. The operator modules are the pure functions; `OfferFlow` gives them their
  order and the pipeline's own bookkeeping between them.
* `PreferenceStore` - one shopper's record, its fallback and the commands that change it.
* `MCTaskLifecycle`, `MCRequestQueue`, `MCEventDelivery`, `MCOfferFlow`, `MCClarification`,
  `MCTaskLocks` - instances for TLC; `MCComponents` puts the
  components that share no state into one instance.
* `TaskLifecycleProofs` and `TaskOwnershipProofs` (`TaskLifecycle`), `EventDeliveryProofs`,
  `ResearchPipelineProofs`, `WorkerProofs` (`RequestQueue`, `RuntimeDrain`, `ProviderCircuit`,
  `TaskLocks`), `RecordProofs` (`ResearchLineage`, `PreferenceStore`, `TaskFiles`),
  `ConversationProofs` (`Clarification`, `ContextWindow`), `ShoppingProofs` (`ProductSearch`,
  `OfferFlow`, `Recall`) - theorems.

A task of `TaskLifecycle` that does not get a place at once records and broadcasts that it is queued
and then waits in `acquire` (`TaskQueues`, `TaskAdmitted`): `RequestQueue` is what happens there.

How they meet. `EventDelivery` and `TaskLifecycle` share the recorder: the record of the first is
the snapshot of the second reduced to running, settled, being replaced and deleted, and its emits
are the second's broadcasts with their sends made visible. The agent of `TaskLifecycle` is one
outcome; `ResearchPipeline` is what that outcome comes from, and its tool calls are the steps that
`ProductSearch`, `Recall` and `OfferFlow` take with data. `TaskFiles` sees of a run only that it
completes, dies or is replaced.

**Grain of the steps.** A process runs one coroutine between two awaits, so a step is the code
between two awaits. Where a block reads files first and writes them later without an await
(`ClarifyRead`/`ClarifyOwn`, `CreateClear`/`CreateCommit`, `RecoverRead`/`RecoverWrite`) it is two
steps: other *workers* can move in between (their file operations are not covered by one lock),
while the worker itself cannot (`MidBlock`). Reading and replacing task.json in `_record_event`
is one step: it happens under the mutation flock.

**What is abstracted.** A snapshot is its run number, status and the kinds of its events;
`intent_resolved` stands for every progress event and `task_interrupted` for the error event of
recovery. A run is a number, not a uuid. The agent is one nondeterministic outcome. A `flock` is
held through a *handle* (a file object): closing it twice, or closing it while another variable
still refers to it, behaves as in the kernel. Unlinking the lock files on deletion frees both
locks for later openers. Handlers of one thread exclude each other in a worker through the asyncio
lock, unless a deletion dropped it (`TaskLocks`, `EventDelivery`); a lifespan shutdown takes the same
slot because uvicorn has finished its requests by then.
Authorisation, request validation and the idempotent answer to a repeated clarification refuse
without changing state and have no step. `clarify_task` without a task directory (no command lock)
ends in 404 unless a record outlives its directory and is left out.

In `RequestQueue` a heap is its members and its head. The server gives every request the one standard
priority (`api/server.py:1052`) and requests compare by priority only, the timestamp not included
(`request_queue.py`, `compare=False`): among equals the heap is not first in, first out, so the next
head is any of them, and `list.remove` takes out any of them. A request that enters at position one goes on
into `acquire` without an await; any other first emits `queue_status`. asyncio wakes waiters first
in, first out; the model wakes them in any order, so what passes holds for the real order too, and
the two counterexamples of this module were replayed against the Python class.

In `ResearchPipeline` phase and call counter are the main coroutine's: a branch works on a copy of
the context variables that nobody reads back. The advisory model call is one step with the plan it
may return; a tool call starts and ends, and between them anything of the process may happen. In
`ProviderCircuit` time is only whether the reset time has passed. In `RuntimeDrain` a post counts,
starts and may be replaced; of a task only its end matters.

Amounts are whole fen, rates percent and quantities thousandths, so that `quantize(ROUND_HALF_UP)`
is an integer division; exchange rates come with the evidence, usable or not for the reasons the
code tells apart. Text is a set of words, of which "contains" is a subset: that is what the comparisons
of `Identity` and the constraints of `Decisions` need. A preference is its field, its *whole* value and
whether it is wanted; values are compared whole, as `memory/injector.py` does, so "wool" and "pure
wool" are two values. Vectors and scores of `Recall` are small numbers chosen at will, including
absent, equal and out-of-range ones. `ContextWindow` keeps the arithmetic of the token estimate and
drops the wording. In `PreferenceStore` a preference is a value in a set: the fields of the record are
independent. After a restart the status calls the store durable again; what commands did while it was
called degraded may be gone then and is not counted against it, everything else is.

In `TaskFiles` a write under the mutation lock is one step that may stop between two of its files.
In `ResearchLineage` a worker executes one command at a time, because nothing is awaited between
the command lock and the answer but the lock itself.

In `TaskLocks` a step belongs to one event loop: a handler that has not awaited, or that waits inside
`flock(2)`, is the only one its worker may run. An asyncio lock is known by the visit that made it. A
clarification that passes its checks awaits its broadcast with the flock held; a rerun, a relaxation
and an answer that is repeated, refused or fenced give the flock back in the step that took it.
Waiting for the monitor's lock before the event is recorded is part of the broadcast. After the
removal of the directory a clarification takes no flock and a child of a parent that another worker
still remembers takes one on a new file, which nobody keeps.

In `EventDelivery` an event is its sequence number and a snapshot the sequence it covers. The
manager's own buffer is left out: every socket of the server boots from the snapshot. An accept, a
close and a failed close are part of the step that holds the connection lock around them; what is
held *across* steps is a replay and a pong, the two sends that can be overtaken by the network. A
question (`awaiting_clarification`) is left out, so a record is running until it settles, and the
recovery of a run without a worker belongs to `TaskLifecycle`. The reset of the reconnect budget
after a stable connection is left out: a tab has `MaxReconnects` in all, so polling is reached. A
client may stop reading (`Stall`) and read again, and any connection may break before or after a
frame was written.

## Runs

| run | instance | question | result |
| --- | --- | --- | --- |
| `one_worker` | 1 worker, 3 runs, 6 events, 1 failed write, 1 exit, all requests | is the timeline legal and growing, equal to the record; is `ResearchTask` implemented | holds |
| `two_workers` | 2 workers (symmetric), 2 runs, 4 events, 1 exit, no clarification | one executor, the lock is held, deletion fences across workers | holds |
| `recovery` | 1 worker, 3 runs, 5 events, 2 exits, fairness | a running snapshot is resolved unless its task waits for admission for ever; a running record has someone behind it | holds |
| `resume_loses_lock` | 1 worker, create and clarify | an active run holds the owner lock | **violated** |
| `refused_continuation` | 1 worker under a release gate | no permanently running record | **violated** |
| `stale_writer` | 2 workers, 1 run, with clarification | a settled run is immutable | **violated** |
| `components` | one component per behaviour (below), fairness of each | leases and waiters; probes and quarantine; branches, phases and results; offers, searches and recall; the drain; children of a key; durable preferences; questions and windows; files; locks | holds |
| `crossed_commands` | 2 workers, 2 tasks, 4 commands, no deletion | workers do not block each other | **violated** |
| `queue_equal_priority` | 3 requests | a waiter stays in its queue | **violated** |
| `identity_chain` | 3 offers with one GTIN | offers shown as the same product agree with each other | **violated** |
| `delivery` | 1 tab, 2 sockets, 2 runs, 3 events, 2 task lock objects, 1 stall, fairness | what a served socket has seen; discarded and replaced transports; is `TimelineFeed` implemented; emits return; outcomes arrive | holds |
| `delivery_orphan` | the same with 1 run, fairness | every tab learns the outcome | **violated** |

The violated runs are disagreements between the code and its documentation; `PROJECT.json`
("findings") quotes the line each contradicts. `two_workers` leaves out clarification, and
`one_worker` leaves out a second worker, exactly because of those findings: with them,
`ExecutorHoldsOwnerLock` and `SettledIsFinal` fail.

`HandlersAnswered` holds beside the violated `crossed_commands` because it says what is left: a request
that is never answered has met workers stuck on each other, or one stuck on itself after a deletion
that failed or was refused there (see below, "Met on the way").

In the same way some properties of passing runs name what a violated one shows. `WaitersServed`, under
the one priority the server uses, says that a queued request is served or cancelled unless a removal
took it out of the heap or left a finished request at its head (`queue_equal_priority`).
`RunningResolves` says that a running snapshot is resolved unless a task waits for admission for ever.
`CurrentRequestWins` is about equal values, `LiveMeansLive` excepts the sandbox with product search, and
`DurableUnlessRaced` a command that wrote back a record that had changed since it was read; what is
excepted there was seen in TLC as well and is described below ("Met on the way").

In `components` the variable `part`, chosen at the start, says which component runs; the others stand
still in a state in which their fairness asks for nothing. They share no variables, so no behaviour
is lost, and one state space per component is explored instead of their product.

**Bounds.** Three runs let a replaced run, its replacement and a late third one coexist; six
events are enough for question, answer, question and result, with the event of a queued task; one failed write and one exit can hit
any step, and two exits let a recovery itself be interrupted. Two workers are enough for every race
on the owner lock, which at most one holds. Four requests over one or two leases give a running, a
waiting and a leaving request and a backlog above the (scaled down) threshold; all have the standard
priority, so every removal and every pop may meet any of them.

Three callers over two slots and a window of three with a threshold of three (so that the rate and
the threshold can each trip it) give a probe, a late failure and a waiting call. Three marketplaces
with one slot and at most two children make branches wait for each other and for other researches
and reach the child limit; eight calls reach the guard in the sequential search. Two posts on two
threads let a creation replace the other's task or fail beside it, before and during the drain
(three posts were explored once as well). Two workers, one key, three children and one crash let a
retry meet a child being started, deleted or forgotten. Two clients with lists of one and two
commands race on a record. One image and two runs (three images and three runs before the proof)
let a replaced run meet the files of its predecessor. The offers are every selection of up to four
of eight kinds, each with one thing the tools look at, with limits of three so that cutting happens,
under five intents (what is ruled out is a constraint and a preference, as the planner makes them);
two marketplaces run every pair of search outcomes under every label and some forty settings, the
unready ones included. Conversation lengths stand on both sides of each limit of the window.

Four requests are the fewest that make a worker meet its own flock (one inside, a deletion and a
command behind it, one that comes later) and the fewest that cross two workers; one worker gets every
request and the other answers only (every request at both workers was explored once as well).

For delivery, two
sockets of one tab give every race of an old handler, a new one and an emit (sockets of different
tabs differ only in who reads); one progress event, a report and a result give a gap, a replayed and
a live event; two lock objects let a handler run beside a deletion. The safety parts were also
explored with two tabs of one socket each.

**Fairness.** Ready coroutines are run in turn by the event loop (strong fairness on the task's
and the handlers' steps, because a monitor lock may be taken and given back many times); an agent
that was *admitted* ends within its timeout, which starts inside `acquire` (`api/server.py:1089-1105`);
the admission itself has no timeout and is owed nothing (`TaskAdmitted`); a broadcast ends within its
send timeout; clients keep polling (the recovery read). Requests, crashes and retention are never owed. In `EventDelivery` weak fairness is
enough: sends, closes and replays have deadlines, a stall ends or the server's keepalive breaks the
connection, and the tab's timers fire. `TaskLocks` owes every visit its next step (weakly): a free loop
runs what is ready, a free flock is granted, what is awaited returns.

Of the components, the queue owes its acquisitions and the end of a lease, for a finite number of
requests (an endless stream of equal priorities may starve one); the circuit the passing
of time, the calls it let through (they run under timeouts) and a free slot to the call that waits
for it; the pipeline the steps of its coroutines, and, strongly, the start of a branch whose slot
is free again and again, because asyncio's semaphore is first in, first out; the drain its own
timeout, the end of a cancelled task and the next step of the lifespan, but not the end of a task
nobody cancels. Offers, searches, recall, files, lineage and preferences state no liveness.

**Types.** The lifecycle and delivery runs check `TypeOK`. The typing of every other component is a
theorem (below, the theorems named `...Typed`); TLC finds a wrong type there only as an error of
evaluation.

Every property of a passing run has a mutant: an operator named for a plausible bug, defined just
above the one it would replace, with which TLC finds the property violated.

## Proofs

`TaskLifecycleProofs` proves, for every number of workers and every bound,

* `TypeCorrect` - `Spec => []TypeOK`; inductive as it stands.
* `DeletionIsFinal` - `Spec => DeletionFences`: every writer of `disk` tests the tombstone in the
  step that writes.
* `TimelinesStayLegal` - `Spec => []TimelineConsistent`, for *every* snapshot in the system: on
  disk, in records, and stale in handlers and recoveries. The inductive invariant is
  `TypeOK /\ TimelineConsistent /\ RecoveryReadsRunning`: legality of every snapshot that may later
  be appended to, and that what a recovery read was running, so that its appended error is legal.
  The core is `AppendedLegal`: appending an event that `AllowedStatuses` permits to a legal
  timeline gives a legal timeline.

`TaskOwnershipProofs` proves, on top of that, what needs to know who acts for a thread:

* `RunningIsAttended` - without a release gate, `Spec => [](fails = 0 => RunningHasExecutor)`. Its
  invariant says who is behind each worker's record (`Attended`): a task, a handler that will settle
  the record or start its task, and who asked a task to stop. Without `fails = 0` the formula is
  false, and without `~ReleaseGated` the run `refused_continuation` violates it (below, "Met on
  the way", and "findings").
* `ExecutorIsAlone` - where nothing is clarified, `[]ExecutorHoldsOwnerLock`, for any number of
  workers, failed writes and crashes. `Holding` says that the task holds the flock through its
  own handle and that whoever could close that handle does so only when the task is over;
  `OneOwner` that the flock excludes. The hypothesis is the finding `resume_loses_lock`.
* `RecordIsDisk`, `TimelineKept`, `TaskImplementsAbstract` - for one worker and all requests:
  `[]RecordMatchesDisk`, `TimelineOnlyGrows`, and `ImplementsResearchTask`, that is
  `Spec => Abstract!Spec` without its fairness. The invariant (`Faithful`) is that the record, and
  whatever a handler or a recovery has read and will still act on, is what is on disk until the task
  is deleted; each step then writes the durable task in one of four ways (`OneWrite`), and each way is
  a step of `ResearchTask` or a stutter. With a second worker this is false (`stale_writer`).

`EventDeliveryProofs` proves, for every number of tabs, reconnects, runs, events, lock objects and
stalls,

* `DiscardedStaysClosed` - `Spec => []DiscardIsFinal`. The inductive invariant (`ConnInv`) adds that
  a replay or a pong holds the connection lock and that a replay serves the active socket. The task
  lock plays no part, which is why a stale lock object does no harm here.
* `OneRunPerSocket` - `Spec => []SocketServesOneRun`, from `EmitInv` (an emit in flight is of the
  current run, and none is when a replacement clears the transport), `PlaceInv` (only an established
  socket has been sent anything) and `RunInv` (a replay and the active socket are of the current
  run). `ShapesKept` is the typing these rest on.
* `ServedSocketMissesNothing` - `[]LiveSocketMissesOnlyCut`. `LiveInv` accounts for every event of
  the run while a socket is served: sent, or still to be replayed, or in flight, or cut;
  `TimelineInv` adds that an emit in flight ends the timeline, which is what a replay that started
  before it relies on.
* `OnlyAStallOrphans` - `[]OrphanedOnlyByStall`: while no client has stopped reading, a connected socket
  whose handler reads on is the one in service (`ServedInv`).
* `SettledTabSawAll` - `[]SettledViewComplete`: `ShownInv` ties what a tab was told to what its
  sockets were sent, through polls, replacements and reconnects.
* `DeliveryImplementsFeed` - `ImplementsTimelineFeed`. Every step of the server is a step of the
  record (`RecordIsFeed`) or lets a tab learn something (`LearningIsFeed`), and every other step
  changes neither (`TabMoves`). `FeedInv` is what that needs beyond the invariants above: once a run
  is settled or the task gone only an outcome is in flight, and no replay or tab has an event of the
  run that is not recorded.
* `DeliveryTyped` - `[]TypeOK`.

`WorkerProofs` is about the components of one worker. It proves `LeasesAlwaysCounted` (`Spec => []LeasesCounted`) and the typing, for
every number of requests, priorities and leases: the counters are the cardinalities of the sets of
requests inside a lease, which every step changes by the request it moves. And
`CountAlwaysExplained` (`DrainSpec => []CountExplained`) and the typing, for
any number of posts and threads, where what a refused creation leaks counts as leaked, before or
after it replaced a task: the invariant adds that a request has
no task before it was answered, so that a step changes the counter and the set of outstanding posts
by the same post, and that a worker found idle has stopped accepting.
Of `ProviderCircuit` it proves `ProbesAlwaysDecide` (`CircuitSpec => ProbesDecide`: the half-open
place is taken only in a quarantine that is over, and by a probe that is under way or was lost; and a failed probe quarantines the provider again, whatever
late calls have reported meanwhile) and the typing, for any number of callers and slots and any
window, threshold and rate. The invariant adds `OpenWindowTrips`: the window of a circuit that is not
closed still trips it. That holds because a failure that slides into a full window pushes one
outcome out and leaves no fewer failures (`FailureSlides`, `FailureKeepsTripping`).
Of `TaskLocks` it proves `OwnFlockAfterFailedDelete`: for any number of workers, tasks and requests,
a handler that waits for a flock its own worker holds does so on a thread that a failed or refused
deletion has left in place there. The invariant (`LocksInv`) says that an asyncio lock lets one visit
in at a time, also after it was dropped from the table, that only deletions drop locks, and that a visit
with a dropped lock reaches the flock only where the deletion left the thread in place.

`ResearchPipelineProofs` proves `NothingOutlivesResearch`, `PhasesNeverRefuse` and
`ResultsRestOnEvidence` for any marketplaces, settings and limits. The invariant has a part for each
and says them for every stage: where anything may run beside the main coroutine (`Quiet`), that
free, foreign and held slots make up the limit (`SlotsExact`), the phase of each stage
(`PhaseAtStage`), and what is known of the search and which calls are open in the timeline
(`Evidence`). What leaving by an exception does is one lemma (`LeaveFacts`), used by eight actions. `PipelineTyped` is the typing.

`RecordProofs` proves

* `KeysHaveOneChild` (`[]OneChildPerKey`) for any number of workers, keys, children and crashes: as
  long as the parent exists its lock has one file, so one worker at a time is between the scan and
  the answer, and a started child stays recognisable on disk;
* `DurableMeansDurable` (`[]DurableUnlessRaced`) whatever the commands compute, through restarts: what a client read is
  still what the answered commands made of the record, or the record is marked as changed;
* `FilesAlwaysAgree` (`FilesSpec => []FilesAgree`) and the typing, for any set of images and number of
  runs. `FilesAgree` is inductive only with what holds of readers under way: while a file is sent the
  folder has the reports of the run that was checked or none, and what a rerun has not copied yet is
  still there unless the parent is deleted;
* `LastCommandWins` - what a list of memory commands makes of a record, for every list: the last
  command on a value decides, and a value that no command names stays as it was. With it
  `PreferenceTyped`, the typing of the store, and `LineageTyped`, that of the children.

`ConversationProofs` proves `QuestionsAlwaysSettle` (`[]QuestionsSettle`), from the invariant that a
question that was put is answered or is the one waited for, and `WindowAlwaysKeeps`
(`[]WindowKeeps`) for every limit of at least 32 tokens and every length of the messages. The second
is arithmetic: `RoomLeft` (the summary, cut to its room, leaves the newest message its cost or at
least 21 tokens) and `ShortenedFits` (21 tokens are enough for a message that is cut, its marker
included) meet in `WindowFits`. `ClarificationTyped` is the typing.

`ShoppingProofs` proves, for any settings, offers, plans, preferences and answers of the services,

* `OrderNeverMatters` - `OfferSpec => []OrderIndependent`: two lists of the same offers, each in the
  strict order of the price keys, are equal (`SameOrder`), because a key ends with the offer's id;
* `NothingEverVanishes` - `OfferSpec => []NothingVanishes`: every step between the evidence and the
  decision keeps each offer once or files it where the answer accounts for it (`Accounts`). Both
  rest on `OfferInv`: what each step finds is computed by the tools from what the one before stored;
* `CurrentRequestAlwaysWins`, `RelaxationsAlwaysSuffice` - of the decision, from the same invariant. The
  first is about equal values, in whichever field they stand: more is not true (below, "Met on
  the way");
* `ReadinessAlwaysExplained`, `LiveAlwaysMeansLive` - of every configuration, and of every outcome of
  the searches, for every label a task may bring, a rerun's included (`SearchInv`: the rows and
  providers so far fit the settings and the label, a source is asked only where the settings have it,
  and a result is one the contract admits);
* `RecallAlwaysDisclosed` - `RecallSpec => []RecallDisclosed`: `RecallInv` ties each score that may
  order the offers to the report that must then show it, channel by channel, as the answers arrive;
* `OfferTyped`, `SearchTyped`, `RecallTyped` - the typing, which for the offers includes the bounds of
  the answer: no more costs than compared offers (the costs are mapped into them one to one,
  `NoLonger`), and at most three recommendations (`AtMostThree`).

*Data without induction.* A proof cannot use the library's induction theorems, but a set of naturals
has a least element, and that is enough: sorting is defined by ranks (`Ordering`: the element that
k - 1 others come before), a rank is a cardinality, and `EveryRankTaken` - every position
is some element's rank - makes sorting, filtering and slicing facts about sets (`SortedArranges`,
`AtPositionsArranges`). The fold in the token estimate exists and has integer values because the
least set of positions for which it did not would have one less (`FoldExists`, `FoldTyped`). What the
memory commands compute is a recursive function on positions; `LastCommandWins` gives its closed form
(`LastWord`), which satisfies the recursion, and a least position where the two differ cannot exist.

*Assumptions* are on the constants only: numbers that count are naturals, there is at least one
thread and one slot, `"none"` is no key, lengths of texts are naturals (`ClarificationAssumption`), the commands of a
request remember or forget a value (`PreferenceAssumption`). `OfferAssumption` says what the schemas say: offers have different
ids, amounts and rates are not negative, a consumption tax is below 100 percent, an offer states
finitely many facts, and a research without any candidate ends before the customs evidence.
`RecallAssumption` says that answers of scorers and of the index are lists of numbers, which the code
checks before it uses them, and that at least one offer is asked for. TLC evaluates all of them.

Only model-checked: liveness under fairness (`RunningResolves`, `WaitersServed`, `ResearchEnds`,
`ShutdownEnds`, `QuarantineEndsUnlessProbeLost`, `HandlersAnswered`, `EmitReturns`,
`OutcomeReachesServedTabs`) and `ENABLED`, which are outside what TLAPS proves. Every other property
of a passing run is stated by a theorem, some under the hypotheses named above. `RecordMatchesDisk`, `TimelineOnlyGrows` and
`ImplementsResearchTask` are neither proved nor checked for more than one worker, and
`ExecutorHoldsOwnerLock` neither with clarification: there the findings break them.

## Met on the way

Behaviour seen while modelling that is no run of its own (a run checks one claim of the
documentation, and these contradict none, contradict one in passing, or repeat one that is covered):

* `resilience/request_queue.py:164,176`: an acquire that pops the head may raise the heavy capacity in
  the same step and notifies nobody, so the next head sleeps beside an idle lease until the next change.
* `compress/compressor.py:259,607`: a long summary squeezes the window down to a part of the newest
  message.
* `tools/product_search.py:147`: a vector of the wrong dimension is reported and still sent.
* `api/server.py:2717-2719`: a deletion drops the thread's lock from `task_locks` also when it was refused
  or failed. A handler that waited for the dropped lock and a later one then run side by side; when one
  awaits its broadcast under the command flock, the other blocks their worker on that flock for ever.
  `CommandsSerialize` is violated this way by one worker and one task, too.
* `tools/clarification.py:189`, `api/server.py:2487`: a response that is not one of the fixed mode responses
  can answer the question about the mode and, repeated, the one about the product; only answers to the
  same field are compared (test_clarification.py rejects reuse for a fixed response).
* `api/server.py:353-364`: deletion unlinks lock files that others have open; `ResearchLineage` models
  it, and its promise therefore ends with the parent.
* `api/server.py:2107,2676`: a rerun that fails after copying leaves the child's folder without a
  snapshot, which a deletion answers with 404 for ever.
* `memory/store.py:240-259`: a read that fails goes to the memory of the process; when the write that
  follows reaches the primary, the durable record is replaced by what the memory knew. The status says
  `degraded` by then.
* `memory/commands.py:133`: of two overlapping commands of one shopper the later write removes or brings
  back a value it never named (TLC finds it with two clients and a store that is called durable
  throughout), although docs/API_CONTRACT.md:1482 says that only an explicit update changes the record.
* `memory/injector.py:87`: a remembered preference gives way only to an equal value, compared as a whole
  string. A remembered "avoid wool" (羊毛) stays applied against a demand for pure wool (纯羊毛) and then
  counts against exactly the offers demanded; CONTEXT.md:168 promises that it never overrides an
  explicit statement.
* `tools/item_search.py:426`: a sandbox that searches the product index, which examples/sandbox.env.example
  offers, asks for live rows too; when one comes, the contract refuses the result
  (`schemas.py:1472`) and the research ends in an error.
* `api/server.py:1812-1882`: a creation counts itself before its checks; every refusal between the count
  and the `try` at 1883, a 409 of the owner lock after it has replaced a task included, leaves the count
  raised. `CountExplained` books these as leaked; the drain then runs into its timeout.
* `schemas.py:1458-1475` with `api/server.py:2043`: a rerun of a live task in a process that allows fixtures
  searches them, shows them in its events and then fails, because the contract refuses the result.
* `memory/store.py:261`: a deletion that the primary carries out leaves the fallback's record, which a
  later failure of the primary brings back (disclosed, as the status then says).
* `tools/customs_provider.py:175`: only the first twelve recalled offers get customs evidence, in the order
  in which the marketplaces answered; `OrderIndependent` permutes the offers after that cut.
* `tools/ebay_browse.py:115`: a revoked token stays cached until it expires.
* `api/server.py:2814-2830`: cancelling a task that has not begun leaves the recording to the handler;
  when that write fails, the record stays "running" with nobody behind it and the owner flock stays
  held. Hence `fails = 0` in `RunningIsAttended`.
* `recall/orchestrator.py`, `_mode_for_channels`: in the product search path only OpenSearch counts for
  the mode. A rerun (no readiness check, `api/server.py:2221`) in a process that has lost OpenSearch and
  still has its index is called `deterministic_fallback` although the index ordered its offers; the
  channels say so, and `RecallDisclosed` excepts the case.
* `recall/orchestrator.py:694`: the default order returns every candidate, whatever `top_k`.

## Plan

What a next step would take, most valuable first:

1. `ClientReducer` composed with `EventDelivery`: the shown task equals the recorded one.
2. `PromptVersions` (`app/evolution`): activation and rollback over two files.
3. The planner's parsing of constraints, and `marketplace_gateway`'s normalisation of rows, against
   reference definitions.

## Not modelled

* The text and PDF layout of reports, wording of summaries and questions, telemetry
  (`app/observability.py`), styling of the workspace: no property is about them.
* Authorisation, the rate limit and request validation: they refuse without changing state.
* Cancellation of an HTTP handler by a client that goes away: uvicorn lets handlers finish, and
  finishes its requests before the lifespan ends, which `RuntimeDrain` and `TaskLifecycle` rely on.
* The advisory model call beyond the plan it may return, the token budget, `compress/breakpoint.py`
  (no message of a task is a tool's).
* The planner (it appears as the intent it returns), `marketplace_gateway` and `category_insight`
  beyond the outcome of a call, embeddings, vector indexes and model services: numeric or external.
* `app/evolution`: an administrative path that a research reads once.
* The buffer of a connect without bootstrap and sequencing without a recorder: unreachable from the
  server. `close_active` after a failed write (`api/server.py:1249`) is the step "closing" of
  `TaskLifecycle`; `EventDelivery` has no failing writes, and the deletion and the replacement there
  close sockets in their own way.
