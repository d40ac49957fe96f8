# A verification of the concurrent machinery of Codex

This directory holds TLA+ models of the concurrent parts of Codex (`src/codex-rs`),
the TLC configurations that check them on small instances, and theorems about
them that TLAPS proves for every instance. It models the *control* of the code
(who takes which lock, what is read before and used after an await, what happens
on the early returns) and leaves prompts, wire formats, storage and presentation
out. Paths below are relative to `src/codex-rs/`.

## 1. Inventory

Codex is a coding agent. A *session* (one per thread) runs *turns*: a turn feeds
user input to a model, executes the tool calls it asks for and ends with an
event. Clients (terminal UI, editors, desktop and phone) reach sessions through
the *app server*, which speaks JSON-RPC over several transports. Around these two
are processes, storage and policy.

```
 clients ──transports──> app server ──ops──> session: submission loop ──spawns──> tasks (turns)
             (remote          │  requests,        │  active_turn, input queue,        │
              control)        │  serialization    │  mailbox, goals, guardian         │
                              v                   v                                   v
                     thread state,        other sessions (sub-agents)        tools: exec, patch,
                     outgoing requests    by inter-agent mail                code mode, MCP
```

| Component | State it keeps | Operations | Hard behaviour | What makes it correct | Here |
|---|---|---|---|---|---|
| Request serialization (`app-server/src/request_serialization.rs`, `connection_rpc_gate.rs`, the loop in `lib.rs`) | a FIFO per key, one drain task per live key, a gate per connection | enqueue, drain, enter a gate, close a connection, shut down | lock released before the task is spawned; close racing queued and running handlers; a panic in a batch | conflicting requests of a key keep their order; one owner per queue; nothing runs after teardown; nothing gets stuck | `RequestSerialization` |
| Turn lifecycle (`core/src/tasks/mod.rs`, `state/turn.rs`, `tasks/regular.rs`, `tasks/compact.rs`) | the active turn, its tasks, pending input, approvals and mailbox phase | start, finish, abort a task; reserve and clear the active turn | four kinds of actors, an await between almost any two accesses, handles aborted by timeout | no input lost or doubled, no turn out of reach, no reservation without an owner, every turn ends | `TurnLifecycle` |
| Input queue (`core/src/session/input_queue.rs`) | mailbox, idle input | queue, drain, defer, inject, clear | two locks taken one after the other | as above | `TurnLifecycle` |
| Submission loop (`core/src/session/handlers.rs`) | none of its own | user input, interrupt, compact, approval, mail, denied actions, shutdown and about 25 more | runs beside the tasks it starts | it always gets to the next operation | `TurnLifecycle`, in part |
| Goal continuation (`core/src/goals.rs`) | the goal, a permit | continue when idle, change | reserves a session, then reads the goal again | a reservation is used or given back | `TurnLifecycle`, in part |
| Guardian (`core/src/guardian/review.rs`) | denial counters | review, trip | aborts a turn from a detached task | aborts only its turn | `TurnLifecycle`, in part |
| Exec-server sessions (`exec-server/src/server/session_registry.rs`, `handler.rs`, `processor.rs`) | sessions, attachment, notification sender, processes | attach, resume, detach, expire; start and terminate processes | expiry against resume; detach in two steps; handlers dropped with their transport | a session serves one connection, ends only when its time is over, and takes its processes with it | `ExecSessions` with `SessionLease` |
| Exec-server process streams (`exec-server/src/local_process.rs`, `client.rs`, `rpc.rs`; its consumers in `core/src/unified_exec` and `rmcp-client`) | the entry of a process, retained output; the client's route and events | output, exit, close, read, publish, fail | one task per stream and one for the exit; pushed events beside reads; a lagging subscriber; the transport lost | every retained chunk once and in order, the close after all of them, no consumer stuck | `ExecProcess` with `ExecEventStream`, in part |
| Remote control (`app-server-transport/src/transport/remote_control/`) | virtual connections, sequence numbers, assemblies, unacknowledged envelopes | open, forward, reassemble, replay, expire | lost and repeated envelopes, reconnects, streams initialized again | at most once, in order, every connection closed on both sides, no answer skipped | `RemoteControl` with `StreamConnections`, in part |
| Thread state, outgoing requests (`app-server/src/thread_state.rs`, `outgoing_message.rs`) | subscriptions, listeners, callbacks | subscribe, close, replay, resolve, cancel | connection closed between two lookups | no subscription of a closed connection; a callback answered once | planned |
| Memory jobs (`state/src/runtime/memories.rs`, `memories/write/src/`) | job rows with owner, lease, watermark, retries; outputs; files with a git baseline | claim, heartbeat, succeed, fail, consolidate, reset | several processes, crashes, lost leases, files without a transaction | one effective owner, no lost watermark, nothing committed unread | `MemoryJobs` with `MemoryPipeline`, in part |
| Agent registry (`core/src/agent/registry.rs`) | slots, paths, nicknames | reserve, commit, drop, release | counter and map under different synchronisation | the limit holds, slots come back | planned |
| Rollout recorder (`rollout/src/recorder.rs`) | buffered items, writer | record, persist, flush, shut down | partial writes and retries | items written once, in order | planned |
| Readiness flag (`utils/readiness`) | an atomic, tokens, a watch channel | subscribe, mark, wait | atomics beside a lock | no waiter sleeps through readiness | planned |
| Unified exec (`core/src/unified_exec`), code-mode cells (`code-mode/src/service.rs`) | processes, cells | spawn, write, prune, exit; start, yield, terminate | limits, exit races | | planned, last |
| Tool scheduling, context history, apply-patch | | | sequential, or one lock | candidates for pure-algorithm modules | not planned first |
| TUI, CLI, desktop replica, SDKs, sandboxing, config, login, model and MCP clients, daemon, stores, watcher, realtime, per-RPC processors | | | I/O, presentation, third-party protocols, operating system | | not modelled |

`PROJECT.json` lists every component with its files, and every hazard with the
line where it bites and the properties that cover it.

## 2. Plan

In order of importance to the system, and written so that each can be proved about
(constants with named assumptions, one action per operation, no `RECURSIVE`):

1. **`RequestSerialization`** with the abstract `SerializedAccess` it implements. Done,
   proved.
2. **`TurnLifecycle`**. Done, proved: what can be aborted, who owns a reservation, whose
   approvals are dropped, that no input is delivered twice and no steered one lost by a task,
   and who owes what must happen. Left: review and user-shell tasks, shutdown.
3. **`ExecSessions`** with the abstract `SessionLease` it implements: attach, detach, expiry and
   the processes of a session. Done, proved.
4. **`ExecProcess`** with the abstract `ExecEventStream` it implements. Done, proved.
   Left: writes, signals and termination.
5. **`MemoryJobs`** with the abstract `MemoryPipeline` it implements: sessions that share leased
   jobs and a directory, with crashes. Done, proved.
6. **`RemoteControl`** with the abstract `StreamConnections` it implements: streams of many
   clients over a websocket that is lost and resumed. Done, proved. Left: clients that name no stream.
7. **`AgentSlots`**, **`RolloutWriter`**, **`Readiness`**: small modules with proofs. Left.
8. A composition of `RequestSerialization` with the thread state: a connection
   closes while its subscription and its callbacks are in use. Left.

## 3. Modules

### `SerializedAccess`: the promise

Requests are *new*, *waiting*, *running* or have *left*. A request starts only when
every conflicting request that arrived before it has left, and it may leave
without having started. `Conflicts` is a parameter.

### `RequestSerialization`: queues, drain tasks, gates

| State | Code |
|---|---|
| `loopAt`, `loopOn` | where the processor loop of `app-server/src/lib.rs` is and what it awaits there |
| `connections`, `cleaned` | its connection map; connections whose `connection_closed` ran to its end |
| `accepting` | `ConnectionRpcGate.accepting`; the tokens of its `TaskTracker` are the running handlers (`InFlight`) |
| `present`, `queue` | the keys and the `VecDeque`s of `RequestSerializationQueues.inner` |
| `drainer`, `batch` | the drain task spawned for an enqueue, and what it has popped |
| `phase` | how far each request has come |
| `arrival`, `clock` | history, for the order properties only |

The loop handles one event at a time: it dispatches (`DispatchFree` or `Enqueue`, then
`SpawnDrain`, because the task is spawned after the lock is released), closes a
connection (`CloseBegin`, `GateClose`, `CloseEnd`: the await on the running
handlers lies between the last two) or leaves (`LoopBreak`, `LoopExit`, gracefully
or forced). A drain task pops one exclusive request or the run of shared reads at
the front (`DrainPop`), awaits them together (`DrainJoined`) and removes the entry when
it finds the queue empty (`DrainExit`). A handler enters its gate or is skipped
(`GateEnter`) and ends (`HandlerFinish`, `HandlerPanic`); a panic unwinds the drain
task that polls it, with the rest of its batch. A drain task is named by the request
whose enqueue spawned it, so nothing in the model keeps two of them from serving
one key; that there is only one is a property.

Abstracted: what handlers do; initialization of a connection; the outbound router.
The loop could also break between the two halves of a close if that router has
died, which is listed as a hazard without a property.

### `TurnLifecycle`: the turns of one session

`Session.active_turn` is a lock around `Option<ActiveTurn>`. The actors are the
submission loop, every task, a caller of `continue_active_goal_if_idle` and the task
the guardian spawns. An action is the code between two awaits at which another
actor can get in. The program counter `pc` of an actor names the section it is about
to execute:

| `pc` | Code |
|---|---|
| `st_queued` ... `st_launch` | `start_task`: idle input, pending input, mailbox, the first `get_or_insert`, `extend_pending_input`, the second `get_or_insert` with the spawn |
| `ms_check`, `ms_reserve` | `maybe_start_turn_for_pending_work_with_sub_id` |
| `gc_lock` ... `gc_still` | `maybe_start_goal_continuation_turn` |
| `prewarm` ... `recheckMail` | `RegularTask::run`, `run_turn` and one request to the model |
| `finish` ... `clear` | the end of the spawned task and `on_task_finished` |
| `take` ... `clear_pending` | `abort_all_tasks` and `abort_turn_if_active` |

An `ActiveTurn` is an allocation that tasks hold on to through its `turn_state`; its
identity (`Arc::ptr_eq`) matters. It is named by the turn whose start made it and
by the section that did (`Shell`). `shell[a]` is the one an actor holds, `carried[a]`
what it has taken out of a queue and not yet put anywhere: exactly the state that
an await can make stale or that is lost when the handle is aborted (`Die`).

Abstracted, and why it is sound for the properties stated:

- a queue of items is a set: no property is about the order in one queue;
- a model request is one section that may call tools, ask for an approval, answer, end or
  fail (`ToolRuns`, `ToolAsks`, `Answer`, `SampleEnd`); hooks do not block an input;
- an approval stands for every kind of pending answer, all kept in maps of the same
  `TurnState` and cleared together;
- the record of a batch of drained items is one action; a task whose handle is aborted
  stops at any section after that, losing what it carries;
- the conditions of `goal_continuation_candidate_if_active` are read in one action;
- `debug_assert!` is off, as in the release profile;
- an aborter waits for the task to notify that it is done, but never longer than
  `GRACEFULL_INTERRUPTION_TIMEOUT_MS`: the wait is the time between `AbortCancel` and `AbortKill`,
  in which the others run;
- an interrupt's marker in the history, metrics, events other than the two that end a
  turn, and token accounting are left out.

### `SessionLease`, `ExecSessions`: attach, detach, expiry

`SessionLease` is the promise to a client that loses its connection: a session is *new*,
*held* by one connection, *free*, *over* or *ended*. It goes to a connection only while it is
new or free, that connection holds no other, and nothing but letting go takes it away; only a
free one runs out of time, only one that has run out ends; processes start in a session that
is held. In `ExecSessions` the stage is read from the registry and the attachment
(`LeaseStage`), the holder is the attached connection of a session of the registry
(`LeaseHolder`), what runs is `alive`.


| State | Code |
|---|---|
| `sessions`, `made` | the map of `SessionRegistry`; the ids that were ever in it (they are never used again) |
| `attachment` | `AttachmentState`: the current connection, the one that detached last, and whether its `DETACHED_SESSION_TTL` runs or is over |
| `sender` | the `RpcNotificationSender` of the session's processes, behind a lock of its own |
| `entry`, `alive`, `spawning` | the process table of a session, its children, and the process a request is starting |
| `pc`, `handle`, `doomed` | the loop of a connection, its `SessionHandle`, and the expired session it has removed and must shut down |
| `timers`, `expiring` | the tasks that `detach` spawned, and what they removed |
| `abandoned` | history: sessions whose shutdown was dropped |

A connection handles one message at a time: `NewSession`, `Resume`, `ResumeExpired`
(the registry stays locked up to the attachment), `StartProcess` in two steps,
`Terminate`. `Detach` and `ClearSender` are two actions because they take two locks. An
expiry task wakes after the deadline of *its* detach and decides again
(`ExpireIfDetached`). A request in hand is dropped at an await when its transport closes
(`DropShutdown`, `DropSpawn`).

Abstracted: the contents of requests; output (that is `ExecProcess`); file-system and HTTP
requests, which touch no session.

### `ExecEventStream`, `ExecProcess`: the output of a process

`ExecEventStream` is the promise: events are numbered 1, 2, 3, ..., one exit, one close, nothing
after it, and a subscriber sees them in that order without a gap.

`ExecProcess` follows one process from its pipes to the code that consumes its output.

| State | Code |
|---|---|
| `process`, `task` | the `RunningProcess` under the lock of the table; the two tasks of `stream_output` and that of `watch_exit`, each between its lock and its notification |
| `request` | a `process/read` in the loop of `exec_read`: looking, holding what it saw, waiting |
| `wire`, `down`, `rpc`, `inbox` | the transport; `rpc.rs`, which hands responses to their calls and notifications to another task |
| `reader`, `client` | the notification reader and `SessionState` in `client.rs`: events that came early, the published ones, failure, the route |
| `consumer` | unified exec ("wake": read after every wake) or the transport of a remote MCP server ("events": a bounded broadcast, and a read when it lags): its cursor, and the batches of chunks it took (`got`) |
| `log`, `left` | history for the refinement; bound |

Notifications are sent after the lock is released, hence in any order (`Notify`); the client
puts them back in order (`PublishOrdered`), and a response overtakes the notifications that
wait in `inbox`. `FailAllSessions` and a failed call both fail a session, each in two halves,
and only one of them publishes the failure.

The reader of the transport ends in one of two ways. At the end of the transport (`ReadEnd`) the flag
that makes `RpcClient::call` refuse is up before the pending calls are drained. At a message the
client does not accept, a malformed one or a request (`ReadBreaks`, with `Garbles`), it is not:
until the notification reader has recorded the disconnect (`RecordDisconnected`) a read may
still pass both checks (`BeginRead` looks at the session and at what was recorded,
`StartRead` at the flag) and register a call that nobody will answer. The same constant lets a
notification be one that cannot be read, at which the notification reader gives up.

Abstracted: a chunk is its sequence number, a bound on bytes a number of chunks; the
oldest chunk gives way whatever its size. What the server does once this transport is closed is
the subject of `ExecSessions`.

### `MemoryPipeline`, `MemoryJobs`: the memory pipeline

`MemoryPipeline` is the promise, as long as memory is not reset. The record of a thread moves on,
to a version whose extraction has just finished, and the memory stored for it is of that
version. One session at a time *holds* the consolidation; only it lets agents see memories, of
versions that were recorded, makes the baseline out of what was seen, and chooses, when it lets
go, among what is in the baseline and still stored; what is chosen is not pruned. In `MemoryJobs`
the record is `success` of the job (`Recorded`), the memory is `output` (`Stored`, `Chosen`), and
the holder is the session inside phase 2 (`Holder`).

Every root session runs the pipeline once: phase 1 extracts a memory from each thread that
has changed, phase 2 consolidates them into files. What sessions share is SQLite, where every
method is one transaction and one action here, and a directory, where none is.

| State | Code |
|---|---|
| `source`, `mode` | `threads.updated_at`, `memory_mode` |
| `job`, `global` | the rows of `jobs`: status, owner, lease, backoff, retries, input and success watermark |
| `output` | `stage1_outputs` with its selection for phase 2 |
| `tree`, `baseline`, `resetting` | the files, the commit they are compared with, a `memory/reset` between the database and the files |
| `pc`, `found`, `claims`, `inputs`, `agent`, `beaten` | where a session's pipeline is, what it has read and holds, its agent, its heartbeat |
| `extracted`, `consolidated` | history: what was really extracted, what a completed agent has seen |

Phase 1 goes `Prune`, `Scan`, `Claim`..., then an outcome of each extraction; phase 2 goes from
`ClaimGlobal` over files, diff and agent to `SucceedGlobal`. Every step may fail, by an error
of the step and by one of the database on top of it (`FailOrErr`), and a session may die
between any two (`Crash`). Around them threads are updated and polluted, memory is reset,
and deadlines pass.

Abstracted: a session claims a job at most once, so its id is the ownership token; which of
the stale threads, and which of the eligible outputs, a query returns is any subset (age,
idleness, limits, usage); a deadline is a flag and a step that lowers it, except for the lease
of the global job, which has ticks. `Tick` waits for a living owner (`InTime`): heartbeats
come every 90 seconds of a lease of 3600. The lease of a stage-1 job is never renewed and may
end under its owner at any time.

### `StreamConnections`, `RemoteControl`: virtual connections over one websocket

`StreamConnections` is the promise to the app server and to the clients behind the websocket. A
stream has at most one live connection, which an initialize of its client opens and the next one
ends. While it lives it is given messages that its client sent *whole*, each later than all it
was given before; once ended it is given nothing and stays ended. The answers of a stream arrive one after
another, none skipped. In `RemoteControl`, what was sent whole is read from the log of the backend
(`SentMessages`: for a chunked message, all its chunks and none of them too large), the
connections from all that the tracker ever had (`Connections`), the answers from the cursors
the writer gave out (`Answered`).


| State | Code |
|---|---|
| `log`, `last`, `at`, `arrived` | the backend, which is external: the envelopes of the clients in order, where the websocket is in them, and what it has got back |
| `socket`, `cursor` | the websocket; `subscribe_cursor`, with which it is resumed |
| `assembly`, `completed` | `ClientSegmentReassembler` in `segment.rs` |
| `conn`, `open` | every virtual connection there has been: what it was given, its task, how it ended; `ClientTracker.clients` |
| `events`, `seqId`, `sequenced`, `buffer`, `sending` | the writer's channel, `next_seq_id_by_stream`, every cursor it gave out, those it keeps until they are acknowledged, and those it sends next |

The reader handles one client envelope to its end before the next, so this is one action
for each outcome: `ReadRepeated`, `ReadRefused`, `ReadMisfit`, `ReadPending`, `ReadLastPart`,
`ReadMessage`, `ReadInitialize`, `ReadClosed`. Between envelopes it expires idle clients
(`CloseExpired`), joins the task of a connection that has ended (`Reap`), which names the stream and
not the connection, and takes acknowledgements (`ReadAck`). The task ends on its own once its
token is cancelled, by the tracker or by the app server (`AppDisconnects`, `TaskEnds`): with or without
a websocket, and so possibly long before it is joined. The writer numbers a message or its chunks
(`WriterTakes`) and sends them one by one (`WriterSends`); after `Connect` it sends all of
its buffer again.

Abstracted: pings and the enrollment; clients that name no stream; a large `initialize`;
the age that selects the evicted assembly (any may be the victim); the order of streams in a
replay, a `HashMap`'s (any interleaving); the blocking of full channels; an envelope that
is lost on the way counts as not sent. The backend
resumes anywhere at or before the cursor it is given, so everything may be repeated. A
client's next envelope is sent when the reader has read what there was: as the reader is
alone with its state, one that was sent earlier would be read in the same state.

### The `MC` modules

Each names the members of its small instances and, where no property tells them
apart and no liveness is checked, their symmetry (streams of a process; sessions and
threads of the memory pipeline). Turn ids are handed out in a fixed order, clients of the app
server differ in what they send, remote streams in their clients: there is no symmetry to use.

## 4. Runs

| Run | Instance | Shows |
|---|---|---|
| `serialization` | 2 connections; two shared reads and a write of one key, and an unserialized request; handlers may panic | conflicting requests keep their arrival order across batches, closes and shutdowns (`ConflictsInOrder`); each live key has exactly one drain task and no queued request is without one (`OneOwnerPerQueue`); no handler outlives the teardown of its connection (`TornDownQuiescent`); a request is skipped only for its own connection's sake (`SkippedOnlyWhenClosed`); the whole implements `SerializedAccess`; a dispatched request ends unless a handler of *its own key* panicked (`EveryRequestEnds`); the loop gets past every close (`CloseCompletes`) |
| `turn_starts` | 3 turns, 2 user messages, one trigger mail | with the end of a turn, mail and the user all starting turns: no item is in two places (`ItemInOnePlace`), no task loses a message that was steered into its turn, in a round or at its end (`TaskKeepsSteered`), a running turn is always in reach of an abort (`EveryRunningTurnCanBeAborted`), trigger mail is read (`TriggerMailIsRead`) |
| `turn_aborts` | 2 turns, a goal, a compaction, a denied action, an approval, a guardian that aborts | a reservation always has an owner that goes on (`ReservationIsOwned`), a task is never stopped while it starts the next turn (`StarterNeverKilled`), an approval is dropped only on a turn that is being aborted (`DroppedOnlyWhenAborted`) |
| `turn_progress` | 2 turns, a message, a mail, an injected item, an interrupt, a compaction | every launched turn ends with an event (`EveryTurnEnds`) |
| `exec_process` | 2 streams, 2 chunks, 1 retained by the server, 1 kept by the client; both consumers; the transport may end or deliver a message the client does not accept | a consumer skips and repeats nothing that was still there (`NoOutputSkipped`), is told of the close after all output (`CloseIsComplete`), keeps its route until then (`RouteKeptUntilClosed`), always has somebody to wait for (`ConsumerNeverStuck`), unless it has called after the reader left at a message it did not accept (section 7); the client's events implement `ExecEventStream` |
| `exec_sessions` | 3 connections, 1 session, 2 process starts | the connection that serves a session is the attached one (`ServesOwnSession`) and no other is notified (`SentToAttached`); the processes of a removed session are about to be shut down, unless that shutdown was dropped (`NoOrphans`; section 7 has the exception); the whole implements `SessionLease`, so that a session is removed only when its time is over; then it is (`DetachedSessionEnds`) |
| `memory_jobs` | 2 sessions, 2 threads of 2 versions, one claim at a time | no version is recorded that was not extracted (`WatermarkIsExtracted`); one session consolidates (`OneConsolidation`), commits only what an agent has seen (`BaselineWasConsolidated`) and selects only what it committed (`SelectionIsConsolidated`); the whole implements `MemoryPipeline` |
| `memory_reset` | the same with one version and `memory/reset` at any time | outputs are of the recorded version (`OutputMatchesWatermark`), the limit on leased jobs holds (`RunningJobsBounded`) |
| `remote_control` | 3 streams of 2 clients, messages of 2 chunks, room for 1 assembly and 1 unacknowledged message | a connection gets each message once and in order (`DeliveredInOrder`) and a chunked one whole (`AssembledIsSent`), the table keeps its bound (`AssembliesBounded`), the app server is told of the end of exactly the connections the tracker drops, and until then their task is still to be joined (`OpenIsTracked`), the whole implements `StreamConnections`, answers do arrive (`EveryMessageArrives`), and a connection that the app server gives up is closed in the end (`GivenUpIsClosed`) |
| `lost_steer`, `silent_resume`, `reinitialized_stream` | the smallest instance that shows it | see section 7 |

The type invariants of all modules with a state of their own are theorems (section 5).

**Bounds.** They are constants named in the guards. *Turns*: three turns are what it takes
for one that ends, one that is being started from its tail and one that the user starts to
overlap; interrupts, compactions and tool calls have counters. *Serialization*: two
connections and a write between two reads tell a batch of reads from a reordering and
one connection's close from another's. *Exec*: with one chunk retained on either side, a
second chunk makes the server evict and the subscriber lag; three connections are one that
attaches, one that resumes and one whose timer wakes late. *Memory*: two sessions contest a
job, two threads the single slot, a second version makes a claim stale; a lease of two ticks
can be half over. *Remote control*: `MaxWork` counts client envelopes and messages of the
app server once and faults (a lost websocket, an expiry, a disconnection) twice; five is a
chunked message given up, resumed and followed by another, or two messages around a lost
websocket, on any of three streams (840 thousand states). `CHECK_DEADLOCK FALSE` everywhere:
a server whose clients are silent stops, and so does an instance that has reached its bounds.

**Fairness.** Tokio polls every task that is ready, so every step of a drain task, of the
gate, of a starter, aborter or finishing task is weakly fair. Clients need not send
anything, interrupt or disconnect. What the code does not guarantee is assumed
and named: handlers return or panic (`HandlerFinish`); a model request ends
(`SampleEnd`), and a turn does not call tools forever (`MaxTools`); the user answers
approvals (`Approve`); and the prologue of `run_turn`, which a failing compaction can make
return early again and again, succeeds eventually (`SF` on `Begin`: weak
fairness is not enough, since the recheck between two attempts disables it).
Without the last assumption `RegularTask::run` spins, which is listed as a hazard.

`ExecSessions`: the steps of a connection that are the server's own, the expiry tasks and
time are weakly fair, and so is the end of the loop of a connection whose transport is
closed; clients and processes do as they like. `RemoteControl`: the websocket is connected
again as long as remote control is enabled (it retries with a backoff), reader and writer go
on, a cancelled task ends and an ended one is joined (both are selected on by loops that run), and the
backend acknowledges all it has. `ExecProcess` needs no fairness:
its behaviours are finite, so `ConsumerNeverStuck`, which says that the guard of some
action that goes on for the consumer holds, is what liveness comes to. `MemoryJobs` promises nothing
that must happen: its sessions may all die.

## 5. Proofs

`RequestSerialization_proofs` proves, for any requests, connections, scopes and with or
without panics:

| Theorem | States |
|---|---|
| `TypeCorrect` | `Spec => []TypeOK` |
| `OwnershipCorrect` | `Spec => []OneOwnerPerQueue` |
| `OrderCorrect` | `Spec => []ConflictsInOrder` |
| `TeardownCorrect` | `Spec => []TornDownQuiescent` |
| `SkippedCorrect` | `Spec => []SkippedOnlyWhenClosed` |
| `CloseShrinks` | `Spec => [][OnlyFewer]_vars` |
| `RunningIsPolled` | `Spec => []WaitedIsPolled` |
| `Refinement` | `Spec => ImplementsSerializedAccess` |

The assumption is `ConstantsAssumption` (a request has a connection and a scope
kind). The order is not inductive: that a starting request has no conflicting
predecessor follows only from what queue, batch and drain task have to do
with each other. The invariant `IInv` therefore joins

- `TypeOK` and `OneOwnerPerQueue`,
- `SpawnInv`: while the loop is about to spawn a drain task, that task is the pending one,
- `QueueInv`: the requests in a queue are those in phase "queued" of its key, once each
  and in the order of their arrival,
- `BatchInv`: batched and running requests of a key are in the batch of the one task
  that joins it, and a batch of more than one holds shared reads only,
- `ArrivalInv`: arrivals are below the clock, and whatever has left the queue of a
  key arrived before everything still in it,
- `ConflictsInOrder`.

Each is preserved action by action with the help of the others. A popped batch, for
instance, cannot conflict with what left before it because the task that pops has
joined its batch, there is no second task, and the queue is sorted.
`TornDownQuiescent` has an invariant of its own about gates (`DrainInv`), and so has
`SkippedOnlyWhenClosed` (`SkipInv`): a gate is closed only for a connection that is lost
(`GateInv`), the connection that is being closed has left the map (`ClosingInv`), and what is
lost stays lost. `CloseShrinks` is the lemma that `DrainInv` rests on, stated for gates that
still wait; `RunningIsPolled` is a part of `BatchInv`. `Refinement`
maps every step to one of `SerializedAccess` or to a stutter and uses `IInv` for the
guard of `Start`.

`TurnLifecycle_proofs`, `TurnApprovals_proofs` and `TurnItems_proofs` prove, for any number of turns, items,
interrupts, compactions and tool calls:

| Theorem | States |
|---|---|
| `TypeCorrect` | `Spec => []TypeOK` |
| `ReachCorrect` | `Spec => []EveryRunningTurnCanBeAborted` |
| `ReservationCorrect` | `Spec => []ReservationIsOwned` |
| `StarterCorrect` | `Spec => []StarterNeverKilled` |
| `DroppedCorrect` | `Spec => []DroppedOnlyWhenAborted` |
| `ItemCorrect` | `Spec => []ItemInOnePlace` |
| `SteerCorrect` | `Spec => TaskKeepsSteered` |
| `EndCorrect` | `Spec => []EndIsOwed` |
| `PermitCorrect` | `Spec => []PermitIsOwned` |
| `MailCorrect` | without goals and interrupts, `Spec => []MailIsNoticed` |

The assumption is again `ConstantsAssumption` (the actors are distinct, the bounds are
numbers). The first four follow from one invariant, `Inv`, of

- `TypeOK`,
- `ListInv`: only the active turn lists tasks; a *listed* task (in the active turn, taken
  by an aborter, or killed) is still running or ending and holds no `ActiveTurn`; nobody
  has taken a task that is still in the active turn,
- `FreshInv`: a turn id that was not launched belongs to the one actor that is starting it,
- `AbortInv`: only an actor in the middle of an abort has victims, and it kills what it
  has cancelled,
- `EveryRunningTurnCanBeAborted` and `ReservationIsOwned`.

`ReservationIsOwned` needs `ListInv`: the owner of a reservation could otherwise be killed
while it starts the turn, and the reservation would stay. The lemmas `Move` and `Stays`
cover the many steps that move one actor along; the others (bind, launch, reserve, let go,
remove and the six steps of an abort) have a lemma each.

`DroppedCorrect` needs three more facts. `NameInv`: the name of an `ActiveTurn` that
is still to be made is not in use, so that no `ActiveTurn` comes back. `TakenInv`: what an
actor aborts is not the active turn any more. `WaitInv`: a task that runs and is
not being aborted has its senders in the active turn. The lemma `Kept` derives
the next state's invariant from what a step does to names, starters, aborters,
runs, victims and senders, and every action is shown to be such a step.

`ItemCorrect` counts, which no prover does well. Its invariant `ItemInv` says it pair by pair:
no item is in two places of one kind (`OneEach`: two pending inputs, two actors' hands, two
spawned inputs) nor in places of two kinds (`OneKind`), and one that was not sent is nowhere.
The lemma `Counted` turns this into the cardinalities.

`SteerCorrect` needs to know who will look at what was steered into an active turn whose task
is gone (`SteerInv`): a starter that has added to it and will launch a task, or the task that
is finishing it and reads the leftovers. Nothing is pending under a name that is still to be
given, so that a new `ActiveTurn` is empty. `AddsKept` and `GuardKept` say what a step may do to the
pending inputs and to those guards; every action is shown to be such a step.

The last three are what safety there is in the liveness properties: not that it happens, but
that somebody is there to do it. `EndIsOwed`: a launched turn has its end event, or its task is
not cancelled and on its way to `TurnComplete`, or an aborter that has it will send
`TurnAborted`. `PermitIsOwned`: the permit of the goal continuation is held between its check
and the launch or the return, by nobody that is aborted. `MailIsNoticed`: while trigger mail is
in the mailbox, there is an active turn, or an actor that nobody aborts is going to start one or to look
for work. With an interrupt or with goals the last is false; section 6 says how.

`ExecSessions_proofs` proves, for any connections, sessions, processes and number of starts:

| Theorem | States |
|---|---|
| `TypeCorrect` | `Spec => []TypeOK` |
| `AttachmentCorrect` | `Spec => []ServesOwnSession` |
| `SenderCorrect` | `Spec => []SentToAttached` |
| `OrphanCorrect` | `Spec => []NoOrphans` |
| `LeaseRefinement` | `Spec => ImplementsSessionLease` |
| `TimerCorrect` | `Spec => []DetachedIsTimed` |

The invariant of the first four is these together with `ClockInv` (the clock of a session runs only while nobody
is attached, so an expired session serves nobody) and `AliveInv` (a child that runs
has an entry in the table of its session, so a shutdown that drains the table
reaches it). The refinement needs `LeaseInv` beside it: a session is attached only to a
connection that holds its handle (`HeldInv`), what somebody has removed is in the registry no more
(`GoneInv`), and the id of a process that is being started stays reserved (`StartingInv`), so
that the child is a new one. `DetachedIsTimed` says that a session nobody is attached to has a
timer of its last detach that sleeps or is about to be spawned.

`ExecProcess_proofs` proves, for any finite set of streams, any number of chunks and any size of
the two buffers:

| Theorem | States |
|---|---|
| `TypeCorrect` | `Spec => []TypeOK` |
| `OutputCorrect` | `Spec => []NoOutputSkipped` |
| `CloseCorrect` | `Spec => []CloseIsComplete` |
| `RouteCorrect` | `Spec => []RouteKeptUntilClosed` |
| `NeverStuckCorrect` | `Spec => []ConsumerNeverStuck` |
| `CallsDrained` | without messages the client does not accept, `Spec => []NoCallAfterDrain` |
| `Refinement` | `Spec => ImplementsEventStream` |

The assumptions are `StreamAssumption`, `BoundsAssumption`, `ConsumersAssumption` and `GarblesAssumption`. The invariant
`IInv` follows an event on its way:

- at the server, events are numbered without a gap, the close comes after every stream and the
  exit, and what is retained is the newest output (`LogInv`, `TaskInv`, `RetainInv`);
- a notification is the event with its number wherever it is, in a task, on the wire, in the inbox
  or held back (`TravelInv`), so the order of the notifications does not matter;
- what is published is the beginning of the log with one failure in it at most
  (`PublishedInv`), because of those who find a failed session one publishes it (`FailureInv`);
- there is one read at a time, it starts at the cursor, and its answer leaves out only
  what was evicted (`CallInv`);
- the cursor is past everything that was taken or received (`TakenInv`), and past all output
  when the consumer was told of the close (`EndInv`).

`NoOutputSkipped` needs all of it. For a pushed event the lemma `PublishedBefore` is the heart: as
events are published in order, one past the cursor leaves nothing out that was not
taken, dropped before the subscription, or evicted before a read came for it. `NeverStuckCorrect` adds
`StuckInv`, which says who goes on: an event that was logged and is not published is in a task, on the
wire, in the inbox or held back behind one that is; a call that waits has its read at the server
or its answer on the way, or will be drained with the transport; whoever has noted a failure
publishes it; and the end of the events is news to a consumer that waits and has not read it. It excepts one
consumer, which `CallsDrained` shows to need a message that the client does not accept: without
one, no call is registered after the drain, and nobody is stuck at all. For the refinement,
the published events without the failure are shown to be the first of the log
(`SequencedIs`); every step then appends one event to it, delivers some, or stutters.

`MemoryJobs_proofs` proves, for any sessions, threads, versions, limits and leases:

| Theorem | States |
|---|---|
| `TypeCorrect` | `Spec => []TypeOK` |
| `WatermarkCorrect` | `Spec => []WatermarkIsExtracted` |
| `OutputCorrect` | `Spec => []OutputMatchesWatermark` |
| `BoundCorrect` | `Spec => []RunningJobsBounded` |
| `LockCorrect` | without resets, `Spec => []OneConsolidation` |
| `BaselineCorrect` | without resets, `Spec => []BaselineWasConsolidated` |
| `NeverOlderCorrect` | without resets, `Spec => NeverOlder` |
| `SelectionCorrect` | without resets, `Spec => SelectionIsConsolidated` |
| `Refinement` | without resets, `Spec => ImplementsMemoryPipeline` |

`ClaimInv` ties the claim in a session's hands to the row it owns (same version, newer than
the last one recorded; a session does not claim a thread twice), so that finishing a row
records what was extracted, even after the row was deleted and claimed by another. `LockInv`
says that a session inside phase 2 owns the global job with time left on its lease, and that
one whose watcher has not yet been heard since the last tick has a tick more; this is where
`InTime` is needed. `FileInv` follows the files through the steps of the one session that
`LockInv` leaves. `Refinement` needs all three, and that what a session has loaded was recorded
(`InputsRecorded`): a session that leaves phase 2, by success, failure or death, lets go; an
extraction whose row was lost in the meantime is one that is not recorded; everything else the
promise does not see (`StepUnseen`). `NeverOlder` is part of it and stands by itself for a reader.
The constants have two assumptions besides `ConstantsAssumption`: no set of snapshots is
`NoBaseline` and no stored memory is `NoOutput`. A reset deletes the lock, hence the condition `~MayReset`; section 6 says
what happens then.

`RemoteControl_proofs` proves, for any streams, clients, chunks, capacities and bounds:

| Theorem | States |
|---|---|
| `TypeCorrect` | `Spec => []TypeOK` |
| `OpenTracked` | `Spec => []OpenIsTracked` |
| `DeliveryInOrder` | `Spec => []DeliveredInOrder` |
| `DeliveredWhole` | `Spec => []AssembledIsSent` |
| `TableBounded` | `Spec => []AssembliesBounded` |
| `BufferCorrect` | `Spec => []NothingForgotten` |
| `Refinement` | `Spec => ImplementsStreamConnections` |

`ConnInv` (`OpenInv`: the open connection of a stream is one of that stream; `LastInv`: a
connection remembers the last message it was given) gives the second and the third; `ReaderInv` adds
that an assembly is the beginning of one message, filed under the client of its stream
(`AssemblyInv`); `BufferInv` says that the cursors of a stream grow (`CursorInv`) and that
whatever has not arrived is kept and, while the websocket is up, about to be sent
(`KeptInv`): an acknowledgement may drop only what has arrived. `NothingForgotten` is that last part by
itself, for a reader. The refinement puts the three together and adds that the client sent every chunk
that is half-assembled (`SentInv`), so that what is complete was sent whole. Each step ends the
live connections of some streams (`ClosedMapped`, which rests on `OpenIsTracked`), opens one
(`OpenMapped`), gives one a later message or nothing (`GiveMapped`), moves the answers, or changes nothing
that the promise speaks of.

**Only model-checked**: liveness, which TLAPS does not reach, and the violations of section 7.
Every safety property of a passing run is a theorem. Each liveness property has a
safety half that is one too, which says that somebody is left to do it:

| Checked by TLC | Proved of it |
|---|---|
| `EveryRequestEnds` | `OneOwnerPerQueue`: no queued request is without a drain task |
| `EveryTurnEnds` | `EndIsOwed` |
| `TriggerMailIsRead` | `MailIsNoticed` |
| `DetachedSessionEnds` | `DetachedIsTimed` |
| `EveryMessageArrives` | `NothingForgotten` |
| `GivenUpIsClosed` | `OpenIsTracked`: its task is still to be joined |
| `CloseCompletes` | `OnlyFewer` and `WaitedIsPolled`: what a close waits for shrinks and is polled |

## 6. What is not modelled

Everything marked so in section 1, for the reasons given there and in
`PROJECT.json`. Within the modelled parts:

- *turns*: the loop's remaining operations (settings, rollback, review, shell commands,
  realtime, shutdown); what a tool call or hook does; persistence of the history; the retry
  of a failed request inside one sampling; the counting that makes the guardian trip.
  `continue_active_goal_if_idle` is called once per behaviour, and the goal changes in one
  way (it stops being active), which is what a continuation has to cope with;
- *processes*: standard input, signals and termination, the start (its two steps are in
  `ExecSessions`), the local backend that has no connection;
- *memory*: usage counts, the retry budget and the watermark number of the global job,
  prompts, turning memory off and on;
- *remote control*: see the abstractions in section 3.

What the models showed beside the properties, promised nowhere in the repository and
so no disagreement:

- a mailbox that has trigger mail stays unread when an interrupt takes the `ActiveTurn` just
  after its task left it, or when a goal continuation gives back the reservation that made a
  mail starter turn away;
- the starter of a turn adds its task to whatever `ActiveTurn` it finds, so that two tasks
  may run in one session, and mail it moved into an `ActiveTurn` that another one threw away
  is lost;
- an approval that is asked between the taking of a turn and its cancellation belongs to
  the turn that follows, and a second abort drops it there;
- a task that is past `run` when it is aborted sends `TurnComplete`, and its aborter
  `TurnAborted`;
- `memory/reset` deletes the global job while a consolidation runs: another may start beside
  it, and what the first one commits comes from before the reset;
- a stream that is initialized again keeps its half-assembled message and its chunk cursor
  until the old task is reaped, so that chunks of the new connection may be taken for repeated;
- two streams of one client that send chunks at the same time throw each other's away; the
  message that follows one that was given up may go with it;
- envelopes of a closed stream stay in the outbound buffer, and count against its
  capacity, until the backend acknowledges them.

## 7. Disagreements between code and text

The first three are runs that TLC must find violated by the model of the code as it is.

- **`lost_steer`** `app-server/README.md` promises that `turn/steer` adds user input to a turn
  in flight. `start_task` takes the pending input of the turn it meets, awaits, and hands it to
  the turn state it had bound to before; if that turn ended meanwhile, nobody reads
  it. A goal that starts a turn is enough, and so is a mail with enough messages around it. What
  the tasks themselves do with steered input is right (`TaskKeepsSteered`).
- **`silent_resume`** `exec-server/README.md` promises that output is streamed. `detach`
  releases the attachment and clears the notification sender under two locks, one after the
  other; a connection that resumes in between sets its sender and has it cleared.
- **`reinitialized_stream`** The end of a connection's task names its stream. If that stream
  was initialized again, the reader closes the new connection, whereas a test in
  `client_tracker.rs` expects the closed connection to be the one of the ended task.

Two more were met while modelling. They are not among the listed runs, which check each property
with its exception; their configurations show the exception itself.

- **`MCExecSessionsDropped.cfg`** (`ProcessesTerminated`) `exec-server/README.md:109-110` says: "If the
  websocket connection closes, the server terminates any remaining managed processes for that
  client connection." A resume that comes after the deadline takes the session out of the registry
  and shuts it down within its own request (`session_registry.rs:80`, `:107`). If the transport
  of the resuming connection closes meanwhile, the request is dropped (`processor.rs:106-109`); the
  expiry task finds no entry (`session_registry.rs:124`), and the tasks that follow the processes keep
  their table alive (`local_process.rs:241`). Nobody terminates them. `NoOrphans` excepts exactly
  these sessions (`abandoned`).
- **`MCExecProcessGarbled.cfg`** (`NoCallAfterDrain`) The comment at `rpc.rs:328-330` says of the check
  of the disconnected flag that it is atomic with `drain_pending`, otherwise "a call can sneak in
  after the drain and wait forever". At a malformed message, or a request of the server, the reader leaves
  its loop without setting that flag (`rpc.rs:257-265`) and drains the calls; until
  `client.rs:489-496` has failed the sessions, a read can still be called, and waits forever.
  `ConsumerNeverStuck` excepts exactly this read.

## 8. Running it

```
tlasany TurnLifecycle.tla
tlc -workers 2 -config MCTurnLifecycleAbort.cfg MCTurnLifecycle
tlc -workers 2 -config MCRemoteControl.cfg MCRemoteControl
tlc -workers 2 -config MCExecSessionsDropped.cfg MCExecSessions     # violated, see section 7
tlapm RequestSerialization_proofs.tla
tlapm TurnLifecycle_proofs.tla
tlapm TurnApprovals_proofs.tla
tlapm TurnItems_proofs.tla
tlapm ExecSessions_proofs.tla
tlapm ExecProcess_proofs.tla
tlapm MemoryJobs_proofs.tla
tlapm RemoteControl_proofs.tla
```

Every passing run takes about two and a half minutes or less with two workers, the proofs of a
module a few minutes. Every proof module raises the limits of the provers (`USE SMTT(20),
ZenonT(20)`); on an idle machine a step takes a quarter of them at most.
