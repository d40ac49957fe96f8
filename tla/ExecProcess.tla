----------------------------- MODULE ExecProcess -----------------------------
(* One process of the exec-server, from the tasks that read its pipes to    *)
(* the code of the other program that consumes its output:                  *)
(*   - on the server, LocalProcess: a task per output stream, a task that   *)
(*     waits for the exit, the entry of the process table they share, and   *)
(*     process/read (exec-server/src/local_process.rs);                     *)
(*   - the connection, and the client's two readers: the one that splits    *)
(*     responses from notifications (rpc.rs) and the one that puts          *)
(*     notifications back in order (client.rs);                             *)
(*   - the consumer, one of the two the program has: unified exec, woken by *)
(*     a change and then reading ("wake"), or the transport of a remote MCP *)
(*     server, following pushed events and reading when it falls behind     *)
(*     ("events").                                                          *)
(* A chunk of output has no content: it is its sequence number, and a byte  *)
(* bound is a number of chunks.                                             *)
EXTENDS Integers, Sequences, FiniteSets

CONSTANTS
  Stream,         \* the output streams of the process
  MaxChunks,      \* bound: chunks of output the process writes
  Retained,       \* chunks the server keeps for process/read
  EventCapacity,  \* events the client keeps, and a slow subscriber may lag
  Consumers,      \* kinds of consumer, out of {"wake", "events"}
  Garbles         \* may the client receive a message it does not accept?

ASSUME StreamAssumption == IsFiniteSet(Stream) /\ "exit" \notin Stream
ASSUME BoundsAssumption ==
  MaxChunks \in Nat /\ Retained \in Nat \ {0} /\ EventCapacity \in Nat \ {0}
ASSUME ConsumersAssumption == Consumers \subseteq {"wake", "events"}
ASSUME GarblesAssumption == Garbles \in BOOLEAN

Task == Stream \union {"exit"}

VARIABLES
  process,   \* the RunningProcess: entry, next_seq, output, exited, ...
  task,      \* program counter and notification in hand of each task
  left,      \* chunks the process may still write
  log,       \* the events of the process, in the order of their seq
  request,   \* the process/read the server is serving
  wire,      \* messages of the server the client has not read
  down,      \* has the transport closed?
  rpc,       \* reader of the transport: "run", at its end "drain" and "done",
             \* after a message it does not accept "broken" and "gone"
  inbox,     \* what it hands to the notification reader
  reader,    \* notification reader: "run", "recorded", "fail", "done"
  client,    \* SessionState, its route in the client, and Inner.disconnected
  consumer   \* the code that follows the process

serverVars == <<process, task, left, log, request>>
clientVars == <<rpc, inbox, reader, client>>
vars == <<process, task, left, log, request, wire, down, rpc, inbox,
          reader, client, consumer>>

Event == [seq: Nat, kind: {"Output", "Exited", "Closed", "Failed"}]
NoEvent == [seq |-> 0, kind |-> "None"]
Failed == [seq |-> 0, kind |-> "Failed"]
NoRead == [st |-> "none", after |-> 0, wait |-> FALSE]
Disconnected == [type |-> "disconnected"]

Notification(e) == [type |-> "event", event |-> e]
Error == [type |-> "response", ok |-> FALSE]
Response(chunks, next, closed) ==
  [type |-> "response", ok |-> TRUE,
   chunks |-> chunks, next_seq |-> next, closed |-> closed]

LastOf(s) == s[Len(s)]
Elements(s) == {s[i] : i \in 1..Len(s)}
MaxOf(a, b) == IF a > b THEN a ELSE b
Outputs(events) == {e.seq : e \in {x \in Elements(events) : x.kind = "Output"}}

Init ==
  /\ process = [entry |-> "Running", next_seq |-> 1, output |-> <<>>,
                exited |-> FALSE, open_streams |-> Cardinality(Stream),
                closed |-> FALSE, retiring |-> FALSE]
  /\ task = [t \in Task |-> [pc |-> "recv", event |-> NoEvent]]
  /\ left = MaxChunks
  /\ log = <<>>
  /\ request = NoRead
  /\ wire = <<>> /\ down = FALSE /\ rpc = "run" /\ inbox = <<>>
  /\ reader = "run"
  /\ client = [disconnected |-> FALSE, registered |-> TRUE,
               last_published |-> 0, pending |-> {},
               published |-> <<>>, failure |-> FALSE,
               publish_failed |-> FALSE, wake |-> FALSE]
  /\ \E kind \in Consumers :
       consumer = [kind |-> kind,
                   pc |-> IF kind = "wake" THEN "read" ELSE "subscribe",
                   after |-> 0, got |-> <<>>,
                   start |-> 0, live |-> 0, pos |-> 0,
                   publish_failed |-> FALSE, end |-> "none"]

\* What the server does once the transport is closed, or the client has left off
\* reading it, reaches this client no more: ExecSessions follows it there.
Connected == ~down /\ rpc = "run"

(***************************************************************************)
(* The server: the tasks of a process.                                     *)
(***************************************************************************)

Goto(t, pc) == task' = [task EXCEPT ![t].pc = pc]

\* Number an event under the lock of the table, and take it out to notify it.
Emit(t, kind) ==
  LET e == [seq |-> process.next_seq, kind |-> kind] IN
  /\ log' = Append(log, e)
  /\ task' = [task EXCEPT ![t] = [pc |-> "notify", event |-> e]]

\* The oldest output gives way when the process retains too much.
Retain(output) ==
  IF Len(output) > Retained THEN Tail(output) ELSE output

\* stream_output, a chunk: without an entry the loop ends, and so does the task.
ReceiveChunk(s) ==
  /\ task[s].pc = "recv"
  /\ left > 0
  /\ left' = left - 1
  /\ IF process.entry = "Running"
     THEN /\ Emit(s, "Output")
          /\ process' = [process EXCEPT !.next_seq = @ + 1,
                                        !.output = Retain(Append(@, process.next_seq))]
     ELSE Goto(s, "done") /\ UNCHANGED <<process, log>>
  /\ UNCHANGED <<request, wire, down, clientVars, consumer>>

\* stream_output at the end of the stream, and finish_output_stream.
FinishOutputStream(s) ==
  /\ task[s].pc = "recv"
  /\ IF process.entry = "Running"
     THEN /\ process' = [process EXCEPT !.open_streams = IF @ > 0 THEN @ - 1 ELSE @]
          /\ Goto(s, "close")
     ELSE Goto(s, "done") /\ UNCHANGED process
  /\ UNCHANGED <<left, log, request, wire, down, clientVars, consumer>>

WatchExit ==
  /\ task["exit"].pc = "recv"
  /\ IF process.entry = "Running"
     THEN /\ Emit("exit", "Exited")
          /\ process' = [process EXCEPT !.next_seq = @ + 1, !.exited = TRUE]
     ELSE Goto("exit", "notify") /\ UNCHANGED <<process, log>>
  /\ UNCHANGED <<left, request, wire, down, clientVars, consumer>>

AfterNotify(kind) ==
  CASE kind = "Output" -> "recv" [] kind = "Closed" -> "done" [] OTHER -> "close"

\* After the lock is released, so in any order among the tasks: the reads that
\* wait are woken, a close schedules the removal of the entry, and the
\* notification is sent.
Notify(t) ==
  /\ task[t].pc = "notify"
  /\ request' = [request EXCEPT !.st = IF @ = "parked" THEN "check" ELSE @]
  /\ LET e == task[t].event IN
     /\ process' = [process EXCEPT !.retiring = @ \/ e.kind = "Closed"]
     /\ wire' = IF e # NoEvent
                THEN Append(wire, Notification(e)) ELSE wire
     /\ task' = [task EXCEPT ![t] = [pc |-> AfterNotify(e.kind), event |-> NoEvent]]
  /\ UNCHANGED <<left, log, down, clientVars, consumer>>

ClosesAtExit == process.entry = "Running" /\ ~process.closed /\ process.exited
Closes ==
  /\ process.entry = "Running" /\ ~process.closed
  /\ process.open_streams = 0 /\ process.exited

MaybeEmitClosed(t) ==
  /\ task[t].pc = "close"
  /\ IF Closes
     THEN /\ Emit(t, "Closed")
          /\ process' = [process EXCEPT !.next_seq = @ + 1, !.closed = TRUE]
     ELSE Goto(t, "done") /\ UNCHANGED <<process, log>>
  /\ UNCHANGED <<left, request, wire, down, clientVars, consumer>>

\* EXITED_PROCESS_RETENTION after the close.
RemoveClosedProcess ==
  /\ Connected
  /\ process.retiring /\ process.closed
  /\ process.entry = "Running"
  /\ process' = [process EXCEPT !.entry = "Gone"]
  /\ UNCHANGED <<task, left, log, request, wire, down, clientVars,
                 consumer>>

(***************************************************************************)
(* The server: process/read, and the end of the connection.                *)
(***************************************************************************)

\* The retained chunks past the cursor of a read, in the order of their numbers.
FromCursor(after) == {seq \in Elements(process.output) : seq >= after}
After(after) == {seq \in Elements(process.output) : seq > after}

Newest(chunks) == CHOOSE seq \in chunks : \A other \in chunks : other <= seq
NextSeq(chunks) ==
  IF chunks = {} THEN process.next_seq ELSE Newest(chunks) + 1

\* The response a read finds under the lock of the table.
ReadNow(after) ==
  LET chunks == After(after)
  IN Response(chunks, NextSeq(chunks), process.closed)

Answers(after) ==
  LET response == ReadNow(after) IN
  \/ response.chunks # {}
  \/ response.closed
  \/ process.exited /\ after < response.next_seq - 1

Respond(response) ==
  /\ request' = NoRead
  /\ wire' = Append(wire, response)

\* A turn of the loop of exec_read.  A read with a deadline may find that the
\* deadline has passed; else it waits, but it does so only after the lock is
\* released, so a change in between does not wake it.
ExecRead ==
  /\ request.st = "check"
  /\ \/ process.entry = "Gone" /\ Respond(Error)
     \/ process.entry = "Running" /\ Respond(ReadNow(request.after))
     \/ /\ process.entry = "Running" /\ request.wait /\ ~Answers(request.after)
        /\ request' = [request EXCEPT !.st = "held"]
        /\ UNCHANGED wire
  /\ UNCHANGED <<process, task, left, log, down, clientVars, consumer>>

AwaitNotified ==
  /\ request.st = "held"
  /\ request' = [request EXCEPT !.st = "parked"]
  /\ UNCHANGED <<process, task, left, log, wire, down, clientVars,
                 consumer>>

ReadDeadline ==
  /\ request.st = "parked"
  /\ request' = [request EXCEPT !.st = "check", !.wait = FALSE]
  /\ UNCHANGED <<process, task, left, log, wire, down, clientVars,
                 consumer>>

\* The transport fails: what was not yet handed to the client is lost.
TransportCloses ==
  /\ ~down
  /\ down' = TRUE
  /\ \E n \in 0..Len(wire) : wire' = SubSeq(wire, 1, n)
  /\ UNCHANGED <<serverVars, clientVars, consumer>>

(***************************************************************************)
(* The client: the two readers.                                            *)
(***************************************************************************)

\* What a consumer takes at once, after all it took before.
Take(got, chunks) == IF chunks = {} THEN got ELSE Append(got, chunks)

\* Unified exec takes the answer of a read as it is, the MCP transport what is
\* new in it.
ReceiveAnswer(answer) ==
  LET wakes == consumer.kind = "wake"
      new == {seq \in answer.chunks : wakes \/ seq > consumer.after}
  IN IF ~answer.ok
     THEN [consumer EXCEPT !.pc = "done", !.end = "failed"]
     ELSE [consumer EXCEPT !.got = Take(@, new),
                           !.after = IF wakes THEN answer.next_seq - 1
                                     ELSE MaxOf(@, answer.next_seq - 1),
                           !.pc = IF answer.closed THEN "done" ELSE "wait",
                           !.end = IF answer.closed THEN "closed" ELSE "none"]

\* What is queued for the notification reader is lost once it has left its loop.
Queue(m) == inbox' = IF reader = "run" THEN Append(inbox, m) ELSE inbox

\* The reader of the transport: a response completes the call that waits for
\* it, at once; a notification is only queued for the other reader.
ReadMessage ==
  /\ rpc = "run" /\ wire # <<>>
  /\ wire' = Tail(wire)
  /\ LET m == Head(wire) IN
     IF m.type = "event"
     THEN Queue(m) /\ UNCHANGED consumer
     ELSE consumer' = ReceiveAnswer(m) /\ UNCHANGED inbox
  /\ UNCHANGED <<serverVars, down, rpc, reader, client>>

\* At the end of the transport it queues the disconnect, then fails the calls.
ReadEnd ==
  /\ rpc = "run" /\ wire = <<>> /\ down
  /\ Queue(Disconnected)
  /\ rpc' = "drain"
  /\ UNCHANGED <<serverVars, wire, down, reader, client, consumer>>

\* It also leaves its loop at a malformed message and at a request of the
\* server: then nobody has set the flag that refuses calls, and what comes after
\* is not read.
ReadBreaks ==
  /\ Garbles /\ rpc = "run"
  /\ wire' = <<>>
  /\ Queue(Disconnected)
  /\ rpc' = "broken"
  /\ UNCHANGED <<serverVars, down, reader, client, consumer>>

DrainPending ==
  /\ rpc \in {"drain", "broken"}
  /\ rpc' = IF rpc = "drain" THEN "done" ELSE "gone"
  /\ consumer' = [consumer EXCEPT !.pc = IF @ = "pending" THEN "lost" ELSE @]
  /\ UNCHANGED <<serverVars, wire, down, inbox, reader, client>>

EventAt(events, seq) == CHOOSE e \in events : e.seq = seq

\* The last number up to which the events are there without a gap.
Contiguous(last, events) ==
  LET known == {e.seq : e \in events}
      reached == {last} \union {n \in known : (last + 1)..n \subseteq known}
  IN CHOOSE n \in reached : \A m \in reached : m <= n

\* publish_ordered_event: hold the event until those before it are published.
PublishAtOnce(c, e) ==
  [c EXCEPT !.last_published = MaxOf(@, e.seq), !.published = Append(@, e)]
PublishOrdered(c, e) ==
  IF e.seq <= c.last_published THEN c
  ELSE LET pending == IF \E x \in c.pending : x.seq = e.seq
                      THEN c.pending ELSE c.pending \union {e}
           to    == Contiguous(c.last_published, pending)
           ready == [i \in 1..(to - c.last_published) |->
                       EventAt(pending, c.last_published + i)]
       IN [c EXCEPT !.last_published = to,
                    !.pending = {x \in pending : x.seq > to},
                    !.published = @ \o ready]

\* Has the handling of e, from c to d, published the close?
CloseArrived(c, d, e) == e.kind = "Closed"
ClosePublished(c, d, e) ==
  \E i \in (Len(c.published) + 1)..Len(d.published) : d.published[i].kind = "Closed"

\* A notification wakes the consumer; the route of the process goes away with
\* the close, once the close has been published.
HandleNotification ==
  /\ reader = "run" /\ inbox # <<>> /\ Head(inbox).type = "event"
  /\ inbox' = Tail(inbox)
  /\ LET e == Head(inbox).event
         d == PublishOrdered([client EXCEPT !.wake = TRUE], e)
     IN client' = IF client.registered
                  THEN [d EXCEPT !.registered = ~ClosePublished(client, d, e)]
                  ELSE client
  /\ UNCHANGED <<serverVars, wire, down, rpc, reader, consumer>>

\* set_failure, first half: only the one that finds no failure will publish.
ShouldPublish(c) == ~c.failure
NoteFailure(c) == [c EXCEPT !.failure = TRUE]

\* set_failure, second half: wake the consumer, publish if it is our part.
PublishFailure(c, mine) ==
  [c EXCEPT !.wake = TRUE,
            !.published = IF mine THEN Append(@, Failed) ELSE @]

\* The disconnect is recorded, and so is a notification that cannot be read:
\* from now on the client refuses calls, and its reader only fails the sessions.
RecordDisconnected ==
  /\ reader = "run" /\ inbox # <<>>
  /\ Head(inbox) = Disconnected \/ Garbles
  /\ inbox' = <<>>
  /\ client' = [client EXCEPT !.disconnected = TRUE]
  /\ reader' = "recorded"
  /\ UNCHANGED <<serverVars, wire, down, rpc, consumer>>

\* The sessions are taken out of the map, then failed.
FailAllSessions ==
  /\ reader = "recorded"
  /\ IF client.registered
     THEN /\ client' = [NoteFailure(client) EXCEPT
                          !.registered = FALSE,
                          !.publish_failed = ShouldPublish(client)]
          /\ reader' = "fail"
     ELSE reader' = "done" /\ UNCHANGED client
  /\ UNCHANGED <<serverVars, wire, down, rpc, inbox, consumer>>

ReaderPublishesFailure ==
  /\ reader = "fail"
  /\ client' = PublishFailure(client, client.publish_failed)
  /\ reader' = "done"
  /\ UNCHANGED <<serverVars, wire, down, rpc, inbox, consumer>>

(***************************************************************************)
(* The consumer.                                                           *)
(***************************************************************************)

consumerOnly == <<serverVars, wire, down, rpc, inbox, reader>>

End(how) == consumer' = [consumer EXCEPT !.pc = "done", !.end = how]

\* The subscriber of the MCP transport: the events kept so far, then live.
Subscribe ==
  /\ consumer.pc = "subscribe"
  /\ LET n     == Len(client.published)
         start == MaxOf(0, n - EventCapacity)
     IN consumer' = [consumer EXCEPT !.pc = "wait", !.start = start,
                                     !.pos = start, !.live = n]
  /\ UNCHANGED <<consumerOnly, client>>

\* The events kept are drained first; only the live channel can lag.
Lagged ==
  /\ consumer.pos >= consumer.live
  /\ Len(client.published) - consumer.pos > EventCapacity

\* The next event of the subscription: output is taken if it is new.
ReceiveEvent ==
  /\ consumer.kind = "events" /\ consumer.pc = "wait"
  /\ consumer.pos < Len(client.published) /\ ~Lagged
  /\ LET e    == client.published[consumer.pos + 1]
         next == [consumer EXCEPT !.pos = @ + 1, !.after = MaxOf(@, e.seq)]
     IN consumer' =
          CASE e.kind = "Output" /\ e.seq > consumer.after ->
                 [next EXCEPT !.got = Take(@, {e.seq})]
            [] e.kind = "Closed" -> [next EXCEPT !.pc = "done", !.end = "closed"]
            [] e.kind = "Failed" -> [next EXCEPT !.pc = "done", !.end = "failed"]
            [] OTHER -> next
  /\ UNCHANGED <<consumerOnly, client>>

\* Too far behind: the channel skips to what it still has, and what was
\* skipped is read from the server.
ReceiveLagged ==
  /\ consumer.kind = "events" /\ consumer.pc = "wait" /\ Lagged
  /\ consumer' = [consumer EXCEPT !.pc = "read",
                                  !.pos = Len(client.published) - EventCapacity]
  /\ UNCHANGED <<consumerOnly, client>>

\* Unified exec waits for a change of the wake channel.
ReceiveWake ==
  /\ consumer.kind = "wake" /\ consumer.pc = "wait" /\ client.wake
  /\ consumer' = [consumer EXCEPT !.pc = "read"]
  /\ client' = [client EXCEPT !.wake = FALSE]
  /\ UNCHANGED consumerOnly

\* Session::read: a failed session and a recorded disconnect are looked at
\* before the call is made.
BeginRead ==
  /\ consumer.pc = "read"
  /\ ~client.failure /\ ~client.disconnected
  /\ consumer' = [consumer EXCEPT !.pc = "call"]
  /\ UNCHANGED <<consumerOnly, client>>

\* A call is refused from the moment the transport is known to be closed.
CallsAnyway == TRUE
CanCall == ~down

\* RpcClient::call.  The two consumers pass no deadline; others may.
StartRead ==
  /\ consumer.pc = "call" /\ CanCall
  /\ consumer' = [consumer EXCEPT !.pc = "pending"]
  /\ \E wait \in BOOLEAN :
       request' = [st |-> "check", after |-> consumer.after, wait |-> wait]
  /\ UNCHANGED <<process, task, left, log, wire, down, clientVars>>

ReadOfFailed ==
  /\ consumer.pc = "read"
  /\ client.failure
  /\ End("failed")
  /\ UNCHANGED <<consumerOnly, client>>

\* The call fails: at once, or when the pending calls are drained.  It records
\* the disconnect, and the read fails the session itself.
ReadLost ==
  /\ \/ consumer.pc = "read" /\ ~client.failure /\ client.disconnected
     \/ consumer.pc = "call" /\ ~CanCall
     \/ consumer.pc = "lost"
  /\ client' = [NoteFailure(client) EXCEPT !.disconnected = TRUE]
  /\ consumer' = [consumer EXCEPT !.pc = "fail",
                                  !.publish_failed = ShouldPublish(client)]
  /\ UNCHANGED consumerOnly

ReadPublishesFailure ==
  /\ consumer.pc = "fail"
  /\ client' = PublishFailure(client, consumer.publish_failed)
  /\ End("failed")
  /\ UNCHANGED consumerOnly

\* The handle is dropped with its consumer, and takes the route with it.
DropHandle ==
  /\ consumer.pc = "done" /\ client.registered
  /\ client' = [client EXCEPT !.registered = FALSE]
  /\ UNCHANGED <<consumerOnly, consumer>>

-----------------------------------------------------------------------------
TaskStep ==
  /\ Connected
  /\ \/ \E s \in Stream : ReceiveChunk(s) \/ FinishOutputStream(s)
     \/ WatchExit
     \/ \E t \in Task : Notify(t) \/ MaybeEmitClosed(t)

ReadStep == Connected /\ (ExecRead \/ AwaitNotified \/ ReadDeadline)

ReaderStep ==
  \/ ReadMessage \/ ReadEnd \/ ReadBreaks \/ DrainPending
  \/ HandleNotification \/ RecordDisconnected \/ FailAllSessions
  \/ ReaderPublishesFailure

ConsumerStep ==
  \/ Subscribe \/ ReceiveEvent \/ ReceiveLagged \/ ReceiveWake
  \/ BeginRead \/ StartRead \/ ReadOfFailed \/ ReadLost \/ ReadPublishesFailure

Next ==
  \/ TaskStep \/ ReadStep \/ ReaderStep \/ ConsumerStep
  \/ RemoveClosedProcess \/ TransportCloses \/ DropHandle

Spec == Init /\ [][Next]_vars

-----------------------------------------------------------------------------
RunningProcess ==
  [entry: {"Running", "Gone"}, next_seq: Nat \ {0}, output: Seq(Nat), exited: BOOLEAN,
   open_streams: Nat, closed: BOOLEAN, retiring: BOOLEAN]
TaskState == [pc: {"recv", "notify", "close", "done"}, event: Event \union {NoEvent}]
Request == [st: {"none", "check", "held", "parked"}, after: Nat, wait: BOOLEAN]
Message ==
  [type: {"event"}, event: Event] \union {Error}
  \union [type: {"response"}, ok: {TRUE}, chunks: SUBSET Nat, next_seq: Nat,
          closed: BOOLEAN]
Queued == [type: {"event"}, event: Event] \union {Disconnected}
SessionState ==
  [disconnected: BOOLEAN, registered: BOOLEAN, last_published: Nat, pending: SUBSET Event,
   published: Seq(Event), failure: BOOLEAN, publish_failed: BOOLEAN, wake: BOOLEAN]
ConsumerState ==
  [kind: Consumers,
   pc: {"subscribe", "read", "call", "pending", "lost", "fail", "wait", "done"},
   after: Nat, got: Seq(SUBSET Nat), start: Nat, live: Nat, pos: Nat,
   publish_failed: BOOLEAN, end: {"none", "closed", "failed"}]
TypeOK ==
  /\ process \in RunningProcess /\ task \in [Task -> TaskState]
  /\ left \in 0..MaxChunks /\ log \in Seq(Event)
  /\ request \in Request
  /\ wire \in Seq(Message) /\ down \in BOOLEAN
  /\ rpc \in {"run", "drain", "done", "broken", "gone"} /\ inbox \in Seq(Queued)
  /\ reader \in {"run", "recorded", "fail", "done"}
  /\ client \in SessionState
  /\ consumer \in ConsumerState

\* Output the server no longer keeps, and events the client no longer kept
\* when the consumer subscribed.
Evicted == Outputs(log) \ Elements(process.output)
Missed == Outputs(SubSeq(client.published, 1, consumer.start))
Taken == UNION Elements(consumer.got)

\* The consumer takes every chunk of output once and in order: below its
\* cursor there is no chunk it did not take, except those a bounded buffer
\* dropped before it came for them.  Pushed events and reads overlap, and a
\* read may be ahead of the events or behind them.
NoOutputSkipped ==
  LET got == consumer.got IN
  /\ \A i, j \in 1..Len(got) :
       i < j => \A earlier \in got[i], later \in got[j] : earlier < later
  /\ \A seq \in Outputs(log) :
       seq <= consumer.after => seq \in Taken \union Evicted \union Missed

\* A consumer told that the process is closed has all of its output: the close
\* is numbered after the last chunk of both streams and after the exit, and it
\* overtakes neither in a read nor among the events.
CloseIsComplete ==
  consumer.end = "closed" =>
    /\ LastOf(log).kind = "Closed"
    /\ Outputs(log) \subseteq Taken \union Evicted \union Missed

\* The client keeps the route of a process until its close has been published:
\* a close that arrives before the last output does not cut the output off.
RouteKeptUntilClosed ==
  (~client.registered /\ reader \in {"run", "recorded"} /\ consumer.pc # "done") =>
    \E e \in Elements(client.published) : e.kind = "Closed"

\* Who has a step to take: a task that still has a notification to send or a
\* pipe to follow, a read that is being served (one that is parked has its
\* deadline), a reader with something to read, and the consumer unless it waits
\* for an answer or for news.
TasksGoOn == Connected /\ \E t \in Task : task[t].pc # "done"
ReadGoesOn == Connected /\ (request.st \in {"check", "held"} \/ request.wait)
ReadersGoOn ==
  \/ rpc = "run" /\ (wire # <<>> \/ down)
  \/ rpc \in {"drain", "broken"}
  \/ reader = "run" /\ inbox # <<>>
  \/ reader \in {"recorded", "fail"}
News == \/ consumer.kind = "wake" /\ client.wake
        \/ consumer.kind = "events" /\ consumer.pos < Len(client.published)
ConsumerGoesOn ==
  \/ consumer.pc \in {"subscribe", "read", "call", "lost", "fail"}
  \/ consumer.pc = "wait" /\ News

\* A call that was registered after the pending calls were drained.
SneakedIn == rpc \in {"done", "gone"} /\ consumer.pc = "pending"

\* No call is registered after the drain.  A comment of RpcClient::call says that
\* this is what the check under the lock of the pending calls is for.  It looks at
\* the flag of the transport, which is up when the transport ends; a reader that
\* leaves at a message it does not accept drains the calls with the flag down.
NoCallAfterDrain == ~SneakedIn

\* Whatever the order of the tasks, and if the transport ends, delivers a message
\* the client does not accept or does neither, the consumer of a process gets to
\* its end: as long as it has not, a task has a step to take, unless the reader
\* of the transport is gone at a message it did not accept and the consumer has
\* called after it (NoCallAfterDrain is about that).  No news is lost between a
\* read and the wait after it, and no call waits for a transport that is closed.
\* (Every behaviour of the instance is finite, so that nothing may be stuck is
\* that the consumer ends if tasks are run.)
ConsumerNeverStuck ==
  (consumer.pc # "done" /\ ~(rpc = "gone" /\ SneakedIn)) =>
    TasksGoOn \/ ReadGoesOn \/ ReadersGoOn \/ ConsumerGoesOn

\* What the subscribers of the client see is, but for one failure, the stream
\* ExecEventStream promises, however the notifications of the tasks were interleaved.
Failures == {i \in 1..Len(client.published) : client.published[i] = Failed}
Without(s, i) == SubSeq(s, 1, i - 1) \o SubSeq(s, i + 1, Len(s))
Sequenced ==
  IF Failures = {} THEN client.published
  ELSE Without(client.published, CHOOSE i \in Failures : TRUE)

Abstract == INSTANCE ExecEventStream WITH log <- log, delivered <- Sequenced
ImplementsEventStream == Abstract!Spec
=============================================================================
