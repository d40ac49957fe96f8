--------------------------- MODULE RemoteControl ---------------------------
(* The remote-control transport: one websocket to a backend carries the     *)
(* streams of many clients (app-server-transport remote_control).  A reader *)
(* task takes client envelopes, puts chunked messages together (segment.rs) *)
(* and opens and closes a virtual connection per stream                     *)
(* (client_tracker.rs); a writer task numbers what the connections answer   *)
(* and keeps it until the backend acknowledges it (websocket.rs).  Their    *)
(* state outlives the websocket.                                            *)
(* The backend is external: it holds the envelopes of the clients in order, *)
(* resumes at or before the cursor it is given, and acknowledges what has   *)
(* arrived.  Only the reader touches the tracker and the half-assembled     *)
(* messages, so the handling of one envelope is one step.                   *)
EXTENDS Naturals, Sequences, FiniteSets

CONSTANTS
  Key,          \* the streams, each of one client
  Client, ClientOf,
  Parts,        \* how many chunks a large message has, in either direction
  MaxAssembly,  \* REMOTE_CONTROL_SEGMENT_ASSEMBLY_MAX_COUNT
  Capacity,     \* CHANNEL_CAPACITY: so many unacknowledged envelopes stop the writer
  MaxWork,      \* bound: client envelopes, messages of the app server and faults,
                \* a fault counted twice
  NoAssembly

NoConn == 0

ASSUME ConstantsAssumption ==
  /\ IsFiniteSet(Key) /\ IsFiniteSet(Client) /\ ClientOf \in [Key -> Client]
  /\ Parts \in Nat \ {0, 1} /\ MaxAssembly \in Nat \ {0} /\ Capacity \in Nat \ {0}
  /\ MaxWork \in Nat

Chunks == Seq(Key \X Nat \X Nat)
Assembly == [key : Key, seq : Nat, chunks : Chunks]
ASSUME NoAssemblyAssumption == NoAssembly \notin Assembly

VARIABLES
  log,        \* client envelopes in the order of the backend
  last,       \* the last one of each stream
  at,         \* how many of them are before the next one on the websocket
  arrived,    \* how many of a stream's sequenced envelopes the backend has
  socket,     \* "down", "up" or "stopped"
  work,       \* what has been done of MaxWork
  cursor,     \* subscribe_cursor
  assembly,   \* ClientSegmentReassembler.assemblies
  completed,  \* last_completed_client_chunk_seq_id_by_stream
  conn,       \* the virtual connections there have been
  open,       \* ClientTracker.clients: the connection of each stream
  events,     \* streams of the messages that wait for the writer
  sequenced,  \* cursors of the envelopes the writer has numbered, per stream
  seqId,      \* next_seq_id_by_stream
  buffer,     \* outbound_buffer: the places of those not acknowledged
  sending     \* those the writer sends before it takes another message

backendVars == <<log, last, at, arrived>>
readerVars == <<cursor, assembly, completed>>
trackerVars == <<conn, open>>
writerVars == <<events, sequenced, seqId, buffer, sending>>
vars == <<backendVars, socket, work, readerVars, trackerVars, writerVars>>

Conn == DOMAIN conn

Costs(n) == work + n <= MaxWork /\ work' = work + n
Fault == Costs(2)

Init ==
  /\ log = <<>> /\ last = [k \in Key |-> [key |-> k, kind |-> "none", seq |-> 0, part |-> 0]]
  /\ at = 0 /\ arrived = [k \in Key |-> 0]
  /\ socket = "down" /\ work = 0
  /\ cursor = 0 /\ assembly = [c \in Client |-> NoAssembly]
  /\ completed = [k \in Key |-> 0]
  /\ conn = <<>> /\ open = [k \in Key |-> NoConn]
  /\ events = <<>> /\ seqId = [k \in Key |-> 1]
  /\ sequenced = [k \in Key |-> <<>>] /\ buffer = [k \in Key |-> {}]
  /\ sending = [k \in Key |-> {}]

(***************************************************************************)
(* The clients.  A stream begins with an initialize.  A client numbers its *)
(* messages upwards and may give one up after some of its chunks; a chunk  *)
(* may be too large.                                                       *)
(***************************************************************************)

Chunk == {"part", "refused"}

NextEnvelopes(k) ==
  LET initialize == [key |-> k, kind |-> "initialize", seq |-> last[k].seq + 1, part |-> 0] IN
  IF last[k].kind \in {"none", "closed"} THEN {initialize}
  ELSE {initialize}
    \union [key : {k}, kind : {"message"}, seq : {last[k].seq + 1}, part : {0}]
    \union [key : {k}, kind : Chunk, seq : {last[k].seq + 1}, part : {1}]
    \union [key : {k}, kind : {"closed"}, seq : {last[k].seq}, part : {0}]
    \union {x \in [key : {k}, kind : Chunk, seq : {last[k].seq}, part : {last[k].part + 1}] :
              last[k].kind \in Chunk /\ last[k].part < Parts}

\* The reader sees one envelope at a time: one that is sent before it has read
\* the others would add nothing.
ClientSends(k) ==
  /\ socket = "up" /\ at = Len(log)
  /\ Costs(1)
  /\ \E e \in NextEnvelopes(k) : log' = Append(log, e) /\ last' = [last EXCEPT ![k] = e]
  /\ UNCHANGED <<at, arrived, socket, readerVars, trackerVars, writerVars>>

(***************************************************************************)
(* The reader: chunks.                                                     *)
(***************************************************************************)

Reads(e) ==
  /\ socket = "up" /\ at < Len(log) /\ e = log[at + 1]
  /\ at' = at + 1
  /\ UNCHANGED <<log, last, arrived, socket, work, writerVars>>

AssemblyOfClient(k) == assembly[ClientOf[k]]
AssemblyOf(k) ==
  LET a == assembly[ClientOf[k]] IN IF a # NoAssembly /\ a.key = k THEN a ELSE NoAssembly

\* remove_assembly: the client may be assembling a message of another stream.
Without(table, k) ==
  IF AssemblyOf(k) = NoAssembly THEN table ELSE [table EXCEPT ![ClientOf[k]] = NoAssembly]

\* should_ignore_chunk, and the replay of a message that is complete.
Repeated(e) ==
  \/ completed[e.key] >= e.seq
  \/ LET a == AssemblyOf(e.key) IN
     a # NoAssembly /\ (e.seq < a.seq \/ (e.seq = a.seq /\ e.part <= Len(a.chunks)))

ReadRepeated(e) ==
  /\ Reads(e) /\ e.kind \in Chunk /\ Repeated(e)
  /\ UNCHANGED <<readerVars, trackerVars>>

ReadRefused(e) ==
  /\ Reads(e) /\ e.kind = "refused" /\ ~Repeated(e)
  /\ assembly' = Without(assembly, e.key)
  /\ UNCHANGED <<cursor, completed, trackerVars>>

Assembling == {c \in Client : assembly[c] # NoAssembly}

WithoutEviction(k) == {assembly}

\* evict_assemblies_if_full, without the ages that name the victim.
Rooms(k) ==
  IF ClientOf[k] \in Assembling \/ Cardinality(Assembling) < MaxAssembly THEN {assembly}
  ELSE {[assembly EXCEPT ![victim] = NoAssembly] : victim \in Assembling}

\* A chunk of another stream of the client starts anew.
Current(e) ==
  IF AssemblyOf(e.key) # NoAssembly THEN AssemblyOf(e.key)
  ELSE [key |-> e.key, seq |-> e.seq, chunks |-> <<>>]

Fits(e) == e.seq = Current(e).seq /\ e.part = Len(Current(e).chunks) + 1
WithChunk(e) == Append(Current(e).chunks, <<e.key, e.seq, e.part>>)

ReadMisfit(e) ==
  /\ Reads(e) /\ e.kind = "part" /\ ~Repeated(e) /\ ~Fits(e)
  /\ \E room \in Rooms(e.key) :
       assembly' = [room EXCEPT ![ClientOf[e.key]] = NoAssembly]
  /\ UNCHANGED <<cursor, completed, trackerVars>>

ReadPending(e) ==
  /\ Reads(e) /\ e.kind = "part" /\ ~Repeated(e) /\ Fits(e) /\ e.part < Parts
  /\ \E room \in Rooms(e.key) :
       assembly' = [room EXCEPT ![ClientOf[e.key]] =
                      [key |-> e.key, seq |-> Current(e).seq, chunks |-> WithChunk(e)]]
  /\ UNCHANGED <<cursor, completed, trackerVars>>

(***************************************************************************)
(* The reader: messages, connections and the ends of outbound tasks.       *)
(***************************************************************************)

\* close_client, for each stream of ks.
ClosedWith(ks, why) ==
  [c \in Conn |-> IF \E k \in ks : open[k] = c THEN [conn[c] EXCEPT !.end = why] ELSE conn[c]]

Invalidate(ks) ==
  /\ assembly' = [c \in Client |->
                    IF assembly[c] # NoAssembly /\ assembly[c].key \in ks THEN NoAssembly
                    ELSE assembly[c]]
  /\ completed' = [k \in Key |-> IF k \in ks THEN 0 ELSE completed[k]]

NotOlder(k, seq) == open[k] # NoConn /\ conn[open[k]].last <= seq
Newer(k, seq) == open[k] # NoConn /\ conn[open[k]].last < seq

Delivered(k, seq, chunks) ==
  IF Newer(k, seq)
  THEN [conn EXCEPT ![open[k]].last = seq,
                    ![open[k]].delivered = Append(@, [seq |-> seq, chunks |-> chunks])]
  ELSE conn

ReadMessage(e) ==
  /\ Reads(e) /\ e.kind = "message"
  /\ cursor' = at + 1
  /\ conn' = Delivered(e.key, e.seq, <<>>)
  /\ UNCHANGED <<assembly, completed, open>>

ReadLastPart(e) ==
  /\ Reads(e) /\ e.kind = "part" /\ ~Repeated(e) /\ Fits(e) /\ e.part = Parts
  /\ \E room \in Rooms(e.key) :
       assembly' = [room EXCEPT ![ClientOf[e.key]] = NoAssembly]
  /\ completed' = [completed EXCEPT ![e.key] = e.seq]
  /\ cursor' = at + 1
  /\ conn' = Delivered(e.key, e.seq, WithChunk(e))
  /\ UNCHANGED open

NewConn(k, seq) ==
  [key |-> k, last |-> seq, delivered |-> <<[seq |-> seq, chunks |-> <<>>]>>,
   task |-> "running", disconnected |-> FALSE, end |-> "none"]

\* An initialize on an open stream replaces its connection.
ReadInitialize(e) ==
  /\ Reads(e) /\ e.kind = "initialize"
  /\ cursor' = at + 1
  /\ conn' = Append(ClosedWith({e.key}, "closed"), NewConn(e.key, e.seq))
  /\ open' = [open EXCEPT ![e.key] = Len(conn) + 1]
  /\ UNCHANGED <<assembly, completed>>

ReadClosed(e) ==
  /\ Reads(e) /\ e.kind = "closed"
  /\ cursor' = at + 1
  /\ conn' = ClosedWith({e.key}, "closed")
  /\ open' = [open EXCEPT ![e.key] = NoConn]
  /\ Invalidate({e.key})

\* The streams whose clients were silent for ten minutes.
CloseExpired ==
  /\ socket = "up" /\ Fault
  /\ \E ks \in SUBSET {k \in Key : open[k] # NoConn} \ {{}} :
       /\ conn' = ClosedWith(ks, "closed")
       /\ open' = [k \in Key |-> IF k \in ks THEN NoConn ELSE open[k]]
       /\ Invalidate(ks)
  /\ UNCHANGED <<backendVars, socket, cursor, writerVars>>

ReapedOnly(c) == [conn EXCEPT ![c].task = "reaped"]
Reaped(c) == [ClosedWith({conn[c].key}, "reaped") EXCEPT ![c].task = "reaped"]

\* bookkeep_join_set joins a task that has ended and names the stream of it, not
\* its connection.  The reader closes the connection it finds there.
Reap(c) ==
  /\ socket = "up" /\ conn[c].task = "ended"
  /\ conn' = Reaped(c)
  /\ open' = [open EXCEPT ![conn[c].key] = NoConn]
  /\ Invalidate({conn[c].key})
  /\ UNCHANGED <<backendVars, socket, work, cursor, writerVars>>

(***************************************************************************)
(* The outbound task of a connection, and the app server behind it.        *)
(***************************************************************************)

\* close_client has cancelled the token of the connection, or the app server has.
ClosedByTracker(c) == conn[c].end # "none"
Cancelled(c) == conn[c].disconnected \/ conn[c].end # "none"

\* run_client_outbound returns, with or without a websocket.
TaskEnds(c) ==
  /\ conn[c].task = "running" /\ Cancelled(c)
  /\ conn' = [conn EXCEPT ![c].task = "ended"]
  /\ UNCHANGED <<backendVars, socket, work, readerVars, open, writerVars>>

\* A cancelled task may still pass a message on before it notices.
Forward(c) ==
  /\ conn[c].task = "running" /\ Costs(1)
  /\ events' = Append(events, conn[c].key)
  /\ UNCHANGED <<backendVars, socket, readerVars, trackerVars, sequenced, seqId,
                 buffer, sending>>

\* The app server gives up a connection that does not keep up.
AppDisconnects(c) ==
  /\ conn[c].end = "none" /\ ~conn[c].disconnected /\ Fault
  /\ conn' = [conn EXCEPT ![c].disconnected = TRUE]
  /\ UNCHANGED <<backendVars, socket, readerVars, open, writerVars>>

(***************************************************************************)
(* The writer, and the acknowledgements the reader hands to its buffer.    *)
(***************************************************************************)

Used == Cardinality(UNION {{k} \X buffer[k] : k \in Key})

\* A message is sent whole, in chunks, or, too large for those, not at all: then
\* the next one gets its number.
WriterTakes ==
  /\ socket = "up" /\ \A k \in Key : sending[k] = {}
  /\ events # <<>> /\ Used < Capacity
  /\ LET k == Head(events) IN
     \E n \in {0, 1, Parts} :
       LET places == Len(sequenced[k]) + 1 .. Len(sequenced[k]) + n IN
       /\ sequenced' = [sequenced EXCEPT ![k] = @ \o [i \in 1..n |-> <<seqId[k], i - 1>>]]
       /\ buffer' = [buffer EXCEPT ![k] = @ \union places]
       /\ sending' = [sending EXCEPT ![k] = places]
       /\ seqId' = [seqId EXCEPT ![k] = IF n = 0 THEN @ ELSE @ + 1]
  /\ events' = Tail(events)
  /\ UNCHANGED <<backendVars, socket, work, readerVars, trackerVars>>

\* What is lost with the websocket was not sent.
WriterSends(k) ==
  /\ socket = "up"
  /\ \E i \in sending[k] :
       /\ \A j \in sending[k] : i <= j
       /\ sending' = [sending EXCEPT ![k] = @ \ {i}]
       /\ arrived' = [arrived EXCEPT ![k] = IF i > @ THEN i ELSE @]
  /\ UNCHANGED <<log, last, at, socket, work, readerVars, trackerVars, events, sequenced,
                 seqId, buffer>>

AckedSeq(envelope, ack) == envelope[1] <= ack[1]
Acked(envelope, ack) ==
  envelope[1] < ack[1] \/ (envelope[1] = ack[1] /\ envelope[2] <= ack[2])

\* The acknowledgement of a chunk names it; that of a whole message does not.
Acks(k, i) ==
  LET envelope == sequenced[k][i] IN
  IF i = Len(sequenced[k]) \/ sequenced[k][i + 1][1] > envelope[1]
  THEN {envelope, <<envelope[1], Parts>>} ELSE {envelope}

ReadAck(k, i) ==
  /\ socket = "up" /\ i \in 1..arrived[k]
  /\ \E ack \in Acks(k, i) :
       buffer' = [buffer EXCEPT ![k] = {p \in @ : ~Acked(sequenced[k][p], ack)}]
  /\ UNCHANGED <<backendVars, socket, work, readerVars, trackerVars, events, sequenced,
                 seqId, sending>>

ReadLatestAck(k) == ReadAck(k, arrived[k])

(***************************************************************************)
(* The websocket.                                                          *)
(***************************************************************************)

\* HashMap order: streams are sent again in any order, each in its own.
SentAnew == [k \in Key |-> {}]
Resent == buffer

Connect ==
  /\ socket = "down" /\ socket' = "up"
  /\ at' \in 0..cursor
  /\ sending' = Resent
  /\ UNCHANGED <<log, last, arrived, work, readerVars, trackerVars, events, sequenced,
                 seqId, buffer>>

Disconnect ==
  /\ socket = "up" /\ socket' = "down" /\ Fault
  /\ sending' = [k \in Key |-> {}]
  /\ UNCHANGED <<backendVars, readerVars, trackerVars, events, sequenced, seqId, buffer>>

\* The tracker closes every connection and waits for its task.
Shutdown ==
  /\ socket # "stopped" /\ socket' = "stopped"
  /\ sending' = [k \in Key |-> {}]
  /\ conn' = [c \in Conn |-> [ClosedWith(Key, "closed")[c] EXCEPT !.task = "reaped"]]
  /\ open' = [k \in Key |-> NoConn]
  /\ UNCHANGED <<backendVars, work, readerVars, events, sequenced, seqId, buffer>>

Read(e) ==
  \/ ReadRepeated(e) \/ ReadRefused(e) \/ ReadMisfit(e) \/ ReadPending(e)
  \/ ReadLastPart(e) \/ ReadMessage(e) \/ ReadInitialize(e) \/ ReadClosed(e)

Next ==
  \/ \E k \in Key : \/ ClientSends(k) \/ WriterSends(k)
                    \/ \E i \in 1..arrived[k] : ReadAck(k, i)
  \/ \E i \in DOMAIN log : Read(log[i])
  \/ CloseExpired
  \/ \E c \in Conn : TaskEnds(c) \/ Reap(c) \/ Forward(c) \/ AppDisconnects(c)
  \/ WriterTakes \/ Connect \/ Disconnect \/ Shutdown

Spec == Init /\ [][Next]_vars

\* The websocket comes back, its tasks go on, the tasks of connections notice
\* their cancellation, the backend acknowledges all that has arrived.
FairSpec ==
  /\ Spec
  /\ WF_vars(Connect) /\ WF_vars(WriterTakes)
  /\ \A k \in Key : WF_vars(WriterSends(k)) /\ WF_vars(ReadLatestAck(k))
  /\ WF_vars(\E c \in Conn : TaskEnds(c)) /\ WF_vars(\E c \in Conn : Reap(c))

(***************************************************************************)
(* Properties.                                                             *)
(***************************************************************************)

Kind == {"initialize", "message", "closed"} \union Chunk
Envelope == [key : Key, kind : Kind, seq : Nat, part : 0..Parts]
Last == [key : Key, kind : Kind \union {"none"}, seq : Nat, part : 0..Parts]
Connection ==
  [key : Key, last : Nat, delivered : Seq([seq : Nat, chunks : Chunks]),
   task : {"running", "ended", "reaped"}, disconnected : BOOLEAN, end : {"none", "closed", "reaped"}]

\* Every variable has its type; a stream's connection is one that was opened.
TypeOK ==
  /\ log \in Seq(Envelope) /\ last \in [Key -> Last] /\ at \in 0..Len(log) /\ cursor \in 0..Len(log)
  /\ work \in Nat /\ socket \in {"down", "up", "stopped"}
  /\ assembly \in [Client -> Assembly \union {NoAssembly}]
  /\ completed \in [Key -> Nat]
  /\ conn \in Seq(Connection) /\ open \in [Key -> Nat]
  /\ \A k \in Key : open[k] \in Conn \union {NoConn}
  /\ events \in Seq(Key) /\ seqId \in [Key -> Nat]
  /\ sequenced \in [Key -> Seq(Nat \X Nat)] /\ buffer \in [Key -> SUBSET Nat]
  /\ sending \in [Key -> SUBSET Nat] /\ arrived \in [Key -> Nat]

\* A connection is given the messages of its stream in the order the client
\* numbered them and none twice, whatever the backend sends again after a
\* reconnect and however chunked and whole messages mix.
DeliveredInOrder ==
  \A c \in Conn : \A i, j \in DOMAIN conn[c].delivered :
    i < j => conn[c].delivered[i].seq < conn[c].delivered[j].seq

\* A chunked message that is delivered holds exactly its own chunks: none of
\* a message that was given up, evicted, refused or sent again.
AssembledIsSent ==
  \A c \in Conn : \A i \in DOMAIN conn[c].delivered :
    LET d == conn[c].delivered[i] IN
    d.chunks # <<>> => d.chunks = [p \in 1..Parts |-> <<conn[c].key, d.seq, p>>]

\* No client can fill the table of half-assembled messages, and the client of
\* an entry is the client of its stream.
AssembliesBounded ==
  /\ Cardinality(Assembling) <= MaxAssembly
  /\ \A c \in Assembling : ClientOf[assembly[c].key] = c

\* The app server is told of the end of every connection the tracker drops and
\* of no other, one that an initialize replaces and one that idles out among
\* them.  A connection of which it was not told has a task the reader has not
\* joined: one that runs, or one that ended because the app server itself gave
\* the connection up, and joining it closes the connection.  So none is left
\* open with nothing to carry its messages and nobody to close it.
OpenIsTracked ==
  \A c \in Conn :
    /\ conn[c].end = "none" <=> open[conn[c].key] = c
    /\ conn[c].end = "none" => \/ conn[c].task = "running"
                               \/ conn[c].task = "ended" /\ conn[c].disconnected

(* The transport is a channel for every stream, StreamConnections: whatever  *)
(* the websocket loses and the backend sends again, a connection is opened   *)
(* by an initialize and given only later messages that its client sent whole *)
(* (chunks of a message that was given up never make one), nothing after its *)
(* end, and what it answers arrives without a gap.                           *)
SentWhole(i) ==
  log[i].kind = "part"
  /\ \A p \in 1..Parts : \E j \in DOMAIN log : log[j] = [log[i] EXCEPT !.part = p]
SentMessages ==
  {[key |-> log[i].key, seq |-> log[i].seq,
    kind |-> IF log[i].kind = "initialize" THEN "initialize" ELSE "message"] :
     i \in {j \in DOMAIN log : log[j].kind \in {"initialize", "message"} \/ SentWhole(j)}}
Connections ==
  [c \in Conn |-> [key |-> conn[c].key,
                   stage |-> IF conn[c].end = "none" THEN "live" ELSE "ended",
                   messages |-> [i \in DOMAIN conn[c].delivered |-> conn[c].delivered[i].seq]]]
Answered == [k \in Key |-> Len(sequenced[k])]

Channels == INSTANCE StreamConnections WITH
  sent <- SentMessages, given <- Connections, answered <- Answered

ImplementsStreamConnections == Channels!Spec

Waiting == events # <<>> \/ \E k \in Key : arrived[k] < Len(sequenced[k])

\* What a connection has answered reaches the backend, though the buffer is
\* full from time to time and the websocket is lost.
EveryMessageArrives == Waiting ~> ~Waiting \/ socket = "stopped"

GivenUp == \E c \in Conn : conn[c].disconnected /\ conn[c].end = "none"

\* A connection that the app server gives up is closed, though the websocket is
\* lost before its task is joined: the task survives it, and so does its handle.
GivenUpIsClosed == GivenUp ~> ~GivenUp

\* client_tracker.rs, test cancelled_outbound_task_emits_connection_closed: the
\* connection that is closed for an ended task is the one of that task, which
\* the app server gave up.
ReapedWasCancelled ==
  \A c \in Conn : conn[c].end = "reaped" => conn[c].disconnected
=============================================================================
