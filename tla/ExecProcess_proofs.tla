------------------------- MODULE ExecProcess_proofs -------------------------
(* Proofs about ExecProcess, for any number of chunks and output streams    *)
(* and any size of the buffers.  The invariant follows an event on its way: *)
(*   - LogInv, TaskInv, RetainInv: the entry of the process numbers events  *)
(*     1, 2, 3, ..., closes after every stream has ended and the exit, and  *)
(*     retains the newest output;                                           *)
(*   - TravelInv: a notification, wherever it is, is the event with its     *)
(*     number, so the order of the notifications does not matter;           *)
(*   - PublishedInv, FailureInv: what the client publishes is the first     *)
(*     events of the process, with one failure among them at most, because  *)
(*     only one of those who see a failed session publishes it;             *)
(*   - CallInv: there is one read at a time, it starts where the consumer   *)
(*     is, and its answer leaves out nothing but what was evicted;          *)
(*   - TakenInv, EndInv: the cursor of the consumer is past all it took.    *)
(* The proof goes from the server to the consumer, then to the theorems.    *)
(* The last part adds what must still happen (StuckInv): an event that is   *)
(* not published is on its way, a call that waits will be answered or       *)
(* drained, and the end of the events is news to a consumer that waits.     *)
EXTENDS ExecProcess, FiniteSetTheorems, WellFoundedInduction, TLAPS

\* How long a prover may take for a step, in seconds.
USE SMTT(20), ZenonT(20)

\* The numbers of the events, and what the entry of the process says of them.
Has(kind) == \E i \in 1..Len(log) : log[i].kind = kind

\* The streams whose task has not yet come to the end of its output.
Open == {s \in Stream : \/ task[s].pc = "recv"
                        \/ task[s].pc = "notify" /\ task[s].event.kind = "Output"}

LogInv ==
  /\ process.next_seq = Len(log) + 1
  /\ \A i \in 1..Len(log) : /\ log[i].seq = i
                            /\ log[i].kind \in {"Output", "Exited", "Closed"}
                            /\ log[i].kind = "Closed" => i = Len(log)
  /\ process.exited <=> Has("Exited")
  /\ process.closed <=> Has("Closed")

TaskInv ==
  /\ process.open_streams = Cardinality(Open)
  /\ process.closed => Open = {} /\ process.exited
  /\ process.entry = "Gone" => process.closed
  /\ task["exit"].pc = "recv" => ~process.exited
  /\ task["exit"].pc = "notify" => task["exit"].event.kind # "Output"

\* The entry retains outputs, in their order, and always the newest.
RetainInv ==
  LET output == process.output IN
  /\ \A i \in 1..Len(output) : output[i] \in Outputs(log)
  /\ \A seq \in Outputs(log) : output # <<>> /\ seq <= LastOf(output)

\* Wherever a notification is, it is of the event with its number.
Numbered(e) == e.seq \in 1..Len(log) /\ e = log[e.seq]
TravelInv ==
  /\ \A t \in Task : task[t].event # NoEvent => Numbered(task[t].event)
  /\ \A i \in 1..Len(wire) : wire[i].type = "event" => Numbered(wire[i].event)
  /\ \A i \in 1..Len(inbox) : inbox[i].type = "event" => Numbered(inbox[i].event)
  /\ \A e \in client.pending : Numbered(e)

\* The published events are the first of the process, with at most one failure
\* among them.
FailedAt(f) ==
  /\ Len(client.published) = client.last_published + 1
  /\ client.published[f] = Failed
  /\ \A i \in 1..(f - 1) : client.published[i] = log[i]
  /\ \A i \in (f + 1)..Len(client.published) : client.published[i] = log[i - 1]
NotFailed ==
  /\ Len(client.published) = client.last_published
  /\ \A i \in 1..Len(client.published) : client.published[i] = log[i]
PublishedInv ==
  /\ client.last_published <= Len(log)
  /\ NotFailed \/ \E f \in 1..Len(client.published) : FailedAt(f)

\* One of those who find a failed session publishes the failure.
ReaderFails   == reader = "fail" /\ client.publish_failed
ConsumerFails == consumer.pc = "fail" /\ consumer.publish_failed
FailureInv ==
  /\ ReaderFails \/ ConsumerFails => client.failure /\ NotFailed
  /\ ~(ReaderFails /\ ConsumerFails)
  /\ ~client.failure => NotFailed

Responses == {i \in 1..Len(wire) : wire[i].type = "response"}

\* A read under way is that of the consumer, and so is an answer.
Answer(r) ==
  /\ r.next_seq \in Nat
  /\ \A seq \in r.chunks : seq \in Outputs(log) /\ consumer.after < seq /\ seq < r.next_seq
  /\ consumer.after < r.next_seq /\ r.next_seq <= Len(log) + 1
  /\ \A seq \in Outputs(log) :
       consumer.after < seq /\ seq < r.next_seq => seq \in r.chunks \union Evicted
  /\ \A i \in 1..consumer.pos :
       client.published[i].kind = "Output" => client.published[i].seq < r.next_seq
  /\ r.closed => process.closed /\ \A seq \in Outputs(log) : seq < r.next_seq

CallInv ==
  /\ request.st # "none" /\ Connected =>
       consumer.pc = "pending" /\ request.after = consumer.after /\ Responses = {}
  /\ \A i \in Responses : /\ consumer.pc = "pending"
                          /\ \A j \in Responses : i = j
                          /\ wire[i].ok => Answer(wire[i])
  /\ rpc # "run" => wire = <<>>
  /\ rpc \in {"drain", "done"} => down

\* What the consumer has taken is below its cursor, and so is the output among
\* the events it has received.
TakenInv ==
  /\ consumer.after <= Len(log)
  /\ \A i \in 1..Len(consumer.got) : \A seq \in consumer.got[i] : seq <= consumer.after
  /\ consumer.start <= consumer.pos /\ consumer.pos <= Len(client.published)
  /\ consumer.pc = "subscribe" => consumer.after = 0
  /\ consumer.kind = "events" /\ consumer.pc = "wait" =>
       \A i \in (consumer.start + 1)..consumer.pos :
         client.published[i].kind = "Output" => client.published[i].seq <= consumer.after

EndInv ==
  consumer.end = "closed" =>
    process.closed /\ \A seq \in Outputs(log) : seq <= consumer.after

-----------------------------------------------------------------------------
LEMMA Greatest ==
  ASSUME NEW S \in SUBSET Nat, S # {}, NEW n \in Nat, \A s \in S : s <= n
  PROVE  \E m \in S : \A s \in S : s <= m
<1> DEFINE Gap == {n - s : s \in S}
<1>1. Gap \subseteq Nat /\ Gap # {}
  <2>1. \A s \in S : n - s \in Nat
    OBVIOUS
  <2> QED BY <2>1
<1>2. PICK g \in Gap : \A h \in Gap : ~(<<h, g>> \in OpToRel(<, Nat))
  <2> HIDE DEF Gap
  <2> QED BY <1>1, WFMin, NatLessThanWellFounded
<1>3. \A h \in Gap : g <= h
  <2> HIDE DEF Gap
  <2> TAKE h \in Gap
  <2>1. g \in Nat /\ h \in Nat
    BY <1>1
  <2>2. ~(h < g)
    BY <1>2, <2>1 DEF OpToRel
  <2> QED BY <2>1, <2>2
<1>4. PICK m \in S : g = n - m
  BY <1>2
<1>5. ASSUME NEW s \in S PROVE s <= m
  <2>1. n - s \in Gap
    OBVIOUS
  <2>2. n - m <= n - s
    <3> HIDE DEF Gap
    <3> QED BY <1>3, <1>4, <2>1
  <2> QED BY <2>2
<1> QED BY <1>5

LEMMA ContiguousReached ==
  ASSUME NEW last \in Nat, NEW events, NEW n \in Nat,
         \A e \in events : e.seq \in 1..n
  PROVE  LET to == Contiguous(last, events) IN
         /\ to \in Nat /\ last <= to
         /\ \A m \in (last + 1)..to : \E e \in events : e.seq = m
<1> DEFINE known == {e.seq : e \in events}
           reached == {last} \union {m \in known : (last + 1)..m \subseteq known}
           to == CHOOSE m \in reached : \A k \in reached : k <= m
           bound == IF last <= n THEN n ELSE last
<1>1. reached \in SUBSET Nat /\ reached # {} /\ last \in reached
  OBVIOUS
<1>2. bound \in Nat /\ \A k \in reached : k <= bound
  OBVIOUS
<1>3. \E m \in reached : \A k \in reached : k <= m
  <2> HIDE DEF reached, bound
  <2> QED BY <1>1, <1>2, Greatest
<1>4. to \in reached /\ \A k \in reached : k <= to
  <2> HIDE DEF reached
  <2> QED BY <1>3
<1>5. to \in Nat /\ last <= to
  <2> HIDE DEF reached, to
  <2> QED BY <1>1, <1>4
<1>6. ASSUME NEW m \in (last + 1)..to PROVE \E e \in events : e.seq = m
  <2>1. to # last
    <3> HIDE DEF to
    <3> QED BY <1>5
  <2>2. (last + 1)..to \subseteq known
    <3> HIDE DEF to, known
    <3> QED BY <2>1, <1>4
  <2> QED
    <3> HIDE DEF to
    <3>1. m \in known BY <2>2
    <3> QED BY <3>1
<1>7. Contiguous(last, events) = to
  BY DEF Contiguous
<1> HIDE DEF to
<1> QED BY <1>5, <1>6, <1>7

-----------------------------------------------------------------------------
\* Types.

LEMMA FirstConsumerType ==
  ASSUME NEW kind \in Consumers, NEW pc \in {"read", "subscribe"},
         NEW got \in Seq(SUBSET Nat)
  PROVE  [kind |-> kind, pc |-> pc, after |-> 0, got |-> got, start |-> 0, live |-> 0,
          pos |-> 0, publish_failed |-> FALSE, end |-> "none"] \in ConsumerState
BY DEF ConsumerState

USE StreamAssumption, BoundsAssumption, ConsumersAssumption DEF Task

LEMMA TypeInit == Init => TypeOK
<1> SUFFICES ASSUME Init PROVE TypeOK
  OBVIOUS
<1>1. Cardinality(Stream) \in Nat
  BY FS_CardinalityType
<1>2. process \in RunningProcess /\ client \in SessionState
  BY <1>1 DEF Init, RunningProcess, SessionState
<1>3. task \in [Task -> TaskState] /\ request \in Request
  BY DEF Init, TaskState, Request, NoRead
<1>4. consumer \in ConsumerState
  <2>1. PICK kind \in Consumers, pc \in {"read", "subscribe"} :
          consumer = [kind |-> kind, pc |-> pc,
                      after |-> 0, got |-> <<>>, start |-> 0, live |-> 0, pos |-> 0,
                      publish_failed |-> FALSE, end |-> "none"]
    BY Zenon DEF Init
  <2>2. <<>> \in Seq(SUBSET Nat)
    OBVIOUS
  <2> QED BY <2>1, <2>2, FirstConsumerType
<1>5. log \in Seq(Event) /\ wire \in Seq(Message) /\ inbox \in Seq(Queued)
  BY DEF Init
<1>6. left \in 0..MaxChunks /\ down = FALSE /\ rpc = "run" /\ reader = "run"
  BY DEF Init
<1> QED BY <1>2, <1>3, <1>4, <1>5, <1>6 DEF TypeOK

LEMMA EmitTypes ==
  ASSUME TypeOK, NEW t \in Task, NEW kind \in {"Output", "Exited", "Closed"}, Emit(t, kind)
  PROVE  log' \in Seq(Event) /\ task' \in [Task -> TaskState]
<1>1. [seq |-> process.next_seq, kind |-> kind] \in Event
  BY DEF TypeOK, RunningProcess, Event
<1>2. [pc |-> "notify", event |-> [seq |-> process.next_seq, kind |-> kind]] \in TaskState
  BY <1>1 DEF TaskState
<1> QED BY <1>1, <1>2 DEF Emit, TypeOK

LEMMA GotoTypes ==
  ASSUME TypeOK, NEW t \in Task, NEW pc \in {"close", "done", "notify"}, Goto(t, pc)
  PROVE  task' \in [Task -> TaskState]
BY DEF Goto, TypeOK, TaskState

LEMMA NextSeqType == ASSUME TypeOK PROVE process.next_seq + 1 \in Nat \ {0}
  BY DEF TypeOK, RunningProcess

LEMMA OutputType ==
  ASSUME NEW p \in RunningProcess, NEW n \in Nat \ {0}, NEW o \in Seq(Nat)
  PROVE  [p EXCEPT !.next_seq = n, !.output = o] \in RunningProcess
BY DEF RunningProcess

LEMMA ExitedType ==
  ASSUME NEW p \in RunningProcess, NEW n \in Nat \ {0}
  PROVE  [p EXCEPT !.next_seq = n, !.exited = TRUE] \in RunningProcess
BY DEF RunningProcess

LEMMA ClosedType ==
  ASSUME NEW p \in RunningProcess, NEW n \in Nat \ {0}
  PROVE  [p EXCEPT !.next_seq = n, !.closed = TRUE] \in RunningProcess
BY DEF RunningProcess

LEMMA StreamsType ==
  ASSUME NEW p \in RunningProcess, NEW n \in Nat
  PROVE  [p EXCEPT !.open_streams = n] \in RunningProcess
BY DEF RunningProcess

LEMMA TypeServer ==
  ASSUME TypeOK, TaskStep \/ RemoveClosedProcess
  PROVE  TypeOK'
<1> USE DEF clientVars
<1>1. ASSUME NEW s \in Stream, ReceiveChunk(s) PROVE TypeOK'
  <2>1. CASE process.entry = "Running"
    <3>1. process.next_seq \in Nat /\ process.output \in Seq(Nat)
      BY DEF TypeOK, RunningProcess
    <3>2. Append(process.output, process.next_seq) \in Seq(Nat)
      BY <3>1
    <3>3. Retain(Append(process.output, process.next_seq)) \in Seq(Nat)
      BY <3>1, <3>2 DEF Retain
    <3>4. process' \in RunningProcess
      <4> DEFINE n == process.next_seq + 1
                 o == Retain(Append(process.output, process.next_seq))
      <4>1. process' = [process EXCEPT !.next_seq = n, !.output = o]
        BY <1>1, <2>1 DEF ReceiveChunk
      <4>2. n \in Nat \ {0} /\ o \in Seq(Nat) /\ process \in RunningProcess
        BY <3>3, NextSeqType DEF TypeOK
      <4> HIDE DEF n, o
      <4> QED BY <4>1, <4>2, OutputType
    <3>5. log' \in Seq(Event) /\ task' \in [Task -> TaskState]
      BY <1>1, <2>1, EmitTypes DEF ReceiveChunk
    <3> QED BY <1>1, <3>4, <3>5 DEF ReceiveChunk, TypeOK
  <2>2. CASE process.entry # "Running"
    <3>1. task' \in [Task -> TaskState]
      BY <1>1, <2>2, GotoTypes DEF ReceiveChunk
    <3> QED BY <1>1, <2>2, <3>1 DEF ReceiveChunk, TypeOK
  <2> QED BY <2>1, <2>2
<1>2. ASSUME NEW s \in Stream, FinishOutputStream(s) PROVE TypeOK'
  <2>1. task' \in [Task -> TaskState]
    BY <1>2, GotoTypes DEF FinishOutputStream
  <2>2. process' \in RunningProcess
    <3> DEFINE n == process.open_streams
               k == IF n > 0 THEN n - 1 ELSE n
    <3>1. n \in Nat
      BY DEF TypeOK, RunningProcess
    <3>2. k \in Nat
      <4> HIDE DEF n
      <4> QED BY <3>1
    <3>3. process' \in {process, [process EXCEPT !.open_streams = k]}
      BY <1>2 DEF FinishOutputStream
    <3> HIDE DEF k
    <3> QED BY <3>2, <3>3, StreamsType DEF TypeOK
  <2> QED BY <1>2, <2>1, <2>2 DEF FinishOutputStream, TypeOK
<1>3. CASE WatchExit
  <2>1. log' \in Seq(Event) /\ task' \in [Task -> TaskState]
    BY <1>3, EmitTypes, GotoTypes DEF WatchExit, TypeOK
  <2>2. process' \in RunningProcess
    <3> DEFINE n == process.next_seq + 1
    <3>1. process' \in {process, [process EXCEPT !.next_seq = n, !.exited = TRUE]}
      BY <1>3 DEF WatchExit
    <3>2. n \in Nat \ {0} /\ process \in RunningProcess
      BY NextSeqType DEF TypeOK
    <3> HIDE DEF n
    <3>3. [process EXCEPT !.next_seq = n, !.exited = TRUE] \in RunningProcess
      BY <3>2, ExitedType
    <3> QED BY <3>1, <3>2, <3>3
  <2> QED BY <1>3, <2>1, <2>2 DEF WatchExit, TypeOK
<1>4. ASSUME NEW t \in Task, Notify(t) PROVE TypeOK'
  <2>1. AfterNotify(task[t].event.kind) \in {"recv", "notify", "close", "done"}
    BY DEF AfterNotify
  <2>2. wire' \in Seq(Message)
    <3>1. CASE task[t].event # NoEvent
      <4>1. task[t].event \in Event
        BY <3>1 DEF TypeOK, TaskState
      <4>2. Notification(task[t].event) \in Message
        BY <4>1 DEF Notification, Message
      <4>3. wire' = Append(wire, Notification(task[t].event))
        BY <1>4, <3>1 DEF Notify
      <4> QED BY <4>2, <4>3 DEF TypeOK
    <3>2. CASE task[t].event = NoEvent
      BY <1>4, <3>2 DEF Notify, TypeOK
    <3> QED BY <3>1, <3>2
  <2>3. request' \in Request
    BY <1>4 DEF Notify, TypeOK, Request
  <2>4. task' \in [Task -> TaskState]
    BY <1>4, <2>1 DEF Notify, TypeOK, TaskState
  <2>5. process' \in RunningProcess
    BY <1>4 DEF Notify, TypeOK, RunningProcess
  <2> QED BY <1>4, <2>2, <2>3, <2>4, <2>5 DEF Notify, TypeOK
<1>5. ASSUME NEW t \in Task, MaybeEmitClosed(t) PROVE TypeOK'
  <2>1. log' \in Seq(Event) /\ task' \in [Task -> TaskState]
    BY <1>5, EmitTypes, GotoTypes DEF MaybeEmitClosed, TypeOK
  <2>2. process' \in RunningProcess
    <3> DEFINE n == process.next_seq + 1
    <3>1. process' \in {process, [process EXCEPT !.next_seq = n, !.closed = TRUE]}
      BY <1>5 DEF MaybeEmitClosed
    <3>2. n \in Nat \ {0} /\ process \in RunningProcess
      BY NextSeqType DEF TypeOK
    <3> HIDE DEF n
    <3>3. [process EXCEPT !.next_seq = n, !.closed = TRUE] \in RunningProcess
      BY <3>2, ClosedType
    <3> QED BY <3>1, <3>2, <3>3
  <2> QED BY <1>5, <2>1, <2>2 DEF MaybeEmitClosed, TypeOK
<1>6. CASE RemoveClosedProcess
  <2>1. process' \in RunningProcess
    BY <1>6 DEF RemoveClosedProcess, TypeOK, RunningProcess
  <2> QED BY <1>6, <2>1 DEF RemoveClosedProcess, TypeOK
<1> QED BY <1>1, <1>2, <1>3, <1>4, <1>5, <1>6 DEF TaskStep

-----------------------------------------------------------------------------
\* The operators on events.

LEMMA LogTyped ==
  /\ TypeOK => log \in Seq(Event)
  /\ TypeOK' => log' \in Seq(Event)
BY DEF TypeOK

LEMMA OutputsOf ==
  ASSUME NEW events \in Seq(Event), \A i \in 1..Len(events) : events[i].seq = i
  PROVE  \A seq : seq \in Outputs(events) <=>
           seq \in 1..Len(events) /\ events[seq].kind = "Output"
BY DEF Outputs, Elements

LEMMA OutputsNat ==
  ASSUME NEW events \in Seq(Event)
  PROVE  Outputs(events) \subseteq Nat
<1>1. \A i \in 1..Len(events) : events[i] \in Event
  OBVIOUS
<1>2. \A i \in 1..Len(events) : events[i].seq \in Nat
  BY <1>1 DEF Event
<1> QED BY <1>2 DEF Outputs, Elements

\* The chunks of a read end with the newest that is retained.
LEMMA NewestRetained ==
  ASSUME TypeOK, RetainInv, NEW after \in Nat, After(after) # {}
  PROVE  /\ Newest(After(after)) \in After(after)
         /\ \A seq \in Outputs(log) : seq <= Newest(After(after))
<1> DEFINE output == process.output
           last == LastOf(output)
<1>1. output \in Seq(Nat)
  BY DEF TypeOK, RunningProcess
<1>2. PICK i \in 1..Len(output) : output[i] > after
  BY DEF After, Elements
<1>3. output[i] \in Outputs(log)
  BY <1>1 DEF RetainInv
<1>4. output # <<>> /\ output[i] <= last
  BY <1>3 DEF RetainInv
<1>5. last \in Nat /\ last \in Elements(output) /\ last > after
  <2> HIDE DEF output
  <2>1. Len(output) \in 1..Len(output)
    BY <1>1, <1>2
  <2>2. last \in Nat /\ output[i] \in Nat
    BY <1>1, <2>1 DEF LastOf
  <2>3. last \in Elements(output)
    BY <2>1 DEF LastOf, Elements
  <2> QED BY <1>2, <1>4, <2>2, <2>3
<1>6. last \in After(after)
  BY <1>5 DEF After
<1>7. \A seq \in After(after) : seq \in Nat /\ seq <= last
  <2> TAKE seq \in After(after)
  <2>1. PICK j \in 1..Len(output) : seq = output[j]
    BY DEF After, Elements
  <2>2. seq \in Outputs(log)
    BY <2>1 DEF RetainInv
  <2> QED BY <1>1, <2>1, <2>2 DEF RetainInv
<1>8. Newest(After(after)) = last
  <2> HIDE DEF last
  <2>1. \A other \in After(after) : other <= last
    BY <1>7
  <2>2. \A n \in After(after) : (\A other \in After(after) : other <= n) => n = last
    BY <1>5, <1>6, <1>7
  <2> QED BY <1>6, <2>1, <2>2 DEF Newest
<1>9. \A seq \in Outputs(log) : seq <= last
  BY DEF RetainInv
<1> QED BY <1>6, <1>8, <1>9

\* What publish_ordered_event does: a run of events, each the next one, is added
\* to those published.
Adds(c, e, d) ==
  LET more == d.last_published - c.last_published IN
  /\ d \in SessionState
  /\ d.registered = c.registered /\ d.failure = c.failure
  /\ d.publish_failed = c.publish_failed
  /\ d.pending \subseteq c.pending \union {e}
  /\ more \in Nat /\ Len(d.published) = Len(c.published) + more
  /\ \A i \in 1..Len(c.published) : d.published[i] = c.published[i]
  /\ \A k \in 1..more : /\ d.published[Len(c.published) + k] \in c.pending \union {e}
                        /\ d.published[Len(c.published) + k].seq = c.last_published + k

LEMMA PublishOrderedAdds ==
  ASSUME NEW c \in SessionState, NEW e \in Event, NEW n \in Nat,
         \A x \in c.pending : x.seq \in 1..n, e.seq \in 1..n
  PROVE  Adds(c, e, PublishOrdered(c, e))
<1> DEFINE last == c.last_published
           pending == IF \E x \in c.pending : x.seq = e.seq
                      THEN c.pending ELSE c.pending \union {e}
           to == Contiguous(last, pending)
           more == to - last
           ready == [i \in 1..more |-> EventAt(pending, last + i)]
           rest == {x \in pending : x.seq > to}
           d == PublishOrdered(c, e)
<1>1. last \in Nat /\ c.pending \subseteq Event /\ c.published \in Seq(Event)
  BY DEF SessionState
<1>2. pending \subseteq c.pending \union {e} /\ pending \subseteq Event
      /\ \A x \in pending : x.seq \in 1..n
  BY <1>1
<1>3. to \in Nat /\ last <= to /\ \A m \in (last + 1)..to : \E x \in pending : x.seq = m
  <2> HIDE DEF last, pending
  <2> QED BY <1>1, <1>2, ContiguousReached
<1>4. more \in Nat
  <2> HIDE DEF to, last
  <2> QED BY <1>1, <1>3
<1>5. ASSUME NEW k \in 1..more
      PROVE  EventAt(pending, last + k) \in pending
             /\ EventAt(pending, last + k).seq = last + k
  <2> HIDE DEF to, last, pending
  <2>1. last + k \in (last + 1)..to
    BY <1>1, <1>3, <1>4
  <2>2. \E x \in pending : x.seq = last + k
    BY <1>3, <2>1
  <2> QED BY <2>2 DEF EventAt
<1>6. ready \in Seq(Event) /\ Len(ready) = more
  <2> HIDE DEF to, last, pending, more
  <2>1. \A k \in 1..more : EventAt(pending, last + k) \in Event
    BY <1>2, <1>5
  <2> QED BY <1>4, <2>1
<1>7. CASE e.seq <= last
  <2>1. d = c
    BY <1>7 DEF PublishOrdered
  <2>2. last - last = 0 /\ Len(c.published) + 0 = Len(c.published) /\ 1..0 = {}
    BY <1>1
  <2>3. Adds(c, e, c)
    BY <2>2 DEF Adds
  <2> QED BY <2>1, <2>3
<1>8. CASE ~(e.seq <= last)
  <2>1. d = [c EXCEPT !.last_published = to, !.pending = rest,
                      !.published = @ \o ready]
    BY <1>8 DEF PublishOrdered
  <2> DEFINE all == c.published \o ready
  <2>2. /\ all \in Seq(Event) /\ Len(all) = Len(c.published) + more
        /\ \A i \in 1..Len(c.published) : all[i] = c.published[i]
        /\ \A k \in 1..more : all[Len(c.published) + k] = ready[k]
    <3> HIDE DEF ready, more
    <3>1. Len(c.published) \in Nat
      BY <1>1
    <3> QED BY <1>1, <1>4, <1>6, <3>1
  <2>3. rest \subseteq Event /\ rest \subseteq pending
    <3> HIDE DEF pending, to
    <3> QED BY <1>2
  <2>4. d = [c EXCEPT !.last_published = to, !.pending = rest, !.published = all]
    BY <2>1
  <2>5. \A k \in 1..more : ready[k] = EventAt(pending, last + k)
    <3> HIDE DEF pending, to, last, more
    <3> QED OBVIOUS
  <2> HIDE DEF d, all, rest, pending, to, last, ready, more
  <2>6. d \in SessionState
    <3>1. to \in Nat /\ rest \in SUBSET Event /\ all \in Seq(Event)
      BY <1>3, <2>2, <2>3
    <3> QED BY <2>4, <3>1 DEF SessionState
  <2>7. /\ d.registered = c.registered /\ d.failure = c.failure
        /\ d.publish_failed = c.publish_failed
        /\ d.pending = rest /\ d.published = all /\ d.last_published = to
    BY <2>4 DEF SessionState
  <2>8. d.last_published - c.last_published = more
    BY <2>7 DEF more, last
  <2>9. \A k \in 1..more : all[Len(c.published) + k] \in c.pending \union {e}
                           /\ all[Len(c.published) + k].seq = c.last_published + k
    <3> TAKE k \in 1..more
    <3>1. all[Len(c.published) + k] = EventAt(pending, last + k)
      BY <2>2, <2>5
    <3>2. EventAt(pending, last + k) \in pending /\ EventAt(pending, last + k).seq = last + k
      BY <1>5
    <3>3. EventAt(pending, last + k) \in c.pending \union {e}
      BY <1>2, <3>2
    <3> QED BY <3>1, <3>2, <3>3 DEF last
  <2>10. rest \subseteq c.pending \union {e}
    BY <1>2, <2>3
  <2>11. Adds(c, e, d)
    BY <1>4, <2>2, <2>6, <2>7, <2>8, <2>9, <2>10 DEF Adds
  <2> QED BY <2>11 DEF d
<1> QED BY <1>7, <1>8

-----------------------------------------------------------------------------
\* The server: what a step of the tasks of the process does to its events.

\* The events stay, more may come unless the process is closed, and what was
\* not retained before is not retained after.
Evolves ==
  /\ Len(log) <= Len(log') /\ \A i \in 1..Len(log) : log'[i] = log[i]
  /\ process.closed => log' = log /\ process'.closed
  /\ \A seq \in Outputs(log) :
       seq \in Elements(process'.output) => seq \in Elements(process.output)

ServerInv == TypeOK /\ LogInv /\ TaskInv /\ RetainInv

LEMMA Emitted ==
  ASSUME TypeOK, LogInv, NEW t \in Task, NEW kind, Emit(t, kind)
  PROVE  /\ Len(log') = Len(log) + 1
         /\ \A i \in 1..Len(log) : log'[i] = log[i]
         /\ log'[Len(log) + 1] = [seq |-> Len(log) + 1, kind |-> kind]
         /\ task' = [task EXCEPT ![t] =
              [pc |-> "notify", event |-> [seq |-> Len(log) + 1, kind |-> kind]]]
<1>1. process.next_seq = Len(log) + 1 /\ log \in Seq(Event)
  BY DEF LogInv, TypeOK
<1>2. log' = Append(log, [seq |-> Len(log) + 1, kind |-> kind])
  BY <1>1 DEF Emit
<1>3. task' = [task EXCEPT ![t] =
              [pc |-> "notify", event |-> [seq |-> Len(log) + 1, kind |-> kind]]]
  BY <1>1 DEF Emit
<1> QED BY <1>1, <1>2, <1>3

\* The numbers after a step that adds one event.
LEMMA LogGrows ==
  ASSUME TypeOK, TypeOK', LogInv, NEW kind \in {"Output", "Exited", "Closed"},
         ~process.closed,
         Len(log') = Len(log) + 1, \A i \in 1..Len(log) : log'[i] = log[i],
         log'[Len(log) + 1] = [seq |-> Len(log) + 1, kind |-> kind],
         process'.next_seq = process.next_seq + 1,
         process'.exited <=> process.exited \/ kind = "Exited",
         process'.closed <=> process.closed \/ kind = "Closed"
  PROVE  LogInv'
<1>1. Len(log) \in Nat /\ log \in Seq(Event) /\ log' \in Seq(Event)
  BY DEF TypeOK
<1>2. (process.next_seq = Len(log) + 1)'
  BY <1>1 DEF LogInv
<1>3. \A i \in 1..Len(log') : i \in 1..Len(log) \/ i = Len(log) + 1
  BY <1>1
<1>4. \A i \in 1..Len(log) : log[i].seq = i /\ log[i].kind \in {"Output", "Exited"}
  BY DEF LogInv, Has
<1>5. \A i \in 1..Len(log') : /\ log'[i].seq = i
                              /\ log'[i].kind \in {"Output", "Exited", "Closed"}
                              /\ log'[i].kind = "Closed" => i = Len(log')
  BY <1>1, <1>3, <1>4
<1>6. \A k \in {"Exited", "Closed"} : Has(k)' <=> Has(k) \/ kind = k
  <2> TAKE k \in {"Exited", "Closed"}
  <2>1. Len(log) + 1 \in 1..Len(log')
    BY <1>1
  <2> QED BY <1>1, <1>3, <2>1 DEF Has
<1>7. (process.exited <=> Has("Exited"))' /\ (process.closed <=> Has("Closed"))'
  BY <1>6 DEF LogInv
<1> QED BY <1>2, <1>5, <1>7 DEF LogInv

LEMMA ServerReceives ==
  ASSUME ServerInv, TypeOK', NEW s \in Stream, ReceiveChunk(s)
  PROVE  LogInv' /\ TaskInv' /\ RetainInv' /\ Evolves
<1> USE DEF ServerInv
<1>1. s \in Open /\ ~process.closed /\ process.entry = "Running"
  <2>1. s \in Open
    BY DEF ReceiveChunk, Open
  <2> QED BY <2>1 DEF TaskInv, TypeOK, RunningProcess
<1> DEFINE n == process.next_seq
           output == process.output
<1>2. /\ Emit(s, "Output") /\ n = Len(log) + 1 /\ n \in Nat /\ Len(log) \in Nat
      /\ process' = [process EXCEPT !.next_seq = n + 1, !.output = Retain(Append(output, n))]
  BY <1>1 DEF ReceiveChunk, LogInv, TypeOK
<1>3. /\ process'.next_seq = n + 1 /\ process'.exited = process.exited
      /\ process'.closed = process.closed /\ process'.entry = process.entry
      /\ process'.open_streams = process.open_streams
      /\ process'.output = Retain(Append(output, n))
  BY <1>2 DEF TypeOK, RunningProcess
<1>4. /\ Len(log') = Len(log) + 1
      /\ \A i \in 1..Len(log) : log'[i] = log[i]
      /\ log'[Len(log) + 1] = [seq |-> Len(log) + 1, kind |-> "Output"]
      /\ task' = [task EXCEPT ![s] =
              [pc |-> "notify", event |-> [seq |-> Len(log) + 1, kind |-> "Output"]]]
  BY <1>2, Emitted
<1>5. LogInv'
  <2>1. /\ process'.exited <=> process.exited \/ "Output" = "Exited"
        /\ process'.closed <=> process.closed \/ "Output" = "Closed"
    BY <1>3
  <2> HIDE DEF n
  <2> QED BY <1>1, <1>3, <1>4, <2>1, LogGrows DEF n
<1>6. TaskInv'
  <2>1. Open' = Open
    BY <1>1, <1>4 DEF Open, TypeOK
  <2>2. task'["exit"] = task["exit"]
    BY <1>4 DEF TypeOK
  <2> QED BY <1>3, <2>1, <2>2 DEF TaskInv
<1>7. \A seq : seq \in Outputs(log') <=> seq \in Outputs(log) \/ seq = n
  <2>1. \A i \in 1..Len(log) : log[i].seq = i
    BY DEF LogInv
  <2>2. \A i \in 1..Len(log') : log'[i].seq = i
    BY <1>5 DEF LogInv
  <2>3. \A seq : seq \in Outputs(log') <=> seq \in 1..Len(log') /\ log'[seq].kind = "Output"
    BY <2>2, OutputsOf, LogTyped
  <2>4. \A seq : seq \in Outputs(log) <=> seq \in 1..Len(log) /\ log[seq].kind = "Output"
    BY <2>1, OutputsOf, LogTyped
  <2> HIDE DEF n
  <2> QED BY <1>2, <1>4, <2>3, <2>4
<1>8. \A seq \in Outputs(log) : seq \in Nat /\ seq < n
  <2>1. \A i \in 1..Len(log) : log[i].seq = i
    BY DEF LogInv
  <2>2. \A seq : seq \in Outputs(log) <=> seq \in 1..Len(log) /\ log[seq].kind = "Output"
    BY <2>1, OutputsOf, LogTyped
  <2> HIDE DEF n
  <2> QED BY <1>2, <2>2
<1> DEFINE all == Append(output, n)
           kept == Retain(all)
<1>9. /\ kept # <<>> /\ LastOf(kept) = n
      /\ \A i \in 1..Len(kept) : kept[i] = n \/ kept[i] \in Elements(output)
  <2>1. output \in Seq(Nat) /\ all \in Seq(Nat) /\ Len(all) = Len(output) + 1
        /\ all[Len(all)] = n
    BY <1>2 DEF TypeOK, RunningProcess
  <2>2. \A i \in 1..Len(all) : all[i] = n \/ all[i] \in Elements(output)
    BY <2>1 DEF Elements
  <2> HIDE DEF all
  <2>3. CASE Len(all) > Retained
    <3>1. kept = Tail(all)
      BY <2>3 DEF Retain
    <3>2. Len(all) \in Nat /\ Len(all) > 1 /\ all # <<>>
      BY <2>1, <2>3
    <3>3. Len(kept) = Len(all) - 1 /\ \A i \in 1..Len(kept) : kept[i] = all[i + 1]
      BY <2>1, <3>1, <3>2
    <3>4. kept # <<>> /\ LastOf(kept) = n
      <4>1. Len(kept) \in Nat \ {0} /\ Len(kept) + 1 = Len(all)
        BY <3>2, <3>3
      <4>2. kept[Len(kept)] = all[Len(all)] /\ kept # <<>>
        BY <3>3, <4>1
      <4> QED BY <2>1, <4>2 DEF LastOf
    <3>5. \A i \in 1..Len(kept) : i + 1 \in 1..Len(all)
      BY <3>2, <3>3
    <3> QED BY <2>2, <3>3, <3>4, <3>5
  <2>4. CASE ~(Len(all) > Retained)
    <3>1. kept = all
      BY <2>4 DEF Retain
    <3>2. kept # <<>> /\ LastOf(kept) = n
      BY <2>1, <3>1 DEF LastOf, TypeOK, RunningProcess
    <3> QED BY <2>2, <3>1, <3>2
  <2> QED BY <2>3, <2>4
<1> HIDE DEF kept
<1>10. process'.output = kept
  BY <1>3 DEF kept
<1>11. RetainInv'
  <2>1. ASSUME NEW i \in 1..Len(kept) PROVE kept[i] \in Outputs(log')
    <3>1. CASE kept[i] = n
      BY <1>7, <3>1
    <3>2. CASE kept[i] \in Elements(output)
      BY <1>7, <3>2 DEF RetainInv, Elements
    <3> QED BY <1>9, <3>1, <3>2
  <2>2. \A seq \in Outputs(log') : seq <= n
    <3> HIDE DEF n
    <3> QED BY <1>2, <1>7, <1>8
  <2> HIDE DEF n
  <2> QED BY <1>9, <1>10, <2>1, <2>2 DEF RetainInv
<1>12. Evolves
  <2>1. ASSUME NEW seq \in Outputs(log), seq \in Elements(process'.output)
        PROVE  seq \in Elements(output)
    <3>1. seq # n
      <4> HIDE DEF n
      <4> QED BY <1>2, <1>8
    <3>2. PICK i \in 1..Len(kept) : seq = kept[i]
      BY <1>10, <2>1 DEF Elements
    <3> QED BY <1>9, <3>1, <3>2
  <2>2. Len(log) <= Len(log')
    BY <1>2, <1>4
  <2> QED BY <1>1, <1>4, <2>1, <2>2 DEF Evolves
<1> QED BY <1>5, <1>6, <1>11, <1>12

LEMMA ServerLogStays ==
  ASSUME ServerInv, log' = log,
         process'.next_seq = process.next_seq, process'.output = process.output,
         process'.exited = process.exited, process'.closed = process.closed
  PROVE  LogInv' /\ RetainInv' /\ Evolves
<1> USE DEF ServerInv
<1>1. LogInv'
  BY DEF LogInv, Has
<1>2. RetainInv'
  BY DEF RetainInv
<1>3. Evolves
  BY DEF Evolves, TypeOK
<1> QED BY <1>1, <1>2, <1>3

LEMMA ServerEmitsOther ==
  ASSUME ServerInv, TypeOK', NEW t \in Task, NEW kind \in {"Exited", "Closed"},
         Emit(t, kind), ~process.closed,
         process'.next_seq = process.next_seq + 1, process'.output = process.output,
         process'.exited <=> process.exited \/ kind = "Exited",
         process'.closed <=> process.closed \/ kind = "Closed"
  PROVE  LogInv' /\ RetainInv' /\ Evolves
<1> USE DEF ServerInv
<1>1. /\ Len(log') = Len(log) + 1
      /\ \A i \in 1..Len(log) : log'[i] = log[i]
      /\ log'[Len(log) + 1] = [seq |-> Len(log) + 1, kind |-> kind]
  BY Emitted
<1>2. LogInv'
  BY <1>1, LogGrows
<1>3. Outputs(log') = Outputs(log)
  <2>1. \A i \in 1..Len(log) : log[i].seq = i
    BY DEF LogInv
  <2>2. \A i \in 1..Len(log') : log'[i].seq = i
    BY <1>2 DEF LogInv
  <2>3. \A seq : seq \in Outputs(log') <=> seq \in 1..Len(log') /\ log'[seq].kind = "Output"
    BY <2>2, OutputsOf, LogTyped
  <2>4. \A seq : seq \in Outputs(log) <=> seq \in 1..Len(log) /\ log[seq].kind = "Output"
    BY <2>1, OutputsOf, LogTyped
  <2>5. Len(log) \in Nat
    BY DEF TypeOK
  <2>6. \A seq : seq \in Outputs(log') <=> seq \in Outputs(log)
    BY <1>1, <2>3, <2>4, <2>5
  <2> QED BY <2>6
<1>4. RetainInv'
  BY <1>3 DEF RetainInv
<1>5. Evolves
  BY <1>1 DEF Evolves, TypeOK
<1> QED BY <1>2, <1>4, <1>5

LEMMA ServerFinishes ==
  ASSUME ServerInv, TypeOK', NEW s \in Stream, FinishOutputStream(s)
  PROVE  LogInv' /\ TaskInv' /\ RetainInv' /\ Evolves
<1> USE DEF ServerInv
<1>1. s \in Open /\ ~process.closed /\ process.entry = "Running"
  <2>1. s \in Open
    BY DEF FinishOutputStream, Open
  <2> QED BY <2>1 DEF TaskInv, TypeOK, RunningProcess
<1> DEFINE n == process.open_streams
           k == IF n > 0 THEN n - 1 ELSE n
<1>2. /\ process' = [process EXCEPT !.open_streams = k]
      /\ task' = [task EXCEPT ![s].pc = "close"] /\ log' = log
  BY <1>1 DEF FinishOutputStream, Goto
<1>3. /\ process'.next_seq = process.next_seq /\ process'.exited = process.exited
      /\ process'.closed = process.closed /\ process'.entry = process.entry
      /\ process'.output = process.output /\ process'.open_streams = k
  <2> HIDE DEF k
  <2> QED BY <1>2 DEF TypeOK, RunningProcess
<1>4. LogInv' /\ RetainInv' /\ Evolves
  BY <1>2, <1>3, ServerLogStays
<1>5. TaskInv'
  <2>1. Open' = Open \ {s}
    BY <1>1, <1>2 DEF Open, TypeOK, TaskState
  <2>2. IsFiniteSet(Open) /\ n = Cardinality(Open)
    BY FS_Subset DEF Open, TaskInv
  <2>3. Cardinality(Open) # 0 /\ Cardinality(Open) \in Nat
    BY <1>1, <2>2, FS_EmptySet, FS_CardinalityType
  <2>4. Cardinality(Open \ {s}) = Cardinality(Open) - 1
    BY <1>1, <2>2, FS_RemoveElement
  <2>5. process'.open_streams = Cardinality(Open')
    <3> HIDE DEF n
    <3> QED BY <1>3, <2>1, <2>2, <2>3, <2>4
  <2>6. task'["exit"] = task["exit"]
    BY <1>2 DEF TypeOK
  <2> QED BY <1>1, <1>3, <2>5, <2>6 DEF TaskInv
<1> QED BY <1>4, <1>5

LEMMA ServerExits ==
  ASSUME ServerInv, TypeOK', WatchExit
  PROVE  LogInv' /\ TaskInv' /\ RetainInv' /\ Evolves
<1> USE DEF ServerInv
<1>1. ~process.exited /\ ~process.closed /\ process.entry = "Running"
  BY DEF WatchExit, TaskInv, TypeOK, RunningProcess
<1> DEFINE n == process.next_seq + 1
<1>2. Emit("exit", "Exited") /\ process' = [process EXCEPT !.next_seq = n, !.exited = TRUE]
  BY <1>1 DEF WatchExit
<1>3. /\ process'.next_seq = n /\ process'.exited = TRUE
      /\ process'.closed = process.closed /\ process'.entry = process.entry
      /\ process'.output = process.output /\ process'.open_streams = process.open_streams
  <2> HIDE DEF n
  <2> QED BY <1>2 DEF TypeOK, RunningProcess
<1>4. LogInv' /\ RetainInv' /\ Evolves
  <2>1. /\ process'.exited <=> process.exited \/ "Exited" = "Exited"
        /\ process'.closed <=> process.closed \/ "Exited" = "Closed"
    BY <1>3
  <2> QED BY <1>1, <1>2, <1>3, <2>1, ServerEmitsOther
<1>5. TaskInv'
  <2>1. task' = [task EXCEPT !["exit"] =
              [pc |-> "notify", event |-> [seq |-> Len(log) + 1, kind |-> "Exited"]]]
    BY <1>2, Emitted
  <2>2. Open' = Open
    BY <2>1 DEF Open, TypeOK
  <2>3. task'["exit"] = [pc |-> "notify", event |-> [seq |-> Len(log) + 1, kind |-> "Exited"]]
    BY <2>1 DEF TypeOK
  <2> QED BY <1>1, <1>3, <2>2, <2>3 DEF TaskInv
<1> QED BY <1>4, <1>5

LEMMA ServerNotifies ==
  ASSUME ServerInv, TypeOK', NEW t \in Task, Notify(t)
  PROVE  LogInv' /\ TaskInv' /\ RetainInv' /\ Evolves
<1> USE DEF ServerInv
<1> DEFINE r == process.retiring \/ task[t].event.kind = "Closed"
           pc == AfterNotify(task[t].event.kind)
<1>1. /\ process' = [process EXCEPT !.retiring = r] /\ log' = log
      /\ task' = [task EXCEPT ![t] = [pc |-> pc, event |-> NoEvent]]
      /\ task[t].pc = "notify"
  BY DEF Notify
<1>2. /\ process'.next_seq = process.next_seq /\ process'.exited = process.exited
      /\ process'.closed = process.closed /\ process'.entry = process.entry
      /\ process'.output = process.output /\ process'.open_streams = process.open_streams
  <2> HIDE DEF r
  <2> QED BY <1>1 DEF TypeOK, RunningProcess
<1>3. LogInv' /\ RetainInv' /\ Evolves
  BY <1>1, <1>2, ServerLogStays
<1>4. /\ task'[t] = [pc |-> pc, event |-> NoEvent]
      /\ \A u \in Task \ {t} : task'[u] = task[u]
  BY <1>1 DEF TypeOK
<1>5. pc # "notify" /\ (pc = "recv" <=> task[t].event.kind = "Output")
  BY DEF AfterNotify
<1>6. TaskInv'
  <2> HIDE DEF pc
  <2>1. Open' = Open
    BY <1>1, <1>4, <1>5 DEF Open
  <2>2. CASE t = "exit"
    <3>1. task'["exit"].pc # "recv" /\ task'["exit"].pc # "notify"
      BY <1>1, <1>4, <1>5, <2>2 DEF TaskInv
    <3> QED BY <1>2, <2>1, <3>1 DEF TaskInv
  <2>3. CASE t # "exit"
    <3>1. task'["exit"] = task["exit"]
      BY <1>4, <2>3
    <3> QED BY <1>2, <2>1, <3>1 DEF TaskInv
  <2> QED BY <2>2, <2>3
<1> QED BY <1>3, <1>6

LEMMA ServerCloses ==
  ASSUME ServerInv, TypeOK', NEW t \in Task, MaybeEmitClosed(t)
  PROVE  LogInv' /\ TaskInv' /\ RetainInv' /\ Evolves
<1> USE DEF ServerInv
<1>1. CASE Closes
  <2> DEFINE n == process.next_seq + 1
  <2>1. /\ Emit(t, "Closed") /\ process' = [process EXCEPT !.next_seq = n, !.closed = TRUE]
        /\ ~process.closed /\ process.open_streams = 0 /\ process.exited
        /\ task[t].pc = "close"
    BY <1>1 DEF MaybeEmitClosed, Closes
  <2>2. /\ process'.next_seq = n /\ process'.exited = process.exited
        /\ process'.closed = TRUE /\ process'.entry = process.entry
        /\ process'.output = process.output /\ process'.open_streams = process.open_streams
    <3> HIDE DEF n
    <3> QED BY <2>1 DEF TypeOK, RunningProcess
  <2>3. LogInv' /\ RetainInv' /\ Evolves
    <3>1. /\ process'.exited <=> process.exited \/ "Closed" = "Exited"
          /\ process'.closed <=> process.closed \/ "Closed" = "Closed"
      BY <2>2
    <3> QED BY <2>1, <2>2, <3>1, ServerEmitsOther
  <2>4. task' = [task EXCEPT ![t] =
              [pc |-> "notify", event |-> [seq |-> Len(log) + 1, kind |-> "Closed"]]]
    BY <2>1, Emitted
  <2>5. Open' = Open
    BY <2>1, <2>4 DEF Open, TypeOK
  <2>6. Open = {}
    <3>1. IsFiniteSet(Open)
      BY FS_Subset DEF Open
    <3> QED BY <2>1, <3>1, FS_EmptySet DEF TaskInv
  <2>7. /\ task'["exit"].pc = "recv" => task["exit"].pc = "recv"
        /\ task'["exit"].pc = "notify" =>
             task'["exit"].event.kind = "Closed" \/ task'["exit"] = task["exit"]
    BY <2>4 DEF TypeOK
  <2>8. TaskInv'
    BY <2>1, <2>2, <2>5, <2>6, <2>7 DEF TaskInv
  <2> QED BY <2>3, <2>8
<1>2. CASE ~Closes
  <2>1. /\ task[t].pc = "close" /\ task' = [task EXCEPT ![t].pc = "done"]
        /\ process' = process /\ log' = log
    BY <1>2 DEF MaybeEmitClosed, Goto
  <2>2. LogInv' /\ RetainInv' /\ Evolves
    BY <2>1, ServerLogStays
  <2>3. Open' = Open /\ task'["exit"].pc \in {"done", task["exit"].pc}
        /\ task'["exit"].event = task["exit"].event
    BY <2>1 DEF Open, TypeOK, TaskState
  <2>4. TaskInv'
    BY <2>1, <2>3 DEF TaskInv
  <2> QED BY <2>2, <2>4
<1> QED BY <1>1, <1>2

LEMMA ServerRemoves ==
  ASSUME ServerInv, RemoveClosedProcess
  PROVE  LogInv' /\ TaskInv' /\ RetainInv' /\ Evolves
<1> USE DEF ServerInv
<1>1. /\ process' = [process EXCEPT !.entry = "Gone"] /\ log' = log /\ task' = task
      /\ process.closed
  BY DEF RemoveClosedProcess
<1>2. /\ process'.next_seq = process.next_seq /\ process'.exited = process.exited
      /\ process'.closed = process.closed
      /\ process'.output = process.output /\ process'.open_streams = process.open_streams
  BY <1>1 DEF TypeOK, RunningProcess
<1>3. LogInv' /\ RetainInv' /\ Evolves
  BY <1>1, <1>2, ServerLogStays
<1>4. TaskInv'
  BY <1>1, <1>2 DEF TaskInv, Open
<1> QED BY <1>3, <1>4

-----------------------------------------------------------------------------
\* What the rest of the system keeps while the server goes on.

LEMMA EvolvesOutputs ==
  ASSUME TypeOK, TypeOK', LogInv, LogInv', Evolves
  PROVE  /\ Len(log) \in Nat
         /\ \A seq \in Outputs(log) : seq \in Nat /\ seq <= Len(log)
         /\ \A seq \in Outputs(log') : seq \in Nat /\ (seq \in Outputs(log) \/ seq > Len(log))
         /\ Outputs(log) \subseteq Outputs(log')
         /\ Evicted \subseteq Evicted'
<1>1. \A i \in 1..Len(log) : log[i].seq = i
  BY DEF LogInv
<1>2. \A i \in 1..Len(log') : log'[i].seq = i
  BY DEF LogInv
<1>3. \A seq : seq \in Outputs(log') <=> seq \in 1..Len(log') /\ log'[seq].kind = "Output"
  BY <1>2, OutputsOf, LogTyped
<1>4. \A seq : seq \in Outputs(log) <=> seq \in 1..Len(log) /\ log[seq].kind = "Output"
  BY <1>1, OutputsOf, LogTyped
<1>5. Len(log) \in Nat /\ Len(log') \in Nat
  BY DEF TypeOK
<1>6. \A seq \in Outputs(log) : seq \in Nat /\ seq <= Len(log)
  BY <1>4, <1>5
<1>7. \A seq \in Outputs(log') : seq \in Nat /\ (seq \in Outputs(log) \/ seq > Len(log))
  BY <1>3, <1>4, <1>5 DEF Evolves
<1>8. Outputs(log) \subseteq Outputs(log')
  BY <1>3, <1>4, <1>5 DEF Evolves
<1>9. Evicted \subseteq Evicted'
  BY <1>8 DEF Evicted, Evolves
<1> QED BY <1>5, <1>6, <1>7, <1>8, <1>9

LEMMA NumberedStays ==
  ASSUME TypeOK, TypeOK', Evolves, NEW e, Numbered(e)
  PROVE  Numbered(e)'
BY DEF Numbered, Evolves, TypeOK

Rest == PublishedInv /\ FailureInv /\ CallInv /\ TakenInv /\ EndInv
        /\ NoOutputSkipped /\ RouteKeptUntilClosed

LEMMA RestKeeps ==
  ASSUME TypeOK, TypeOK', LogInv, LogInv', Evolves, Rest,
         UNCHANGED <<client, consumer, rpc, reader, down>>, Connected,
         wire' = wire \/ \E e : wire' = Append(wire, Notification(e)),
         request'.after = request.after, request'.st = "none" <=> request.st = "none"
  PROVE  Rest'
<1> USE DEF Rest
<1>1. PublishedInv'
  <2>1. client.last_published <= Len(log')
    BY DEF PublishedInv, Evolves, TypeOK, SessionState
  <2>2. CASE NotFailed
    BY <2>1, <2>2 DEF PublishedInv, NotFailed, Evolves, TypeOK, SessionState
  <2>3. ASSUME NEW f \in 1..Len(client.published), FailedAt(f)
        PROVE  FailedAt(f)'
    <3>1. /\ client.last_published \in Nat /\ client.last_published <= Len(log)
          /\ Len(client.published) = client.last_published + 1
      BY <2>3 DEF PublishedInv, FailedAt, TypeOK, SessionState
    <3>2. Len(log) \in Nat /\ \A i \in 1..Len(log) : log'[i] = log[i]
      BY DEF Evolves, TypeOK
    <3>3. \A i \in 1..(f - 1) : i \in 1..Len(log)
      BY <3>1, <3>2
    <3>4. \A i \in (f + 1)..Len(client.published) : i - 1 \in 1..Len(log)
      BY <3>1, <3>2
    <3> QED BY <2>3, <3>2, <3>3, <3>4 DEF FailedAt
  <2>4. CASE \E f \in 1..Len(client.published) : FailedAt(f)
    <3>1. (\E f \in 1..Len(client.published) : FailedAt(f))'
      BY <2>3, <2>4
    <3> QED BY <2>1, <3>1 DEF PublishedInv
  <2> QED BY <2>2, <2>4 DEF PublishedInv
<1>2. NotFailed => NotFailed'
  BY DEF PublishedInv, NotFailed, Evolves, TypeOK, SessionState
<1>3. FailureInv'
  BY <1>2 DEF FailureInv, ReaderFails, ConsumerFails
<1>4. \A i \in Responses' : i \in Responses /\ wire'[i] = wire[i]
  <2>1. CASE wire' = wire
    BY <2>1 DEF Responses
  <2>2. ASSUME NEW e, wire' = Append(wire, Notification(e))
        PROVE  \A i \in Responses' : i \in Responses /\ wire'[i] = wire[i]
    BY <2>2 DEF Responses, Notification, TypeOK
  <2> QED BY <2>1, <2>2
<1>5. ASSUME NEW r, Answer(r) PROVE Answer(r)'
  <2>1. r.next_seq \in Nat /\ r.next_seq <= Len(log) + 1
    BY <1>5 DEF Answer
  <2>2. Len(log) \in Nat /\ Len(log') \in Nat /\ Len(log) <= Len(log')
    BY DEF Evolves, TypeOK
  <2>3. ASSUME NEW seq \in Outputs(log'), seq < r.next_seq
        PROVE  seq \in Outputs(log)
    BY <2>1, <2>2, <2>3, EvolvesOutputs
  <2>4. r.next_seq <= Len(log') + 1
    BY <2>1, <2>2
  <2>5. r.closed => process'.closed /\ \A seq \in Outputs(log') : seq < r.next_seq
    BY <1>5, EvolvesOutputs DEF Answer, Evolves
  <2> QED BY <1>5, <2>3, <2>4, <2>5, EvolvesOutputs DEF Answer
<1>6. CallInv'
  <2>1. ASSUME NEW i \in Responses' PROVE (wire[i].ok => Answer(wire[i]))'
    <3>1. PICK r : r = wire[i] /\ r = wire'[i] /\ i \in Responses
      BY <1>4, <2>1
    <3>2. r.ok => Answer(r)
      BY <3>1 DEF CallInv
    <3>3. r.ok => Answer(r)'
      BY <1>5, <3>2
    <3> QED BY <3>1, <3>3 DEF Answer
  <2>2. rpc = "run"
    BY DEF Connected
  <2>3. request'.st # "none" =>
          consumer.pc = "pending" /\ request'.after = consumer.after /\ Responses' = {}
    BY <1>4 DEF CallInv
  <2>4. \A i \in Responses' : consumer.pc = "pending" /\ \A j \in Responses' : i = j
    BY <1>4 DEF CallInv
  <2> QED BY <2>1, <2>2, <2>3, <2>4 DEF CallInv
<1>7. TakenInv'
  BY DEF TakenInv, Evolves, TypeOK, ConsumerState
<1>8. EndInv'
  BY EvolvesOutputs DEF EndInv, Evolves
<1>9. NoOutputSkipped'
  <2>1. Missed' = Missed /\ Taken' = Taken
    BY DEF Missed, Taken
  <2>2. ASSUME NEW seq \in Outputs(log'), seq <= consumer.after
        PROVE  seq \in Outputs(log)
    <3>1. consumer.after \in Nat /\ consumer.after <= Len(log)
      BY DEF TakenInv, TypeOK, ConsumerState
    <3> QED BY <2>2, <3>1, EvolvesOutputs
  <2> QED BY <2>1, <2>2, EvolvesOutputs DEF NoOutputSkipped
<1>10. RouteKeptUntilClosed'
  BY DEF RouteKeptUntilClosed
<1> QED BY <1>1, <1>3, <1>6, <1>7, <1>8, <1>9, <1>10

LEMMA ServerGoes ==
  ASSUME ServerInv, TaskStep \/ RemoveClosedProcess
  PROVE  ServerInv' /\ Evolves
<1>1. TypeOK'
  BY TypeServer DEF ServerInv
<1>2. LogInv' /\ TaskInv' /\ RetainInv' /\ Evolves
  BY <1>1, ServerReceives, ServerFinishes, ServerExits, ServerNotifies, ServerCloses,
     ServerRemoves DEF TaskStep
<1> QED BY <1>1, <1>2 DEF ServerInv

LEMMA EmittedNumbered ==
  ASSUME ServerInv, TypeOK', NEW t \in Task, NEW kind, Emit(t, kind)
  PROVE  \A u \in Task : \/ task'[u].event = task[u].event
                         \/ Numbered(task[u].event)'
<1>1. /\ Len(log') = Len(log) + 1
      /\ log'[Len(log) + 1] = [seq |-> Len(log) + 1, kind |-> kind]
      /\ task' = [task EXCEPT ![t] =
              [pc |-> "notify", event |-> [seq |-> Len(log) + 1, kind |-> kind]]]
  BY Emitted DEF ServerInv
<1>2. \A u \in Task : u # t => task'[u] = task[u]
  BY <1>1 DEF ServerInv, TypeOK
<1>3. task'[t].event = [seq |-> Len(log) + 1, kind |-> kind]
  BY <1>1 DEF ServerInv, TypeOK
<1>4. Len(log) + 1 \in 1..Len(log')
  BY <1>1 DEF ServerInv, TypeOK
<1>5. Numbered(task[t].event)'
  BY <1>1, <1>3, <1>4 DEF Numbered
<1> QED BY <1>2, <1>5

LEMMA TaskEvents ==
  ASSUME ServerInv, TypeOK', TaskStep \/ RemoveClosedProcess
  PROVE  /\ \A u \in Task : \/ task'[u].event \in {task[u].event, NoEvent}
                            \/ Numbered(task[u].event)'
         /\ \/ wire' = wire
            \/ \E t \in Task : /\ task[t].event # NoEvent
                              /\ wire' = Append(wire, Notification(task[t].event))
         /\ request'.after = request.after
         /\ request'.st = "none" <=> request.st = "none"
         /\ UNCHANGED <<client, consumer, rpc, reader, down, inbox>>
<1> DEFINE Kept == /\ wire' = wire
                   /\ request'.after = request.after
                   /\ request'.st = "none" <=> request.st = "none"
                   /\ UNCHANGED <<client, consumer, rpc, reader, down, inbox>>
           Events == \A u \in Task : \/ task'[u].event \in {task[u].event, NoEvent}
                                     \/ Numbered(task[u].event)'
<1> USE DEF clientVars
<1>1. ASSUME NEW t \in Task, NEW pc, Goto(t, pc) PROVE Events
  BY <1>1 DEF Goto, ServerInv, TypeOK, TaskState
<1>2. ASSUME NEW s \in Stream, ReceiveChunk(s) PROVE Events /\ Kept
  BY <1>1, <1>2, EmittedNumbered DEF ReceiveChunk
<1>3. ASSUME NEW s \in Stream, FinishOutputStream(s) PROVE Events /\ Kept
  BY <1>1, <1>3 DEF FinishOutputStream
<1>4. ASSUME WatchExit PROVE Events /\ Kept
  BY <1>1, <1>4, EmittedNumbered DEF WatchExit
<1>5. ASSUME NEW t \in Task, MaybeEmitClosed(t) PROVE Events /\ Kept
  BY <1>1, <1>5, EmittedNumbered DEF MaybeEmitClosed
<1>6. ASSUME RemoveClosedProcess PROVE Events /\ Kept
  BY <1>6 DEF RemoveClosedProcess
<1>7. ASSUME NEW t \in Task, Notify(t)
      PROVE /\ Events
            /\ \/ wire' = wire
               \/ /\ task[t].event # NoEvent
                  /\ wire' = Append(wire, Notification(task[t].event))
            /\ request'.after = request.after
            /\ request'.st = "none" <=> request.st = "none"
            /\ UNCHANGED <<client, consumer, rpc, reader, down, inbox>>
  <2>1. Events
    <3> DEFINE pc == AfterNotify(task[t].event.kind)
    <3>1. task' = [task EXCEPT ![t] = [pc |-> pc, event |-> NoEvent]]
      BY <1>7 DEF Notify
    <3> HIDE DEF pc
    <3> QED BY <3>1 DEF ServerInv, TypeOK
  <2>2. /\ request'.after = request.after
        /\ request'.st = "none" <=> request.st = "none"
    <3>1. request' = [request EXCEPT !.st = IF @ = "parked" THEN "check" ELSE @]
      BY <1>7 DEF Notify
    <3> QED BY <3>1 DEF ServerInv, TypeOK, Request
  <2>3. \/ wire' = wire
        \/ /\ task[t].event # NoEvent
           /\ wire' = Append(wire, Notification(task[t].event))
    BY <1>7 DEF Notify
  <2> QED BY <1>7, <2>1, <2>2, <2>3 DEF Notify
<1> HIDE DEF Events
<1>8. CASE RemoveClosedProcess \/ WatchExit
           \/ (\E s \in Stream : ReceiveChunk(s) \/ FinishOutputStream(s))
           \/ (\E t \in Task : MaybeEmitClosed(t))
  <2>1. Events /\ Kept
    BY <1>2, <1>3, <1>4, <1>5, <1>6, <1>8
  <2> QED BY <2>1 DEF Events
<1>9. CASE \E t \in Task : Notify(t)
  BY <1>7, <1>9 DEF Events
<1> QED BY <1>8, <1>9 DEF TaskStep

IInv == ServerInv /\ TravelInv /\ Rest

LEMMA ServerKeeps ==
  ASSUME IInv, TaskStep \/ RemoveClosedProcess
  PROVE  IInv'
<1>1. ServerInv' /\ Evolves
  BY ServerGoes DEF IInv
<1> USE TaskEvents DEF IInv
<1>2. TypeOK /\ TypeOK' /\ LogInv /\ LogInv'
  BY <1>1 DEF ServerInv
<1>3. Rest'
  <2>1. Connected
    BY DEF TaskStep, RemoveClosedProcess
  <2>2. wire' = wire \/ \E e : wire' = Append(wire, Notification(e))
    BY <1>2
  <2> QED BY <1>1, <1>2, <2>1, <2>2, RestKeeps
<1>4. ASSUME NEW e, Numbered(e) PROVE Numbered(e)'
  BY <1>1, <1>2, <1>4, NumberedStays
<1>5. TravelInv'
  <2>1. ASSUME NEW t \in Task, task'[t].event # NoEvent
        PROVE  Numbered(task[t].event)'
    <3>1. CASE task'[t].event = task[t].event
      <4>1. PICK e : e = task[t].event /\ e = task'[t].event
        BY <3>1
      <4>2. Numbered(e)'
        BY <1>4, <2>1, <4>1 DEF TravelInv
      <4> QED BY <4>1, <4>2 DEF Numbered
    <3> QED BY <1>2, <2>1, <3>1
  <2>2. ASSUME NEW i \in 1..Len(wire'), wire'[i].type = "event"
        PROVE  Numbered(wire[i].event)'
    <3>1. PICK e : e = wire'[i].event
      OBVIOUS
    <3>2. Numbered(e)
      <4>1. CASE wire' = wire
        BY <2>2, <3>1, <4>1 DEF TravelInv
      <4>2. ASSUME NEW t \in Task, task[t].event # NoEvent,
                   wire' = Append(wire, Notification(task[t].event))
            PROVE  Numbered(e)
        <5>1. CASE i \in 1..Len(wire)
          BY <1>2, <2>2, <3>1, <4>2, <5>1 DEF TravelInv, TypeOK
        <5>2. CASE i \notin 1..Len(wire)
          <6>1. wire'[i] = Notification(task[t].event)
            BY <1>2, <4>2, <5>2 DEF TypeOK
          <6> QED BY <3>1, <4>2, <6>1 DEF TravelInv, Notification
        <5> QED BY <5>1, <5>2
      <4> QED BY <1>2, <4>1, <4>2
    <3> QED BY <1>4, <3>1, <3>2 DEF Numbered
  <2>3. ASSUME NEW i \in 1..Len(inbox'), inbox'[i].type = "event"
        PROVE  Numbered(inbox[i].event)'
    <3>1. PICK e : e = inbox'[i].event
      OBVIOUS
    <3>2. inbox' = inbox
      BY <1>2
    <3>3. Numbered(e)
      BY <2>3, <3>1, <3>2 DEF TravelInv
    <3> QED BY <1>4, <3>1, <3>3 DEF Numbered
  <2>4. ASSUME NEW e \in client'.pending PROVE Numbered(e)'
    <3>1. Numbered(e)
      BY <1>2, <2>4 DEF TravelInv
    <3> QED BY <1>4, <3>1
  <2> QED BY <2>1, <2>2, <2>3, <2>4 DEF TravelInv
<1> QED BY <1>1, <1>3, <1>5

-----------------------------------------------------------------------------
\* The reads, and the end of the transport.

LEMMA ServerStays ==
  ASSUME ServerInv, TypeOK', UNCHANGED <<process, task, log>>
  PROVE  ServerInv'
<1>1. LogInv'
  BY DEF ServerInv, LogInv, Has
<1>2. TaskInv'
  BY DEF ServerInv, TaskInv, Open
<1>3. RetainInv'
  BY DEF ServerInv, RetainInv
<1> QED BY <1>1, <1>2, <1>3 DEF ServerInv

LEMMA FollowersStay ==
  ASSUME Rest, UNCHANGED <<process, log, client, consumer, reader>>
  PROVE  /\ PublishedInv' /\ FailureInv' /\ TakenInv' /\ EndInv'
         /\ NoOutputSkipped' /\ RouteKeptUntilClosed'
<1> USE DEF Rest
<1>1. PublishedInv'
  <2>1. NotFailed' <=> NotFailed
    BY DEF NotFailed
  <2>2. \A f : FailedAt(f)' <=> FailedAt(f)
    BY DEF FailedAt
  <2> QED BY <2>1, <2>2 DEF PublishedInv
<1>2. FailureInv'
  BY DEF FailureInv, ReaderFails, ConsumerFails, NotFailed
<1>3. TakenInv' /\ EndInv'
  BY DEF TakenInv, EndInv
<1>4. NoOutputSkipped'
  BY DEF NoOutputSkipped, Taken, Evicted, Missed
<1>5. RouteKeptUntilClosed'
  BY DEF RouteKeptUntilClosed
<1> QED BY <1>1, <1>2, <1>3, <1>4, <1>5

LEMMA PublishedOutputs ==
  ASSUME TypeOK, LogInv, PublishedInv, NEW i \in 1..Len(client.published),
         client.published[i] # Failed
  PROVE  /\ client.published[i].seq \in 1..Len(log)
         /\ client.published[i] = log[client.published[i].seq]
         /\ client.published[i].kind = "Output" => client.published[i].seq \in Outputs(log)
<1> DEFINE e == client.published[i]
<1>1. client.last_published \in Nat /\ Len(log) \in Nat /\ client.last_published <= Len(log)
      /\ Len(client.published) \in Nat
  BY DEF TypeOK, SessionState, PublishedInv
<1>2. \E j \in 1..Len(log) : e = log[j]
  <2>1. CASE NotFailed
    BY <1>1, <2>1 DEF NotFailed
  <2>2. ASSUME NEW f \in 1..Len(client.published), FailedAt(f)
        PROVE  \E j \in 1..Len(log) : e = log[j]
    <3>1. i # f
      BY <2>2 DEF FailedAt
    <3>2. CASE i < f
      <4>1. i \in 1..(f - 1) /\ i \in 1..Len(log)
        BY <1>1, <2>2, <3>2 DEF FailedAt
      <4> QED BY <2>2, <4>1 DEF FailedAt
    <3>3. CASE f < i
      <4>1. i \in (f + 1)..Len(client.published) /\ i - 1 \in 1..Len(log)
        BY <1>1, <2>2, <3>3 DEF FailedAt
      <4> QED BY <2>2, <4>1 DEF FailedAt
    <3> QED BY <1>1, <3>1, <3>2, <3>3
  <2> QED BY <2>1, <2>2 DEF PublishedInv
<1>3. PICK j \in 1..Len(log) : e = log[j]
  BY <1>2
<1>4. \A k \in 1..Len(log) : log[k].seq = k
  BY DEF LogInv
<1>5. e.seq = j
  BY <1>3, <1>4
<1>6. j \in Outputs(log) <=> log[j].kind = "Output"
  BY <1>3, <1>4, OutputsOf, LogTyped
<1> QED BY <1>3, <1>5, <1>6

\* The response of a read holds what the cursor has not seen, and is not behind
\* the events the consumer has received.
LEMMA ReadAnswers ==
  ASSUME TypeOK, LogInv, RetainInv, PublishedInv, TakenInv
  PROVE  Answer(ReadNow(consumer.after)) /\ ReadNow(consumer.after) \in Message
<1> DEFINE after == consumer.after
           chunks == After(after)
           next == NextSeq(chunks)
           r == ReadNow(after)
<1>1. /\ after \in Nat /\ after <= Len(log) /\ Len(log) \in Nat
      /\ process.next_seq = Len(log) + 1 /\ process.closed \in BOOLEAN
  BY DEF TypeOK, ConsumerState, TakenInv, LogInv, RunningProcess
<1>2. \A seq : seq \in Outputs(log) <=> seq \in 1..Len(log) /\ log[seq].kind = "Output"
  <2>1. log \in Seq(Event) /\ \A i \in 1..Len(log) : log[i].seq = i
    BY DEF LogInv, TypeOK
  <2> QED BY <2>1, OutputsOf
<1>3. \A seq \in chunks : seq \in Outputs(log) /\ after < seq
  <2>1. ASSUME NEW seq \in chunks PROVE seq \in Outputs(log) /\ after < seq
    <3>1. PICK j \in 1..Len(process.output) : seq = process.output[j]
      BY DEF After, Elements
    <3>2. seq \in Outputs(log) /\ seq > after
      BY <3>1 DEF RetainInv, After
    <3> QED BY <1>1, <1>2, <3>2
  <2> QED BY <2>1
<1>4. next \in Nat /\ after < next /\ next <= Len(log) + 1
      /\ \A seq \in Outputs(log) : seq < next
  <2>1. CASE chunks = {}
    <3>1. next = Len(log) + 1
      BY <1>1, <2>1 DEF NextSeq
    <3> QED BY <1>1, <1>2, <3>1
  <2>2. CASE chunks # {}
    <3>1. /\ Newest(chunks) \in chunks
          /\ \A seq \in Outputs(log) : seq <= Newest(chunks)
      BY <1>1, <2>2, NewestRetained
    <3>2. next = Newest(chunks) + 1
      BY <2>2 DEF NextSeq
    <3>3. Newest(chunks) \in 1..Len(log) /\ after < Newest(chunks)
      BY <1>2, <1>3, <3>1
    <3> HIDE DEF chunks
    <3> QED BY <1>1, <1>2, <3>1, <3>2, <3>3
  <2> QED BY <2>1, <2>2
<1>5. /\ r.type = "response" /\ r.ok = TRUE /\ r.chunks = chunks /\ r.next_seq = next
      /\ r.closed = process.closed
  BY DEF ReadNow, Response
<1>6. \A seq \in Outputs(log) : after < seq => seq \in chunks \union Evicted
  BY <1>1, <1>2 DEF After, Evicted
<1>7. \A i \in 1..consumer.pos :
        client.published[i].kind = "Output" => client.published[i].seq < next
  <2> TAKE i \in 1..consumer.pos
  <2>1. i \in 1..Len(client.published)
    BY DEF TakenInv, TypeOK, ConsumerState, SessionState
  <2>2. CASE client.published[i] = Failed
    BY <2>2 DEF Failed
  <2>3. CASE client.published[i] # Failed
    <3> HIDE DEF next
    <3> QED BY <1>4, <2>1, <2>3, PublishedOutputs
  <2> QED BY <2>2, <2>3
<1>8. r \in Message
  <2>1. chunks \in SUBSET Nat
    BY <1>2, <1>3
  <2>2. r = [type |-> "response", ok |-> TRUE, chunks |-> chunks, next_seq |-> next,
             closed |-> process.closed]
    BY DEF ReadNow, Response
  <2> HIDE DEF chunks, next
  <2> QED BY <1>1, <1>4, <2>1, <2>2 DEF Message
<1> HIDE DEF r, next, chunks
<1>9. Answer(r)
  BY <1>3, <1>4, <1>5, <1>6, <1>7 DEF Answer, after
<1> QED BY <1>8, <1>9 DEF r

LEMMA ReadKeeps ==
  ASSUME IInv, ReadStep
  PROVE  IInv'
<1> USE DEF IInv
<1>1. /\ UNCHANGED <<process, task, left, log, down, rpc, inbox, reader, client, consumer>>
      /\ Connected /\ request.st # "none"
  BY DEF ReadStep, ExecRead, AwaitNotified, ReadDeadline, clientVars
<1>2. TypeOK /\ LogInv /\ TaskInv /\ RetainInv
  BY DEF ServerInv
<1>3. /\ consumer.pc = "pending" /\ request.after = consumer.after /\ Responses = {}
      /\ rpc = "run" /\ consumer.after \in Nat
  BY <1>1, <1>2 DEF Rest, CallInv, Connected, TypeOK, ConsumerState
<1>4. /\ Answer(ReadNow(consumer.after)) /\ ReadNow(consumer.after) \in Message
  BY <1>2, ReadAnswers DEF Rest
<1>5. \/ \E r \in {Error, ReadNow(consumer.after)} : Respond(r)
      \/ request' \in Request /\ request'.after = request.after /\ wire' = wire
  <2>1. CASE ExecRead
    BY <1>1, <1>2, <1>3, <2>1 DEF ExecRead, Request, TypeOK
  <2>2. CASE AwaitNotified
    BY <1>1, <1>2, <2>2 DEF AwaitNotified, Request, TypeOK
  <2>3. CASE ReadDeadline
    BY <1>1, <1>2, <2>3 DEF ReadDeadline, Request, TypeOK
  <2> QED BY <2>1, <2>2, <2>3 DEF ReadStep
<1>6. ASSUME NEW r \in {Error, ReadNow(consumer.after)}, Respond(r)
      PROVE  TypeOK' /\ TravelInv' /\ CallInv'
  <2>1. request' = NoRead /\ wire' = Append(wire, r)
    BY <1>6 DEF Respond
  <2>2. r \in Message /\ r.type = "response"
    <3>1. Error \in Message /\ Error.type = "response"
      BY DEF Error, Message
    <3>2. ReadNow(consumer.after).type = "response"
      BY DEF ReadNow, Response
    <3> QED BY <1>4, <1>6, <3>1, <3>2
  <2>3. Error.ok = FALSE
    BY DEF Error
  <2>4. TypeOK'
    <3>1. request' \in Request /\ wire' \in Seq(Message)
      BY <1>2, <2>1, <2>2 DEF NoRead, Request, TypeOK
    <3> QED BY <1>1, <1>2, <3>1 DEF TypeOK
  <2>5. /\ wire'[Len(wire) + 1] = r /\ Len(wire') = Len(wire) + 1 /\ Len(wire) \in Nat
        /\ \A i \in 1..Len(wire) : wire'[i] = wire[i]
    BY <1>2, <2>1, <2>2 DEF TypeOK
  <2>6. Responses' = {Len(wire) + 1}
    BY <1>3, <2>2, <2>5 DEF Responses
  <2>7. CallInv'
    <3>1. \A i \in Responses' : consumer'.pc = "pending" /\ \A j \in Responses' : i = j
      BY <1>1, <1>3, <2>6
    <3>2. ASSUME NEW i \in Responses' PROVE (wire[i].ok => Answer(wire[i]))'
      <4>1. PICK a : a = r
        OBVIOUS
      <4>2. a = wire'[i]
        BY <2>5, <2>6, <3>2, <4>1
      <4>3. a.ok => Answer(a)
        BY <1>4, <1>6, <2>3, <4>1
      <4>4. a.ok => Answer(a)'
        BY <1>1, <4>3 DEF Answer, Evicted
      <4> QED BY <4>2, <4>4 DEF Answer
    <3>3. request'.st = "none" /\ rpc' = "run"
      BY <1>1, <1>3, <2>1 DEF NoRead
    <3> QED BY <3>1, <3>2, <3>3 DEF CallInv
  <2>8. TravelInv'
    <3>1. ASSUME NEW i \in 1..Len(wire'), wire'[i].type = "event"
          PROVE  i \in 1..Len(wire) /\ wire'[i] = wire[i]
      BY <2>2, <2>5, <3>1
    <3>2. \A e : Numbered(e)' <=> Numbered(e)
      BY <1>1 DEF Numbered
    <3> QED BY <1>1, <3>1, <3>2 DEF TravelInv, Numbered
  <2> QED BY <2>4, <2>7, <2>8
<1>7. ASSUME request' \in Request, request'.after = request.after, wire' = wire
      PROVE  TypeOK' /\ TravelInv' /\ CallInv'
  <2>1. TypeOK'
    BY <1>1, <1>2, <1>7 DEF TypeOK
  <2>2. Responses' = Responses
    BY <1>7 DEF Responses
  <2>3. TravelInv'
    BY <1>1, <1>7 DEF TravelInv, Numbered
  <2>4. CallInv'
    BY <1>1, <1>3, <1>7, <2>2 DEF CallInv
  <2> QED BY <2>1, <2>3, <2>4
<1>8. TypeOK' /\ TravelInv' /\ CallInv'
  BY <1>5, <1>6, <1>7
<1>9. ServerInv'
  BY <1>1, <1>8, ServerStays
<1> QED BY <1>1, <1>8, <1>9, FollowersStay DEF Rest

LEMMA TransportKeeps ==
  ASSUME IInv, TransportCloses
  PROVE  IInv'
<1> USE DEF IInv
<1>1. /\ UNCHANGED <<process, task, left, log, request, rpc, inbox, reader, client, consumer>>
      /\ ~down /\ down'
  BY DEF TransportCloses, serverVars, clientVars
<1>2. PICK n \in 0..Len(wire) : wire' = SubSeq(wire, 1, n)
  BY DEF TransportCloses
<1>3. wire \in Seq(Message) /\ TypeOK
  BY DEF ServerInv, TypeOK
<1>4. /\ wire' \in Seq(Message) /\ Len(wire') = n
      /\ \A i \in 1..n : i \in 1..Len(wire) /\ wire'[i] = wire[i]
  BY <1>2, <1>3
<1>5. TypeOK'
  BY <1>1, <1>3, <1>4 DEF TypeOK, TransportCloses
<1>6. \A i \in Responses' : i \in Responses /\ wire'[i] = wire[i]
  BY <1>4 DEF Responses
<1>7. CallInv'
  <2>1. ASSUME NEW i \in Responses' PROVE (wire[i].ok => Answer(wire[i]))'
    <3>1. PICK r : r = wire[i] /\ r = wire'[i] /\ i \in Responses
      BY <1>6, <2>1
    <3>2. r.ok => Answer(r)
      BY <3>1 DEF Rest, CallInv
    <3>3. r.ok => Answer(r)'
      BY <1>1, <3>2 DEF Answer, Evicted
    <3> QED BY <3>1, <3>3 DEF Answer
  <2>2. rpc' # "run" => wire' = <<>>
    BY <1>1, <1>3, <1>4 DEF Rest, CallInv
  <2>3. \A i \in Responses' : consumer'.pc = "pending" /\ \A j \in Responses' : i = j
    BY <1>1, <1>6 DEF Rest, CallInv
  <2> QED BY <1>1, <2>1, <2>2, <2>3 DEF CallInv, Connected
<1>8. TravelInv'
  BY <1>1, <1>4 DEF TravelInv, Numbered
<1>9. ServerInv'
  BY <1>1, <1>5, ServerStays
<1> QED BY <1>1, <1>7, <1>8, <1>9, FollowersStay DEF Rest

-----------------------------------------------------------------------------
\* The client: what is published only grows.

Grows ==
  /\ Len(client.published) <= Len(client'.published)
  /\ \A i \in 1..Len(client.published) : client'.published[i] = client.published[i]

LEMMA OutputsOfPrefix ==
  ASSUME NEW s \in Seq(Event), NEW n \in 0..Len(s)
  PROVE  \A seq : seq \in Outputs(SubSeq(s, 1, n)) <=>
           \E i \in 1..n : s[i].kind = "Output" /\ s[i].seq = seq
<1> DEFINE p == SubSeq(s, 1, n)
<1>1. Len(p) = n /\ \A i \in 1..n : p[i] = s[i]
  OBVIOUS
<1>2. \A seq : seq \in Outputs(p) <=> \E i \in 1..n : p[i].kind = "Output" /\ p[i].seq = seq
  <2> HIDE DEF p
  <2> QED BY <1>1 DEF Outputs, Elements
<1>3. \A seq : seq \in Outputs(p) <=> \E i \in 1..n : s[i].kind = "Output" /\ s[i].seq = seq
  <2> HIDE DEF p
  <2> QED BY <1>1, <1>2
<1> QED BY <1>3

LEMMA MissedEvents ==
  ASSUME TypeOK, TakenInv
  PROVE  /\ consumer.start \in 0..Len(client.published)
         /\ \A seq : seq \in Missed <=>
              \E i \in 1..consumer.start : /\ client.published[i].kind = "Output"
                                           /\ client.published[i].seq = seq
<1>1. /\ client.published \in Seq(Event)
      /\ consumer.start \in 0..Len(client.published)
  BY DEF TypeOK, SessionState, ConsumerState, TakenInv
<1> QED BY <1>1, OutputsOfPrefix DEF Missed

LEMMA MissedStays ==
  ASSUME TypeOK, TypeOK', TakenInv, Grows, consumer'.start = consumer.start
  PROVE  Missed' = Missed
<1>1. /\ client'.published \in Seq(Event)
      /\ consumer.start \in 0..Len(client.published) /\ consumer.start \in 0..Len(client'.published)
  BY MissedEvents DEF TypeOK, SessionState, Grows
<1>2. \A seq : seq \in Missed' <=>
              \E i \in 1..consumer.start : /\ client'.published[i].kind = "Output"
                                           /\ client'.published[i].seq = seq
  BY <1>1, OutputsOfPrefix DEF Missed
<1>3. \A seq : seq \in Missed' <=> seq \in Missed
  BY <1>1, <1>2, MissedEvents DEF Grows
<1> QED BY <1>3

\* A step that leaves what the consumer took as it is.
LEMMA TakenStays ==
  ASSUME TypeOK, TypeOK', TakenInv, EndInv, NoOutputSkipped, UNCHANGED <<process, log>>,
         Grows, consumer'.after = consumer.after, consumer'.got = consumer.got,
         consumer'.start = consumer.start, consumer'.kind = consumer.kind,
         consumer'.pos = consumer.pos \/ /\ consumer'.pc # "wait"
                                         /\ consumer.pos <= consumer'.pos
                                         /\ consumer'.pos <= Len(client'.published),
         consumer'.pc = consumer.pc \/ consumer'.pc \notin {"subscribe", "wait"},
         consumer'.end \in {consumer.end, "failed"}
  PROVE  TakenInv' /\ EndInv' /\ NoOutputSkipped'
<1>1. /\ consumer.start \in Nat /\ consumer.pos \in Nat /\ consumer'.pos \in Nat
      /\ Len(client.published) \in Nat /\ Len(client'.published) \in Nat
  BY DEF TypeOK, ConsumerState, SessionState
<1>2. TakenInv'
  <2>1. consumer'.start <= consumer'.pos /\ consumer'.pos <= Len(client'.published)
    BY <1>1 DEF TakenInv, Grows
  <2>2. consumer'.pc = "subscribe" => consumer'.after = 0
    BY DEF TakenInv
  <2>3. ASSUME consumer'.kind = "events", consumer'.pc = "wait",
               NEW i \in (consumer'.start + 1)..consumer'.pos,
               client'.published[i].kind = "Output"
        PROVE  client'.published[i].seq <= consumer'.after
    <3>1. i \in 1..Len(client.published) /\ i \in (consumer.start + 1)..consumer.pos
      BY <1>1, <2>3 DEF TakenInv
    <3>2. client'.published[i] = client.published[i]
      BY <3>1 DEF Grows
    <3> QED BY <2>3, <3>1, <3>2 DEF TakenInv
  <2>4. /\ consumer'.after <= Len(log')
        /\ \A i \in 1..Len(consumer'.got) : \A seq \in consumer'.got[i] : seq <= consumer'.after
    BY DEF TakenInv
  <2> QED BY <2>1, <2>2, <2>3, <2>4 DEF TakenInv
<1>3. EndInv'
  BY DEF EndInv
<1>4. NoOutputSkipped'
  <2>1. Missed' = Missed
    BY MissedStays
  <2> QED BY <2>1 DEF NoOutputSkipped, Taken, Evicted
<1> QED BY <1>2, <1>3, <1>4

LEMMA AnswersStay ==
  ASSUME TypeOK, TakenInv, UNCHANGED <<process, log>>, Grows,
         consumer'.after = consumer.after, consumer'.pos = consumer.pos,
         NEW r, Answer(r)
  PROVE  Answer(r)'
<1>1. \A i \in 1..consumer.pos : i \in 1..Len(client.published)
  BY DEF TypeOK, TakenInv, ConsumerState, SessionState
<1>2. \A i \in 1..consumer.pos : client'.published[i] = client.published[i]
  BY <1>1 DEF Grows
<1> QED BY <1>2 DEF Answer, Evicted

LEMMA CallsStay ==
  ASSUME TypeOK, TakenInv, CallInv, UNCHANGED <<process, log, request, wire, down, rpc>>, Grows,
         consumer'.after = consumer.after, consumer'.pos = consumer.pos,
         consumer'.pc = consumer.pc
  PROVE  CallInv'
<1>1. Responses' = Responses
  BY DEF Responses
<1>2. ASSUME NEW i \in Responses PROVE (wire[i].ok => Answer(wire[i]))'
  <2>1. PICK r : r = wire[i] /\ r = wire'[i]
    OBVIOUS
  <2>2. r.ok => Answer(r)
    BY <2>1 DEF CallInv
  <2>3. r.ok => Answer(r)'
    BY <2>2, AnswersStay
  <2> QED BY <2>1, <2>3 DEF Answer
<1> QED BY <1>1, <1>2 DEF CallInv, Connected

\* Without a call under way the consumer goes where it likes.
LEMMA NoCall ==
  ASSUME CallInv, consumer.pc # "pending", UNCHANGED <<request, wire, down, rpc>>
  PROVE  CallInv'
<1>1. Responses = {} /\ (request.st = "none" \/ ~Connected)
  BY DEF CallInv
<1>2. Responses' = {}
  BY <1>1 DEF Responses
<1> QED BY <1>1, <1>2 DEF CallInv, Connected

\* One failure at most, and whoever appends it was the only one that may.
LEMMA AppendsFailure ==
  ASSUME TypeOK, PublishedInv, NotFailed, UNCHANGED log,
         client'.last_published = client.last_published,
         client'.published = Append(client.published, Failed)
  PROVE  PublishedInv' /\ Grows
<1>1. client.published \in Seq(Event) /\ Len(client.published) \in Nat
  BY DEF TypeOK, SessionState
<1>0. PICK f : f = Len(client.published) + 1
  OBVIOUS
<1>2. /\ Len(client'.published) = f /\ client'.published[f] = Failed
      /\ \A i \in 1..Len(client.published) : client'.published[i] = client.published[i]
  BY <1>1, <1>0
<1>3. f \in 1..Len(client'.published) /\ Grows
  BY <1>1, <1>0, <1>2 DEF Grows
<1>4. FailedAt(f)'
  <2>1. \A i \in (f + 1)..Len(client'.published) : FALSE
    BY <1>1, <1>0, <1>2
  <2>2. \A i \in 1..(f - 1) : client'.published[i] = log'[i]
    BY <1>1, <1>0, <1>2 DEF NotFailed
  <2>3. Len(client'.published) = client'.last_published + 1
    BY <1>0, <1>2 DEF NotFailed
  <2> QED BY <1>2, <2>1, <2>2, <2>3 DEF FailedAt
<1> QED BY <1>3, <1>4 DEF PublishedInv

LEMMA PublishedStays ==
  ASSUME TypeOK, PublishedInv, UNCHANGED log,
         client'.last_published = client.last_published,
         client'.published = client.published
  PROVE  PublishedInv' /\ Grows /\ (NotFailed <=> NotFailed')
<1>1. Grows
  BY DEF Grows, TypeOK, SessionState
<1>2. NotFailed' <=> NotFailed
  BY DEF NotFailed
<1>3. \A f : FailedAt(f)' <=> FailedAt(f)
  BY DEF FailedAt
<1> QED BY <1>1, <1>2, <1>3 DEF PublishedInv

-----------------------------------------------------------------------------
\* What the consumer takes.

LEMMA Taking ==
  ASSUME NEW got \in Seq(SUBSET Nat), NEW chunks \in SUBSET Nat
  PROVE  /\ Take(got, chunks) \in Seq(SUBSET Nat)
         /\ UNION Elements(Take(got, chunks)) = (UNION Elements(got)) \union chunks
         /\ Len(got) \in Nat
         /\ \A i \in 1..Len(Take(got, chunks)) :
              \/ i \in 1..Len(got) /\ Take(got, chunks)[i] = got[i]
              \/ i = Len(got) + 1 /\ Take(got, chunks)[i] = chunks
<1>1. CASE chunks = {}
  <2>1. Take(got, chunks) = got
    BY <1>1 DEF Take
  <2> QED BY <1>1, <2>1
<1>2. CASE chunks # {}
  <2> DEFINE more == Append(got, chunks)
  <2>1. Take(got, chunks) = more
    BY <1>2 DEF Take
  <2>2. /\ more \in Seq(SUBSET Nat) /\ Len(more) = Len(got) + 1 /\ Len(got) \in Nat
        /\ more[Len(got) + 1] = chunks /\ \A i \in 1..Len(got) : more[i] = got[i]
    OBVIOUS
  <2> HIDE DEF more
  <2>3. Elements(more) = Elements(got) \union {chunks}
    <3>1. \A x \in Elements(more) : x \in Elements(got) \union {chunks}
      BY <2>2 DEF Elements
    <3>2. \A x \in Elements(got) : x \in Elements(more)
      BY <2>2 DEF Elements
    <3>3. chunks \in Elements(more)
      <4>1. Len(got) + 1 \in 1..Len(more)
        BY <2>2
      <4> QED BY <2>2, <4>1 DEF Elements
    <3> QED BY <3>1, <3>2, <3>3
  <2>4. UNION Elements(more) = (UNION Elements(got)) \union chunks
    BY <2>3
  <2>5. \A i \in 1..Len(more) : \/ i \in 1..Len(got) /\ more[i] = got[i]
                                \/ i = Len(got) + 1 /\ more[i] = chunks
    BY <2>2
  <2> QED BY <2>1, <2>2, <2>4, <2>5
<1> QED BY <1>1, <1>2

\* Chunks past the cursor, taken with all between it and the new cursor.
LEMMA TakesMore ==
  ASSUME TypeOK, TypeOK', TakenInv, NoOutputSkipped, NEW chunks \in SUBSET Nat,
         UNCHANGED <<process, log, client>>,
         consumer'.got = Take(consumer.got, chunks), consumer'.start = consumer.start,
         consumer.after <= consumer'.after,
         \A seq \in chunks : consumer.after < seq /\ seq <= consumer'.after,
         \A seq \in Outputs(log) :
           consumer.after < seq /\ seq <= consumer'.after
             => seq \in chunks \union Evicted \union Missed
  PROVE  /\ NoOutputSkipped'
         /\ \A i \in 1..Len(consumer'.got) : \A seq \in consumer'.got[i] : seq <= consumer'.after
<1> DEFINE got == consumer.got
           after == consumer.after
<1>1. /\ got \in Seq(SUBSET Nat) /\ after \in Nat /\ consumer'.after \in Nat
      /\ consumer'.got \in Seq(SUBSET Nat)
  BY DEF TypeOK, ConsumerState
<1>2. /\ UNION Elements(consumer'.got) = (UNION Elements(got)) \union chunks
      /\ Len(got) \in Nat
      /\ \A i \in 1..Len(consumer'.got) :
              \/ i \in 1..Len(got) /\ consumer'.got[i] = got[i]
              \/ i = Len(got) + 1 /\ consumer'.got[i] = chunks
  BY <1>1, Taking
<1>3. Taken' = Taken \union chunks /\ Evicted' = Evicted
  <2>1. Taken' = Taken \union chunks
    <3>1. UNION Elements(consumer'.got) = (UNION Elements(consumer.got)) \union chunks
      BY <1>2
    <3> QED BY <3>1 DEF Taken
  <2>2. Evicted' = Evicted
    BY DEF Evicted
  <2> QED BY <2>1, <2>2
<1>4. Missed' = Missed
  BY DEF Missed
<1>5. \A i \in 1..Len(got) : \A seq \in got[i] : seq \in Nat /\ seq <= after
  <2>1. \A i \in 1..Len(got) : got[i] \in SUBSET Nat
    <3> HIDE DEF got
    <3> QED BY <1>1
  <2>2. \A i \in 1..Len(got) : \A seq \in got[i] : seq <= after
    BY DEF TakenInv
  <2> HIDE DEF got, after
  <2> QED BY <2>1, <2>2
<1>6. \A i \in 1..Len(consumer'.got) : \A seq \in consumer'.got[i] : seq \in Nat
  BY <1>1
<1>7. ASSUME NEW i \in 1..Len(consumer'.got), NEW seq \in consumer'.got[i]
      PROVE  seq <= consumer'.after
  BY <1>1, <1>2, <1>5, <1>7
<1>8. ASSUME NEW i \in 1..Len(consumer'.got), NEW j \in 1..Len(consumer'.got), i < j,
             NEW earlier \in consumer'.got[i], NEW later \in consumer'.got[j]
      PROVE  earlier < later
  <2>1. i \in 1..Len(got) /\ earlier \in got[i]
    BY <1>2, <1>8
  <2>2. CASE j \in 1..Len(got)
    <3>1. consumer'.got[j] = got[j]
      BY <1>2, <2>2
    <3> QED BY <1>8, <2>1, <2>2, <3>1 DEF NoOutputSkipped
  <2>3. CASE j \notin 1..Len(got)
    <3>1. later \in chunks
      BY <1>2, <1>8, <2>3
    <3> QED BY <1>1, <1>5, <2>1, <3>1
  <2> QED BY <2>2, <2>3
<1>9. ASSUME NEW seq \in Outputs(log), seq <= consumer'.after
      PROVE  seq \in Taken' \union Evicted' \union Missed'
  <2>1. CASE seq <= after
    BY <1>3, <1>4, <2>1 DEF NoOutputSkipped
  <2>2. CASE after < seq
    BY <1>3, <1>4, <1>9, <2>2
  <2>3. seq \in Nat
    BY OutputsNat, LogTyped
  <2> QED BY <1>1, <2>1, <2>2, <2>3
<1> QED BY <1>7, <1>8, <1>9 DEF NoOutputSkipped

-----------------------------------------------------------------------------
\* The reader of the transport.

LEMMA AnswerType ==
  ASSUME NEW c \in ConsumerState, NEW got \in Seq(SUBSET Nat), NEW after \in Nat,
         NEW pc \in {"done", "wait"}, NEW end \in {"none", "closed"}
  PROVE  [c EXCEPT !.got = got, !.after = after, !.pc = pc, !.end = end] \in ConsumerState
BY DEF ConsumerState

LEMMA ConsumerPc ==
  ASSUME NEW c \in ConsumerState,
         NEW pc \in {"subscribe", "read", "call", "pending", "lost", "fail", "wait", "done"},
         NEW end \in {"none", "closed", "failed"}
  PROVE  /\ [c EXCEPT !.pc = pc] \in ConsumerState
         /\ [c EXCEPT !.pc = pc, !.end = end] \in ConsumerState
BY DEF ConsumerState

\* The answer of a read, taken.
LEMMA AnswerTaken ==
  ASSUME TypeOK, TakenInv, EndInv, NoOutputSkipped, NEW r \in Message, r.ok, Answer(r),
         r.type = "response",
         consumer' = ReceiveAnswer(r), UNCHANGED <<process, log, client>>,
         consumer' \in ConsumerState => TypeOK'
  PROVE  /\ consumer' \in ConsumerState
         /\ TakenInv' /\ EndInv' /\ NoOutputSkipped'
         /\ consumer'.pc \in {"done", "wait"}
<1> DEFINE after == r.next_seq - 1
           got == Take(consumer.got, r.chunks)
           pc == IF r.closed THEN "done" ELSE "wait"
           end == IF r.closed THEN "closed" ELSE "none"
<1>1. /\ consumer \in ConsumerState /\ consumer.after \in Nat /\ consumer.got \in Seq(SUBSET Nat)
      /\ r.next_seq \in Nat /\ consumer.after < r.next_seq /\ Len(log) \in Nat
      /\ r.next_seq <= Len(log) + 1
  <2>1. consumer \in ConsumerState /\ Len(log) \in Nat
    BY DEF TypeOK
  <2>2. consumer.after \in Nat /\ consumer.got \in Seq(SUBSET Nat)
    BY <2>1 DEF ConsumerState
  <2>3. r.next_seq \in Nat /\ consumer.after < r.next_seq /\ r.next_seq <= Len(log) + 1
    BY DEF Answer
  <2> QED BY <2>1, <2>2, <2>3
<1>2. r.chunks \in SUBSET Nat
  <2>1. r \in [type: {"response"}, ok: {TRUE}, chunks: SUBSET Nat, next_seq: Nat, closed: BOOLEAN]
    <3>1. r # Error
      BY DEF Error
    <3> QED BY <3>1 DEF Message
  <2> QED BY <2>1
<1>3. {seq \in r.chunks : consumer.kind = "wake" \/ seq > consumer.after} = r.chunks
  BY <1>1, <1>2 DEF Answer
<1>4. MaxOf(consumer.after, r.next_seq - 1) = r.next_seq - 1
  BY <1>1 DEF MaxOf
<1>5. consumer' = [consumer EXCEPT !.got = got, !.after = after, !.pc = pc, !.end = end]
  BY <1>3, <1>4 DEF ReceiveAnswer
<1>6. after \in Nat /\ consumer.after <= after /\ got \in Seq(SUBSET Nat)
      /\ pc \in {"done", "wait"} /\ end \in {"none", "closed"}
      /\ (end = "closed" => r.closed) /\ after < r.next_seq /\ after <= Len(log)
  BY <1>1, <1>2, Taking
<1> HIDE DEF after, got, pc, end
<1>7. consumer' \in ConsumerState
  <2>1. [consumer EXCEPT !.got = got, !.after = after, !.pc = pc, !.end = end] \in ConsumerState
    BY <1>1, <1>6, AnswerType
  <2> QED BY <1>5, <2>1
<1>8. /\ consumer'.got = got /\ consumer'.after = after /\ consumer'.pc = pc
      /\ consumer'.end = end /\ consumer'.start = consumer.start /\ consumer'.pos = consumer.pos
      /\ consumer'.kind = consumer.kind
  BY <1>1, <1>5 DEF ConsumerState
<1>9. \A seq \in Outputs(log) : seq \in Nat /\ (seq < r.next_seq => seq <= after)
  <2>1. Outputs(log) \subseteq Nat
    BY OutputsNat, LogTyped
  <2> QED BY <1>1, <2>1 DEF after
<1>10. \A seq \in Outputs(log) : seq <= after => seq < r.next_seq
  BY <1>1, <1>9 DEF after
<1>11. /\ NoOutputSkipped'
       /\ \A i \in 1..Len(consumer'.got) : \A seq \in consumer'.got[i] : seq <= consumer'.after
  <2>1. consumer'.got = Take(consumer.got, r.chunks)
    BY <1>8 DEF got
  <2>2. \A seq \in r.chunks : consumer.after < seq /\ seq <= consumer'.after
    BY <1>8, <1>9 DEF Answer
  <2>3. \A seq \in Outputs(log) : consumer.after < seq /\ seq <= consumer'.after
          => seq \in r.chunks \union Evicted \union Missed
    BY <1>8, <1>10 DEF Answer
  <2>4. TypeOK' /\ consumer.after <= consumer'.after /\ consumer'.start = consumer.start
    BY <1>6, <1>7, <1>8
  <2> QED BY <1>2, <2>1, <2>2, <2>3, <2>4, TakesMore
<1>12. TakenInv'
  <2>1. \A i \in (consumer.start + 1)..consumer.pos :
          client.published[i].kind = "Output" => client.published[i].seq <= after
    <3> TAKE i \in (consumer.start + 1)..consumer.pos
    <3>1. i \in 1..consumer.pos /\ i \in 1..Len(client.published)
      BY DEF TypeOK, ConsumerState, SessionState, TakenInv
    <3>2. client.published[i].seq \in Nat
      <4>1. client.published \in Seq(Event)
        BY DEF TypeOK, SessionState
      <4>2. client.published[i] \in Event
        BY <3>1, <4>1
      <4> QED BY <4>2 DEF Event
    <3>3. HAVE client.published[i].kind = "Output"
    <3>4. client.published[i].seq < r.next_seq
      BY <3>1, <3>3 DEF Answer
    <3> QED BY <1>1, <3>2, <3>4 DEF after
  <2>2. consumer'.pc # "subscribe"
    BY <1>6, <1>8
  <2> QED BY <1>6, <1>8, <1>11, <2>1, <2>2 DEF TakenInv
<1>13. EndInv'
  BY <1>6, <1>8, <1>9 DEF EndInv, Answer
<1> QED BY <1>6, <1>7, <1>8, <1>11, <1>12, <1>13

\* The sessions of the client and its route, when only the consumer moves on.
LEMMA SessionStays ==
  ASSUME TypeOK, PublishedInv, FailureInv, RouteKeptUntilClosed,
         UNCHANGED <<log, client, reader>>,
         consumer.pc # "done" \/ consumer'.pc = "done", consumer'.pc # "fail"
  PROVE  PublishedInv' /\ FailureInv' /\ RouteKeptUntilClosed'
<1>1. PublishedInv' /\ (NotFailed <=> NotFailed')
  BY PublishedStays
<1>2. FailureInv'
  BY <1>1 DEF FailureInv, ReaderFails, ConsumerFails
<1>3. RouteKeptUntilClosed'
  BY DEF RouteKeptUntilClosed
<1> QED BY <1>1, <1>2, <1>3

LEMMA MessageKind ==
  ASSUME NEW m \in Message
  PROVE  (m.type = "event" /\ m \in Queued) \/ m.type = "response"
<1>1. CASE m \in [type: {"event"}, event: Event]
  BY <1>1 DEF Queued
<1>2. CASE m = Error
  BY <1>2 DEF Error
<1>3. CASE m \in [type: {"response"}, ok: {TRUE}, chunks: SUBSET Nat, next_seq: Nat,
                  closed: BOOLEAN]
  BY <1>3
<1> QED BY <1>1, <1>2, <1>3 DEF Message

\* What is queued for the notification reader, if it still reads.
LEMMA Queues ==
  ASSUME TypeOK, NEW m \in Queued, Queue(m)
  PROVE  /\ inbox' \in Seq(Queued)
         /\ \A i \in 1..Len(inbox') :
              inbox'[i] = m \/ (i \in 1..Len(inbox) /\ inbox'[i] = inbox[i])
         /\ reader = "run" =>
              /\ Len(inbox) + 1 \in 1..Len(inbox') /\ inbox'[Len(inbox) + 1] = m
              /\ \A i \in 1..Len(inbox) : i \in 1..Len(inbox') /\ inbox'[i] = inbox[i]
<1>1. inbox \in Seq(Queued) /\ Len(inbox) \in Nat
  BY DEF TypeOK
<1>2. CASE reader = "run"
  <2>1. /\ inbox' \in Seq(Queued) /\ Len(inbox') = Len(inbox) + 1
        /\ inbox'[Len(inbox) + 1] = m /\ \A i \in 1..Len(inbox) : inbox'[i] = inbox[i]
    BY <1>1, <1>2 DEF Queue
  <2> QED BY <1>1, <2>1
<1>3. CASE reader # "run"
  BY <1>1, <1>3 DEF Queue
<1> QED BY <1>2, <1>3

LEMMA ReadMessageKeeps ==
  ASSUME IInv, ReadMessage
  PROVE  IInv'
<1> USE DEF IInv, Rest
<1> DEFINE m == Head(wire)
<1>1. /\ UNCHANGED <<process, task, left, log, request, down, rpc, reader, client>>
      /\ rpc = "run" /\ wire' = Tail(wire) /\ wire # <<>>
  BY DEF ReadMessage, serverVars
<1>2. TypeOK /\ LogInv
  BY DEF ServerInv
<1>3. /\ wire \in Seq(Message) /\ Len(wire) \in Nat \ {0} /\ m = wire[1] /\ m \in Message
      /\ Len(wire') = Len(wire) - 1 /\ wire' \in Seq(Message)
      /\ \A i \in 1..Len(wire') : i + 1 \in 1..Len(wire) /\ wire'[i] = wire[i + 1]
  BY <1>1, <1>2 DEF TypeOK
<1>4. \A i \in Responses' : i + 1 \in Responses /\ wire'[i] = wire[i + 1]
  BY <1>3 DEF Responses
<1>5. ASSUME consumer' \in ConsumerState, inbox' \in Seq(Queued) PROVE TypeOK'
  BY <1>1, <1>2, <1>3, <1>5 DEF TypeOK
<1>6. CASE m.type = "event"
  <2>1. Queue(m) /\ consumer' = consumer
    BY <1>6 DEF ReadMessage
  <2>2. m \in Queued
    <3> HIDE DEF m
    <3> QED BY <1>3, <1>6, MessageKind
  <2>3. /\ inbox' \in Seq(Queued)
        /\ \A i \in 1..Len(inbox') :
             inbox'[i] = m \/ (i \in 1..Len(inbox) /\ inbox'[i] = inbox[i])
    <3> HIDE DEF m
    <3> QED BY <1>2, <2>1, <2>2, Queues
  <2>4. TypeOK'
    BY <1>2, <1>5, <2>1, <2>3 DEF TypeOK
  <2>5. TravelInv'
    <3>1. \A i \in 1..Len(inbox') :
            inbox'[i] = wire[1] \/ (i \in 1..Len(inbox) /\ inbox'[i] = inbox[i])
      BY <1>3, <2>3
    <3>2. \A e : Numbered(e)' <=> Numbered(e)
      BY <1>1 DEF Numbered
    <3>3. ASSUME NEW i \in 1..Len(inbox'), inbox'[i].type = "event"
          PROVE  Numbered(inbox'[i].event)
      <4>1. CASE i \in 1..Len(inbox) /\ inbox'[i] = inbox[i]
        BY <3>3, <4>1 DEF TravelInv
      <4>2. CASE inbox'[i] = wire[1]
        BY <1>3, <3>3, <4>2 DEF TravelInv
      <4> QED BY <3>1, <4>1, <4>2
    <3>4. ASSUME NEW i \in 1..Len(wire'), wire'[i].type = "event"
          PROVE  Numbered(wire'[i].event)
      BY <1>3, <3>4 DEF TravelInv
    <3> QED BY <1>1, <3>2, <3>3, <3>4 DEF TravelInv, Numbered
  <2>6. CallInv'
    <3>1. ASSUME NEW i \in Responses' PROVE (wire[i].ok => Answer(wire[i]))'
      <4>1. PICK r : r = wire[i + 1] /\ r = wire'[i] /\ i + 1 \in Responses
        BY <1>4, <3>1
      <4>2. r.ok => Answer(r)
        BY <4>1 DEF CallInv
      <4>3. r.ok => Answer(r)'
        BY <1>1, <2>1, <4>2 DEF Answer, Evicted
      <4> QED BY <4>1, <4>3 DEF Answer
    <3>2. \A i, j \in Responses' : i = j
      <4>1. \A i \in Responses' : i \in Nat
        BY <1>3 DEF Responses
      <4>2. \A i, j \in Responses' : i + 1 = j + 1
        BY <1>4 DEF CallInv
      <4> QED BY <4>1, <4>2
    <3>3. \A i \in Responses' : consumer'.pc = "pending"
      BY <1>4, <2>1 DEF CallInv
    <3>4. request'.st # "none" /\ Connected' =>
            consumer'.pc = "pending" /\ request'.after = consumer'.after /\ Responses' = {}
      BY <1>1, <1>4, <2>1 DEF CallInv, Connected
    <3>5. rpc' = "run"
      BY <1>1
    <3> QED BY <3>1, <3>2, <3>3, <3>4, <3>5 DEF CallInv
  <2>7. ServerInv'
    BY <1>1, <2>4, ServerStays
  <2> QED BY <1>1, <2>1, <2>5, <2>6, <2>7, FollowersStay
<1>7. CASE m.type # "event"
  <2>1. consumer' = ReceiveAnswer(m) /\ inbox' = inbox
    BY <1>7 DEF ReadMessage
  <2>2. m.type = "response" /\ 1 \in Responses
    <3>1. m.type = "response"
      <4> HIDE DEF m
      <4> QED BY <1>3, <1>7, MessageKind
    <3> QED BY <1>3, <3>1 DEF Responses
  <2>3. /\ consumer.pc = "pending" /\ Responses = {1} /\ (m.ok => Answer(m))
        /\ request.st = "none" \/ ~Connected
    BY <1>3, <2>2 DEF CallInv
  <2>4. Responses' = {}
    <3>1. \A i \in Responses' : i \in Nat /\ i >= 1
      BY <1>3 DEF Responses
    <3> QED BY <1>4, <2>3, <3>1
  <2>5. CallInv'
    BY <1>1, <2>3, <2>4 DEF CallInv, Connected
  <2>6. inbox \in Seq(Queued) /\ consumer \in ConsumerState
    BY <1>2 DEF TypeOK
  <2>7. /\ consumer' \in ConsumerState /\ consumer'.pc \in {"done", "wait"}
        /\ TakenInv' /\ EndInv' /\ NoOutputSkipped'
    <3>1. CASE m.ok
      <4>1. consumer' \in ConsumerState => TypeOK'
        BY <1>5, <2>1, <2>6
      <4> HIDE DEF m
      <4> QED BY <1>1, <1>2, <1>3, <2>1, <2>2, <2>3, <3>1, <4>1, AnswerTaken
    <3>2. CASE ~m.ok
      <4>1. consumer' = [consumer EXCEPT !.pc = "done", !.end = "failed"]
        BY <2>1, <3>2 DEF ReceiveAnswer
      <4>2. consumer' \in ConsumerState
        BY <2>6, <4>1, ConsumerPc
      <4>3. /\ consumer'.pc = "done" /\ consumer'.end = "failed"
            /\ consumer'.after = consumer.after /\ consumer'.got = consumer.got
            /\ consumer'.start = consumer.start /\ consumer'.kind = consumer.kind
            /\ consumer'.pos = consumer.pos
        BY <2>6, <4>1 DEF ConsumerState
      <4>4. TypeOK' /\ Grows
        BY <1>1, <1>2, <1>5, <2>1, <2>6, <4>2, PublishedStays
      <4> QED BY <1>1, <1>2, <4>2, <4>3, <4>4, TakenStays
    <3> QED BY <3>1, <3>2
  <2>8. TypeOK'
    BY <1>5, <2>1, <2>6, <2>7
  <2>9. TravelInv'
    <3>1. \A e : Numbered(e)' <=> Numbered(e)
      BY <1>1 DEF Numbered
    <3>2. ASSUME NEW i \in 1..Len(wire'), wire'[i].type = "event"
          PROVE  Numbered(wire'[i].event)
      BY <1>3, <3>2 DEF TravelInv
    <3> QED BY <1>1, <2>1, <3>1, <3>2 DEF TravelInv, Numbered
  <2>10. PublishedInv' /\ FailureInv' /\ RouteKeptUntilClosed'
    BY <1>1, <1>2, <2>3, <2>7, SessionStays
  <2>11. ServerInv'
    BY <1>1, <2>8, ServerStays
  <2> QED BY <2>5, <2>7, <2>9, <2>10, <2>11
<1> QED BY <1>6, <1>7

\* The end of the transport and a message the reader does not accept.
LEMMA ReadEndKeeps ==
  ASSUME IInv, ReadEnd \/ ReadBreaks
  PROVE  IInv'
<1> USE DEF IInv, Rest
<1>1. /\ UNCHANGED <<process, task, left, log, request, down, reader, client, consumer>>
      /\ wire' = <<>> /\ Queue(Disconnected)
      /\ (rpc' = "drain" /\ down) \/ rpc' = "broken"
  BY DEF ReadEnd, ReadBreaks, serverVars
<1>2. TypeOK /\ Disconnected \in Queued
  BY DEF ServerInv, Queued
<1>3. /\ inbox' \in Seq(Queued)
      /\ \A i \in 1..Len(inbox') :
           inbox'[i] = Disconnected \/ (i \in 1..Len(inbox) /\ inbox'[i] = inbox[i])
  BY <1>1, <1>2, Queues
<1>4. TypeOK'
  BY <1>1, <1>2, <1>3 DEF TypeOK
<1>5. TravelInv'
  <2>1. ASSUME NEW i \in 1..Len(inbox'), inbox'[i].type = "event"
        PROVE  i \in 1..Len(inbox) /\ inbox'[i] = inbox[i]
    BY <1>3, <2>1 DEF Disconnected
  <2> QED BY <1>1, <2>1 DEF TravelInv, Numbered
<1>6. CallInv'
  <2>1. Responses' = {}
    BY <1>1 DEF Responses
  <2> QED BY <1>1, <2>1 DEF CallInv, Connected
<1>7. ServerInv'
  BY <1>1, <1>4, ServerStays
<1> QED BY <1>1, <1>5, <1>6, <1>7, FollowersStay

LEMMA DrainKeeps ==
  ASSUME IInv, DrainPending
  PROVE  IInv'
<1> USE DEF IInv, Rest
<1> DEFINE pc == IF consumer.pc = "pending" THEN "lost" ELSE consumer.pc
<1>1. /\ UNCHANGED <<process, task, left, log, request, wire, down, inbox, reader, client>>
      /\ (rpc = "drain" /\ rpc' = "done") \/ (rpc = "broken" /\ rpc' = "gone")
      /\ consumer' = [consumer EXCEPT !.pc = pc]
  BY DEF DrainPending, serverVars
<1>2. TypeOK /\ consumer \in ConsumerState
  BY DEF ServerInv, TypeOK
<1>3. /\ pc \in {"subscribe", "read", "call", "pending", "lost", "fail", "wait", "done"}
      /\ pc \in {consumer.pc, "lost"} /\ (consumer.pc = "done" => pc = "done")
      /\ (pc = "fail" => consumer.pc = "fail")
  BY <1>2 DEF ConsumerState
<1> HIDE DEF pc
<1>4. consumer' \in ConsumerState
  BY <1>1, <1>2, <1>3, ConsumerPc
<1>5. /\ consumer'.pc = pc /\ consumer'.end = consumer.end
      /\ consumer'.after = consumer.after /\ consumer'.got = consumer.got
      /\ consumer'.start = consumer.start /\ consumer'.kind = consumer.kind
      /\ consumer'.pos = consumer.pos /\ consumer'.publish_failed = consumer.publish_failed
  BY <1>1, <1>2 DEF ConsumerState
<1>6. TypeOK'
  BY <1>1, <1>2, <1>4 DEF TypeOK
<1>7. PublishedInv' /\ Grows /\ (NotFailed <=> NotFailed')
  BY <1>1, <1>2, PublishedStays
<1>8. TakenInv' /\ EndInv' /\ NoOutputSkipped'
  BY <1>1, <1>2, <1>3, <1>5, <1>6, <1>7, TakenStays
<1>9. FailureInv'
  BY <1>1, <1>3, <1>5, <1>7 DEF FailureInv, ReaderFails, ConsumerFails
<1>10. RouteKeptUntilClosed'
  BY <1>1, <1>3, <1>5 DEF RouteKeptUntilClosed
<1>11. CallInv'
  <2>1. wire' = <<>> /\ (rpc' = "done" => down') /\ Responses' = {}
    BY <1>1 DEF CallInv, Responses
  <2> QED BY <1>1, <2>1 DEF CallInv, Connected
<1>12. TravelInv'
  BY <1>1 DEF TravelInv, Numbered
<1>13. ServerInv'
  BY <1>1, <1>6, ServerStays
<1> QED BY <1>7, <1>8, <1>9, <1>10, <1>11, <1>12, <1>13

-----------------------------------------------------------------------------
\* The reader of the notifications.

LEMMA PublishedAdds ==
  ASSUME TypeOK, PublishedInv, TravelInv, NEW e \in Event, Numbered(e),
         NEW c, c.published = client.published, c.last_published = client.last_published,
         c.pending = client.pending, NEW d, Adds(c, e, d), UNCHANGED log,
         client'.last_published = d.last_published, client'.published = d.published
  PROVE  PublishedInv' /\ Grows /\ (NotFailed => NotFailed')
<1> DEFINE last == client.last_published
           len  == Len(client.published)
           more == d.last_published - last
<1>1. /\ last \in Nat /\ len \in Nat /\ Len(log) \in Nat /\ last <= Len(log)
      /\ d.last_published \in Nat
  BY DEF TypeOK, SessionState, PublishedInv, Adds
<1>2. /\ more \in Nat /\ Len(client'.published) = len + more
      /\ \A i \in 1..len : client'.published[i] = client.published[i]
      /\ client'.last_published = last + more
  <2>1. more \in Nat /\ Len(d.published) = len + more
        /\ \A i \in 1..len : d.published[i] = client.published[i]
    BY DEF Adds
  <2>2. d.last_published = last + more
    <3>1. last \in Nat /\ d.last_published \in Nat
      BY <1>1
    <3> QED BY <3>1
  <2> QED BY <2>1, <2>2
<1>3. ASSUME NEW k \in 1..more
      PROVE  /\ client'.published[len + k] = log[last + k]
             /\ last + k <= Len(log)
  <2> DEFINE x == d.published[len + k]
  <2>1. x \in client.pending \union {e} /\ x.seq = last + k
    BY DEF Adds
  <2>2. Numbered(x)
    BY <2>1 DEF TravelInv
  <2> QED BY <1>1, <2>1, <2>2 DEF Numbered
<1> HIDE DEF last, len, more
<1>4. Grows
  BY <1>1, <1>2 DEF Grows, len
<1>5. client'.last_published <= Len(log')
  <2>1. CASE more = 0
    BY <1>1, <1>2, <2>1
  <2>2. CASE more # 0
    <3>1. more \in 1..more
      BY <1>2, <2>2
    <3> QED BY <1>2, <1>3, <3>1
  <2> QED BY <2>1, <2>2
<1>6. \A i \in 1..(len + more) : i \in 1..len \/ \E k \in 1..more : i = len + k
  <2> TAKE i \in 1..(len + more)
  <2>1. CASE i <= len
    BY <1>1, <1>2, <2>1
  <2>2. CASE ~(i <= len)
    <3>1. i - len \in 1..more /\ i = len + (i - len)
      BY <1>1, <1>2, <2>2
    <3> QED BY <3>1
  <2> QED BY <2>1, <2>2
<1>7. NotFailed => NotFailed'
  <2>1. HAVE NotFailed
  <2>2. len = last /\ \A i \in 1..len : client.published[i] = log[i]
    BY <2>1 DEF NotFailed, len, last
  <2>3. ASSUME NEW i \in 1..(len + more) PROVE client'.published[i] = log'[i]
    BY <1>2, <1>3, <1>6, <2>2
  <2> QED BY <1>2, <2>2, <2>3 DEF NotFailed
<1>8. ASSUME NEW f \in 1..len, FailedAt(f) PROVE FailedAt(f)'
  <2>1. /\ len = last + 1 /\ client.published[f] = Failed
        /\ \A i \in 1..(f - 1) : client.published[i] = log[i]
        /\ \A i \in (f + 1)..len : client.published[i] = log[i - 1]
    BY <1>8 DEF FailedAt, len, last
  <2>2. Len(client'.published) = client'.last_published + 1
    BY <1>1, <1>2, <2>1
  <2>3. client'.published[f] = Failed /\ \A i \in 1..(f - 1) : i \in 1..len
    BY <1>1, <1>2, <2>1
  <2>4. ASSUME NEW i \in (f + 1)..(len + more) PROVE client'.published[i] = log'[i - 1]
    <3>1. i \in 1..(len + more)
      BY <1>1, <1>2
    <3>2. CASE i \in 1..len
      <4>1. i \in (f + 1)..len
        BY <1>1, <3>2
      <4> QED BY <1>2, <2>1, <3>2, <4>1
    <3>3. ASSUME NEW k \in 1..more, i = len + k PROVE client'.published[i] = log'[i - 1]
      <4>1. i - 1 = last + k
        BY <1>1, <1>2, <2>1, <3>3
      <4> QED BY <1>3, <3>3, <4>1
    <3> QED BY <1>6, <3>1, <3>2, <3>3
  <2> QED BY <1>2, <2>1, <2>2, <2>3, <2>4 DEF FailedAt
<1>9. CASE NotFailed
  BY <1>4, <1>5, <1>7, <1>9 DEF PublishedInv
<1>10. ASSUME NEW f \in 1..len, FailedAt(f)
       PROVE  PublishedInv' /\ Grows /\ (NotFailed => NotFailed')
  <2>1. f \in 1..Len(client'.published)
    BY <1>1, <1>2
  <2>2. FailedAt(f)'
    BY <1>8, <1>10
  <2> QED BY <1>4, <1>5, <1>7, <2>1, <2>2 DEF PublishedInv
<1> QED BY <1>9, <1>10 DEF PublishedInv, len

\* A step of the notification reader that takes a message and may publish.
LEMMA ReaderMoves ==
  ASSUME IInv, TypeOK',
         UNCHANGED <<process, task, left, log, request, wire, down, rpc, consumer>>,
         inbox' \in {inbox, Tail(inbox), <<>>}, inbox # <<>> \/ inbox' = inbox,
         \A x \in client'.pending : Numbered(x),
         PublishedInv', Grows, FailureInv', RouteKeptUntilClosed'
  PROVE  IInv'
<1> USE DEF IInv, Rest
<1>1. TypeOK
  BY DEF ServerInv
<1>2. TakenInv' /\ EndInv' /\ NoOutputSkipped'
  BY <1>1, TakenStays
<1>3. CallInv'
  BY <1>1, CallsStay
<1>4. TravelInv'
  <2>1. \A x : Numbered(x)' <=> Numbered(x)
    BY DEF Numbered
  <2>2. ASSUME NEW i \in 1..Len(inbox'), inbox'[i].type = "event"
        PROVE  Numbered(inbox'[i].event)
    <3>1. CASE inbox' = inbox
      BY <2>2, <3>1 DEF TravelInv
    <3>2. CASE inbox # <<>> /\ inbox' = Tail(inbox)
      <4>1. i + 1 \in 1..Len(inbox) /\ inbox'[i] = inbox[i + 1]
        BY <1>1, <3>2 DEF TypeOK
      <4> QED BY <2>2, <4>1 DEF TravelInv
    <3>3. CASE inbox' = <<>>
      BY <3>3
    <3> QED BY <3>1, <3>2, <3>3
  <2> QED BY <2>1, <2>2 DEF TravelInv, Numbered
<1>5. ServerInv'
  BY ServerStays
<1> QED BY <1>2, <1>3, <1>4, <1>5

LEMMA RegisteredType ==
  ASSUME NEW c \in SessionState, NEW b \in BOOLEAN
  PROVE  [c EXCEPT !.registered = b] \in SessionState
BY DEF SessionState

LEMMA FailedType ==
  ASSUME NEW c \in SessionState, NEW b \in BOOLEAN
  PROVE  /\ [NoteFailure(c) EXCEPT !.registered = FALSE, !.publish_failed = b] \in SessionState
         /\ NoteFailure(c) \in SessionState
BY DEF SessionState, NoteFailure

LEMMA PublishedType ==
  ASSUME NEW c \in SessionState, NEW mine \in BOOLEAN
  PROVE  /\ PublishFailure(c, mine) \in SessionState
         /\ PublishFailure(c, mine).registered = c.registered
         /\ PublishFailure(c, mine).failure = c.failure
         /\ PublishFailure(c, mine).publish_failed = c.publish_failed
         /\ PublishFailure(c, mine).pending = c.pending
         /\ PublishFailure(c, mine).last_published = c.last_published
         /\ PublishFailure(c, mine).published =
              IF mine THEN Append(c.published, Failed) ELSE c.published
<1> DEFINE p == IF mine THEN Append(c.published, Failed) ELSE c.published
<1>1. p \in Seq(Event)
  <2>1. Failed \in Event
    BY DEF Failed, Event
  <2> QED BY <2>1 DEF SessionState
<1>2. PublishFailure(c, mine) = [c EXCEPT !.wake = TRUE, !.published = p]
  BY DEF PublishFailure
<1> HIDE DEF p
<1>3. PublishFailure(c, mine) \in SessionState
  BY <1>1, <1>2 DEF SessionState
<1>4. PublishFailure(c, mine).published = p
  BY <1>2 DEF SessionState
<1> QED BY <1>2, <1>3, <1>4 DEF SessionState, p

LEMMA HandleKeeps ==
  ASSUME IInv, HandleNotification
  PROVE  IInv'
<1> USE DEF IInv, Rest
<1> DEFINE e == Head(inbox).event
           c == [client EXCEPT !.wake = TRUE]
           d == PublishOrdered(c, e)
<1>1. /\ UNCHANGED <<process, task, left, log, request, wire, down, rpc, reader, consumer>>
      /\ inbox # <<>> /\ inbox' = Tail(inbox) /\ Head(inbox).type = "event"
      /\ client' = IF client.registered
                   THEN [d EXCEPT !.registered = ~ClosePublished(client, d, e)]
                   ELSE client
  BY DEF HandleNotification, serverVars
<1>2. TypeOK /\ client \in SessionState /\ Len(log) \in Nat /\ inbox \in Seq(Queued)
  BY DEF ServerInv, TypeOK
<1>3. inbox[1] \in Queued /\ 1 \in 1..Len(inbox) /\ Head(inbox) = inbox[1]
      /\ inbox' \in Seq(Queued)
  BY <1>1, <1>2
<1>4. e \in Event /\ Numbered(e)
  <2>1. PICK m \in Queued : m = inbox[1]
    BY <1>3
  <2>2. m \in [type: {"event"}, event: Event]
    BY <1>1, <1>3, <2>1 DEF Queued, Disconnected
  <2> QED BY <1>1, <1>3, <2>1, <2>2 DEF TravelInv
<1>5. ASSUME client' \in SessionState PROVE TypeOK'
  BY <1>1, <1>2, <1>3, <1>5 DEF TypeOK
<1> HIDE DEF d, e
<1>6. CASE client.registered
  <2>1. /\ c \in SessionState /\ c.published = client.published
        /\ c.last_published = client.last_published /\ c.pending = client.pending
        /\ c.failure = client.failure /\ c.publish_failed = client.publish_failed
    BY <1>2 DEF SessionState
  <2>2. Adds(c, e, d)
    <3>1. e.seq \in 1..Len(log) /\ \A x \in c.pending : x.seq \in 1..Len(log)
      BY <1>4, <2>1 DEF TravelInv, Numbered
    <3> HIDE DEF c
    <3> QED BY <1>2, <1>4, <2>1, <3>1, PublishOrderedAdds DEF d
  <2> DEFINE b == ~ClosePublished(client, d, e)
  <2>3. client' = [d EXCEPT !.registered = b] /\ b \in BOOLEAN
    BY <1>1, <1>6
  <2>4. ~b => \E i \in 1..Len(d.published) : d.published[i].kind = "Closed"
    <3>1. Len(client.published) \in Nat
      BY <1>2 DEF SessionState
    <3>2. \A i \in (Len(client.published) + 1)..Len(d.published) : i \in 1..Len(d.published)
      BY <3>1
    <3> QED BY <3>2 DEF ClosePublished
  <2> HIDE DEF b, c
  <2>5. /\ d \in SessionState /\ d.failure = client.failure
        /\ d.publish_failed = client.publish_failed
        /\ d.pending \subseteq client.pending \union {e}
    BY <2>1, <2>2 DEF Adds
  <2>6. /\ client' \in SessionState /\ client'.published = d.published
        /\ client'.last_published = d.last_published /\ client'.pending = d.pending
        /\ client'.failure = d.failure /\ client'.publish_failed = d.publish_failed
        /\ client'.registered = b
    <3>1. client' \in SessionState
      BY <2>3, <2>5, RegisteredType
    <3> QED BY <2>3, <2>5, <3>1 DEF SessionState
  <2>7. PublishedInv' /\ Grows /\ (NotFailed => NotFailed')
    BY <1>1, <1>2, <1>4, <2>1, <2>2, <2>6, PublishedAdds
  <2>8. \A x \in client'.pending : Numbered(x)
    BY <1>4, <2>5, <2>6 DEF TravelInv
  <2>9. FailureInv'
    BY <1>1, <2>5, <2>6, <2>7 DEF FailureInv, ReaderFails, ConsumerFails
  <2>10. RouteKeptUntilClosed'
    BY <2>6, <2>4 DEF RouteKeptUntilClosed, Elements
  <2>11. TypeOK'
    BY <1>5, <2>6
  <2> QED BY <1>1, <2>7, <2>8, <2>9, <2>10, <2>11, ReaderMoves
<1>7. CASE ~client.registered
  <2>1. client' = client
    BY <1>1, <1>7
  <2>2. TypeOK'
    BY <1>2, <1>5, <2>1
  <2>3. PublishedInv' /\ FailureInv' /\ RouteKeptUntilClosed'
    BY <1>1, <2>1, FollowersStay
  <2>4. Grows
    BY <1>1, <1>2, <2>1, PublishedStays
  <2>5. \A x \in client'.pending : Numbered(x)
    BY <2>1 DEF TravelInv
  <2> QED BY <1>1, <2>2, <2>3, <2>4, <2>5, ReaderMoves
<1> QED BY <1>6, <1>7

LEMMA RecordKeeps ==
  ASSUME IInv, RecordDisconnected
  PROVE  IInv'
<1> USE DEF IInv, Rest
<1>1. /\ UNCHANGED <<process, task, left, log, request, wire, down, rpc, consumer>>
      /\ inbox # <<>> /\ inbox' = <<>> /\ reader = "run" /\ reader' = "recorded"
      /\ client' = [client EXCEPT !.disconnected = TRUE]
  BY DEF RecordDisconnected, serverVars
<1>2. TypeOK /\ client \in SessionState
  BY DEF ServerInv, TypeOK
<1>3. /\ client' \in SessionState /\ client'.registered = client.registered
      /\ client'.published = client.published /\ client'.pending = client.pending
      /\ client'.last_published = client.last_published
      /\ client'.failure = client.failure /\ client'.publish_failed = client.publish_failed
  BY <1>1, <1>2 DEF SessionState
<1>4. TypeOK'
  <2>1. inbox' \in Seq(Queued)
    BY <1>1
  <2> QED BY <1>1, <1>2, <1>3, <2>1 DEF TypeOK
<1>5. PublishedInv' /\ Grows /\ (NotFailed <=> NotFailed')
  BY <1>1, <1>2, <1>3, PublishedStays
<1>6. FailureInv'
  BY <1>1, <1>3, <1>5 DEF FailureInv, ReaderFails, ConsumerFails
<1>7. RouteKeptUntilClosed'
  BY <1>1, <1>3 DEF RouteKeptUntilClosed
<1>8. \A x \in client'.pending : Numbered(x)
  BY <1>3 DEF TravelInv
<1> QED BY <1>1, <1>4, <1>5, <1>6, <1>7, <1>8, ReaderMoves

LEMMA FailAllKeeps ==
  ASSUME IInv, FailAllSessions
  PROVE  IInv'
<1> USE DEF IInv, Rest
<1>1. /\ UNCHANGED <<process, task, left, log, request, wire, down, rpc, inbox, consumer>>
      /\ reader = "recorded"
  BY DEF FailAllSessions, serverVars
<1>2. TypeOK /\ client \in SessionState /\ inbox \in Seq(Queued)
  BY DEF ServerInv, TypeOK
<1>3. inbox' \in Seq(Queued)
  BY <1>1, <1>2
<1>4. CASE client.registered
  <2>1. client' = [NoteFailure(client) EXCEPT !.registered = FALSE,
                                              !.publish_failed = ShouldPublish(client)]
        /\ reader' = "fail"
    BY <1>4 DEF FailAllSessions
  <2>2. ShouldPublish(client) \in BOOLEAN /\ (ShouldPublish(client) <=> ~client.failure)
    BY <1>2 DEF ShouldPublish, SessionState
  <2>3. client' \in SessionState
    BY <1>2, <2>1, <2>2, FailedType
  <2>4. /\ client'.published = client.published /\ client'.pending = client.pending
        /\ client'.last_published = client.last_published /\ client'.failure = TRUE
        /\ client'.publish_failed = ShouldPublish(client)
    BY <1>2, <2>1, <2>2 DEF SessionState, NoteFailure
  <2>5. TypeOK'
    BY <1>1, <1>2, <1>3, <2>1, <2>3 DEF TypeOK
  <2>6. PublishedInv' /\ Grows /\ (NotFailed <=> NotFailed')
    BY <1>1, <1>2, <2>4, PublishedStays
  <2>7. FailureInv'
    BY <1>1, <2>1, <2>2, <2>4, <2>6 DEF FailureInv, ReaderFails, ConsumerFails
  <2>8. RouteKeptUntilClosed'
    BY <2>1 DEF RouteKeptUntilClosed
  <2>9. \A x \in client'.pending : Numbered(x)
    BY <2>4 DEF TravelInv
  <2> QED BY <1>1, <2>5, <2>6, <2>7, <2>8, <2>9, ReaderMoves
<1>5. CASE ~client.registered
  <2>1. client' = client /\ reader' = "done"
    BY <1>5 DEF FailAllSessions
  <2>2. TypeOK'
    BY <1>1, <1>2, <1>3, <2>1 DEF TypeOK
  <2>3. PublishedInv' /\ Grows /\ (NotFailed <=> NotFailed')
    BY <1>1, <1>2, <2>1, PublishedStays
  <2>4. FailureInv'
    BY <1>1, <2>1, <2>3 DEF FailureInv, ReaderFails, ConsumerFails
  <2>5. RouteKeptUntilClosed'
    BY <2>1 DEF RouteKeptUntilClosed
  <2>6. \A x \in client'.pending : Numbered(x)
    BY <2>1 DEF TravelInv
  <2> QED BY <1>1, <2>2, <2>3, <2>4, <2>5, <2>6, ReaderMoves
<1> QED BY <1>4, <1>5

LEMMA ReaderFailsKeeps ==
  ASSUME IInv, ReaderPublishesFailure
  PROVE  IInv'
<1> USE DEF IInv, Rest
<1> DEFINE mine == client.publish_failed
<1>1. /\ UNCHANGED <<process, task, left, log, request, wire, down, rpc, inbox, consumer>>
      /\ reader = "fail" /\ reader' = "done" /\ client' = PublishFailure(client, mine)
  BY DEF ReaderPublishesFailure, serverVars
<1>2. TypeOK /\ client \in SessionState /\ mine \in BOOLEAN
  BY DEF ServerInv, TypeOK, SessionState
<1>3. /\ client' \in SessionState /\ client'.failure = client.failure
      /\ client'.pending = client.pending /\ client'.last_published = client.last_published
      /\ client'.published = IF mine THEN Append(client.published, Failed) ELSE client.published
  <2> HIDE DEF mine
  <2> QED BY <1>1, <1>2, PublishedType
<1>4. PublishedInv' /\ Grows /\ (~mine => (NotFailed <=> NotFailed'))
  <2>1. CASE mine
    <3>1. NotFailed
      BY <1>1, <2>1 DEF FailureInv, ReaderFails
    <3> QED BY <1>1, <1>2, <1>3, <2>1, <3>1, AppendsFailure
  <2>2. CASE ~mine
    BY <1>1, <1>2, <1>3, <2>2, PublishedStays
  <2> QED BY <2>1, <2>2
<1>5. FailureInv'
  BY <1>1, <1>3, <1>4 DEF FailureInv, ReaderFails, ConsumerFails
<1>6. RouteKeptUntilClosed'
  BY <1>1 DEF RouteKeptUntilClosed
<1>7. TypeOK'
  BY <1>1, <1>2, <1>3 DEF TypeOK
<1>8. \A x \in client'.pending : Numbered(x)
  BY <1>3 DEF TravelInv
<1> QED BY <1>1, <1>4, <1>5, <1>6, <1>7, <1>8, ReaderMoves

-----------------------------------------------------------------------------
\* The consumer.

LEMMA ConsumerMoves ==
  ASSUME IInv, TypeOK', consumer.pc # "pending",
         UNCHANGED <<process, task, left, log, request, wire, down, rpc, inbox, reader>>,
         client'.pending = client.pending,
         PublishedInv', FailureInv', RouteKeptUntilClosed',
         TakenInv', EndInv', NoOutputSkipped'
  PROVE  IInv'
<1> USE DEF IInv, Rest
<1>1. CallInv'
  BY NoCall
<1>2. TravelInv'
  BY DEF TravelInv, Numbered
<1>3. ServerInv'
  BY ServerStays
<1> QED BY <1>1, <1>2, <1>3

LEMMA SubscribeType ==
  ASSUME NEW c \in ConsumerState, NEW start \in Nat, NEW n \in Nat
  PROVE  [c EXCEPT !.pc = "wait", !.start = start, !.pos = start, !.live = n] \in ConsumerState
BY DEF ConsumerState

LEMMA SubscribeKeeps ==
  ASSUME IInv, Subscribe
  PROVE  IInv'
<1> USE DEF IInv, Rest
<1> DEFINE n == Len(client.published)
           start == MaxOf(0, n - EventCapacity)
<1>1. /\ UNCHANGED <<process, task, left, log, request, wire, down, rpc, inbox, reader, client>>
      /\ consumer.pc = "subscribe"
      /\ consumer' = [consumer EXCEPT !.pc = "wait", !.start = start, !.pos = start, !.live = n]
  BY DEF Subscribe, serverVars, consumerOnly
<1>2. TypeOK /\ consumer \in ConsumerState /\ n \in Nat
  BY DEF ServerInv, TypeOK, SessionState
<1>3. start \in Nat /\ start <= n
  BY <1>2 DEF MaxOf
<1> HIDE DEF n, start
<1>4. consumer' \in ConsumerState
  BY <1>1, <1>2, <1>3, SubscribeType
<1>5. /\ consumer'.pc = "wait" /\ consumer'.end = consumer.end
      /\ consumer'.after = consumer.after /\ consumer'.got = consumer.got
      /\ consumer'.start = start /\ consumer'.pos = start /\ consumer'.kind = consumer.kind
  BY <1>1, <1>2 DEF ConsumerState
<1>6. TypeOK'
  BY <1>1, <1>2, <1>4 DEF TypeOK
<1>7. consumer.after = 0
  BY <1>1 DEF TakenInv
<1>8. TakenInv'
  <2>1. \A i \in (start + 1)..start : FALSE
    BY <1>3
  <2> QED BY <1>1, <1>3, <1>5, <2>1 DEF TakenInv, n
<1>9. EndInv'
  BY <1>1, <1>5 DEF EndInv
<1>10. NoOutputSkipped'
  <2>1. \A seq \in Outputs(log) : seq \in Nat /\ seq > 0
    <3>1. \A i \in 1..Len(log) : log[i].seq = i
      BY DEF ServerInv, LogInv
    <3>2. log \in Seq(Event) /\ Len(log) \in Nat
      BY <1>2 DEF TypeOK
    <3>3. \A seq : seq \in Outputs(log) => seq \in 1..Len(log)
      BY <3>1, <3>2, OutputsOf
    <3> QED BY <3>2, <3>3
  <2>2. \A seq \in Outputs(log') : ~(seq <= consumer'.after)
    BY <1>1, <1>5, <1>7, <2>1
  <2> QED BY <1>5, <2>2 DEF NoOutputSkipped
<1>11. PublishedInv' /\ FailureInv' /\ RouteKeptUntilClosed'
  BY <1>1, <1>2, <1>5, SessionStays
<1> QED BY <1>1, <1>6, <1>8, <1>9, <1>10, <1>11, ConsumerMoves

LEMMA LaggedType ==
  ASSUME NEW c \in ConsumerState, NEW pos \in Nat
  PROVE  [c EXCEPT !.pc = "read", !.pos = pos] \in ConsumerState
BY DEF ConsumerState

LEMMA LaggedKeeps ==
  ASSUME IInv, ReceiveLagged
  PROVE  IInv'
<1> USE DEF IInv, Rest
<1> DEFINE pos == Len(client.published) - EventCapacity
<1>1. /\ UNCHANGED <<process, task, left, log, request, wire, down, rpc, inbox, reader, client>>
      /\ consumer.pc = "wait" /\ consumer' = [consumer EXCEPT !.pc = "read", !.pos = pos]
      /\ Len(client.published) - consumer.pos > EventCapacity
  BY DEF ReceiveLagged, serverVars, consumerOnly, Lagged
<1>2. TypeOK /\ consumer \in ConsumerState /\ Len(client.published) \in Nat
      /\ consumer.pos \in Nat
  BY DEF ServerInv, TypeOK, SessionState, ConsumerState
<1>3. pos \in Nat /\ consumer.pos <= pos /\ pos <= Len(client.published)
  BY <1>1, <1>2
<1> HIDE DEF pos
<1>4. consumer' \in ConsumerState
  BY <1>1, <1>2, <1>3, LaggedType
<1>5. /\ consumer'.pc = "read" /\ consumer'.end = consumer.end
      /\ consumer'.after = consumer.after /\ consumer'.got = consumer.got
      /\ consumer'.start = consumer.start /\ consumer'.pos = pos
      /\ consumer'.kind = consumer.kind
  BY <1>1, <1>2 DEF ConsumerState
<1>6. TypeOK'
  BY <1>1, <1>2, <1>4 DEF TypeOK
<1>7. Grows
  BY <1>1, <1>2, PublishedStays
<1>8. TakenInv' /\ EndInv' /\ NoOutputSkipped'
  <2>1. consumer.pos <= consumer'.pos /\ consumer'.pos <= Len(client'.published)
    BY <1>1, <1>3, <1>5
  <2> QED BY <1>1, <1>2, <1>5, <1>6, <1>7, <2>1, TakenStays
<1>9. PublishedInv' /\ FailureInv' /\ RouteKeptUntilClosed'
  BY <1>1, <1>2, <1>5, SessionStays
<1> QED BY <1>1, <1>6, <1>8, <1>9, ConsumerMoves

\* A step of the consumer to pc that may tell the session of a failure.
LEMMA ConsumerLeaves ==
  ASSUME IInv, TypeOK',
         UNCHANGED <<process, task, left, log, request, wire, down, rpc, inbox, reader>>,
         consumer.pc \in {"read", "call", "lost", "fail", "wait"},
         consumer'.pc \in {"read", "call", "fail", "done"},
         consumer'.after = consumer.after, consumer'.got = consumer.got,
         consumer'.start = consumer.start, consumer'.kind = consumer.kind,
         consumer'.pos = consumer.pos, consumer'.end \in {consumer.end, "failed"},
         client'.registered = client.registered, client'.pending = client.pending,
         PublishedInv', Grows, FailureInv'
  PROVE  IInv'
<1> USE DEF IInv, Rest
<1>1. TypeOK
  BY DEF ServerInv
<1>2. TakenInv' /\ EndInv' /\ NoOutputSkipped'
  BY <1>1, TakenStays
<1>3. RouteKeptUntilClosed'
  <2>1. SUFFICES ASSUME ~client'.registered, reader' \in {"run", "recorded"},
                       consumer'.pc # "done"
                PROVE  \E e \in Elements(client'.published) : e.kind = "Closed"
    BY DEF RouteKeptUntilClosed, Elements
  <2>2. PICK e \in Elements(client.published) : e.kind = "Closed"
    BY <2>1 DEF RouteKeptUntilClosed
  <2>3. PICK i \in 1..Len(client.published) : e = client.published[i]
    BY <2>2 DEF Elements
  <2>4. e = client'.published[i] /\ i \in 1..Len(client'.published)
    BY <1>1, <2>3 DEF Grows, TypeOK, SessionState
  <2>5. e \in Elements(client'.published)
    BY <2>4 DEF Elements
  <2> QED BY <2>2, <2>5
<1> QED BY <1>2, <1>3, ConsumerMoves

LEMMA WakeKeeps ==
  ASSUME IInv, ReceiveWake
  PROVE  IInv'
<1> USE DEF IInv, Rest
<1>1. /\ UNCHANGED <<process, task, left, log, request, wire, down, rpc, inbox, reader>>
      /\ consumer.pc = "wait" /\ consumer' = [consumer EXCEPT !.pc = "read"]
      /\ client' = [client EXCEPT !.wake = FALSE]
  BY DEF ReceiveWake, serverVars, consumerOnly
<1>2. TypeOK /\ consumer \in ConsumerState /\ client \in SessionState
  BY DEF ServerInv, TypeOK
<1>3. consumer' \in ConsumerState
  BY <1>1, <1>2, ConsumerPc
<1>4. /\ consumer'.pc = "read" /\ consumer'.end = consumer.end
      /\ consumer'.after = consumer.after /\ consumer'.got = consumer.got
      /\ consumer'.start = consumer.start /\ consumer'.pos = consumer.pos
      /\ consumer'.kind = consumer.kind
  BY <1>1, <1>2 DEF ConsumerState
<1>5. /\ client' \in SessionState /\ client'.registered = client.registered
      /\ client'.pending = client.pending /\ client'.failure = client.failure
      /\ client'.publish_failed = client.publish_failed
      /\ client'.published = client.published /\ client'.last_published = client.last_published
  BY <1>1, <1>2 DEF SessionState
<1>6. TypeOK'
  BY <1>1, <1>2, <1>3, <1>5 DEF TypeOK
<1>7. PublishedInv' /\ Grows /\ (NotFailed <=> NotFailed')
  BY <1>1, <1>2, <1>5, PublishedStays
<1>8. FailureInv'
  BY <1>1, <1>4, <1>5, <1>7 DEF FailureInv, ReaderFails, ConsumerFails
<1> QED BY <1>1, <1>4, <1>5, <1>6, <1>7, <1>8, ConsumerLeaves

LEMMA BeginReadKeeps ==
  ASSUME IInv, BeginRead
  PROVE  IInv'
<1> USE DEF IInv, Rest
<1>1. /\ UNCHANGED <<process, task, left, log, request, wire, down, rpc, inbox, reader, client>>
      /\ consumer.pc = "read" /\ consumer' = [consumer EXCEPT !.pc = "call"]
  BY DEF BeginRead, serverVars, consumerOnly
<1>2. TypeOK /\ consumer \in ConsumerState
  BY DEF ServerInv, TypeOK
<1>3. consumer' \in ConsumerState
  BY <1>1, <1>2, ConsumerPc
<1>4. /\ consumer'.pc = "call" /\ consumer'.end = consumer.end
      /\ consumer'.after = consumer.after /\ consumer'.got = consumer.got
      /\ consumer'.start = consumer.start /\ consumer'.pos = consumer.pos
      /\ consumer'.kind = consumer.kind
  BY <1>1, <1>2 DEF ConsumerState
<1>5. TypeOK'
  BY <1>1, <1>2, <1>3 DEF TypeOK
<1>6. Grows
  BY <1>1, <1>2, PublishedStays
<1>7. PublishedInv' /\ FailureInv'
  BY <1>1, <1>2, <1>4, SessionStays
<1> QED BY <1>1, <1>4, <1>5, <1>6, <1>7, ConsumerLeaves

LEMMA StartReadKeeps ==
  ASSUME IInv, StartRead
  PROVE  IInv'
<1> USE DEF IInv, Rest
<1>1. /\ UNCHANGED <<process, task, left, log, wire, down, rpc, inbox, reader, client>>
      /\ consumer.pc = "call" /\ consumer' = [consumer EXCEPT !.pc = "pending"]
      /\ \E wait \in BOOLEAN :
           request' = [st |-> "check", after |-> consumer.after, wait |-> wait]
  BY DEF StartRead, clientVars
<1>2. TypeOK /\ consumer \in ConsumerState
  BY DEF ServerInv, TypeOK
<1>3. consumer' \in ConsumerState
  BY <1>1, <1>2, ConsumerPc
<1>4. /\ consumer'.pc = "pending" /\ consumer'.end = consumer.end
      /\ consumer'.after = consumer.after /\ consumer'.got = consumer.got
      /\ consumer'.start = consumer.start /\ consumer'.pos = consumer.pos
      /\ consumer'.kind = consumer.kind /\ consumer.after \in Nat
  BY <1>1, <1>2 DEF ConsumerState
<1>5. TypeOK'
  <2>1. request' \in Request
    BY <1>1, <1>4 DEF Request
  <2> QED BY <1>1, <1>2, <1>3, <2>1 DEF TypeOK
<1>6. CallInv'
  <2>1. Responses' = {}
    BY <1>1 DEF CallInv, Responses
  <2>2. request'.after = consumer'.after
    BY <1>1, <1>4
  <2> QED BY <1>1, <1>4, <2>1, <2>2 DEF CallInv, Connected
<1>7. Grows
  BY <1>1, <1>2, PublishedStays
<1>8. TakenInv' /\ EndInv' /\ NoOutputSkipped'
  BY <1>1, <1>2, <1>4, <1>5, <1>7, TakenStays
<1>9. PublishedInv' /\ FailureInv' /\ RouteKeptUntilClosed'
  BY <1>1, <1>2, <1>4, SessionStays
<1>10. TravelInv'
  BY <1>1 DEF TravelInv, Numbered
<1>11. ServerInv'
  BY <1>1, <1>5, ServerStays
<1> QED BY <1>6, <1>8, <1>9, <1>10, <1>11

LEMMA ReadOfFailedKeeps ==
  ASSUME IInv, ReadOfFailed
  PROVE  IInv'
<1> USE DEF IInv, Rest
<1>1. /\ UNCHANGED <<process, task, left, log, request, wire, down, rpc, inbox, reader, client>>
      /\ consumer.pc = "read" /\ consumer' = [consumer EXCEPT !.pc = "done", !.end = "failed"]
  BY DEF ReadOfFailed, serverVars, consumerOnly, End
<1>2. TypeOK /\ consumer \in ConsumerState
  BY DEF ServerInv, TypeOK
<1>3. consumer' \in ConsumerState
  BY <1>1, <1>2, ConsumerPc
<1>4. /\ consumer'.pc = "done" /\ consumer'.end = "failed"
      /\ consumer'.after = consumer.after /\ consumer'.got = consumer.got
      /\ consumer'.start = consumer.start /\ consumer'.pos = consumer.pos
      /\ consumer'.kind = consumer.kind
  BY <1>1, <1>2 DEF ConsumerState
<1>5. TypeOK'
  BY <1>1, <1>2, <1>3 DEF TypeOK
<1>6. Grows
  BY <1>1, <1>2, PublishedStays
<1>7. PublishedInv' /\ FailureInv'
  BY <1>1, <1>2, <1>4, SessionStays
<1> QED BY <1>1, <1>4, <1>5, <1>6, <1>7, ConsumerLeaves

LEMMA LostClient ==
  [NoteFailure(client) EXCEPT !.disconnected = TRUE]
    = [client EXCEPT !.failure = TRUE, !.disconnected = TRUE]
BY DEF NoteFailure

LEMMA LostType ==
  ASSUME NEW c \in ConsumerState, NEW b \in BOOLEAN
  PROVE  [c EXCEPT !.pc = "fail", !.publish_failed = b] \in ConsumerState
BY DEF ConsumerState

LEMMA ReadLostKeeps ==
  ASSUME IInv, ReadLost
  PROVE  IInv'
<1> USE DEF IInv, Rest
<1> DEFINE b == ShouldPublish(client)
<1>1. /\ UNCHANGED <<process, task, left, log, request, wire, down, rpc, inbox, reader>>
      /\ consumer.pc \in {"read", "call", "lost"}
      /\ client' = [client EXCEPT !.failure = TRUE, !.disconnected = TRUE]
      /\ consumer' = [consumer EXCEPT !.pc = "fail", !.publish_failed = b]
  BY LostClient DEF ReadLost, serverVars, consumerOnly
<1>2. /\ TypeOK /\ consumer \in ConsumerState /\ client \in SessionState
      /\ b \in BOOLEAN /\ (b <=> ~client.failure)
  BY DEF ServerInv, TypeOK, SessionState, ShouldPublish
<1> HIDE DEF b
<1>3. consumer' \in ConsumerState
  BY <1>1, <1>2, LostType
<1>4. /\ consumer'.pc = "fail" /\ consumer'.end = consumer.end
      /\ consumer'.after = consumer.after /\ consumer'.got = consumer.got
      /\ consumer'.start = consumer.start /\ consumer'.pos = consumer.pos
      /\ consumer'.kind = consumer.kind /\ consumer'.publish_failed = b
  BY <1>1, <1>2 DEF ConsumerState
<1>5. /\ client' \in SessionState /\ client'.registered = client.registered
      /\ client'.pending = client.pending /\ client'.failure = TRUE
      /\ client'.publish_failed = client.publish_failed
      /\ client'.published = client.published /\ client'.last_published = client.last_published
  BY <1>1, <1>2 DEF SessionState
<1>6. TypeOK'
  BY <1>1, <1>2, <1>3, <1>5 DEF TypeOK
<1>7. PublishedInv' /\ Grows /\ (NotFailed <=> NotFailed')
  BY <1>1, <1>2, <1>5, PublishedStays
<1>8. FailureInv'
  BY <1>1, <1>2, <1>4, <1>5, <1>7 DEF FailureInv, ReaderFails, ConsumerFails
<1> QED BY <1>1, <1>4, <1>5, <1>6, <1>7, <1>8, ConsumerLeaves

LEMMA ReadFailsKeeps ==
  ASSUME IInv, ReadPublishesFailure
  PROVE  IInv'
<1> USE DEF IInv, Rest
<1> DEFINE mine == consumer.publish_failed
<1>1. /\ UNCHANGED <<process, task, left, log, request, wire, down, rpc, inbox, reader>>
      /\ consumer.pc = "fail" /\ client' = PublishFailure(client, mine)
      /\ consumer' = [consumer EXCEPT !.pc = "done", !.end = "failed"]
  BY DEF ReadPublishesFailure, serverVars, consumerOnly, End
<1>2. /\ TypeOK /\ consumer \in ConsumerState /\ client \in SessionState /\ mine \in BOOLEAN
  BY DEF ServerInv, TypeOK, ConsumerState
<1>3. /\ client' \in SessionState /\ client'.failure = client.failure
      /\ client'.publish_failed = client.publish_failed
      /\ client'.registered = client.registered
      /\ client'.pending = client.pending /\ client'.last_published = client.last_published
      /\ client'.published = IF mine THEN Append(client.published, Failed) ELSE client.published
  <2> HIDE DEF mine
  <2> QED BY <1>1, <1>2, PublishedType
<1>4. consumer' \in ConsumerState
  BY <1>1, <1>2, ConsumerPc
<1>5. /\ consumer'.pc = "done" /\ consumer'.end = "failed"
      /\ consumer'.after = consumer.after /\ consumer'.got = consumer.got
      /\ consumer'.start = consumer.start /\ consumer'.pos = consumer.pos
      /\ consumer'.kind = consumer.kind
  BY <1>1, <1>2 DEF ConsumerState
<1>6. TypeOK'
  BY <1>1, <1>2, <1>3, <1>4 DEF TypeOK
<1>7. PublishedInv' /\ Grows /\ (~mine => (NotFailed <=> NotFailed'))
  <2>1. CASE mine
    <3>1. NotFailed
      BY <1>1, <2>1 DEF FailureInv, ConsumerFails
    <3> QED BY <1>1, <1>2, <1>3, <2>1, <3>1, AppendsFailure
  <2>2. CASE ~mine
    BY <1>1, <1>2, <1>3, <2>2, PublishedStays
  <2> QED BY <2>1, <2>2
<1>8. FailureInv'
  BY <1>1, <1>3, <1>5, <1>7 DEF FailureInv, ReaderFails, ConsumerFails
<1> QED BY <1>1, <1>3, <1>5, <1>6, <1>7, <1>8, ConsumerLeaves

LEMMA DropKeeps ==
  ASSUME IInv, DropHandle
  PROVE  IInv'
<1> USE DEF IInv, Rest
<1>1. /\ UNCHANGED <<process, task, left, log, request, wire, down, rpc, inbox, reader, consumer>>
      /\ consumer.pc = "done" /\ client' = [client EXCEPT !.registered = FALSE]
  BY DEF DropHandle, serverVars, consumerOnly
<1>2. TypeOK /\ client \in SessionState
  BY DEF ServerInv, TypeOK
<1>3. /\ client' \in SessionState
      /\ client'.pending = client.pending /\ client'.failure = client.failure
      /\ client'.publish_failed = client.publish_failed
      /\ client'.published = client.published /\ client'.last_published = client.last_published
  BY <1>1, <1>2 DEF SessionState
<1>4. TypeOK'
  BY <1>1, <1>2, <1>3 DEF TypeOK
<1>5. PublishedInv' /\ Grows /\ (NotFailed <=> NotFailed')
  BY <1>1, <1>2, <1>3, PublishedStays
<1>6. FailureInv'
  BY <1>1, <1>3, <1>5 DEF FailureInv, ReaderFails, ConsumerFails
<1>7. RouteKeptUntilClosed'
  BY <1>1 DEF RouteKeptUntilClosed
<1>8. TakenInv' /\ EndInv' /\ NoOutputSkipped'
  BY <1>1, <1>2, <1>4, <1>5, TakenStays
<1> QED BY <1>1, <1>3, <1>4, <1>5, <1>6, <1>7, <1>8, ConsumerMoves

\* Published events are in order: those before one are published before it.
LEMMA PublishedBefore ==
  ASSUME TypeOK, LogInv, PublishedInv, NEW i \in 1..Len(client.published),
         client.published[i] # Failed, NEW s \in 1..Len(log), s < client.published[i].seq
  PROVE  \E j \in 1..(i - 1) : client.published[j] = log[s]
<1>1. /\ Len(log) \in Nat /\ Len(client.published) \in Nat /\ client.last_published \in Nat
      /\ client.last_published <= Len(log)
  BY DEF TypeOK, SessionState, PublishedInv
<1>2. \A k \in 1..Len(log) : log[k].seq = k
  BY DEF LogInv
<1>3. CASE NotFailed
  <2>1. client.published[i] = log[i] /\ i \in 1..Len(log)
    BY <1>1, <1>3 DEF NotFailed
  <2>2. s < i
    BY <1>2, <2>1
  <2>3. s \in 1..(i - 1) /\ s \in 1..Len(client.published)
    BY <1>1, <2>2
  <2> QED BY <1>3, <2>3 DEF NotFailed
<1>4. ASSUME NEW f \in 1..Len(client.published), FailedAt(f)
      PROVE  \E j \in 1..(i - 1) : client.published[j] = log[s]
  <2>1. /\ Len(client.published) = client.last_published + 1 /\ client.published[f] = Failed
        /\ \A k \in 1..(f - 1) : client.published[k] = log[k]
        /\ \A k \in (f + 1)..Len(client.published) : client.published[k] = log[k - 1]
    BY <1>4 DEF FailedAt
  <2>2. CASE i < f
    <3>1. i \in 1..(f - 1) /\ i \in 1..Len(log)
      BY <1>1, <2>1, <2>2
    <3>2. s < i
      BY <1>2, <2>1, <3>1
    <3>3. s \in 1..(i - 1) /\ s \in 1..(f - 1)
      BY <1>1, <2>2, <3>2
    <3> QED BY <2>1, <3>3
  <2>3. CASE i > f
    <3>1. i \in (f + 1)..Len(client.published) /\ i - 1 \in 1..Len(log)
      BY <1>1, <2>1, <2>3
    <3>2. s < i - 1
      BY <1>2, <2>1, <3>1
    <3>3. CASE s < f
      <4>1. s \in 1..(i - 1) /\ s \in 1..(f - 1)
        BY <1>1, <3>2, <3>3
      <4> QED BY <2>1, <4>1
    <3>4. CASE ~(s < f)
      <4>1. s + 1 \in 1..(i - 1) /\ s + 1 \in (f + 1)..Len(client.published) /\ (s + 1) - 1 = s
        BY <1>1, <3>2, <3>4
      <4>2. client.published[s + 1] = log[s]
        BY <2>1, <4>1
      <4> QED BY <4>1, <4>2
    <3> QED BY <3>3, <3>4
  <2>4. i # f
    BY <2>1
  <2> QED BY <1>1, <2>2, <2>3, <2>4
<1> QED BY <1>3, <1>4 DEF PublishedInv

LEMMA ReceivedType ==
  ASSUME NEW c \in ConsumerState, NEW pos \in Nat, NEW after \in Nat,
         NEW got \in Seq(SUBSET Nat), NEW end \in {"closed", "failed"},
         NEW next, next = [c EXCEPT !.pos = pos, !.after = after]
  PROVE  /\ next \in ConsumerState
         /\ [next EXCEPT !.got = got] \in ConsumerState
         /\ [next EXCEPT !.pc = "done", !.end = end] \in ConsumerState
<1>1. next \in ConsumerState
  BY DEF ConsumerState
<1>2. [next EXCEPT !.got = got] \in ConsumerState
  BY <1>1 DEF ConsumerState
<1>3. [next EXCEPT !.pc = "done", !.end = end] \in ConsumerState
  BY <1>1 DEF ConsumerState
<1> QED BY <1>1, <1>2, <1>3

\* The state of the consumer after it received event e.
Received(e, chunks) ==
  /\ consumer' \in ConsumerState
  /\ consumer'.kind = consumer.kind /\ consumer'.start = consumer.start
  /\ consumer'.publish_failed = consumer.publish_failed
  /\ consumer'.pos = consumer.pos + 1 /\ consumer'.after = MaxOf(consumer.after, e.seq)
  /\ consumer'.got = Take(consumer.got, chunks)
  /\ consumer'.pc \in {"wait", "done"}
  /\ consumer'.end = "closed" => e.kind = "Closed" \/ consumer.end = "closed"

LEMMA EventReceived ==
  ASSUME TypeOK, ReceiveEvent, NEW e, e = client.published[consumer.pos + 1],
         NEW chunks, chunks = IF e.kind = "Output" /\ e.seq > consumer.after
                              THEN {e.seq} ELSE {}
  PROVE  e \in Event /\ Received(e, chunks)
<1> DEFINE pos == consumer.pos + 1
           after == MaxOf(consumer.after, e.seq)
           got == Take(consumer.got, chunks)
           next == [consumer EXCEPT !.pos = pos, !.after = after]
<1>1. /\ consumer \in ConsumerState /\ consumer.pos \in Nat /\ consumer.after \in Nat
      /\ consumer.got \in Seq(SUBSET Nat) /\ consumer.pc = "wait"
      /\ client.published \in Seq(Event) /\ consumer.pos < Len(client.published)
      /\ Len(client.published) \in Nat
  BY DEF ReceiveEvent, TypeOK, ConsumerState, SessionState
<1>2. e \in Event /\ e.seq \in Nat
  <2>1. consumer.pos + 1 \in 1..Len(client.published)
    BY <1>1
  <2>2. e \in Event
    BY <1>1, <2>1
  <2> QED BY <2>2 DEF Event
<1>3. pos \in Nat /\ after \in Nat
  BY <1>1, <1>2 DEF MaxOf
<1>4. chunks \in SUBSET Nat /\ (e.kind = "Output" /\ e.seq > consumer.after => chunks = {e.seq})
      /\ (~(e.kind = "Output" /\ e.seq > consumer.after) => got = consumer.got)
  BY <1>2 DEF Take
<1>5. got \in Seq(SUBSET Nat)
  <2> HIDE DEF got
  <2> QED BY <1>1, <1>4, Taking DEF got
<1>6. \/ /\ e.kind = "Output" /\ e.seq > consumer.after
         /\ consumer' = [next EXCEPT !.got = got]
      \/ /\ ~(e.kind = "Output" /\ e.seq > consumer.after)
         /\ \/ e.kind = "Closed" /\ consumer' = [next EXCEPT !.pc = "done", !.end = "closed"]
            \/ consumer' = [next EXCEPT !.pc = "done", !.end = "failed"]
            \/ consumer' = next
  <2>1. CASE e.kind = "Output" /\ e.seq > consumer.after
    <3>1. consumer' = [next EXCEPT !.got = Take(next.got, {e.seq})]
      BY <2>1 DEF ReceiveEvent
    <3>2. next.got = consumer.got
      BY <1>1 DEF ConsumerState
    <3> QED BY <1>4, <2>1, <3>1, <3>2
  <2>2. CASE ~(e.kind = "Output" /\ e.seq > consumer.after)
    <3> HIDE DEF got
    <3>1. CASE e.kind = "Closed"
      BY <2>2, <3>1 DEF ReceiveEvent
    <3>2. CASE e.kind = "Failed"
      BY <2>2, <3>2 DEF ReceiveEvent
    <3>3. CASE e.kind \notin {"Closed", "Failed"}
      BY <2>2, <3>3 DEF ReceiveEvent
    <3> QED BY <3>1, <3>2, <3>3
  <2> QED BY <2>1, <2>2
<1> HIDE DEF pos, after, got
<1>7. /\ next \in ConsumerState /\ [next EXCEPT !.got = got] \in ConsumerState
      /\ [next EXCEPT !.pc = "done", !.end = "closed"] \in ConsumerState
      /\ [next EXCEPT !.pc = "done", !.end = "failed"] \in ConsumerState
  BY <1>1, <1>3, <1>5, ReceivedType
<1>8. /\ next.kind = consumer.kind /\ next.start = consumer.start
      /\ next.publish_failed = consumer.publish_failed /\ next.pos = pos /\ next.after = after
      /\ next.got = consumer.got /\ next.pc = "wait" /\ next.end = consumer.end
  BY <1>1 DEF ConsumerState
<1> HIDE DEF next
<1>9. Received(e, chunks)
  <2>1. CASE consumer' = [next EXCEPT !.got = got]
    <3>1. /\ consumer'.kind = next.kind /\ consumer'.start = next.start
          /\ consumer'.publish_failed = next.publish_failed /\ consumer'.pos = next.pos
          /\ consumer'.after = next.after /\ consumer'.got = got /\ consumer'.pc = next.pc
          /\ consumer'.end = next.end
      BY <1>7, <2>1 DEF ConsumerState
    <3> QED BY <1>7, <1>8, <2>1, <3>1 DEF Received, pos, after, got
  <2>2. CASE /\ ~(e.kind = "Output" /\ e.seq > consumer.after) /\ e.kind = "Closed"
             /\ consumer' = [next EXCEPT !.pc = "done", !.end = "closed"]
    <3>1. /\ consumer'.kind = next.kind /\ consumer'.start = next.start
          /\ consumer'.publish_failed = next.publish_failed /\ consumer'.pos = next.pos
          /\ consumer'.after = next.after /\ consumer'.got = next.got
          /\ consumer'.pc = "done" /\ consumer'.end = "closed"
      BY <1>7, <2>2 DEF ConsumerState
    <3> QED BY <1>4, <1>7, <1>8, <2>2, <3>1 DEF Received, pos, after, got
  <2>3. CASE /\ ~(e.kind = "Output" /\ e.seq > consumer.after)
             /\ consumer' = [next EXCEPT !.pc = "done", !.end = "failed"]
    <3>1. /\ consumer'.kind = next.kind /\ consumer'.start = next.start
          /\ consumer'.publish_failed = next.publish_failed /\ consumer'.pos = next.pos
          /\ consumer'.after = next.after /\ consumer'.got = next.got
          /\ consumer'.pc = "done" /\ consumer'.end = "failed"
      BY <1>7, <2>3 DEF ConsumerState
    <3> QED BY <1>4, <1>7, <1>8, <2>3, <3>1 DEF Received, pos, after, got
  <2>4. CASE ~(e.kind = "Output" /\ e.seq > consumer.after) /\ consumer' = next
    BY <1>4, <1>7, <1>8, <2>4 DEF Received, pos, after, got
  <2> QED BY <1>6, <2>1, <2>2, <2>3, <2>4
<1> QED BY <1>2, <1>9

LEMMA EventKeeps ==
  ASSUME IInv, ReceiveEvent
  PROVE  IInv'
<1> USE DEF IInv, Rest
<1>1. /\ UNCHANGED <<process, task, left, log, request, wire, down, rpc, inbox, reader, client>>
      /\ consumer.kind = "events" /\ consumer.pc = "wait"
      /\ consumer.pos < Len(client.published)
  BY DEF ReceiveEvent, serverVars, consumerOnly
<1>2. TypeOK /\ LogInv
  BY DEF ServerInv
<1>3. /\ consumer.pos \in Nat /\ consumer.after \in Nat /\ consumer.start \in Nat
      /\ Len(client.published) \in Nat /\ Len(log) \in Nat /\ consumer.after <= Len(log)
      /\ consumer.pos + 1 \in 1..Len(client.published)
  BY <1>1, <1>2 DEF TypeOK, ConsumerState, SessionState, TakenInv
<1>4. PICK e : e = client.published[consumer.pos + 1]
  OBVIOUS
<1>5. PICK chunks : chunks = IF e.kind = "Output" /\ e.seq > consumer.after THEN {e.seq} ELSE {}
  OBVIOUS
<1>6. e \in Event /\ Received(e, chunks)
  BY <1>2, <1>4, <1>5, EventReceived
<1>7. e.seq \in Nat /\ chunks \in SUBSET Nat
  BY <1>5, <1>6 DEF Event
<1>8. /\ consumer'.after \in {consumer.after, e.seq} /\ consumer.after <= consumer'.after
      /\ e.seq <= consumer'.after /\ consumer'.after \in Nat
      /\ (consumer.after < consumer'.after => consumer'.after = e.seq)
  BY <1>3, <1>6, <1>7 DEF Received, MaxOf
<1>9. e = Failed \/ (e.seq \in 1..Len(log) /\ e = log[e.seq])
  BY <1>2, <1>3, <1>4, PublishedOutputs
<1>10. e = Failed => e.seq = 0 /\ e.kind = "Failed"
  BY DEF Failed
<1>11. \A seq : seq \in Outputs(log) <=> seq \in 1..Len(log) /\ log[seq].kind = "Output"
  <2>1. log \in Seq(Event) /\ \A i \in 1..Len(log) : log[i].seq = i
    BY <1>2 DEF TypeOK, LogInv
  <2> QED BY <2>1, OutputsOf
<1>12. TypeOK'
  BY <1>1, <1>2, <1>6 DEF TypeOK, Received
<1>13. ASSUME NEW seq \in Outputs(log), consumer.after < seq, seq <= consumer'.after
       PROVE  seq \in chunks \union Missed
  <2>1. seq \in 1..Len(log) /\ log[seq].kind = "Output" /\ consumer'.after = e.seq
        /\ e = log[e.seq]
    BY <1>3, <1>8, <1>9, <1>10, <1>11, <1>13
  <2>2. CASE seq = e.seq
    BY <1>5, <1>13, <2>1, <2>2
  <2>3. CASE seq # e.seq
    <3>1. seq < e.seq
      BY <1>7, <1>13, <2>1, <2>3
    <3>2. e # Failed
      BY <1>10, <2>1, <3>1
    <3>3. PICK j \in 1..((consumer.pos + 1) - 1) : client.published[j] = log[seq]
      BY <1>2, <1>3, <1>4, <2>1, <3>1, <3>2, PublishedBefore
    <3>4. j \in 1..consumer.pos /\ client.published[j].kind = "Output"
          /\ client.published[j].seq = seq
      BY <1>2, <1>3, <2>1, <3>3 DEF LogInv
    <3>5. CASE j <= consumer.start
      <4>1. j \in 1..consumer.start
        BY <1>3, <3>4, <3>5
      <4> QED BY <1>2, <3>4, <4>1, MissedEvents
    <3>6. CASE ~(j <= consumer.start)
      <4>1. j \in (consumer.start + 1)..consumer.pos
        BY <1>3, <3>4, <3>6
      <4>2. seq <= consumer.after
        BY <1>1, <3>4, <4>1 DEF TakenInv
      <4> QED BY <1>3, <1>13, <2>1, <4>2
    <3> QED BY <3>5, <3>6
  <2> QED BY <2>2, <2>3
<1>14. /\ NoOutputSkipped'
       /\ \A i \in 1..Len(consumer'.got) : \A seq \in consumer'.got[i] : seq <= consumer'.after
  <2>1. consumer'.got = Take(consumer.got, chunks) /\ consumer'.start = consumer.start
    BY <1>6 DEF Received
  <2>2. \A seq \in chunks : consumer.after < seq /\ seq <= consumer'.after
    BY <1>3, <1>5, <1>7, <1>8
  <2>3. \A seq \in Outputs(log) : consumer.after < seq /\ seq <= consumer'.after
          => seq \in chunks \union Evicted \union Missed
    BY <1>13
  <2> QED BY <1>1, <1>2, <1>7, <1>8, <1>12, <2>1, <2>2, <2>3, TakesMore
<1>15. TakenInv'
  <2>1. consumer'.after <= Len(log')
    BY <1>1, <1>3, <1>8, <1>9, <1>10
  <2>2. /\ consumer'.start <= consumer'.pos /\ consumer'.pos <= Len(client'.published)
        /\ consumer'.pc # "subscribe"
    BY <1>1, <1>3, <1>6 DEF Received, TakenInv
  <2>3. ASSUME NEW i \in (consumer'.start + 1)..consumer'.pos,
               client'.published[i].kind = "Output"
        PROVE  client'.published[i].seq <= consumer'.after
    <3>1. i \in (consumer.start + 1)..consumer.pos \/ i = consumer.pos + 1
      BY <1>3, <1>6, <2>3 DEF Received
    <3>2. CASE i = consumer.pos + 1
      BY <1>1, <1>4, <1>8, <3>2
    <3>3. CASE i \in (consumer.start + 1)..consumer.pos
      <4>1. i \in 1..Len(client.published)
        BY <1>3, <3>3
      <4>2. client.published[i].seq \in Nat
        <5>1. client.published \in Seq(Event)
          BY <1>2 DEF TypeOK, SessionState
        <5>2. client.published[i] \in Event
          BY <4>1, <5>1
        <5> QED BY <5>2 DEF Event
      <4>3. client.published[i].seq <= consumer.after
        BY <1>1, <2>3, <3>3 DEF TakenInv
      <4> QED BY <1>1, <1>3, <1>8, <4>2, <4>3
    <3> QED BY <3>1, <3>2, <3>3
  <2> QED BY <1>14, <2>1, <2>2, <2>3 DEF TakenInv
<1>16. EndInv'
  <2>1. CASE consumer.end = "closed"
    <3>1. process.closed /\ \A seq \in Outputs(log) : seq <= consumer.after
      BY <2>1 DEF EndInv
    <3>2. \A seq \in Outputs(log) : seq <= consumer'.after
      BY <1>3, <1>8, <1>11, <3>1
    <3> QED BY <1>1, <3>1, <3>2 DEF EndInv
  <2>2. CASE consumer.end # "closed"
    <3>1. SUFFICES ASSUME consumer'.end = "closed"
                   PROVE  process'.closed /\ \A seq \in Outputs(log') : seq <= consumer'.after
      BY DEF EndInv, Outputs, Elements
    <3>2. e.kind = "Closed" /\ e # Failed
      BY <1>6, <1>10, <2>2, <3>1 DEF Received
    <3>3. e.seq = Len(log) /\ Has("Closed")
      BY <1>2, <1>9, <3>2 DEF LogInv, Has
    <3>4. process.closed
      BY <1>2, <3>3 DEF LogInv
    <3>5. \A seq \in Outputs(log) : seq <= consumer'.after
      BY <1>3, <1>8, <1>11, <3>3
    <3> QED BY <1>1, <3>4, <3>5
  <2> QED BY <2>1, <2>2
<1>17. PublishedInv' /\ FailureInv' /\ RouteKeptUntilClosed'
  <2>1. consumer'.pc # "fail" /\ consumer.pc # "done"
    BY <1>1, <1>6 DEF Received
  <2> QED BY <1>1, <1>2, <2>1, SessionStays
<1> QED BY <1>1, <1>12, <1>14, <1>15, <1>16, <1>17, ConsumerMoves

-----------------------------------------------------------------------------
\* The invariant holds initially, and every step keeps it.

LEMMA InitInv == Init => IInv
<1> SUFFICES ASSUME Init PROVE IInv
  OBVIOUS
<1>1. TypeOK
  BY TypeInit
<1>2. /\ process = [entry |-> "Running", next_seq |-> 1, output |-> <<>>,
                    exited |-> FALSE, open_streams |-> Cardinality(Stream),
                    closed |-> FALSE, retiring |-> FALSE]
      /\ task = [t \in Task |-> [pc |-> "recv", event |-> NoEvent]]
      /\ log = <<>> /\ request = NoRead /\ wire = <<>> /\ down = FALSE /\ rpc = "run"
      /\ inbox = <<>> /\ reader = "run"
      /\ client = [disconnected |-> FALSE, registered |-> TRUE, last_published |-> 0, pending |-> {},
                   published |-> <<>>, failure |-> FALSE,
                   publish_failed |-> FALSE, wake |-> FALSE]
  BY DEF Init
<1>3. /\ consumer.after = 0 /\ consumer.got = <<>> /\ consumer.start = 0 /\ consumer.pos = 0
      /\ consumer.end = "none" /\ consumer.publish_failed = FALSE
      /\ consumer.pc \in {"read", "subscribe"}
  BY DEF Init
<1>4. Outputs(log) = {}
  BY <1>2 DEF Outputs, Elements
<1>5. LogInv
  BY <1>2 DEF LogInv, Has
<1>6. TaskInv
  <2>1. Open = Stream
    BY <1>2 DEF Open
  <2> QED BY <1>2, <2>1 DEF TaskInv
<1>7. RetainInv
  BY <1>2, <1>4 DEF RetainInv
<1>8. TravelInv
  BY <1>2 DEF TravelInv
<1>9. PublishedInv /\ FailureInv /\ NotFailed
  <2>1. NotFailed
    BY <1>2 DEF NotFailed
  <2>2. client.last_published <= Len(log)
    BY <1>2
  <2>3. ~ReaderFails /\ ~ConsumerFails
    BY <1>2, <1>3 DEF ReaderFails, ConsumerFails
  <2> QED BY <2>1, <2>2, <2>3 DEF PublishedInv, FailureInv
<1>10. CallInv
  BY <1>2 DEF CallInv, Responses, NoRead
<1>11. TakenInv /\ EndInv
  BY <1>2, <1>3 DEF TakenInv, EndInv
<1>12. NoOutputSkipped
  BY <1>3, <1>4 DEF NoOutputSkipped
<1>13. RouteKeptUntilClosed
  BY <1>2 DEF RouteKeptUntilClosed
<1> QED BY <1>1, <1>5, <1>6, <1>7, <1>8, <1>9, <1>10, <1>11, <1>12, <1>13
        DEF IInv, ServerInv, Rest

LEMMA StutterKeeps ==
  ASSUME IInv, UNCHANGED vars
  PROVE  IInv'
<1> USE DEF IInv, Rest
<1>1. UNCHANGED <<process, task, left, log, request, wire, down, rpc, inbox, reader,
                  client, consumer>>
  BY DEF vars
<1>2. TypeOK /\ TypeOK'
  BY <1>1 DEF ServerInv, TypeOK
<1>3. Grows
  BY <1>1, <1>2, PublishedStays
<1>4. CallInv' /\ TravelInv' /\ ServerInv'
  <2>1. CallInv'
    BY <1>1, <1>2, <1>3, CallsStay
  <2>2. TravelInv'
    BY <1>1 DEF TravelInv, Numbered
  <2> QED BY <1>1, <1>2, <2>1, <2>2, ServerStays
<1> QED BY <1>1, <1>4, FollowersStay

LEMMA StepInv == IInv /\ [Next]_vars => IInv'
<1> SUFFICES ASSUME IInv, [Next]_vars PROVE IInv'
  OBVIOUS
<1>1. CASE TaskStep \/ RemoveClosedProcess
  BY <1>1, ServerKeeps
<1>2. CASE ReadStep
  BY <1>2, ReadKeeps
<1>3. CASE TransportCloses
  BY <1>3, TransportKeeps
<1>4. CASE ReaderStep
  BY <1>4, ReadMessageKeeps, ReadEndKeeps, DrainKeeps, HandleKeeps, RecordKeeps,
     FailAllKeeps, ReaderFailsKeeps DEF ReaderStep
<1>5. CASE ConsumerStep
  BY <1>5, SubscribeKeeps, EventKeeps, LaggedKeeps, WakeKeeps, BeginReadKeeps,
     StartReadKeeps, ReadOfFailedKeeps, ReadLostKeeps, ReadFailsKeeps DEF ConsumerStep
<1>6. CASE DropHandle
  BY <1>6, DropKeeps
<1>7. CASE UNCHANGED vars
  BY <1>7, StutterKeeps
<1> QED BY <1>1, <1>2, <1>3, <1>4, <1>5, <1>6, <1>7 DEF Next

LEMMA Invariance == Spec => []IInv
  BY InitInv, StepInv, PTL DEF Spec

\* Every reachable state is well typed.
THEOREM TypeCorrect == Spec => []TypeOK
<1>1. IInv => TypeOK BY DEF IInv, ServerInv
<1> QED BY <1>1, Invariance, PTL

\* For any number of chunks and any size of the buffers: the consumer has every
\* chunk below its cursor, once and in order, unless a buffer dropped it before.
THEOREM OutputCorrect == Spec => []NoOutputSkipped
<1>1. IInv => NoOutputSkipped BY DEF IInv, Rest
<1> QED BY <1>1, Invariance, PTL

\* A consumer that ends with the close has all the output: the close is the last
\* event of the process, and the cursor of the consumer is past every chunk.
THEOREM CloseCorrect == Spec => []CloseIsComplete
<1>1. IInv => CloseIsComplete
  <2> SUFFICES ASSUME IInv, consumer.end = "closed"
               PROVE  /\ LastOf(log).kind = "Closed"
                      /\ Outputs(log) \subseteq Taken \union Evicted \union Missed
    BY DEF CloseIsComplete
  <2>1. process.closed /\ \A seq \in Outputs(log) : seq <= consumer.after
    BY DEF IInv, Rest, EndInv
  <2>2. LastOf(log).kind = "Closed"
    <3>1. PICK i \in 1..Len(log) : log[i].kind = "Closed"
      BY <2>1 DEF IInv, ServerInv, LogInv, Has
    <3>2. i = Len(log)
      BY <3>1 DEF IInv, ServerInv, LogInv
    <3> QED BY <3>1, <3>2 DEF LastOf
  <2>3. Outputs(log) \subseteq Taken \union Evicted \union Missed
    BY <2>1 DEF IInv, Rest, NoOutputSkipped
  <2> QED BY <2>2, <2>3
<1> QED BY <1>1, Invariance, PTL

\* While the notification reader runs and the consumer has not ended, the route
\* of the process is there until its close has been published.
THEOREM RouteCorrect == Spec => []RouteKeptUntilClosed
<1>1. IInv => RouteKeptUntilClosed BY DEF IInv, Rest
<1> QED BY <1>1, Invariance, PTL

-----------------------------------------------------------------------------
\* The client implements the stream of events.

LEMMA SameSequence ==
  ASSUME NEW s \in Seq(Event), NEW t \in Seq(Event), Len(s) = Len(t),
         \A i \in 1..Len(s) : s[i] = t[i]
  PROVE  s = t
OBVIOUS

LEMMA WithoutOne ==
  ASSUME NEW s \in Seq(Event), NEW f \in 1..Len(s)
  PROVE  /\ Without(s, f) \in Seq(Event) /\ Len(Without(s, f)) = Len(s) - 1
         /\ \A i \in 1..(f - 1) : Without(s, f)[i] = s[i]
         /\ \A i \in f..(Len(s) - 1) : Without(s, f)[i] = s[i + 1]
<1> DEFINE a == SubSeq(s, 1, f - 1)
           b == SubSeq(s, f + 1, Len(s))
<1>1. /\ a \in Seq(Event) /\ Len(a) = f - 1 /\ \A i \in 1..(f - 1) : a[i] = s[i]
  OBVIOUS
<1>2. /\ b \in Seq(Event) /\ Len(b) = Len(s) - f
      /\ \A i \in 1..(Len(s) - f) : b[i] = s[f + i]
  OBVIOUS
<1>3. f \in Nat /\ Len(s) \in Nat /\ 1 <= f /\ f <= Len(s)
  OBVIOUS
<1> HIDE DEF a, b
<1>4. a \o b \in Seq(Event) /\ Len(a \o b) = Len(s) - 1
  <2>1. a \in Seq(Event) /\ b \in Seq(Event)
    BY <1>1, <1>2
  <2>2. a \o b \in Seq(Event) /\ Len(a \o b) = Len(a) + Len(b)
    BY <2>1
  <2> QED BY <1>1, <1>2, <1>3, <2>2
<1>5. \A i \in 1..(f - 1) : (a \o b)[i] = s[i]
  BY <1>1, <1>2, <1>3
<1>6. ASSUME NEW i \in f..(Len(s) - 1) PROVE (a \o b)[i] = s[i + 1]
  <2>1. (a \o b)[i] = b[i - (f - 1)] /\ i - (f - 1) \in 1..(Len(s) - f)
    BY <1>1, <1>2, <1>3
  <2>2. f + (i - (f - 1)) = i + 1
    BY <1>3
  <2> QED BY <1>2, <2>1, <2>2
<1> QED BY <1>4, <1>5, <1>6 DEF Without, a, b

\* But for a failure, what was published is the first events of the process.
FirstEvents == /\ Sequenced = SubSeq(log, 1, client.last_published)
               /\ client.last_published \in 0..Len(log)

LEMMA SequencedIs == IInv => FirstEvents
<1> SUFFICES ASSUME TypeOK, LogInv, PublishedInv PROVE FirstEvents
  BY DEF IInv, ServerInv, Rest
<1> DEFINE s == client.published
           n == client.last_published
           first == SubSeq(log, 1, n)
<1>1. s \in Seq(Event) /\ n \in 0..Len(log) /\ log \in Seq(Event) /\ Len(s) \in Nat
      /\ Len(log) \in Nat
  BY DEF TypeOK, SessionState, PublishedInv
<1>2. first \in Seq(Event) /\ Len(first) = n /\ \A i \in 1..n : first[i] = log[i]
  <2> HIDE DEF n
  <2> QED BY <1>1
<1>3. \A i \in 1..Len(log) : log[i] # Failed
  BY DEF LogInv, Failed
<1>4. ASSUME NotFailed PROVE Sequenced = first
  <2>1. Len(s) = n /\ \A i \in 1..n : s[i] = log[i]
    BY <1>4 DEF NotFailed
  <2> HIDE DEF s, n
  <2>2. \A i \in 1..Len(s) : s[i] # Failed
    BY <1>1, <1>3, <2>1
  <2>3. Failures = {}
    BY <2>2 DEF Failures, s
  <2>4. s = first
    <3> HIDE DEF first
    <3> QED BY <1>1, <1>2, <2>1, SameSequence
  <2>5. Sequenced = s
    BY <2>3 DEF Sequenced, s
  <2> QED BY <2>4, <2>5
<1>5. ASSUME NEW f \in 1..Len(s), FailedAt(f)
      PROVE  Sequenced = first
  <2>1. /\ Len(s) = n + 1 /\ s[f] = Failed
        /\ \A i \in 1..(f - 1) : s[i] = log[i]
        /\ \A i \in (f + 1)..Len(s) : s[i] = log[i - 1]
    BY <1>5 DEF FailedAt
  <2> HIDE DEF s, n, first
  <2>2. ASSUME NEW i \in 1..Len(s), i # f PROVE s[i] # Failed
    <3>1. CASE i < f
      <4>1. i \in 1..(f - 1) /\ i \in 1..Len(log)
        BY <1>1, <2>1, <3>1
      <4> QED BY <1>3, <2>1, <4>1
    <3>2. CASE ~(i < f)
      <4>1. i \in (f + 1)..Len(s) /\ i - 1 \in 1..Len(log)
        BY <1>1, <2>1, <2>2, <3>2
      <4> QED BY <1>3, <2>1, <4>1
    <3> QED BY <3>1, <3>2
  <2>3. Failures = {f}
    BY <2>1, <2>2 DEF Failures, s
  <2>4. Sequenced = Without(s, f)
    BY <2>3 DEF Sequenced, s
  <2>5. /\ Without(s, f) \in Seq(Event) /\ Len(Without(s, f)) = Len(s) - 1
        /\ \A i \in 1..(f - 1) : Without(s, f)[i] = s[i]
        /\ \A i \in f..(Len(s) - 1) : Without(s, f)[i] = s[i + 1]
    BY <1>1, WithoutOne
  <2>6. Len(Without(s, f)) = n
    BY <1>1, <2>1, <2>5
  <2>7. ASSUME NEW i \in 1..n PROVE Without(s, f)[i] = first[i]
    <3>1. CASE i < f
      <4>1. i \in 1..(f - 1)
        BY <1>1, <3>1
      <4> QED BY <1>2, <2>1, <2>5, <4>1
    <3>2. CASE ~(i < f)
      <4>1. i \in f..(Len(s) - 1) /\ i + 1 \in (f + 1)..Len(s) /\ (i + 1) - 1 = i
        BY <1>1, <2>1, <3>2
      <4> QED BY <1>2, <2>1, <2>5, <4>1
    <3> QED BY <3>1, <3>2
  <2>8. Without(s, f) = first
    BY <1>2, <2>5, <2>6, <2>7, SameSequence
  <2> QED BY <2>4, <2>8
<1>6. Sequenced = first
  BY <1>4, <1>5 DEF PublishedInv
<1> QED BY <1>1, <1>6 DEF FirstEvents

LEMMA SequencedNext == IInv' => FirstEvents'
  BY SequencedIs, PTL

LEMMA RefineInit == Init => Abstract!Init
<1> SUFFICES ASSUME Init PROVE Abstract!Init
  OBVIOUS
<1>1. log = <<>> /\ client.published = <<>>
  BY DEF Init
<1>2. Failures = {}
  BY <1>1 DEF Failures
<1> QED BY <1>1, <1>2 DEF Abstract!Init, Sequenced

\* The server numbers the events as the stream promises.
LEMMA RefineEmit ==
  ASSUME IInv, TaskStep \/ RemoveClosedProcess, log' # log
  PROVE  \E kind \in {"Output", "Exited", "Closed"} : Abstract!Emit(kind)
<1>0. TypeOK /\ LogInv /\ TaskInv /\ process.next_seq = Len(log) + 1
  BY DEF IInv, ServerInv, LogInv
<1>1. \E kind \in {"Output", "Exited", "Closed"}, t \in Task :
        /\ Emit(t, kind)
        /\ ~process.closed
        /\ kind = "Exited" => ~process.exited
        /\ kind = "Closed" => process.exited
  <2>1. ASSUME NEW s \in Stream, ReceiveChunk(s)
        PROVE  Emit(s, "Output") /\ ~process.closed
    <3>1. s \in Open
      BY <2>1 DEF ReceiveChunk, Open
    <3> QED BY <1>0, <2>1, <3>1 DEF ReceiveChunk, TaskInv, TypeOK, RunningProcess
  <2>2. ASSUME WatchExit
        PROVE  Emit("exit", "Exited") /\ ~process.closed /\ ~process.exited
    BY <1>0, <2>2 DEF WatchExit, TaskInv
  <2>3. ASSUME NEW t \in Task, MaybeEmitClosed(t)
        PROVE  Emit(t, "Closed") /\ ~process.closed /\ process.exited
    BY <2>3 DEF MaybeEmitClosed, Closes
  <2>4. ASSUME \/ \E s \in Stream : FinishOutputStream(s)
               \/ \E t \in Task : Notify(t)
               \/ RemoveClosedProcess
        PROVE  FALSE
    BY <2>4 DEF FinishOutputStream, Notify, RemoveClosedProcess
  <2>5. CASE \E s \in Stream : ReceiveChunk(s)
    BY <2>1, <2>5
  <2>6. CASE WatchExit
    BY <2>2, <2>6
  <2>7. CASE \E t \in Task : MaybeEmitClosed(t)
    BY <2>3, <2>7
  <2> QED BY <2>4, <2>5, <2>6, <2>7 DEF TaskStep
<1>2. PICK kind \in {"Output", "Exited", "Closed"}, t \in Task :
        /\ Emit(t, kind)
        /\ ~process.closed
        /\ kind = "Exited" => ~process.exited
        /\ kind = "Closed" => process.exited
  BY <1>1
<1>3. log' = Append(log, [seq |-> Len(log) + 1, kind |-> kind])
  BY <1>0, <1>2 DEF Emit
<1>4. \A k : Abstract!Has(k) <=> Has(k)
  BY DEF Abstract!Has, Has
<1>5. ~Has("Closed") /\ (kind = "Exited" => ~Has(kind)) /\ (kind = "Closed" => Has("Exited"))
  BY <1>0, <1>2 DEF LogInv
<1>6. Sequenced' = Sequenced
  <2>1. client' = client
    BY <1>0, ServerGoes, TaskEvents DEF IInv, ServerInv
  <2> QED BY <2>1 DEF Sequenced, Failures
<1>7. Abstract!Emit(kind)
  BY <1>3, <1>4, <1>5, <1>6 DEF Abstract!Emit
<1> QED BY <1>7

\* What is published never shrinks.
LEMMA PublishesMore ==
  ASSUME IInv, Next
  PROVE  client.last_published <= client'.last_published
<1>1. /\ client \in SessionState /\ client.last_published \in Nat /\ TypeOK
      /\ client.publish_failed \in BOOLEAN /\ consumer.publish_failed \in BOOLEAN
  BY DEF IInv, ServerInv, TypeOK, SessionState, ConsumerState
<1>2. ASSUME client'.last_published = client.last_published
      PROVE  client.last_published <= client'.last_published
  BY <1>1, <1>2
<1>3. CASE TaskStep \/ RemoveClosedProcess
  <2>1. client' = client
    BY <1>3, ServerGoes, TaskEvents DEF IInv, ServerInv
  <2> QED BY <1>2, <2>1
<1>4. CASE ReadStep \/ TransportCloses \/ ReadMessage \/ ReadEnd \/ DrainPending
           \/ ReadBreaks \/ Subscribe \/ ReceiveEvent \/ ReceiveLagged \/ BeginRead
           \/ StartRead \/ ReadOfFailed
  <2>1. client' = client
    BY <1>4 DEF ReadStep, ExecRead, AwaitNotified, ReadDeadline, TransportCloses, ReadMessage,
       ReadEnd, ReadBreaks, DrainPending, Subscribe, ReceiveEvent, ReceiveLagged, BeginRead,
       StartRead, ReadOfFailed,
       clientVars
  <2> QED BY <1>2, <2>1
<1>5. CASE HandleNotification
  <2> DEFINE e == Head(inbox).event
             c == [client EXCEPT !.wake = TRUE]
             d == PublishOrdered(c, e)
  <2>1. client' = client \/ client' = [d EXCEPT !.registered = ~ClosePublished(client, d, e)]
    BY <1>5 DEF HandleNotification
  <2>2. c \in SessionState /\ c.last_published = client.last_published
        /\ c.pending = client.pending
    BY <1>1 DEF SessionState
  <2>3. e \in Event /\ e.seq \in 1..Len(log) /\ \A x \in c.pending : x.seq \in 1..Len(log)
    <3>1. inbox \in Seq(Queued) /\ inbox # <<>> /\ Head(inbox).type = "event"
      BY <1>1, <1>5 DEF HandleNotification, TypeOK
    <3>2. inbox[1] \in Queued /\ 1 \in 1..Len(inbox) /\ Head(inbox) = inbox[1]
      BY <3>1
    <3>3. PICK m \in Queued : m = inbox[1]
      BY <3>2
    <3>4. m \in [type: {"event"}, event: Event]
      BY <3>1, <3>2, <3>3 DEF Queued, Disconnected
    <3>5. m.event \in Event /\ Numbered(m.event)
      BY <3>1, <3>2, <3>3, <3>4 DEF IInv, TravelInv
    <3> QED BY <2>2, <3>2, <3>3, <3>5 DEF IInv, TravelInv, Numbered
  <2> HIDE DEF c, e
  <2>4. Adds(c, e, d) /\ Len(log) \in Nat
    BY <1>1, <2>2, <2>3, PublishOrderedAdds DEF TypeOK
  <2> HIDE DEF d
  <2>5. d \in SessionState /\ d.last_published - client.last_published \in Nat
    BY <2>2, <2>4 DEF Adds
  <2>6. d.last_published \in Nat
    BY <2>5 DEF SessionState
  <2>7. client.last_published <= d.last_published
    BY <1>1, <2>5, <2>6
  <2>8. client'.last_published \in {client.last_published, d.last_published}
    BY <2>1, <2>5 DEF SessionState
  <2> QED BY <1>1, <2>7, <2>8
<1>6. CASE RecordDisconnected \/ FailAllSessions \/ ReceiveWake \/ ReadLost \/ DropHandle
  <2>1. client'.last_published = client.last_published
    BY <1>1, <1>6, LostClient
       DEF RecordDisconnected, FailAllSessions, ReceiveWake, ReadLost, DropHandle, NoteFailure,
           SessionState
  <2> QED BY <1>2, <2>1
<1>7. CASE ReaderPublishesFailure \/ ReadPublishesFailure
  <2>1. client'.last_published = client.last_published
    BY <1>1, <1>7, PublishedType DEF ReaderPublishesFailure, ReadPublishesFailure
  <2> QED BY <1>2, <2>1
<1> QED BY <1>3, <1>4, <1>5, <1>6, <1>7 DEF Next, ReaderStep, ConsumerStep

LEMMA RefineNext == IInv /\ [Next]_vars => [Abstract!Next]_(Abstract!streamVars)
<1> SUFFICES ASSUME IInv, [Next]_vars PROVE [Abstract!Next]_(Abstract!streamVars)
  OBVIOUS
<1>1. IInv'
  BY StepInv
<1>2. CASE log' # log
  <2>1. TaskStep \/ RemoveClosedProcess
    BY <1>2 DEF Next, ReadStep, ExecRead, AwaitNotified, ReadDeadline, TransportCloses,
       ReaderStep, ReadMessage, ReadEnd, ReadBreaks, DrainPending, HandleNotification,
       RecordDisconnected, FailAllSessions, ReaderPublishesFailure, ConsumerStep, Subscribe,
       ReceiveEvent, ReceiveLagged, ReceiveWake, BeginRead, StartRead, ReadOfFailed, ReadLost, ReadPublishesFailure, DropHandle,
       serverVars, consumerOnly, vars
  <2>2. \E kind \in {"Output", "Exited", "Closed"} : Abstract!Emit(kind)
    BY <1>2, <2>1, RefineEmit
  <2> QED BY <2>2 DEF Abstract!Next, Abstract!Kind
<1>3. CASE log' = log
  <2> DEFINE n == client.last_published
             m == client'.last_published
  <2>1. Sequenced = SubSeq(log, 1, n) /\ n \in 0..Len(log)
    BY SequencedIs DEF FirstEvents
  <2>2. Sequenced' = SubSeq(log, 1, m) /\ m \in 0..Len(log)
    BY <1>1, <1>3, SequencedNext DEF FirstEvents
  <2>3. log \in Seq(Event) /\ Len(log) \in Nat
    BY DEF IInv, ServerInv, TypeOK
  <2>4. n <= m
    BY <2>1, PublishesMore DEF vars
  <2> HIDE DEF n, m
  <2>5. Len(Sequenced) = n
    BY <2>1, <2>3
  <2>6. CASE m = n
    BY <1>3, <2>1, <2>2, <2>6 DEF Abstract!streamVars
  <2>7. CASE m # n
    <3>1. m \in (Len(Sequenced) + 1)..Len(log)
      BY <2>1, <2>2, <2>3, <2>4, <2>5, <2>7
    <3>2. Abstract!Deliver
      BY <1>3, <2>2, <3>1 DEF Abstract!Deliver
    <3> QED BY <3>2 DEF Abstract!Next
  <2> QED BY <2>6, <2>7
<1> QED BY <1>2, <1>3

\* The server's tasks, the connection and the client's two readers implement the
\* stream of events, in whatever order the tasks notify.
THEOREM Refinement == Spec => ImplementsEventStream
<1>1. Spec => Abstract!Init /\ [][Abstract!Next]_(Abstract!streamVars)
  BY RefineInit, RefineNext, Invariance, PTL DEF Spec
<1> QED BY <1>1 DEF ImplementsEventStream, Abstract!Spec


-----------------------------------------------------------------------------
(* The consumer is never stuck.                                             *)

\* A task has an event in hand only to notify it; and as long as the process is
\* not closed, a task of it will get to the close.
RunInv ==
  /\ \A t \in Task : task[t].event # NoEvent => task[t].pc = "notify"
  /\ ~process.exited => task["exit"].pc = "recv"
  /\ ~process.closed => \E t \in Task : task[t].pc # "done"

\* The disconnect is the last thing the reader of the transport queues.
LinkInv ==
  /\ rpc = "run" => \A i \in 1..Len(inbox) : inbox[i].type = "event"
  /\ rpc # "run" /\ reader = "run" => \E i \in 1..Len(inbox) : inbox[i] = Disconnected

\* A call that waits has a read under way or an answer that comes, or will be
\* drained, but for a call that is made after the drain.
PendingInv ==
  /\ consumer.pc = "pending" =>
       rpc # "done" /\ (Connected => request.st # "none" \/ Responses # {})
  /\ request.st \in {"held", "parked"} => request.wait

\* Who has noted a failure publishes it.
NotedInv ==
  /\ reader = "fail" => client.failure
  /\ client.failure /\ (\/ reader \in {"run", "recorded"}
                        \/ reader = "fail" /\ ~client.publish_failed) =>
       consumer.pc \in {"fail", "done"}
  /\ consumer.pc # "done" => NotFailed \/ (reader = "done" /\ FailedAt(Len(client.published)))

\* Where an event can be before it is published: in the hand of the task that
\* numbered it, on the wire, queued for the notification reader, or early.
InHand(n)  == \E t \in Task : task[t].event.seq = n
OnWire(n)  == \E i \in 1..Len(wire) : wire[i].type = "event" /\ wire[i].event.seq = n
Inbox(n)   == \E i \in 1..Len(inbox) : inbox[i].type = "event" /\ inbox[i].event.seq = n
Early(n)   == \E e \in client.pending : e.seq = n
Arrives(n) ==
  n <= client.last_published \/ InHand(n) \/ OnWire(n) \/ Inbox(n) \/ Early(n)

DeliveryInv ==
  /\ \A e \in client.pending : e.seq > client.last_published + 1
  /\ Connected /\ client.registered /\ reader = "run" => \A n \in 1..Len(log) : Arrives(n)

\* The events have come to their end, with the close or a failure.
Ended ==
  client.published # <<>> /\ LastOf(client.published).kind \in {"Closed", "Failed"}

\* A consumer that has not ended has not seen that end, and will.
NewsInv ==
  /\ consumer.pc = "subscribe" => consumer.kind = "events"
  /\ reader = "done" /\ consumer.pc \notin {"fail", "done"} => Ended
  /\ Ended /\ consumer.kind = "events" /\ consumer.pc # "done" =>
       consumer.pos < Len(client.published)
  /\ Ended /\ consumer.kind = "wake" /\ consumer.pc # "done" /\ ~client.wake =>
       /\ consumer.pc # "wait"
       /\ LastOf(client.published) = Failed => consumer.pc = "read"
       /\ \A i \in Responses : wire[i].ok => wire[i].closed

StuckInv == RunInv /\ LinkInv /\ PendingInv /\ NotedInv /\ DeliveryInv /\ NewsInv

LEMMA Parts ==
  ASSUME IInv
  PROVE  /\ TypeOK /\ LogInv /\ TaskInv /\ TravelInv
         /\ PublishedInv /\ FailureInv /\ CallInv /\ RouteKeptUntilClosed /\ TakenInv
BY DEF IInv, ServerInv, Rest

(* What is not changed.                                                     *)

LEMMA RunStays ==
  ASSUME RunInv, UNCHANGED task, process'.exited = process.exited,
         process'.closed = process.closed
  PROVE  RunInv'
BY DEF RunInv

LEMMA LinkStays ==
  ASSUME LinkInv, UNCHANGED <<rpc, reader, inbox>>
  PROVE  LinkInv'
BY DEF LinkInv

\* The answers on the wire, when no message is taken from it and no answer
\* added to it.
LEMMA AnswersOnWire ==
  ASSUME TypeOK, wire' = wire \/ \E e : wire' = Append(wire, Notification(e))
  PROVE  Responses' = Responses /\ \A i \in Responses : wire'[i] = wire[i]
<1>1. wire \in Seq(Message) /\ Len(wire) \in Nat
  BY DEF TypeOK
<1>2. CASE wire' = wire
  BY <1>2 DEF Responses
<1>3. ASSUME NEW e, wire' = Append(wire, Notification(e))
      PROVE  Responses' = Responses /\ \A i \in Responses : wire'[i] = wire[i]
  <2>1. /\ Len(wire') = Len(wire) + 1 /\ \A i \in 1..Len(wire) : wire'[i] = wire[i]
        /\ wire'[Len(wire) + 1] = Notification(e)
    BY <1>1, <1>3
  <2>2. wire'[Len(wire) + 1].type # "response"
    BY <2>1 DEF Notification
  <2>3. \A i : i \in Responses' <=> i \in Responses
    BY <1>1, <2>1, <2>2 DEF Responses
  <2> QED BY <2>1, <2>3 DEF Responses
<1> QED BY <1>2, <1>3

LEMMA NotedStays ==
  ASSUME NotedInv, UNCHANGED <<log, reader>>,
         client'.failure = client.failure, client'.publish_failed = client.publish_failed,
         client'.published = client.published,
         client'.last_published = client.last_published,
         \/ consumer'.pc = consumer.pc
         \/ consumer'.pc = "done"
         \/ consumer.pc \notin {"fail", "done"}
  PROVE  NotedInv'
<1>1. /\ NotFailed' <=> NotFailed
      /\ FailedAt(Len(client.published))' <=> FailedAt(Len(client.published))
  BY DEF NotFailed, FailedAt
<1> QED BY <1>1 DEF NotedInv

LEMMA PendingStays ==
  ASSUME PendingInv, UNCHANGED <<rpc, consumer, request>>, down => down',
         Connected' /\ Responses # {} => Responses' # {}
  PROVE  PendingInv'
BY DEF PendingInv, Connected

LEMMA DeliveryStays ==
  ASSUME DeliveryInv, UNCHANGED <<log, task, wire, inbox>>, Connected' => Connected,
         reader' = "run" => reader = "run",
         client'.registered => client.registered, client'.pending = client.pending,
         client'.last_published = client.last_published
  PROVE  DeliveryInv'
<1>1. \A n : Arrives(n)' <=> Arrives(n)
  BY DEF Arrives, InHand, OnWire, Inbox, Early
<1> QED BY <1>1 DEF DeliveryInv

LEMMA NewsStays ==
  ASSUME NewsInv, UNCHANGED <<client, consumer, reader>>,
         Responses' \subseteq Responses, \A i \in Responses' : wire'[i] = wire[i]
  PROVE  NewsInv'
BY DEF NewsInv, Ended

-----------------------------------------------------------------------------
(* The tasks of the process. *)

LEMMA RunNext ==
  ASSUME IInv, RunInv, TaskStep
  PROVE  RunInv'
<1>1. TypeOK /\ LogInv /\ TaskInv /\ TravelInv
  BY Parts
<1>2. /\ task \in [Task -> TaskState] /\ process \in RunningProcess
      /\ process.next_seq \in Nat
  BY <1>1 DEF TypeOK, RunningProcess
<1>3. ASSUME NEW t \in Task, NEW e, task' = [task EXCEPT ![t] = [pc |-> "notify", event |-> e]]
      PROVE  /\ \A u \in Task : task'[u].event # NoEvent => task'[u].pc = "notify"
             /\ task'[t].pc = "notify" /\ \A u \in Task : u # t => task'[u] = task[u]
  BY <1>2, <1>3 DEF RunInv
<1>4. ASSUME NEW t \in Task, NEW pc, task[t].pc # "notify", Goto(t, pc)
      PROVE  /\ \A u \in Task : task'[u].event # NoEvent => task'[u].pc = "notify"
             /\ task'[t].pc = pc /\ \A u \in Task : u # t => task'[u] = task[u]
  BY <1>2, <1>4 DEF RunInv, Goto, TaskState
<1>5. process.entry # "Running" => process.closed /\ process.exited
  BY <1>1, <1>2 DEF TaskInv, RunningProcess
<1>6. ASSUME NEW s \in Stream, ReceiveChunk(s) PROVE RunInv'
  <2>1. CASE process.entry = "Running"
    <3> DEFINE e == [seq |-> process.next_seq, kind |-> "Output"]
               n == process.next_seq + 1
               o == Retain(Append(process.output, process.next_seq))
    <3>1. task' = [task EXCEPT ![s] = [pc |-> "notify", event |-> e]]
      BY <1>6, <2>1 DEF ReceiveChunk, Emit
    <3>2. process' = [process EXCEPT !.next_seq = n, !.output = o]
      BY <1>6, <2>1 DEF ReceiveChunk
    <3>3. process'.exited = process.exited /\ process'.closed = process.closed
      <4> HIDE DEF n, o
      <4> QED BY <1>2, <3>2 DEF RunningProcess
    <3> HIDE DEF e
    <3> QED BY <1>3, <3>1, <3>3 DEF RunInv
  <2>2. CASE process.entry # "Running"
    <3>1. task[s].pc # "notify" /\ Goto(s, "done") /\ process' = process
      BY <1>6, <2>2 DEF ReceiveChunk
    <3> QED BY <1>4, <1>5, <2>2, <3>1 DEF RunInv
  <2> QED BY <2>1, <2>2
<1>7. ASSUME NEW s \in Stream, FinishOutputStream(s) PROVE RunInv'
  <2>1. CASE process.entry = "Running"
    <3> DEFINE n == IF process.open_streams > 0 THEN process.open_streams - 1
                    ELSE process.open_streams
    <3>1. task[s].pc # "notify" /\ Goto(s, "close")
          /\ process' = [process EXCEPT !.open_streams = n]
      BY <1>7, <2>1 DEF FinishOutputStream
    <3>2. process'.exited = process.exited /\ process'.closed = process.closed
      <4> HIDE DEF n
      <4> QED BY <1>2, <3>1 DEF RunningProcess
    <3> QED BY <1>4, <3>1, <3>2 DEF RunInv
  <2>2. CASE process.entry # "Running"
    <3>1. task[s].pc # "notify" /\ Goto(s, "done") /\ process' = process
      BY <1>7, <2>2 DEF FinishOutputStream
    <3> QED BY <1>4, <1>5, <2>2, <3>1 DEF RunInv
  <2> QED BY <2>1, <2>2
<1>8. CASE WatchExit
  <2>1. CASE process.entry = "Running"
    <3> DEFINE e == [seq |-> process.next_seq, kind |-> "Exited"]
               n == process.next_seq + 1
    <3>1. task' = [task EXCEPT !["exit"] = [pc |-> "notify", event |-> e]]
      BY <1>8, <2>1 DEF WatchExit, Emit
    <3>2. process' = [process EXCEPT !.next_seq = n, !.exited = TRUE]
      BY <1>8, <2>1 DEF WatchExit
    <3>3. process'.exited = TRUE
      <4> HIDE DEF n
      <4> QED BY <1>2, <3>2 DEF RunningProcess
    <3> HIDE DEF e
    <3> QED BY <1>3, <3>1, <3>3 DEF RunInv
  <2>2. CASE process.entry # "Running"
    <3>1. task["exit"].pc # "notify" /\ Goto("exit", "notify") /\ process' = process
      BY <1>8, <2>2 DEF WatchExit
    <3> QED BY <1>4, <1>5, <2>2, <3>1 DEF RunInv
  <2> QED BY <2>1, <2>2
<1>9. ASSUME NEW t \in Task, Notify(t) PROVE RunInv'
  <2> DEFINE e == task[t].event
             pc == AfterNotify(e.kind)
             r == process.retiring \/ e.kind = "Closed"
  <2>1. /\ task[t].pc = "notify" /\ process' = [process EXCEPT !.retiring = r]
        /\ task' = [task EXCEPT ![t] = [pc |-> pc, event |-> NoEvent]]
    BY <1>9 DEF Notify
  <2>2. process'.exited = process.exited /\ process'.closed = process.closed
    <3> HIDE DEF r
    <3> QED BY <1>2, <2>1 DEF RunningProcess
  <2>3. task'[t] = [pc |-> pc, event |-> NoEvent] /\ \A u \in Task : u # t => task'[u] = task[u]
    <3> HIDE DEF pc
    <3> QED BY <1>2, <2>1
  <2>4. e.kind = "Closed" => process.closed
    <3> SUFFICES ASSUME e.kind = "Closed" PROVE process.closed
      OBVIOUS
    <3>1. Numbered(e)
      BY <1>1 DEF TravelInv, NoEvent
    <3> QED BY <1>1, <3>1 DEF Numbered, LogInv, Has
  <2>5. e.kind # "Closed" => pc # "done"
    BY DEF AfterNotify
  <2>6. ~process.exited => t # "exit"
    BY <2>1 DEF RunInv
  <2> HIDE DEF e, pc
  <2> QED BY <2>2, <2>3, <2>4, <2>5, <2>6 DEF RunInv
<1>10. ASSUME NEW t \in Task, MaybeEmitClosed(t) PROVE RunInv'
  <2>1. CASE Closes
    <3> DEFINE e == [seq |-> process.next_seq, kind |-> "Closed"]
               n == process.next_seq + 1
    <3>1. task' = [task EXCEPT ![t] = [pc |-> "notify", event |-> e]]
      BY <1>10, <2>1 DEF MaybeEmitClosed, Emit
    <3>2. process' = [process EXCEPT !.next_seq = n, !.closed = TRUE] /\ process.exited
      BY <1>10, <2>1 DEF MaybeEmitClosed, Closes
    <3>3. process'.exited = TRUE /\ process'.closed = TRUE
      <4> HIDE DEF n
      <4> QED BY <1>2, <3>2 DEF RunningProcess
    <3> HIDE DEF e
    <3> QED BY <1>3, <3>1, <3>3 DEF RunInv
  <2>2. CASE ~Closes
    <3>1. task[t].pc = "close" /\ Goto(t, "done") /\ process' = process
      BY <1>10, <2>2 DEF MaybeEmitClosed
    <3>2. ~process.exited => t # "exit"
      BY <3>1 DEF RunInv
    <3>3. ~process.closed => \E u \in Task : u # t /\ task[u].pc # "done"
      <4> SUFFICES ASSUME ~process.closed PROVE \E u \in Task : u # t /\ task[u].pc # "done"
        OBVIOUS
      <4>1. CASE ~process.exited
        BY <3>2, <4>1 DEF RunInv
      <4>2. CASE process.open_streams # 0
        <5>1. Open # {}
          BY <1>1, <4>2, FS_EmptySet DEF TaskInv
        <5> QED BY <3>1, <5>1 DEF Open
      <4> QED BY <1>5, <2>2, <4>1, <4>2 DEF Closes
    <3>4. /\ \A u \in Task : task'[u].event # NoEvent => task'[u].pc = "notify"
          /\ \A u \in Task : u # t => task'[u] = task[u]
      BY <1>4, <3>1
    <3> QED BY <3>1, <3>2, <3>3, <3>4 DEF RunInv
  <2> QED BY <2>1, <2>2
<1> QED BY <1>6, <1>7, <1>8, <1>9, <1>10 DEF TaskStep

\* What a task does to what it shares with the others.
LEMMA TaskEffect ==
  ASSUME IInv, TaskStep
  PROVE  /\ UNCHANGED <<down, rpc, inbox, reader, client, consumer>> /\ Connected
         /\ wire' = wire \/ \E e : wire' = Append(wire, Notification(e))
         /\ request'.st = "none" => request.st = "none"
         /\ request' = request
            \/ request' = [request EXCEPT !.st = IF @ = "parked" THEN "check" ELSE @]
<1>1. ServerInv /\ TypeOK'
  BY TypeServer DEF IInv, ServerInv
<1>2. request' = request
      \/ request' = [request EXCEPT !.st = IF @ = "parked" THEN "check" ELSE @]
  BY DEF TaskStep, ReceiveChunk, FinishOutputStream, WatchExit, Notify, MaybeEmitClosed
<1> QED BY <1>1, <1>2, TaskEvents DEF TaskStep

\* An event that is numbered is in the hand of the task that numbered it, and it
\* leaves that hand for the wire.
LEMMA TaskHands ==
  ASSUME IInv, RunInv, TaskStep
  PROVE  /\ \A n \in 1..Len(log) : InHand(n) => InHand(n)' \/ OnWire(n)'
         /\ \A n \in 1..Len(log') : n \in 1..Len(log) \/ InHand(n)'
<1>1. TypeOK /\ LogInv
  BY Parts
<1>2. /\ task \in [Task -> TaskState] /\ wire \in Seq(Message) /\ Len(wire) \in Nat
      /\ Len(log) \in Nat
  BY <1>1 DEF TypeOK
<1>3. ASSUME NEW t \in Task, NEW kind, Emit(t, kind), task[t].pc # "notify"
      PROVE  /\ \A n \in 1..Len(log) : InHand(n) => InHand(n)'
             /\ \A n \in 1..Len(log') : n \in 1..Len(log) \/ InHand(n)'
  <2>1. /\ Len(log') = Len(log) + 1
        /\ task' = [task EXCEPT ![t] =
             [pc |-> "notify", event |-> [seq |-> Len(log) + 1, kind |-> kind]]]
    BY <1>1, <1>3, Emitted
  <2>2. task'[t].event.seq = Len(log) + 1 /\ \A u \in Task : u # t => task'[u] = task[u]
    BY <1>2, <2>1
  <2>3. task[t].event.seq = 0
    BY <1>3 DEF RunInv, NoEvent
  <2> QED BY <1>2, <2>1, <2>2, <2>3 DEF InHand
<1>4. ASSUME NEW t \in Task, NEW pc, Goto(t, pc), log' = log
      PROVE  /\ \A n \in 1..Len(log) : InHand(n) => InHand(n)'
             /\ \A n \in 1..Len(log') : n \in 1..Len(log)
  <2>1. \A u \in Task : task'[u].event = task[u].event
    BY <1>2, <1>4 DEF Goto, TaskState
  <2> QED BY <1>4, <2>1 DEF InHand
<1>5. ASSUME NEW t \in Task, Notify(t)
      PROVE  /\ \A n \in 1..Len(log) : InHand(n) => InHand(n)' \/ OnWire(n)'
             /\ \A n \in 1..Len(log') : n \in 1..Len(log)
  <2> DEFINE e == task[t].event
             pc == AfterNotify(e.kind)
  <2>1. /\ log' = log /\ task' = [task EXCEPT ![t] = [pc |-> pc, event |-> NoEvent]]
        /\ e # NoEvent => wire' = Append(wire, Notification(e))
    BY <1>5 DEF Notify
  <2>2. \A u \in Task : u # t => task'[u] = task[u]
    <3> HIDE DEF pc
    <3> QED BY <1>2, <2>1
  <2>3. ASSUME NEW n \in 1..Len(log), e.seq = n PROVE OnWire(n)'
    <3>1. e # NoEvent
      BY <1>2, <2>3 DEF NoEvent
    <3>2. Len(wire') = Len(wire) + 1 /\ wire'[Len(wire) + 1] = Notification(e)
      <4> HIDE DEF e
      <4> QED BY <1>2, <2>1, <3>1
    <3>3. Len(wire) + 1 \in 1..Len(wire')
      BY <1>2, <3>2
    <3> QED BY <2>3, <3>2, <3>3 DEF OnWire, Notification
  <2> HIDE DEF pc
  <2> QED BY <2>1, <2>2, <2>3 DEF InHand
<1>6. ASSUME NEW s \in Stream, ReceiveChunk(s) \/ FinishOutputStream(s)
      PROVE  \/ \E kind : Emit(s, kind) /\ task[s].pc # "notify"
             \/ log' = log /\ \E pc : Goto(s, pc)
  BY <1>6 DEF ReceiveChunk, FinishOutputStream
<1>7. CASE WatchExit
  <2>1. \/ Emit("exit", "Exited") /\ task["exit"].pc # "notify"
        \/ Goto("exit", "notify") /\ log' = log
    BY <1>7 DEF WatchExit
  <2> QED BY <1>3, <1>4, <2>1
<1>8. ASSUME NEW t \in Task, MaybeEmitClosed(t)
      PROVE  \/ Emit(t, "Closed") /\ task[t].pc # "notify"
             \/ Goto(t, "done") /\ log' = log
  BY <1>8 DEF MaybeEmitClosed
<1> QED BY <1>3, <1>4, <1>5, <1>6, <1>7, <1>8 DEF TaskStep

LEMMA StuckTask ==
  ASSUME IInv, IInv', StuckInv, TaskStep
  PROVE  StuckInv'
<1> USE DEF StuckInv
<1>1. /\ TypeOK /\ TypeOK' /\ LogInv /\ CallInv /\ PublishedInv /\ FailureInv /\ TaskInv
      /\ Evolves
  BY Parts, ServerGoes DEF IInv, ServerInv
<1>2. /\ UNCHANGED <<down, rpc, inbox, reader, client, consumer>> /\ Connected
      /\ wire' = wire \/ \E e : wire' = Append(wire, Notification(e))
      /\ request'.st = "none" => request.st = "none"
  BY TaskEffect
<1>3. Responses' = Responses /\ \A i \in Responses : wire'[i] = wire[i]
  BY <1>1, <1>2, AnswersOnWire
<1>4. RunInv'
  BY RunNext
<1>5. LinkInv'
  BY <1>2, LinkStays
<1>6. PendingInv'
  <2>1. request'.st \in {"held", "parked"} => request.wait /\ request'.wait = request.wait
    BY <1>1, TaskEffect DEF PendingInv, TypeOK, Request
  <2> QED BY <1>2, <1>3, <2>1 DEF PendingInv, Connected
<1>7. NotedInv'
  <2>1. /\ client.last_published \in Nat /\ client.last_published <= Len(log)
        /\ Len(log) \in Nat /\ Len(client.published) \in Nat
        /\ \A i \in 1..Len(log) : log'[i] = log[i]
    BY <1>1 DEF PublishedInv, Evolves, TypeOK, SessionState
  <2>2. NotFailed => NotFailed'
    BY <1>2, <2>1 DEF NotFailed
  <2>3. FailedAt(Len(client.published)) => FailedAt(Len(client.published))'
    BY <1>2, <2>1 DEF FailedAt
  <2> QED BY <1>2, <2>2, <2>3 DEF NotedInv
<1>8. DeliveryInv'
  <2>1. \A n : OnWire(n) => OnWire(n)'
    <3>1. wire \in Seq(Message)
      BY <1>1 DEF TypeOK
    <3> QED BY <1>2, <3>1 DEF OnWire
  <2>2. \A n : (Inbox(n) <=> Inbox(n)') /\ (Early(n) <=> Early(n)')
    BY <1>2 DEF Inbox, Early
  <2>3. \A n \in 1..Len(log) : Arrives(n) => Arrives(n)'
    BY <1>2, <2>1, <2>2, TaskHands DEF Arrives
  <2>4. \A n \in 1..Len(log') : n \in 1..Len(log) \/ Arrives(n)'
    BY TaskHands DEF Arrives
  <2> QED BY <1>2, <2>3, <2>4 DEF DeliveryInv
<1>9. NewsInv'
  BY <1>2, <1>3, NewsStays
<1> QED BY <1>4, <1>5, <1>6, <1>7, <1>8, <1>9

LEMMA StuckRemove ==
  ASSUME IInv, StuckInv, RemoveClosedProcess
  PROVE  StuckInv'
<1> USE DEF StuckInv
<1>1. /\ UNCHANGED <<task, log, request, wire, down, rpc, inbox, reader, client, consumer>>
      /\ process' = [process EXCEPT !.entry = "Gone"]
  BY DEF RemoveClosedProcess, clientVars
<1>2. process'.exited = process.exited /\ process'.closed = process.closed
  BY <1>1, Parts DEF TypeOK, RunningProcess
<1>3. Responses' = Responses
  BY <1>1 DEF Responses
<1>4. RunInv' /\ LinkInv'
  BY <1>1, <1>2, RunStays, LinkStays
<1>5. PendingInv'
  BY <1>1, <1>3, PendingStays
<1>6. NotedInv' /\ DeliveryInv' /\ NewsInv'
  BY <1>1, <1>3, NotedStays, DeliveryStays, NewsStays DEF Connected
<1> QED BY <1>4, <1>5, <1>6

\* What ends the events is the close, unless a failure does.
LEMMA EndedClosed ==
  ASSUME TypeOK, LogInv, PublishedInv, Ended, NotFailed
  PROVE  process.closed /\ LastOf(client.published) # Failed
<1> DEFINE n == Len(client.published)
<1>1. client.published \in Seq(Event) /\ n \in Nat \ {0} /\ Len(log) \in Nat
  BY DEF TypeOK, SessionState, Ended
<1>2. n \in 1..Len(log) /\ client.published[n] = log[n]
  BY <1>1 DEF NotFailed, PublishedInv
<1>3. log[n].kind = "Closed"
  BY <1>2 DEF Ended, LastOf, LogInv
<1> QED BY <1>2, <1>3 DEF LogInv, Has, LastOf, Failed

LEMMA FailedLast ==
  FailedAt(Len(client.published)) => LastOf(client.published) = Failed
BY DEF FailedAt, LastOf

\* process/read: an answer to a read that begins after the close says so.
LEMMA StuckRead ==
  ASSUME IInv, IInv', StuckInv, ReadStep
  PROVE  StuckInv'
<1> USE DEF StuckInv
<1>1. /\ TypeOK /\ LogInv /\ CallInv /\ PublishedInv /\ FailureInv
      /\ wire \in Seq(Message) /\ Len(wire) \in Nat /\ request \in Request
  BY Parts DEF TypeOK
<1>2. /\ UNCHANGED <<process, task, log, down, rpc, inbox, reader, client, consumer>>
      /\ Connected /\ request.st # "none"
  BY DEF ReadStep, ExecRead, AwaitNotified, ReadDeadline, clientVars
<1>3. \/ wire' = wire /\ request'.st # "none"
      \/ wire' = Append(wire, Error)
      \/ wire' = Append(wire, ReadNow(request.after))
  <2>1. CASE ExecRead
    BY <1>1, <2>1 DEF ExecRead, Respond, Request
  <2>2. CASE AwaitNotified
    BY <1>1, <2>2 DEF AwaitNotified, Request
  <2>3. CASE ReadDeadline
    BY <1>1, <2>3 DEF ReadDeadline, Request
  <2> QED BY <2>1, <2>2, <2>3 DEF ReadStep
<1>4. Responses = {}
  BY <1>1, <1>2 DEF CallInv
<1>5. RunInv' /\ LinkInv'
  BY <1>2, RunStays, LinkStays
<1>6. \/ wire' = wire /\ request'.st # "none" /\ Responses' = {}
      \/ /\ Responses' = {Len(wire) + 1}
         /\ wire'[Len(wire) + 1].ok => wire'[Len(wire) + 1].closed = process.closed
  <2>1. CASE wire' = wire /\ request'.st # "none"
    BY <1>4, <2>1 DEF Responses
  <2>2. ASSUME NEW r, r.type = "response", wire' = Append(wire, r)
        PROVE  Responses' = {Len(wire) + 1} /\ wire'[Len(wire) + 1] = r
    <3>1. /\ Len(wire') = Len(wire) + 1 /\ wire'[Len(wire) + 1] = r
          /\ \A i \in 1..Len(wire) : wire'[i] = wire[i]
      BY <1>1, <2>2
    <3>2. \A i \in 1..Len(wire) : wire[i].type # "response"
      BY <1>4 DEF Responses
    <3> QED BY <1>1, <2>2, <3>1, <3>2 DEF Responses
  <2>3. CASE wire' = Append(wire, Error)
    BY <2>2, <2>3 DEF Error
  <2>4. CASE wire' = Append(wire, ReadNow(request.after))
    BY <2>2, <2>4 DEF ReadNow, Response
  <2> QED BY <1>3, <2>1, <2>3, <2>4
<1>7. PendingInv'
  <2>1. request'.st \in {"held", "parked"} => request'.wait
    <3>1. CASE ExecRead
      BY <1>1, <3>1 DEF ExecRead, Respond, Request, NoRead
    <3>2. CASE AwaitNotified
      BY <1>1, <3>2 DEF AwaitNotified, Request, PendingInv
    <3>3. CASE ReadDeadline
      BY <1>1, <3>3 DEF ReadDeadline, Request
    <3> QED BY <3>1, <3>2, <3>3 DEF ReadStep
  <2> QED BY <1>2, <1>6, <2>1 DEF PendingInv
<1>8. NotedInv'
  BY <1>2, NotedStays
<1>9. DeliveryInv'
  <2>1. \A n : OnWire(n) => OnWire(n)'
    BY <1>1, <1>3 DEF OnWire
  <2>2. \A n : Arrives(n) => Arrives(n)'
    BY <1>2, <2>1 DEF Arrives, InHand, Inbox, Early
  <2> QED BY <1>2, <2>2 DEF DeliveryInv
<1>10. NewsInv'
  <2>1. consumer.pc = "pending"
    BY <1>1, <1>2 DEF CallInv
  <2>2. ASSUME Ended, consumer.kind = "wake", ~client.wake PROVE process.closed
    <3>1. LastOf(client.published) # Failed
      BY <2>1, <2>2 DEF NewsInv
    <3>2. NotFailed
      BY <2>1, <3>1, FailedLast DEF NotedInv
    <3> QED BY <1>1, <2>2, <3>2, EndedClosed
  <2>3. Ended' <=> Ended
    BY <1>2 DEF Ended
  <2>4. ASSUME Ended, consumer.kind = "wake", ~client.wake, NEW i \in Responses', wire'[i].ok
        PROVE  wire'[i].closed
    BY <1>6, <2>2, <2>4
  <2> QED BY <1>2, <2>3, <2>4 DEF NewsInv
<1> QED BY <1>5, <1>7, <1>8, <1>9, <1>10

LEMMA StuckTransport ==
  ASSUME IInv, StuckInv, TransportCloses
  PROVE  StuckInv'
<1> USE DEF StuckInv
<1>1. /\ UNCHANGED <<process, task, log, request, rpc, inbox, reader, client, consumer>>
      /\ down'
  BY DEF TransportCloses, serverVars, clientVars
<1>2. Responses' \subseteq Responses /\ \A i \in Responses' : wire'[i] = wire[i]
  <2>1. wire \in Seq(Message)
    BY Parts DEF TypeOK
  <2>2. PICK n \in 0..Len(wire) : wire' = SubSeq(wire, 1, n)
    BY DEF TransportCloses
  <2>3. Len(wire') = n /\ \A i \in 1..n : wire'[i] = wire[i]
    BY <2>1, <2>2
  <2> QED BY <2>1, <2>3 DEF Responses
<1>3. RunInv' /\ LinkInv' /\ NotedInv' /\ NewsInv'
  BY <1>1, <1>2, RunStays, LinkStays, NotedStays, NewsStays
<1>4. PendingInv'
  BY <1>1 DEF PendingInv, Connected
<1>5. DeliveryInv'
  BY <1>1 DEF DeliveryInv, Connected
<1> QED BY <1>3, <1>4, <1>5

-----------------------------------------------------------------------------
(* The readers. *)

LEMMA StuckMessage ==
  ASSUME IInv, StuckInv, ReadMessage
  PROVE  StuckInv'
<1> USE DEF StuckInv
<1> DEFINE m == Head(wire)
<1>1. /\ UNCHANGED <<process, task, log, request, down, rpc, reader, client>>
      /\ rpc = "run" /\ wire' = Tail(wire) /\ wire # <<>>
      /\ (Connected' <=> Connected)
  BY DEF ReadMessage, serverVars, Connected
<1>2. TypeOK /\ CallInv /\ inbox \in Seq(Queued)
  BY Parts DEF TypeOK
<1>3. /\ wire \in Seq(Message) /\ Len(wire) \in Nat \ {0} /\ m = wire[1] /\ m \in Message
      /\ Len(wire') = Len(wire) - 1
      /\ \A i \in 1..Len(wire') : i + 1 \in 1..Len(wire) /\ wire'[i] = wire[i + 1]
      /\ \A i \in 1..Len(wire) : i = 1 \/ (i - 1 \in 1..Len(wire') /\ wire'[i - 1] = wire[i])
  BY <1>1, <1>2 DEF TypeOK
<1>4. \A i \in Responses' : i + 1 \in Responses /\ wire'[i] = wire[i + 1]
  BY <1>3 DEF Responses
<1>5. RunInv'
  BY <1>1, RunStays
<1>6. CASE m.type = "event"
  <2>1. Queue(m) /\ consumer' = consumer
    BY <1>1, <1>6 DEF ReadMessage
  <2>2. /\ \A i \in 1..Len(inbox') :
             inbox'[i] = m \/ (i \in 1..Len(inbox) /\ inbox'[i] = inbox[i])
        /\ reader = "run" =>
             /\ Len(inbox) + 1 \in 1..Len(inbox') /\ inbox'[Len(inbox) + 1] = m
             /\ \A i \in 1..Len(inbox) : i \in 1..Len(inbox') /\ inbox'[i] = inbox[i]
    <3>1. m \in Queued
      <4> HIDE DEF m
      <4> QED BY <1>3, <1>6, MessageKind
    <3> HIDE DEF m
    <3> QED BY <1>2, <2>1, <3>1, Queues
  <2>3. LinkInv'
    <3> HIDE DEF m
    <3> QED BY <1>1, <1>6, <2>2 DEF LinkInv
  <2>4. Responses # {} => Responses' # {}
    <3> SUFFICES ASSUME NEW i \in Responses PROVE i - 1 \in Responses'
      OBVIOUS
    <3>1. i # 1
      BY <1>3, <1>6 DEF Responses
    <3> QED BY <1>3, <3>1 DEF Responses
  <2>5. PendingInv'
    BY <1>1, <2>1, <2>4 DEF PendingInv, Connected
  <2>6. NotedInv'
    BY <1>1, <2>1, NotedStays
  <2>7. DeliveryInv'
    <3>1. ASSUME reader = "run" PROVE \A n : OnWire(n) => OnWire(n)' \/ Inbox(n)'
      <4> SUFFICES ASSUME NEW n, NEW i \in 1..Len(wire), wire[i].type = "event",
                          wire[i].event.seq = n
                   PROVE  OnWire(n)' \/ Inbox(n)'
        BY DEF OnWire
      <4>1. CASE i = 1
        BY <1>3, <1>6, <2>2, <3>1, <4>1 DEF Inbox
      <4>2. CASE i # 1
        BY <1>3, <4>2 DEF OnWire
      <4> QED BY <4>1, <4>2
    <3>2. ASSUME reader = "run" PROVE \A n : Inbox(n) => Inbox(n)'
      BY <2>2, <3>2 DEF Inbox
    <3>3. ASSUME reader = "run" PROVE \A n : Arrives(n) => Arrives(n)'
      BY <1>1, <3>1, <3>2, <3>3 DEF Arrives, InHand, Early
    <3> QED BY <1>1, <3>3 DEF DeliveryInv
  <2>8. NewsInv'
    BY <1>1, <1>4, <2>1 DEF NewsInv, Ended
  <2> QED BY <1>5, <2>3, <2>5, <2>6, <2>7, <2>8
<1>7. CASE m.type # "event"
  <2>1. m.type = "response"
    BY <1>3, <1>7, MessageKind
  <2>2. inbox' = inbox /\ consumer' = ReceiveAnswer(m)
    BY <1>1, <1>7 DEF ReadMessage
  <2>3. 1 \in Responses
    BY <1>3, <2>1 DEF Responses
  <2>4. consumer.pc = "pending" /\ Responses' = {}
    <3>1. consumer.pc = "pending" /\ \A j \in Responses : j = 1
      BY <1>2, <2>3 DEF CallInv
    <3>2. \A i \in Responses' : i + 1 \in Responses /\ i \in Nat \ {0}
      BY <1>3, <1>4 DEF Responses
    <3>3. \A i \in Responses' : FALSE
      BY <3>1, <3>2
    <3> QED BY <3>1, <3>3
  <2>5. /\ consumer'.kind = consumer.kind /\ consumer'.pos = consumer.pos
        /\ consumer'.pc = IF m.ok /\ ~m.closed THEN "wait" ELSE "done"
    <3>1. consumer \in ConsumerState
      BY <1>2 DEF TypeOK
    <3>2. CASE ~m.ok
      BY <2>2, <3>1, <3>2 DEF ReceiveAnswer, ConsumerState
    <3>3. CASE m.ok
      <4> DEFINE got == Take(consumer.got, {seq \in m.chunks : consumer.kind = "wake" \/ seq > consumer.after})
                 after == IF consumer.kind = "wake" THEN m.next_seq - 1
                          ELSE MaxOf(consumer.after, m.next_seq - 1)
                 pc == IF m.closed THEN "done" ELSE "wait"
                 end == IF m.closed THEN "closed" ELSE "none"
      <4>1. consumer' = [consumer EXCEPT !.got = got, !.after = after, !.pc = pc, !.end = end]
        BY <2>2, <3>3 DEF ReceiveAnswer
      <4>2. consumer'.kind = consumer.kind /\ consumer'.pos = consumer.pos /\ consumer'.pc = pc
        <5> HIDE DEF got, after, pc, end
        <5> QED BY <3>1, <4>1 DEF ConsumerState
      <4> QED BY <3>3, <4>2
    <3> QED BY <3>2, <3>3
  <2>6. LinkInv'
    BY <1>1, <2>2, LinkStays
  <2>7. PendingInv'
    BY <1>1, <2>5 DEF PendingInv
  <2>8. NotedInv'
    BY <1>1, <2>4, NotedStays
  <2>9. DeliveryInv'
    <3>1. \A n : OnWire(n) => OnWire(n)'
      BY <1>3, <1>7 DEF OnWire
    <3>2. \A n : Arrives(n) => Arrives(n)'
      BY <1>1, <2>2, <3>1 DEF Arrives, InHand, Inbox, Early
    <3> QED BY <1>1, <3>2 DEF DeliveryInv
  <2>10. NewsInv'
    <3>1. Ended' <=> Ended
      BY <1>1 DEF Ended
    <3>2. Ended /\ consumer.kind = "wake" /\ ~client.wake /\ m.ok => m.closed
      BY <1>3, <2>3, <2>4 DEF NewsInv
    <3> QED BY <1>1, <2>4, <2>5, <3>1, <3>2 DEF NewsInv
  <2> QED BY <1>5, <2>6, <2>7, <2>8, <2>9, <2>10
<1> QED BY <1>6, <1>7

LEMMA StuckEnd ==
  ASSUME IInv, StuckInv, ReadEnd \/ ReadBreaks
  PROVE  StuckInv'
<1> USE DEF StuckInv
<1>1. /\ UNCHANGED <<process, task, log, request, down, reader, client, consumer>>
      /\ rpc' \in {"drain", "broken"} /\ Queue(Disconnected)
      /\ wire' = <<>> \/ wire' = wire
  BY DEF ReadEnd, ReadBreaks, serverVars
<1>2. /\ Responses' \subseteq Responses /\ \A i \in Responses' : wire'[i] = wire[i]
      /\ ~Connected'
  BY <1>1 DEF Responses, Connected
<1>3. RunInv' /\ NotedInv' /\ NewsInv'
  BY <1>1, <1>2, RunStays, NotedStays, NewsStays
<1>4. LinkInv'
  <2>1. Disconnected \in Queued /\ TypeOK
    BY Parts DEF Queued
  <2>2. reader = "run" => \E i \in 1..Len(inbox') : inbox'[i] = Disconnected
    BY <1>1, <2>1, Queues
  <2> QED BY <1>1, <2>2 DEF LinkInv
<1>5. PendingInv' /\ DeliveryInv'
  BY <1>1, <1>2 DEF PendingInv, DeliveryInv
<1> QED BY <1>3, <1>4, <1>5

LEMMA StuckDrain ==
  ASSUME IInv, StuckInv, DrainPending
  PROVE  StuckInv'
<1> USE DEF StuckInv
<1>1. /\ UNCHANGED <<process, task, log, request, wire, down, inbox, reader, client>>
      /\ rpc \in {"drain", "broken"} /\ rpc' \in {"done", "gone"}
      /\ consumer \in ConsumerState
      /\ consumer' = [consumer EXCEPT !.pc = IF @ = "pending" THEN "lost" ELSE @]
  BY Parts DEF DrainPending, serverVars, TypeOK
<1>2. /\ consumer'.kind = consumer.kind /\ consumer'.pos = consumer.pos
      /\ consumer'.pc = IF consumer.pc = "pending" THEN "lost" ELSE consumer.pc
  BY <1>1 DEF ConsumerState
<1>3. RunInv' /\ NotedInv'
  BY <1>1, <1>2, RunStays, NotedStays
<1>4. LinkInv' /\ PendingInv' /\ DeliveryInv'
  BY <1>1, <1>2 DEF LinkInv, PendingInv, DeliveryInv, Connected
<1>5. NewsInv'
  BY <1>1, <1>2 DEF NewsInv, Ended, Responses
<1> QED BY <1>3, <1>4, <1>5

\* The run of events that is published is the longest: the next number is
\* not there.
LEMMA ContiguousEnds ==
  ASSUME NEW last \in Nat, NEW events, NEW n \in Nat,
         \A e \in events : e.seq \in 1..n
  PROVE  \A e \in events : e.seq # Contiguous(last, events) + 1
<1> DEFINE known == {e.seq : e \in events}
           reached == {last} \union {m \in known : (last + 1)..m \subseteq known}
           to == CHOOSE m \in reached : \A k \in reached : k <= m
           bound == IF last <= n THEN n ELSE last
<1>1. reached \in SUBSET Nat /\ reached # {} /\ last \in reached
  OBVIOUS
<1>2. bound \in Nat /\ \A k \in reached : k <= bound
  OBVIOUS
<1>3. \E m \in reached : \A k \in reached : k <= m
  <2> HIDE DEF reached, bound
  <2> QED BY <1>1, <1>2, Greatest
<1>4. to \in reached /\ \A k \in reached : k <= to
  <2> HIDE DEF reached
  <2> QED BY <1>3
<1>5. to \in Nat /\ last <= to
  <2> HIDE DEF reached, to
  <2> QED BY <1>1, <1>4
<1>6. (last + 1)..to \subseteq known
  <2>1. CASE to = last
    <3> HIDE DEF to, known
    <3> QED BY <2>1
  <2>2. CASE to # last
    <3> HIDE DEF to, known
    <3> QED BY <2>2, <1>4
  <2> QED BY <2>1, <2>2
<1>7. to + 1 \notin known
  <2> SUFFICES ASSUME to + 1 \in known PROVE FALSE
    OBVIOUS
  <2>1. (last + 1)..(to + 1) \subseteq known
    <3> HIDE DEF to, known
    <3> QED BY <1>5, <1>6
  <2>2. to + 1 \in reached
    <3> HIDE DEF to, known
    <3> QED BY <2>1
  <2> HIDE DEF to, reached
  <2> QED BY <1>4, <1>5, <2>2
<1>8. Contiguous(last, events) = to
  BY DEF Contiguous
<1> HIDE DEF to
<1> QED BY <1>7, <1>8

\* What publish_ordered_event is given is published, or held.
LEMMA PublishOrderedHolds ==
  ASSUME NEW c \in SessionState, NEW e \in Event, NEW n \in Nat,
         \A x \in c.pending : x.seq \in 1..n /\ x.seq > c.last_published + 1,
         e.seq \in 1..n
  PROVE  LET d == PublishOrdered(c, e) IN
         /\ d.wake = c.wake
         /\ \A x \in d.pending : x.seq > d.last_published + 1
         /\ \A x \in c.pending \union {e} :
              x.seq <= d.last_published \/ \E y \in d.pending : y.seq = x.seq
<1> DEFINE last == c.last_published
           pending == IF \E x \in c.pending : x.seq = e.seq
                      THEN c.pending ELSE c.pending \union {e}
           to == Contiguous(last, pending)
           ready == [i \in 1..(to - last) |-> EventAt(pending, last + i)]
           rest == {x \in pending : x.seq > to}
           d == PublishOrdered(c, e)
<1>1. last \in Nat /\ c.pending \subseteq Event /\ c.published \in Seq(Event)
  BY DEF SessionState
<1>2. \A x \in pending : x.seq \in 1..n
  BY <1>1
<1>3. to \in Nat /\ last <= to
  <2> HIDE DEF last, pending
  <2> QED BY <1>1, <1>2, ContiguousReached
<1>4. \A x \in pending : x.seq # to + 1
  <2> HIDE DEF last, pending
  <2> QED BY <1>1, <1>2, ContiguousEnds
<1>5. CASE e.seq <= last
  <2>1. d = c
    BY <1>5 DEF PublishOrdered
  <2> QED BY <1>5, <2>1
<1>6. CASE ~(e.seq <= last)
  <2> DEFINE all == c.published \o ready
  <2>1. d = [c EXCEPT !.last_published = to, !.pending = rest, !.published = all]
    BY <1>6 DEF PublishOrdered
  <2>2. d.wake = c.wake /\ d.pending = rest /\ d.last_published = to
    <3> HIDE DEF d, all, rest, to
    <3> QED BY <2>1 DEF SessionState
  <2>3. \A x \in rest : x.seq > to + 1
    <3> HIDE DEF to, pending
    <3> QED BY <1>2, <1>3, <1>4
  <2>4. \A x \in c.pending \union {e} : \E y \in pending : y.seq = x.seq
    OBVIOUS
  <2>5. \A x \in c.pending \union {e} :
          x.seq <= to \/ \E y \in rest : y.seq = x.seq
    <3> HIDE DEF to, pending
    <3> QED BY <1>2, <1>3, <2>4
  <2> HIDE DEF d, rest, to
  <2>6. /\ d.wake = c.wake
        /\ \A x \in d.pending : x.seq > d.last_published + 1
        /\ \A x \in c.pending \union {e} :
             x.seq <= d.last_published \/ \E y \in d.pending : y.seq = x.seq
    BY <2>2, <2>3, <2>5
  <2> QED BY <2>6 DEF d
<1> QED BY <1>5, <1>6

\* The reader of the notifications handles one of a session it knows.
LEMMA HandleEffect ==
  ASSUME IInv, DeliveryInv, HandleNotification, client.registered
  PROVE  /\ client'.failure = client.failure
         /\ client'.publish_failed = client.publish_failed
         /\ client'.wake /\ Grows /\ (NotFailed => NotFailed')
         /\ client'.published \in Seq(Event)
         /\ client'.last_published \in Nat /\ client.last_published <= client'.last_published
         /\ \A x \in client'.pending : x.seq > client'.last_published + 1
         /\ \A x \in client.pending \union {Head(inbox).event} :
              x.seq <= client'.last_published \/ \E y \in client'.pending : y.seq = x.seq
<1> DEFINE e == Head(inbox).event
           c == [client EXCEPT !.wake = TRUE]
           d == PublishOrdered(c, e)
           b == ~ClosePublished(client, d, e)
<1>1. /\ UNCHANGED log /\ inbox # <<>> /\ Head(inbox).type = "event"
      /\ client' = [d EXCEPT !.registered = b]
  BY DEF HandleNotification, serverVars
<1>2. /\ TypeOK /\ client \in SessionState /\ Len(log) \in Nat /\ inbox \in Seq(Queued)
      /\ PublishedInv /\ TravelInv
  BY Parts DEF TypeOK
<1>3. inbox[1] \in Queued /\ 1 \in 1..Len(inbox) /\ Head(inbox) = inbox[1]
  BY <1>1, <1>2
<1>4. e \in Event /\ Numbered(e)
  <2>1. PICK m \in Queued : m = inbox[1]
    BY <1>3
  <2>2. m \in [type: {"event"}, event: Event]
    BY <1>1, <1>3, <2>1 DEF Queued, Disconnected
  <2> QED BY <1>1, <1>2, <1>3, <2>1, <2>2 DEF TravelInv
<1> HIDE DEF d, e
<1>5. /\ c \in SessionState /\ c.published = client.published /\ c.wake = TRUE
      /\ c.last_published = client.last_published /\ c.pending = client.pending
      /\ c.failure = client.failure /\ c.publish_failed = client.publish_failed
  BY <1>2 DEF SessionState
<1>6. e.seq \in 1..Len(log) /\ \A x \in c.pending : x.seq \in 1..Len(log)
  BY <1>2, <1>4, <1>5 DEF TravelInv, Numbered
<1>7. Adds(c, e, d)
  <2> HIDE DEF c
  <2> QED BY <1>2, <1>4, <1>5, <1>6, PublishOrderedAdds DEF d
<1>8. /\ d.wake = c.wake
      /\ \A x \in d.pending : x.seq > d.last_published + 1
      /\ \A x \in c.pending \union {e} :
           x.seq <= d.last_published \/ \E y \in d.pending : y.seq = x.seq
  <2>1. \A x \in c.pending : x.seq \in 1..Len(log) /\ x.seq > c.last_published + 1
    BY <1>5, <1>6 DEF DeliveryInv
  <2> HIDE DEF c
  <2> QED BY <1>2, <1>4, <1>5, <1>6, <2>1, PublishOrderedHolds DEF d
<1> HIDE DEF c, b
<1>9. d \in SessionState
  BY <1>7 DEF Adds
<1>10. /\ client'.published = d.published /\ client'.wake = d.wake
       /\ client'.last_published = d.last_published /\ client'.pending = d.pending
       /\ client'.failure = d.failure /\ client'.publish_failed = d.publish_failed
  BY <1>1, <1>9 DEF SessionState
<1>11. Grows /\ (NotFailed => NotFailed')
  BY <1>1, <1>2, <1>4, <1>5, <1>7, <1>10, PublishedAdds
<1>12. /\ d.last_published \in Nat /\ c.last_published \in Nat
       /\ d.last_published - c.last_published \in Nat
       /\ d.failure = c.failure /\ d.publish_failed = c.publish_failed
       /\ d.published \in Seq(Event)
  BY <1>5, <1>7, <1>9 DEF Adds, SessionState
<1> QED BY <1>5, <1>8, <1>10, <1>11, <1>12 DEF e

LEMMA StuckHandle ==
  ASSUME IInv, StuckInv, HandleNotification
  PROVE  StuckInv'
<1> USE DEF StuckInv
<1>1. /\ UNCHANGED <<process, task, log, request, wire, down, rpc, reader, consumer>>
      /\ reader = "run" /\ inbox # <<>> /\ inbox' = Tail(inbox) /\ Head(inbox).type = "event"
      /\ ~client.registered => client' = client
  BY DEF HandleNotification, serverVars
<1>2. /\ TypeOK /\ inbox \in Seq(Queued) /\ client.published \in Seq(Event)
      /\ client.last_published \in Nat /\ consumer.pos \in Nat
  BY Parts DEF TypeOK, SessionState, ConsumerState
<1>3. /\ \A i \in 1..Len(inbox') : i + 1 \in 1..Len(inbox) /\ inbox'[i] = inbox[i + 1]
      /\ \A i \in 1..Len(inbox) :
           \/ i = 1 /\ inbox[i] = Head(inbox)
           \/ i - 1 \in 1..Len(inbox') /\ inbox'[i - 1] = inbox[i]
  BY <1>1, <1>2
<1>4. /\ client'.failure = client.failure /\ client'.publish_failed = client.publish_failed
      /\ (NotFailed => NotFailed')
  <2>1. CASE client.registered
    BY <2>1, HandleEffect
  <2>2. CASE ~client.registered
    BY <1>1, <2>2 DEF NotFailed
  <2> QED BY <2>1, <2>2
<1>5. RunInv'
  BY <1>1, RunStays
<1>6. LinkInv'
  <2>1. ASSUME NEW i \in 1..Len(inbox), inbox[i] = Disconnected
        PROVE  \E j \in 1..Len(inbox') : inbox'[j] = Disconnected
    <3>1. i # 1
      BY <1>1, <1>3, <2>1 DEF Disconnected
    <3> QED BY <1>3, <2>1, <3>1
  <2> QED BY <1>1, <1>3, <2>1 DEF LinkInv
<1>7. PendingInv'
  BY <1>1, PendingStays DEF Responses
<1>8. NotedInv'
  BY <1>1, <1>4 DEF NotedInv
<1>9. DeliveryInv'
  <2>1. CASE ~client.registered
    BY <1>1, <2>1 DEF DeliveryInv
  <2>2. CASE client.registered
    <3>0. Connected' <=> Connected
      BY <1>1 DEF Connected
    <3>1. \A n : Inbox(n) => Inbox(n)' \/ Head(inbox).event.seq = n
      <4> SUFFICES ASSUME NEW n, NEW i \in 1..Len(inbox), inbox[i].type = "event",
                          inbox[i].event.seq = n
                   PROVE  Inbox(n)' \/ Head(inbox).event.seq = n
        BY DEF Inbox
      <4>1. CASE inbox[i] = Head(inbox)
        BY <4>1
      <4>2. CASE i - 1 \in 1..Len(inbox') /\ inbox'[i - 1] = inbox[i]
        BY <4>2 DEF Inbox
      <4> QED BY <1>3, <4>1, <4>2
    <3>2. \A n \in Nat : Arrives(n) => Arrives(n)'
      <4> SUFFICES ASSUME NEW n \in Nat, Arrives(n) PROVE Arrives(n)'
        OBVIOUS
      <4>1. CASE n <= client.last_published
        BY <1>2, <2>2, <4>1, HandleEffect DEF Arrives
      <4>2. CASE InHand(n) \/ OnWire(n)
        BY <1>1, <4>2 DEF Arrives, InHand, OnWire
      <4>3. CASE Inbox(n) \/ Early(n)
        BY <2>2, <3>1, <4>3, HandleEffect DEF Arrives, Early
      <4> QED BY <4>1, <4>2, <4>3 DEF Arrives
    <3>3. \A n \in 1..Len(log) : n \in Nat
      OBVIOUS
    <3> QED BY <1>1, <2>2, <3>0, <3>2, <3>3, HandleEffect DEF DeliveryInv
  <2> QED BY <2>1, <2>2
<1>10. NewsInv'
  <2>1. CASE ~client.registered
    BY <1>1, <2>1, NewsStays DEF Responses
  <2>2. CASE client.registered
    <3>1. /\ client'.wake /\ Grows /\ client'.published \in Seq(Event)
      BY <2>2, HandleEffect
    <3>2. consumer.pos <= Len(client.published)
      BY Parts DEF TakenInv
    <3>3. ASSUME Ended', consumer.kind = "events", consumer.pc # "done"
          PROVE  consumer.pos < Len(client'.published)
      <4>1. CASE Len(client.published) < Len(client'.published)
        BY <1>2, <3>1, <3>2, <4>1
      <4>2. CASE Len(client.published) = Len(client'.published)
        <5>1. Ended
          BY <1>2, <3>1, <3>3, <4>2 DEF Ended, Grows, LastOf
        <5> QED BY <3>3, <4>2, <5>1 DEF NewsInv
      <4> QED BY <1>2, <3>1, <4>1, <4>2 DEF Grows
    <3> QED BY <1>1, <3>1, <3>3 DEF NewsInv
  <2> QED BY <2>1, <2>2
<1> QED BY <1>5, <1>6, <1>7, <1>8, <1>9, <1>10

\* The reader of the notifications has left its loop: nobody has failed yet.
LEMMA StuckRecord ==
  ASSUME IInv, StuckInv, RecordDisconnected
  PROVE  StuckInv'
<1> USE DEF StuckInv
<1>1. /\ UNCHANGED <<process, task, log, request, wire, down, rpc, consumer>>
      /\ reader = "run" /\ reader' = "recorded" /\ inbox' = <<>>
      /\ client' = [client EXCEPT !.disconnected = TRUE]
      /\ client \in SessionState
  BY Parts DEF RecordDisconnected, serverVars, TypeOK
<1>2. /\ client'.registered = client.registered /\ client'.failure = client.failure
      /\ client'.publish_failed = client.publish_failed /\ client'.pending = client.pending
      /\ client'.last_published = client.last_published
      /\ client'.published = client.published /\ client'.wake = client.wake
  BY <1>1 DEF SessionState
<1>3. Responses' = Responses
  BY <1>1 DEF Responses
<1>4. NotFailed' <=> NotFailed
  BY <1>1, <1>2 DEF NotFailed
<1>5. RunInv' /\ LinkInv' /\ PendingInv'
  BY <1>1, <1>3, RunStays, PendingStays DEF LinkInv
<1>6. NotedInv' /\ DeliveryInv'
  BY <1>1, <1>2, <1>4 DEF NotedInv, DeliveryInv
<1>7. NewsInv'
  BY <1>1, <1>2, <1>3 DEF NewsInv, Ended
<1> QED BY <1>5, <1>6, <1>7

\* A session whose route has gone has published its close.
LEMMA StuckFailAll ==
  ASSUME IInv, StuckInv, FailAllSessions
  PROVE  StuckInv'
<1> USE DEF StuckInv
<1>1. /\ UNCHANGED <<process, task, log, request, wire, down, rpc, consumer>>
      /\ reader = "recorded" /\ inbox' = inbox
      /\ client.registered =>
           /\ client' = [NoteFailure(client) EXCEPT !.registered = FALSE,
                                       !.publish_failed = ShouldPublish(client)]
           /\ reader' = "fail"
      /\ ~client.registered => client' = client /\ reader' = "done"
  BY DEF FailAllSessions, serverVars
<1>2. /\ TypeOK /\ LogInv /\ PublishedInv /\ FailureInv /\ CallInv /\ RouteKeptUntilClosed
      /\ client \in SessionState /\ client.published \in Seq(Event)
      /\ Len(log) \in Nat
  BY Parts DEF TypeOK, SessionState
<1>3. Responses' = Responses
  BY <1>1 DEF Responses
<1>4. /\ client'.published = client.published /\ client'.pending = client.pending
      /\ client'.last_published = client.last_published /\ client'.wake = client.wake
      /\ client.registered => client'.failure /\ client'.publish_failed = ~client.failure
  <2>1. CASE ~client.registered
    BY <1>1, <2>1
  <2>2. CASE client.registered
    <3> DEFINE b == ShouldPublish(client)
               c == NoteFailure(client)
    <3>1. client' = [c EXCEPT !.registered = FALSE, !.publish_failed = b]
      BY <1>1, <2>2
    <3>2. c = [client EXCEPT !.failure = TRUE]
      BY DEF NoteFailure
    <3>3. c \in SessionState
      BY <1>2, <3>2 DEF SessionState
    <3> HIDE DEF b, c
    <3>4. /\ client'.published = c.published /\ client'.pending = c.pending
          /\ client'.last_published = c.last_published /\ client'.wake = c.wake
          /\ client'.failure = c.failure /\ client'.publish_failed = b
      BY <3>1, <3>3 DEF SessionState
    <3>5. /\ c.published = client.published /\ c.pending = client.pending
          /\ c.last_published = client.last_published /\ c.wake = client.wake
          /\ c.failure = TRUE
      BY <1>2, <3>2 DEF SessionState
    <3> QED BY <3>4, <3>5 DEF b, ShouldPublish
  <2> QED BY <2>1, <2>2
<1>5. consumer.pc # "done" => NotFailed
  BY <1>1 DEF NotedInv
<1>6. NotFailed' <=> NotFailed
  BY <1>1, <1>4 DEF NotFailed
<1>7. RunInv'
  BY <1>1, RunStays
<1>8. LinkInv' /\ PendingInv'
  BY <1>1, <1>3, PendingStays DEF LinkInv
<1>9. NotedInv'
  BY <1>1, <1>4, <1>5, <1>6 DEF NotedInv
<1>10. DeliveryInv'
  BY <1>1, <1>4 DEF DeliveryInv
<1>11. NewsInv'
  <2>1. ASSUME ~client.registered, consumer.pc # "done" PROVE Ended
    <3>1. PICK i \in 1..Len(client.published) : client.published[i].kind = "Closed"
      BY <1>1, <1>2, <2>1 DEF RouteKeptUntilClosed, Elements
    <3>2. i \in 1..Len(log) /\ log[i].kind = "Closed" /\ Len(client.published) <= Len(log)
      BY <1>2, <1>5, <2>1, <3>1 DEF NotFailed, PublishedInv
    <3>3. i = Len(client.published)
      BY <1>2, <3>1, <3>2 DEF LogInv
    <3> QED BY <1>2, <3>1, <3>3 DEF Ended, LastOf
  <2>2. Ended' <=> Ended
    BY <1>4 DEF Ended
  <2> QED BY <1>1, <1>4, <2>1, <2>2 DEF NewsInv, Responses
<1> QED BY <1>7, <1>8, <1>9, <1>10, <1>11

LEMMA StuckReaderFails ==
  ASSUME IInv, StuckInv, ReaderPublishesFailure
  PROVE  StuckInv'
<1> USE DEF StuckInv
<1>1. /\ UNCHANGED <<process, task, log, request, wire, down, rpc, inbox, consumer>>
      /\ reader = "fail" /\ reader' = "done"
      /\ client' = PublishFailure(client, client.publish_failed)
  BY DEF ReaderPublishesFailure, serverVars
<1>2. /\ TypeOK /\ client \in SessionState /\ client.published \in Seq(Event)
      /\ client.publish_failed \in BOOLEAN /\ consumer.pos \in Nat
      /\ consumer.pos <= Len(client.published)
  BY Parts DEF TypeOK, SessionState, ConsumerState, TakenInv
<1>3. /\ client'.registered = client.registered /\ client'.failure = client.failure
      /\ client'.pending = client.pending /\ client'.last_published = client.last_published
      /\ client'.published = IF client.publish_failed THEN Append(client.published, Failed)
                             ELSE client.published
  BY <1>1, <1>2, PublishedType
<1>4. client'.wake = TRUE
  BY <1>1, <1>2 DEF PublishFailure, SessionState
<1>5. RunInv'
  BY <1>1, RunStays
<1>6. LinkInv'
  BY <1>1 DEF LinkInv
<1>7. PendingInv'
  BY <1>1, PendingStays DEF Responses
<1>8. consumer.pc # "done" => NotFailed
  BY <1>1 DEF NotedInv
<1>9. client.publish_failed =>
        /\ Len(client'.published) = Len(client.published) + 1
        /\ client'.published[Len(client'.published)] = Failed
        /\ \A i \in 1..Len(client.published) : client'.published[i] = client.published[i]
  BY <1>2, <1>3
<1>10. NotedInv'
  <2>1. ASSUME consumer.pc # "done", client.publish_failed
        PROVE  FailedAt(Len(client.published))'
    <3>1. /\ Len(client.published) = client.last_published
          /\ \A i \in 1..Len(client.published) : client.published[i] = log[i]
      BY <1>8, <2>1 DEF NotFailed
    <3> QED BY <1>1, <1>2, <1>3, <1>9, <2>1, <3>1 DEF FailedAt
  <2>2. ASSUME consumer.pc # "done", ~client.publish_failed
        PROVE  NotFailed'
    BY <1>1, <1>3, <1>8, <2>2 DEF NotFailed
  <2> QED BY <1>1, <2>1, <2>2 DEF NotedInv
<1>11. DeliveryInv'
  BY <1>1, <1>3, DeliveryStays DEF Connected
<1>12. NewsInv'
  <2>1. client.publish_failed => Ended' /\ consumer.pos < Len(client'.published)
    <3> SUFFICES ASSUME client.publish_failed
                 PROVE  Ended' /\ consumer.pos < Len(client'.published)
      OBVIOUS
    <3>0. client'.published # <<>>
      BY <1>2, <1>3
    <3>1. client'.published # <<>> /\ LastOf(client'.published) = Failed
      BY <1>9, <3>0 DEF LastOf
    <3>2. Ended'
      BY <3>1 DEF Ended, Failed
    <3>3. consumer.pos < Len(client'.published)
      BY <1>2, <1>9
    <3> QED BY <3>2, <3>3
  <2>2. ~client.publish_failed => consumer.pc \in {"fail", "done"} /\ (Ended' <=> Ended)
    BY <1>1, <1>3 DEF NotedInv, Ended
  <2> QED BY <1>1, <1>3, <1>4, <2>1, <2>2 DEF NewsInv
<1> QED BY <1>5, <1>6, <1>7, <1>10, <1>11, <1>12

-----------------------------------------------------------------------------
(* The consumer. *)

\* What a step of the consumer leaves alone, when it does not wait for a call.
LEMMA ConsumerStuck ==
  ASSUME IInv, StuckInv, consumer.pc # "pending",
         UNCHANGED <<process, task, log, wire, down, rpc, inbox, reader>>,
         client'.registered => client.registered, client'.pending = client.pending,
         client'.last_published = client.last_published
  PROVE  /\ RunInv' /\ LinkInv' /\ DeliveryInv'
         /\ Responses = {} /\ Responses' = {}
<1>1. Responses = {}
  BY Parts DEF CallInv
<1>2. Responses' = {}
  BY <1>1 DEF Responses
<1> QED BY <1>1, <1>2, RunStays, LinkStays, DeliveryStays DEF StuckInv, Connected

LEMMA StuckSubscribe ==
  ASSUME IInv, StuckInv, Subscribe
  PROVE  StuckInv'
<1> USE DEF StuckInv
<1> DEFINE n == Len(client.published)
           start == MaxOf(0, n - EventCapacity)
<1>1. /\ UNCHANGED <<process, task, left, log, request, wire, down, rpc, inbox, reader, client>>
      /\ consumer.pc = "subscribe"
      /\ consumer' = [consumer EXCEPT !.pc = "wait", !.start = start, !.pos = start, !.live = n]
  BY DEF Subscribe, serverVars, consumerOnly
<1>2. consumer \in ConsumerState /\ client.published \in Seq(Event) /\ n \in Nat
  BY Parts DEF TypeOK, SessionState
<1>3. consumer'.pc = "wait" /\ consumer'.kind = consumer.kind /\ consumer'.pos = start
  <2> HIDE DEF start, n
  <2> QED BY <1>1, <1>2 DEF ConsumerState
<1>4. RunInv' /\ LinkInv' /\ DeliveryInv' /\ Responses' = {}
  BY <1>1, ConsumerStuck
<1>5. PendingInv' /\ NotedInv'
  BY <1>1, <1>3, NotedStays DEF PendingInv
<1>6. client.published # <<>> => start < n
  BY <1>2 DEF MaxOf
<1>7. NewsInv'
  BY <1>1, <1>3, <1>6 DEF NewsInv, Ended
<1> QED BY <1>4, <1>5, <1>7

LEMMA NextType ==
  ASSUME NEW c \in ConsumerState, NEW after \in Nat, c.pos + 1 \in Nat
  PROVE  [c EXCEPT !.pos = c.pos + 1, !.after = after] \in ConsumerState
BY DEF ConsumerState

LEMMA StuckEvent ==
  ASSUME IInv, StuckInv, ReceiveEvent
  PROVE  StuckInv'
<1> USE DEF StuckInv
<1> DEFINE e == client.published[consumer.pos + 1]
           chunks == IF e.kind = "Output" /\ e.seq > consumer.after THEN {e.seq} ELSE {}
           next == [consumer EXCEPT !.pos = @ + 1, !.after = MaxOf(@, e.seq)]
<1>1. /\ UNCHANGED <<process, task, left, log, request, wire, down, rpc, inbox, reader, client>>
      /\ consumer.pc = "wait" /\ consumer.kind = "events"
      /\ consumer.pos < Len(client.published)
  BY DEF ReceiveEvent, serverVars, consumerOnly
<1>2. /\ TypeOK /\ consumer \in ConsumerState /\ client.published \in Seq(Event)
      /\ consumer.pos \in Nat /\ Len(client.published) \in Nat
  BY Parts DEF TypeOK, SessionState, ConsumerState
<1>3. /\ consumer'.kind = consumer.kind /\ consumer'.pos = consumer.pos + 1
      /\ consumer'.pc \in {"wait", "done"}
  <2>1. Received(e, chunks)
    <3> HIDE DEF e
    <3>1. e = client.published[consumer.pos + 1]
      BY DEF e
    <3>2. chunks = IF e.kind = "Output" /\ e.seq > consumer.after THEN {e.seq} ELSE {}
      OBVIOUS
    <3> HIDE DEF chunks
    <3> QED BY <1>2, <3>1, <3>2, EventReceived
  <2> HIDE DEF e, chunks
  <2> QED BY <2>1 DEF Received
<1>4. e.kind \in {"Closed", "Failed"} => consumer'.pc = "done"
  <2> DEFINE end == IF e.kind = "Closed" THEN "closed" ELSE "failed"
  <2> SUFFICES ASSUME e.kind \in {"Closed", "Failed"} PROVE consumer'.pc = "done"
    OBVIOUS
  <2>1. consumer' = [next EXCEPT !.pc = "done", !.end = end]
    BY DEF ReceiveEvent
  <2>2. next \in ConsumerState
    <3>1. consumer.pos + 1 \in 1..Len(client.published)
      BY <1>1, <1>2
    <3>2. e \in Event
      BY <1>2, <3>1
    <3>3. consumer.pos + 1 \in Nat /\ MaxOf(consumer.after, e.seq) \in Nat
      BY <1>2, <3>2 DEF ConsumerState, Event, MaxOf
    <3> HIDE DEF e
    <3> QED BY <1>2, <3>3, NextType
  <2> HIDE DEF next, end
  <2> QED BY <2>1, <2>2 DEF ConsumerState
<1>5. RunInv' /\ LinkInv' /\ DeliveryInv' /\ Responses' = {}
  BY <1>1, ConsumerStuck
<1> HIDE DEF e, chunks, next
<1>6. PendingInv' /\ NotedInv'
  BY <1>1, <1>3, NotedStays DEF PendingInv
<1>7. NewsInv'
  <2>1. Ended' <=> Ended
    BY <1>1 DEF Ended
  <2>2. Ended /\ consumer'.pc # "done" => consumer'.pos < Len(client.published)
    <3>1. Ended /\ consumer.pos + 1 = Len(client.published) => e.kind \in {"Closed", "Failed"}
      BY DEF Ended, LastOf, e
    <3> QED BY <1>1, <1>2, <1>3, <1>4, <3>1
  <2> QED BY <1>1, <1>3, <2>1, <2>2 DEF NewsInv
<1> QED BY <1>5, <1>6, <1>7

LEMMA StuckLagged ==
  ASSUME IInv, StuckInv, ReceiveLagged
  PROVE  StuckInv'
<1> USE DEF StuckInv
<1> DEFINE pos == Len(client.published) - EventCapacity
<1>1. /\ UNCHANGED <<process, task, left, log, request, wire, down, rpc, inbox, reader, client>>
      /\ consumer.pc = "wait" /\ consumer.kind = "events"
      /\ consumer' = [consumer EXCEPT !.pc = "read", !.pos = pos]
  BY DEF ReceiveLagged, serverVars, consumerOnly
<1>2. consumer \in ConsumerState /\ Len(client.published) \in Nat
  BY Parts DEF TypeOK, SessionState
<1>3. consumer'.pc = "read" /\ consumer'.kind = consumer.kind /\ consumer'.pos = pos
  <2> HIDE DEF pos
  <2> QED BY <1>1, <1>2 DEF ConsumerState
<1>4. RunInv' /\ LinkInv' /\ DeliveryInv'
  BY <1>1, ConsumerStuck
<1>5. PendingInv' /\ NotedInv'
  BY <1>1, <1>3, NotedStays DEF PendingInv
<1>6. NewsInv'
  BY <1>1, <1>2, <1>3 DEF NewsInv, Ended
<1> QED BY <1>4, <1>5, <1>6

LEMMA StuckWake ==
  ASSUME IInv, StuckInv, ReceiveWake
  PROVE  StuckInv'
<1> USE DEF StuckInv
<1>1. /\ UNCHANGED <<process, task, left, log, request, wire, down, rpc, inbox, reader>>
      /\ consumer.pc = "wait" /\ consumer' = [consumer EXCEPT !.pc = "read"]
      /\ client' = [client EXCEPT !.wake = FALSE]
  BY DEF ReceiveWake, serverVars, consumerOnly
<1>2. consumer \in ConsumerState /\ client \in SessionState
  BY Parts DEF TypeOK
<1>3. /\ consumer'.pc = "read" /\ consumer'.kind = consumer.kind
      /\ consumer'.pos = consumer.pos
  BY <1>1, <1>2 DEF ConsumerState
<1>4. /\ client'.registered = client.registered /\ client'.failure = client.failure
      /\ client'.publish_failed = client.publish_failed /\ client'.pending = client.pending
      /\ client'.last_published = client.last_published
      /\ client'.published = client.published
  BY <1>1, <1>2 DEF SessionState
<1>5. RunInv' /\ LinkInv' /\ DeliveryInv' /\ Responses' = {}
  BY <1>1, <1>4, ConsumerStuck
<1>6. PendingInv' /\ NotedInv'
  BY <1>1, <1>3, <1>4, NotedStays DEF PendingInv
<1>7. NewsInv'
  BY <1>1, <1>3, <1>4, <1>5 DEF NewsInv, Ended
<1> QED BY <1>5, <1>6, <1>7

\* A consumer that has found no failure has not been woken by one.
LEMMA StuckBeginRead ==
  ASSUME IInv, StuckInv, BeginRead
  PROVE  StuckInv'
<1> USE DEF StuckInv
<1>1. /\ UNCHANGED <<process, task, left, log, request, wire, down, rpc, inbox, reader, client>>
      /\ consumer.pc = "read" /\ ~client.failure
      /\ consumer' = [consumer EXCEPT !.pc = "call"]
  BY DEF BeginRead, serverVars, consumerOnly
<1>2. consumer \in ConsumerState /\ TypeOK /\ LogInv /\ PublishedInv /\ FailureInv
  BY Parts DEF TypeOK
<1>3. /\ consumer'.pc = "call" /\ consumer'.kind = consumer.kind
      /\ consumer'.pos = consumer.pos
  BY <1>1, <1>2 DEF ConsumerState
<1>4. RunInv' /\ LinkInv' /\ DeliveryInv' /\ Responses' = {}
  BY <1>1, ConsumerStuck
<1>5. PendingInv' /\ NotedInv'
  BY <1>1, <1>3, NotedStays DEF PendingInv
<1>6. Ended => LastOf(client.published) # Failed
  <2>1. NotFailed
    BY <1>1, <1>2 DEF FailureInv
  <2> QED BY <1>2, <2>1, EndedClosed
<1>7. NewsInv'
  BY <1>1, <1>3, <1>4, <1>6 DEF NewsInv, Ended
<1> QED BY <1>4, <1>5, <1>7

LEMMA StuckStartRead ==
  ASSUME IInv, StuckInv, StartRead
  PROVE  StuckInv'
<1> USE DEF StuckInv
<1>1. /\ UNCHANGED <<process, task, left, log, wire, down, rpc, inbox, reader, client>>
      /\ consumer.pc = "call" /\ ~down
      /\ consumer' = [consumer EXCEPT !.pc = "pending"]
  BY DEF StartRead, clientVars, CanCall
<1>2. PICK wait \in BOOLEAN :
        request' = [st |-> "check", after |-> consumer.after, wait |-> wait]
  BY DEF StartRead
<1>3. consumer \in ConsumerState /\ CallInv
  BY Parts DEF TypeOK
<1>4. /\ consumer'.pc = "pending" /\ consumer'.kind = consumer.kind
      /\ consumer'.pos = consumer.pos
  BY <1>1, <1>3 DEF ConsumerState
<1>5. RunInv' /\ LinkInv' /\ DeliveryInv' /\ Responses' = {}
  BY <1>1, ConsumerStuck
<1>6. PendingInv'
  BY <1>1, <1>2, <1>3, <1>4 DEF PendingInv, CallInv
<1>7. NotedInv'
  BY <1>1, NotedStays
<1>8. NewsInv'
  BY <1>1, <1>4, <1>5 DEF NewsInv, Ended
<1> QED BY <1>5, <1>6, <1>7, <1>8

\* The consumer ends, with what the client has or the failure it publishes.
LEMMA StuckLeaves ==
  ASSUME IInv, StuckInv, consumer.pc # "pending", consumer'.pc = "done",
         UNCHANGED <<process, task, log, wire, down, rpc, inbox, reader>>,
         client'.registered => client.registered, client'.pending = client.pending,
         client'.last_published = client.last_published, client'.failure = client.failure,
         request' = request
  PROVE  StuckInv'
<1>1. RunInv' /\ LinkInv' /\ DeliveryInv'
  BY ConsumerStuck
<1>2. PendingInv' /\ NotedInv' /\ NewsInv'
  BY DEF StuckInv, PendingInv, NotedInv, NewsInv
<1> QED BY <1>1, <1>2 DEF StuckInv

LEMMA StuckReadOfFailed ==
  ASSUME IInv, StuckInv, ReadOfFailed
  PROVE  StuckInv'
<1>1. /\ UNCHANGED <<process, task, log, request, wire, down, rpc, inbox, reader, client>>
      /\ consumer.pc = "read" /\ consumer \in ConsumerState
      /\ consumer' = [consumer EXCEPT !.pc = "done", !.end = "failed"]
  BY Parts DEF ReadOfFailed, serverVars, consumerOnly, End, TypeOK
<1>2. consumer'.pc = "done"
  BY <1>1 DEF ConsumerState
<1> QED BY <1>1, <1>2, StuckLeaves

LEMMA StuckLost ==
  ASSUME IInv, StuckInv, ReadLost
  PROVE  StuckInv'
<1> USE DEF StuckInv
<1> DEFINE b == ShouldPublish(client)
<1>1. /\ UNCHANGED <<process, task, left, log, request, wire, down, rpc, inbox, reader>>
      /\ (consumer.pc = "read" /\ ~client.failure) \/ consumer.pc \in {"call", "lost"}
      /\ client' = [client EXCEPT !.failure = TRUE, !.disconnected = TRUE]
      /\ consumer' = [consumer EXCEPT !.pc = "fail", !.publish_failed = b]
  BY LostClient DEF ReadLost, serverVars, consumerOnly
<1>2. /\ consumer \in ConsumerState /\ client \in SessionState
      /\ TypeOK /\ LogInv /\ PublishedInv /\ FailureInv
  BY Parts DEF TypeOK
<1>3. /\ consumer'.pc = "fail" /\ consumer'.kind = consumer.kind
      /\ consumer'.pos = consumer.pos
  <2> HIDE DEF b
  <2> QED BY <1>1, <1>2 DEF ConsumerState
<1>4. /\ client'.registered = client.registered /\ client'.failure
      /\ client'.pending = client.pending /\ client'.published = client.published
      /\ client'.last_published = client.last_published /\ client'.wake = client.wake
  BY <1>1, <1>2 DEF SessionState
<1>5. RunInv' /\ LinkInv' /\ DeliveryInv' /\ Responses' = {}
  BY <1>1, <1>4, ConsumerStuck
<1>6. Ended /\ consumer.kind = "wake" /\ ~client.wake => LastOf(client.published) # Failed
  <2>1. CASE ~client.failure
    <3>1. NotFailed
      BY <1>2, <2>1 DEF FailureInv
    <3> QED BY <1>2, <3>1, EndedClosed
  <2>2. CASE consumer.pc \in {"call", "lost"}
    BY <2>2 DEF NewsInv
  <2> QED BY <1>1, <2>1, <2>2
<1>7. PendingInv'
  BY <1>1, <1>3 DEF PendingInv
<1>8. NotedInv'
  <2>1. /\ NotFailed' <=> NotFailed
        /\ FailedAt(Len(client.published))' <=> FailedAt(Len(client.published))
    BY <1>1, <1>4 DEF NotFailed, FailedAt
  <2> QED BY <1>1, <1>3, <1>4, <2>1 DEF NotedInv
<1>9. NewsInv'
  BY <1>1, <1>3, <1>4, <1>5, <1>6 DEF NewsInv, Ended
<1> QED BY <1>5, <1>7, <1>8, <1>9

LEMMA StuckReadFails ==
  ASSUME IInv, StuckInv, ReadPublishesFailure
  PROVE  StuckInv'
<1>1. /\ UNCHANGED <<process, task, log, request, wire, down, rpc, inbox, reader>>
      /\ consumer.pc = "fail" /\ consumer \in ConsumerState /\ client \in SessionState
      /\ consumer' = [consumer EXCEPT !.pc = "done", !.end = "failed"]
      /\ client' = PublishFailure(client, consumer.publish_failed)
      /\ consumer.publish_failed \in BOOLEAN
  BY Parts DEF ReadPublishesFailure, serverVars, consumerOnly, End, TypeOK, ConsumerState
<1>2. consumer'.pc = "done"
  BY <1>1 DEF ConsumerState
<1>3. /\ client'.registered = client.registered /\ client'.pending = client.pending
      /\ client'.last_published = client.last_published /\ client'.failure = client.failure
  BY <1>1, PublishedType
<1> QED BY <1>1, <1>2, <1>3, StuckLeaves

LEMMA StuckDrop ==
  ASSUME IInv, StuckInv, DropHandle
  PROVE  StuckInv'
<1>1. /\ UNCHANGED <<process, task, log, request, wire, down, rpc, inbox, reader, consumer>>
      /\ consumer.pc = "done" /\ client \in SessionState
      /\ client' = [client EXCEPT !.registered = FALSE]
  BY Parts DEF DropHandle, serverVars, consumerOnly, TypeOK
<1>2. /\ ~client'.registered /\ client'.pending = client.pending
      /\ client'.last_published = client.last_published /\ client'.failure = client.failure
  BY <1>1 DEF SessionState
<1> QED BY <1>1, <1>2, StuckLeaves

LEMMA StuckStutter ==
  ASSUME IInv, StuckInv, UNCHANGED vars
  PROVE  StuckInv'
<1> USE DEF StuckInv
<1>1. UNCHANGED <<process, task, left, log, request, wire, down, rpc, inbox, reader,
                  client, consumer>>
  BY DEF vars
<1>2. Responses' = Responses
  BY <1>1 DEF Responses
<1>3. RunInv' /\ LinkInv' /\ NotedInv' /\ DeliveryInv' /\ NewsInv'
  BY <1>1, <1>2, RunStays, LinkStays, NotedStays, DeliveryStays, NewsStays DEF Connected
<1>4. PendingInv'
  BY <1>1, <1>2, PendingStays
<1> QED BY <1>3, <1>4

LEMMA StuckNext == IInv /\ IInv' /\ StuckInv /\ [Next]_vars => StuckInv'
<1> SUFFICES ASSUME IInv, IInv', StuckInv, [Next]_vars PROVE StuckInv'
  OBVIOUS
<1>1. CASE TaskStep
  BY <1>1, StuckTask
<1>2. CASE ReadStep
  BY <1>2, StuckRead
<1>3. CASE ReaderStep
  BY <1>3, StuckMessage, StuckEnd, StuckDrain, StuckHandle, StuckRecord, StuckFailAll,
     StuckReaderFails DEF ReaderStep
<1>4. CASE ConsumerStep
  BY <1>4, StuckSubscribe, StuckEvent, StuckLagged, StuckWake, StuckBeginRead,
     StuckStartRead, StuckReadOfFailed, StuckLost, StuckReadFails DEF ConsumerStep
<1>5. CASE RemoveClosedProcess \/ TransportCloses \/ DropHandle \/ UNCHANGED vars
  BY <1>5, StuckRemove, StuckTransport, StuckDrop, StuckStutter
<1> QED BY <1>1, <1>2, <1>3, <1>4, <1>5 DEF Next

LEMMA StuckInit == Init => StuckInv
<1> SUFFICES ASSUME Init PROVE StuckInv
  OBVIOUS
<1>1. /\ process.exited = FALSE /\ process.closed = FALSE
      /\ task = [t \in Task |-> [pc |-> "recv", event |-> NoEvent]]
      /\ log = <<>> /\ wire = <<>> /\ down = FALSE /\ rpc = "run" /\ inbox = <<>>
      /\ reader = "run" /\ request.st = "none"
      /\ client.pending = {} /\ client.published = <<>> /\ client.last_published = 0
      /\ client.failure = FALSE
      /\ consumer.pc \in {"read", "subscribe"}
      /\ consumer.pc = "subscribe" => consumer.kind = "events"
  BY DEF Init, NoRead
<1>2. RunInv
  BY <1>1 DEF RunInv
<1>3. LinkInv /\ PendingInv
  BY <1>1 DEF LinkInv, PendingInv
<1>4. NotedInv
  BY <1>1 DEF NotedInv, NotFailed
<1>5. DeliveryInv /\ NewsInv
  BY <1>1 DEF DeliveryInv, NewsInv, Ended
<1> QED BY <1>2, <1>3, <1>4, <1>5 DEF StuckInv

\* When nothing is on its way any more, the client has published every event.
LEMMA AllPublished ==
  ASSUME IInv, StuckInv, Connected, process.closed, reader = "run", consumer.pc # "done",
         ~TasksGoOn, ~ReadersGoOn
  PROVE  Ended
<1>1. /\ TypeOK /\ LogInv /\ PublishedInv /\ FailureInv /\ CallInv /\ TravelInv
      /\ RouteKeptUntilClosed
      /\ client.published \in Seq(Event) /\ Len(log) \in Nat /\ client.last_published \in Nat
  BY Parts DEF TypeOK, SessionState
<1>2. NotFailed /\ client.last_published <= Len(log)
  BY <1>1 DEF StuckInv, NotedInv, PublishedInv
<1>3. rpc = "run" /\ wire = <<>> /\ inbox = <<>>
  BY DEF Connected, ReadersGoOn
<1>4. PICK last \in 1..Len(log) : log[last].kind = "Closed"
  BY <1>1 DEF LogInv, Has
<1>5. last = Len(log)
  BY <1>1, <1>4 DEF LogInv
<1>6. CASE client.registered
  <2>1. ASSUME client.last_published < Len(log) PROVE FALSE
    <3> DEFINE n == client.last_published + 1
    <3>1. n \in 1..Len(log)
      BY <1>1, <2>1
    <3>2. Arrives(n)
      BY <1>6, <3>1 DEF StuckInv, DeliveryInv
    <3>3. ~Inbox(n) /\ ~OnWire(n)
      BY <1>3 DEF Inbox, OnWire
    <3>4. ~InHand(n)
      <4> SUFFICES ASSUME NEW t \in Task, task[t].event.seq = n PROVE FALSE
        BY DEF InHand
      <4>1. task[t].event # NoEvent
        BY <3>1 DEF NoEvent
      <4>2. task[t].pc = "notify"
        BY <4>1 DEF StuckInv, RunInv
      <4> QED BY <4>2 DEF TasksGoOn
    <3>5. ~Early(n)
      BY <1>1 DEF StuckInv, DeliveryInv, Early, TravelInv, Numbered
    <3> QED BY <1>1, <3>2, <3>3, <3>4, <3>5 DEF Arrives
  <2>2. Len(client.published) = Len(log) /\ client.published[last] = log[last]
    BY <1>1, <1>2, <1>5, <2>1 DEF NotFailed
  <2> QED BY <1>1, <1>4, <1>5, <2>2 DEF Ended, LastOf
<1>7. CASE ~client.registered
  <2>1. PICK i \in 1..Len(client.published) : client.published[i].kind = "Closed"
    BY <1>1, <1>7 DEF RouteKeptUntilClosed, Elements
  <2>2. i \in 1..Len(log) /\ log[i].kind = "Closed" /\ Len(client.published) <= Len(log)
    BY <1>1, <1>2, <2>1 DEF NotFailed
  <2>3. i = Len(client.published)
    BY <1>1, <2>1, <2>2 DEF LogInv
  <2> QED BY <1>1, <2>1, <2>3 DEF Ended, LastOf
<1> QED BY <1>6, <1>7

LEMMA NeverStuck == IInv /\ StuckInv => ConsumerNeverStuck
<1> SUFFICES ASSUME IInv, StuckInv, consumer.pc # "done", ~(rpc = "gone" /\ SneakedIn),
                    ~TasksGoOn, ~ReadGoesOn, ~ReadersGoOn, ~ConsumerGoesOn
             PROVE  FALSE
  BY DEF ConsumerNeverStuck
<1> USE DEF StuckInv
<1>1. TypeOK /\ TaskInv
  BY Parts
<1>2. /\ rpc \in {"run", "done", "gone"} /\ reader \in {"run", "done"}
      /\ down \in BOOLEAN /\ wire \in Seq(Message) /\ request \in Request
      /\ consumer.pc \in {"pending", "wait"} /\ consumer.kind \in {"wake", "events"}
  BY <1>1 DEF TypeOK, ConsumerState, ReadersGoOn, ConsumerGoesOn
<1>3. rpc = "run" => wire = <<>> /\ Connected
  BY <1>2 DEF ReadersGoOn, Connected
<1>4. consumer.pc # "pending"
  <2>1. rpc # "gone" \/ consumer.pc # "pending"
    BY DEF SneakedIn
  <2>2. rpc = "run" /\ consumer.pc = "pending" => request.st # "none"
    BY <1>3 DEF PendingInv, Responses
  <2>3. rpc = "run" => request.st = "none"
    BY <1>2, <1>3 DEF ReadGoesOn, PendingInv, Request
  <2> QED BY <1>2, <2>1, <2>2, <2>3 DEF PendingInv
<1>5. Ended
  <2>1. CASE reader = "done"
    BY <1>2, <2>1 DEF NewsInv
  <2>2. CASE reader = "run"
    <3>1. inbox = <<>>
      BY <2>2 DEF ReadersGoOn
    <3>2. rpc = "run"
      BY <2>2, <3>1 DEF LinkInv
    <3>3. process.closed
      BY <1>3, <3>2 DEF RunInv, TasksGoOn
    <3> QED BY <1>2, <1>3, <2>2, <3>2, <3>3, AllPublished
  <2> QED BY <1>2, <2>1, <2>2
<1> QED BY <1>2, <1>4, <1>5 DEF NewsInv, ConsumerGoesOn, News

\* Whatever the number of streams and chunks and the size of the buffers, and
\* wherever the transport ends or delivers a message the client does not accept:
\* a consumer that has not ended has somebody to wait for, unless it has called
\* after the reader of the transport was gone at such a message (RpcClient::call
\* does not refuse that call; CallsDrained is about the others).
THEOREM NeverStuckCorrect == Spec => []ConsumerNeverStuck
  BY InitInv, StepInv, StuckInit, StuckNext, NeverStuck, Invariance, PTL DEF Spec

Intact == rpc \notin {"broken", "gone"}

LEMMA IntactNext == ~Garbles /\ Intact /\ [Next]_vars => Intact'
<1> SUFFICES ASSUME ~Garbles, Intact, [Next]_vars PROVE Intact'
  OBVIOUS
<1>1. CASE ReaderStep
  BY <1>1 DEF ReaderStep, ReadMessage, ReadEnd, ReadBreaks, DrainPending, HandleNotification,
     RecordDisconnected, FailAllSessions, ReaderPublishesFailure, Intact
<1>2. CASE TaskStep
  BY <1>2 DEF TaskStep, ReceiveChunk, FinishOutputStream, WatchExit, Notify, MaybeEmitClosed,
     clientVars, Intact
<1>3. CASE ReadStep \/ RemoveClosedProcess \/ TransportCloses
  BY <1>3 DEF ReadStep, ExecRead, AwaitNotified, ReadDeadline, RemoveClosedProcess,
     TransportCloses, clientVars, Intact
<1>4. CASE ConsumerStep \/ DropHandle
  BY <1>4 DEF ConsumerStep, Subscribe, ReceiveEvent, ReceiveLagged, ReceiveWake, BeginRead,
     StartRead, ReadOfFailed, ReadLost, ReadPublishesFailure, DropHandle, consumerOnly,
     clientVars, Intact
<1>5. CASE UNCHANGED vars
  BY <1>5 DEF vars, Intact
<1> QED BY <1>1, <1>2, <1>3, <1>4, <1>5 DEF Next

\* The check RpcClient::call makes under the lock of the pending calls does keep
\* calls from being registered after the drain, as its comment says, if the client
\* receives no message it does not accept: the flag of the transport is up before
\* the reader leaves, so the drain comes after every call that was let through.
THEOREM CallsDrained == ~Garbles => (Spec => []NoCallAfterDrain)
<1> SUFFICES ASSUME ~Garbles PROVE Spec => []NoCallAfterDrain
  OBVIOUS
<1>1. Init => Intact
  BY DEF Init, Intact
<1>2. Intact /\ [Next]_vars => Intact'
  BY IntactNext
<1>3. StuckInv /\ Intact => NoCallAfterDrain
  BY DEF StuckInv, PendingInv, Intact, NoCallAfterDrain, SneakedIn
<1> QED BY InitInv, StepInv, StuckInit, StuckNext, <1>1, <1>2, <1>3, PTL DEF Spec
=============================================================================
