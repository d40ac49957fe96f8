------------------------ MODULE RemoteControl_proofs ------------------------
(* For any streams, clients, chunks and capacities: what a connection is    *)
(* given, what becomes of it, and what the backend gets of its answers;     *)
(* taken together, that the transport implements StreamConnections.         *)
(*                                                                          *)
(* Four inductive invariants stand on the types.  ConnInv says that the     *)
(* open connection of a stream is one of that stream (OpenInv) and that a   *)
(* connection remembers the last message it was given (LastInv), so that    *)
(* one that is not newer is not given.  ReaderInv adds that an assembly is  *)
(* the beginning of one message, filed under the client of its stream       *)
(* (AssemblyInv), so that the chunk that completes it makes it whole.       *)
(* BufferInv says that cursors grow (CursorInv) and that what has not       *)
(* arrived is kept and about to be sent (KeptInv), so that an               *)
(* acknowledgement drops only what has arrived.  SentInv says that the      *)
(* client sent every chunk that is half-assembled.                          *)
EXTENDS RemoteControl, FiniteSetTheorems, SequenceTheorems, TLAPS

\* How long a prover may take for a step, in seconds.
USE SMTT(20), ZenonT(20)

USE ConstantsAssumption, NoAssemblyAssumption

-----------------------------------------------------------------------------
\* Types.

\* A function on 1..n is a sequence of n elements.
LEMMA FunctionIsSeq ==
  ASSUME NEW S, NEW n \in Nat, NEW f \in [1..n -> S]
  PROVE  f \in Seq(S) /\ Len(f) = n
  OBVIOUS

\* What follows a sequence.
LEMMA Followed ==
  ASSUME NEW S, NEW s \in Seq(S), NEW n \in Nat, NEW f \in [1..n -> S]
  PROVE  /\ s \o f \in Seq(S) /\ Len(s \o f) = Len(s) + n
         /\ \A i \in 1..Len(s) + n : (s \o f)[i] = IF i <= Len(s) THEN s[i] ELSE f[i - Len(s)]
<1>1. f \in Seq(S) /\ Len(f) = n BY FunctionIsSeq
<1>2. /\ s \o f \in Seq(S) /\ Len(s \o f) = Len(s) + Len(f)
      /\ \A i \in 1..Len(s) + Len(f) :
           (s \o f)[i] = IF i <= Len(s) THEN s[i] ELSE f[i - Len(s)]
  BY <1>1, ConcatProperties
<1> QED BY <1>1, <1>2, Zenon

LEMMA InitType == Init => TypeOK
  BY DEF Init, TypeOK, NoConn, Last, Kind, Chunk, Conn

\* Every connection has its type, and a stream.
LEMMA ConnectionTypes ==
  ASSUME TypeOK
  PROVE  \A c \in Conn : conn[c] \in Connection /\ conn[c].key \in Key /\ c # NoConn
<1>1. conn \in Seq(Connection) /\ Conn = DOMAIN conn BY DEF TypeOK, Conn
<1>2. ASSUME NEW c \in Conn
      PROVE  conn[c] \in Connection /\ c # NoConn
  BY <1>1 DEF NoConn
<1> QED BY <1>2 DEF Connection

\* What closing streams leaves of the connections.
LEMMA ClosedConnections ==
  ASSUME TypeOK, NEW ks \in SUBSET Key, NEW why \in {"closed", "reaped"}
  PROVE  LET closed == ClosedWith(ks, why) IN
         /\ closed \in Seq(Connection) /\ Len(closed) = Len(conn) /\ DOMAIN closed = Conn
         /\ \A c \in Conn :
              /\ closed[c] \in Connection
              /\ closed[c].key = conn[c].key /\ closed[c].last = conn[c].last
              /\ closed[c].delivered = conn[c].delivered /\ closed[c].task = conn[c].task
              /\ closed[c].disconnected = conn[c].disconnected
              /\ closed[c].end = IF \E k \in ks : open[k] = c THEN why ELSE conn[c].end
<1> DEFINE closed == ClosedWith(ks, why)
<1>1. conn \in [1..Len(conn) -> Connection] /\ Conn = 1..Len(conn) /\ Len(conn) \in Nat
  BY DEF TypeOK, Conn
<1>2. ASSUME NEW c \in Conn
      PROVE  /\ closed[c] \in Connection
             /\ closed[c].key = conn[c].key /\ closed[c].last = conn[c].last
             /\ closed[c].delivered = conn[c].delivered /\ closed[c].task = conn[c].task
             /\ closed[c].disconnected = conn[c].disconnected
             /\ closed[c].end = IF \E k \in ks : open[k] = c THEN why ELSE conn[c].end
  BY <1>1 DEF ClosedWith, Connection
<1>3. closed \in [1..Len(conn) -> Connection] /\ DOMAIN closed = Conn
  BY <1>1, <1>2 DEF ClosedWith
<1> HIDE DEF closed
<1>4. closed \in Seq(Connection) /\ Len(closed) = Len(conn)
  BY <1>1, <1>3, FunctionIsSeq
<1> QED BY <1>2, <1>3, <1>4 DEF closed


\* An envelope that is read is one of the log.
LEMMA EnvelopeRead ==
  ASSUME TypeOK, NEW i \in DOMAIN log, Read(log[i])
  PROVE  /\ log[i] \in Envelope
         /\ at \in Nat /\ at + 1 \in 0..Len(log)
  BY DEF TypeOK, Read, ReadRepeated, ReadRefused, ReadMisfit, ReadPending, ReadLastPart,
         ReadMessage, ReadInitialize, ReadClosed, Reads

\* The assembly that a chunk continues or begins.
LEMMA CurrentAssembly ==
  ASSUME TypeOK, NEW e \in Envelope
  PROVE  /\ Current(e) \in Assembly /\ Current(e).key = e.key
         /\ WithChunk(e) \in Chunks /\ Len(WithChunk(e)) = Len(Current(e).chunks) + 1
         /\ \A room \in Rooms(e.key) : \A a \in Assembly \union {NoAssembly} :
              [room EXCEPT ![ClientOf[e.key]] = a] \in [Client -> Assembly \union {NoAssembly}]
<1>1. e.key \in Key /\ e.seq \in Nat /\ e.part \in Nat /\ <<e.key, e.seq, e.part>> \in Key \X Nat \X Nat
  BY DEF Envelope
<1>2. assembly[ClientOf[e.key]] \in Assembly \union {NoAssembly}
  BY <1>1 DEF TypeOK
<1>3. Current(e) \in Assembly /\ Current(e).key = e.key
  <2>1. CASE AssemblyOf(e.key) # NoAssembly BY <2>1, <1>2 DEF AssemblyOf, Current
  <2>2. CASE AssemblyOf(e.key) = NoAssembly
    <3>1. <<>> \in Chunks BY DEF Chunks
    <3> QED BY <2>2, <3>1, <1>1 DEF Current, Assembly
  <2> QED BY <2>1, <2>2
<1>4. Current(e).chunks \in Seq(Key \X Nat \X Nat) BY <1>3 DEF Assembly, Chunks
<1>5. WithChunk(e) \in Chunks /\ Len(WithChunk(e)) = Len(Current(e).chunks) + 1
  BY <1>1, <1>4 DEF WithChunk, Chunks
<1>6. \A room \in Rooms(e.key) : room \in [Client -> Assembly \union {NoAssembly}]
  BY DEF Rooms, TypeOK
<1>7. ASSUME NEW room \in Rooms(e.key), NEW a \in Assembly \union {NoAssembly}
      PROVE  [room EXCEPT ![ClientOf[e.key]] = a] \in [Client -> Assembly \union {NoAssembly}]
  BY <1>6
<1> QED BY <1>3, <1>5, <1>7

\* Invalidating streams keeps the reader's tables.
LEMMA InvalidateType ==
  ASSUME TypeOK, NEW ks, Invalidate(ks)
  PROVE  /\ assembly' \in [Client -> Assembly \union {NoAssembly}]
         /\ completed' \in [Key -> Nat]
  BY DEF TypeOK, Invalidate

\* A connection that is given a message.
Given(c, seq, chunks) ==
  [conn[c] EXCEPT !.last = seq,
                  !.delivered = Append(@, [seq |-> seq, chunks |-> chunks])]

LEMMA DeliveredConnections ==
  ASSUME TypeOK, NEW k \in Key, NEW seq \in Nat, NEW chunks \in Chunks
  PROVE  LET given == Delivered(k, seq, chunks) IN
         /\ given \in Seq(Connection) /\ DOMAIN given = Conn
         /\ \A c \in Conn :
              given[c] = IF c = open[k] /\ Newer(k, seq) THEN Given(c, seq, chunks) ELSE conn[c]
<1>1. conn \in [1..Len(conn) -> Connection] /\ Conn = 1..Len(conn) /\ Len(conn) \in Nat
  BY DEF TypeOK, Conn
<1>2. CASE Newer(k, seq)
  <2> DEFINE c == open[k]
  <2>1. c \in Conn /\ conn[c] \in Connection
    BY <1>1, <1>2 DEF Newer, TypeOK
  <2> DEFINE d == [seq |-> seq, chunks |-> chunks]
  <2> DEFINE new == [conn[c] EXCEPT !.last = seq, !.delivered = Append(@, d)]
  <2>2. d \in [seq : Nat, chunks : Chunks] OBVIOUS
  <2>3. Append(conn[c].delivered, d) \in Seq([seq : Nat, chunks : Chunks])
    BY <2>1, <2>2 DEF Connection
  <2>4. new \in Connection BY <2>1, <2>3 DEF Connection
  <2>5. Delivered(k, seq, chunks) = [conn EXCEPT ![c] = new]
    BY <1>2 DEF Delivered
  <2>6. [conn EXCEPT ![c] = new] \in [1..Len(conn) -> Connection] BY <2>4, <1>1
  <2> QED BY <2>1, <2>5, <2>6, <1>1, <1>2, FunctionIsSeq DEF Given
<1>3. CASE ~Newer(k, seq)
  BY <1>1, <1>3 DEF Delivered, TypeOK
<1> QED BY <1>2, <1>3

\* What the reader does with an envelope.
LEMMA TypeRead ==
  ASSUME TypeOK, NEW i \in DOMAIN log, Read(log[i])
  PROVE  TypeOK'
<1> DEFINE e == log[i]
<1>1. e \in Envelope /\ at + 1 \in 0..Len(log) BY EnvelopeRead
<1>2. e.key \in Key /\ e.seq \in Nat /\ ClientOf[e.key] \in Client BY <1>1 DEF Envelope
<1>4. Read(e) OBVIOUS
<1> HIDE DEF e
<1>3. SUFFICES ASSUME Reads(e),
        /\ cursor' \in {cursor, at + 1}
        /\ assembly' \in [Client -> Assembly \union {NoAssembly}] /\ completed' \in [Key -> Nat]
        /\ conn' \in Seq(Connection) /\ open' \in [Key -> Nat]
        /\ \A k \in Key : open'[k] \in DOMAIN conn' \union {NoConn}
      PROVE TypeOK'
  <2> USE DEF trackerVars, readerVars
  <2>1. CASE ReadRepeated(e) BY <2>1, <1>3 DEF ReadRepeated, TypeOK, Conn
  <2>2. CASE ReadRefused(e)
    BY <2>2, <1>2, <1>3 DEF ReadRefused, Without, TypeOK, Conn
  <2>3. CASE ReadMisfit(e)
    <3>1. assembly' \in [Client -> Assembly \union {NoAssembly}]
      BY <2>3, <1>1, CurrentAssembly DEF ReadMisfit
    <3> QED BY <2>3, <3>1, <1>3 DEF ReadMisfit, TypeOK, Conn
  <2>4. CASE ReadPending(e)
    <3>1. [key |-> e.key, seq |-> Current(e).seq, chunks |-> WithChunk(e)] \in Assembly
      BY <1>1, <1>2, CurrentAssembly DEF Assembly
    <3>2. assembly' \in [Client -> Assembly \union {NoAssembly}]
      BY <2>4, <3>1, <1>1, CurrentAssembly DEF ReadPending
    <3> QED BY <2>4, <3>2, <1>3 DEF ReadPending, TypeOK, Conn
  <2>5. CASE ReadLastPart(e)
    <3>1. assembly' \in [Client -> Assembly \union {NoAssembly}]
      BY <2>5, <1>1, CurrentAssembly DEF ReadLastPart
    <3>3. completed' \in [Key -> Nat]
      BY <2>5, <1>2 DEF ReadLastPart, TypeOK
    <3>2. conn' \in Seq(Connection) /\ DOMAIN conn' = Conn
      BY <2>5, <1>1, <1>2, CurrentAssembly, DeliveredConnections DEF ReadLastPart
    <3> QED BY <2>5, <3>1, <3>2, <3>3, <1>3 DEF ReadLastPart, TypeOK
  <2>6. CASE ReadMessage(e)
    <3>1. <<>> \in Chunks BY DEF Chunks
    <3>2. conn' \in Seq(Connection) /\ DOMAIN conn' = Conn
      BY <2>6, <1>2, <3>1, DeliveredConnections DEF ReadMessage
    <3> QED BY <2>6, <3>2, <1>3 DEF ReadMessage, TypeOK
  <2>7. CASE ReadInitialize(e)
    <3>1. NewConn(e.key, e.seq) \in Connection
      <4>1. <<>> \in Chunks BY DEF Chunks
      <4>2. <<[seq |-> e.seq, chunks |-> <<>>]>> \in Seq([seq : Nat, chunks : Chunks])
        BY <4>1, <1>2
      <4> QED BY <4>2, <1>2 DEF NewConn, Connection
    <3>2. /\ ClosedWith({e.key}, "closed") \in Seq(Connection)
          /\ Len(ClosedWith({e.key}, "closed")) = Len(conn)
      BY <1>2, ClosedConnections
    <3>6. Len(conn) \in Nat /\ Conn = 1..Len(conn) BY DEF TypeOK, Conn
    <3>3. conn' \in Seq(Connection) /\ DOMAIN conn' = 1..(Len(conn) + 1)
      <4>1. conn' = Append(ClosedWith({e.key}, "closed"), NewConn(e.key, e.seq))
        BY <2>7 DEF ReadInitialize
      <4> QED BY <4>1, <3>1, <3>2
    <3>4. /\ open' \in [Key -> Nat]
          /\ \A k \in Key : open'[k] \in DOMAIN conn' \union {NoConn}
      <4>1. open' = [open EXCEPT ![e.key] = Len(conn) + 1] BY <2>7 DEF ReadInitialize
      <4>2. Len(conn) + 1 \in Nat /\ Len(conn) + 1 \in DOMAIN conn' BY <3>3, <3>6
      <4>3. Conn \subseteq DOMAIN conn' BY <3>3, <3>6
      <4> QED BY <4>1, <4>2, <4>3, <1>2 DEF TypeOK
    <3>5. assembly' = assembly /\ completed' = completed /\ cursor' = at + 1 /\ Reads(e)
      BY <2>7 DEF ReadInitialize
    <3> QED BY <3>3, <3>4, <3>5, <1>3 DEF TypeOK
  <2>8. CASE ReadClosed(e)
    <3>1. conn' \in Seq(Connection) /\ DOMAIN conn' = Conn
      BY <2>8, <1>2, ClosedConnections DEF ReadClosed
    <3>2. /\ open' \in [Key -> Nat]
          /\ \A k \in Key : open'[k] \in DOMAIN conn' \union {NoConn}
      BY <2>8, <3>1, <1>2 DEF ReadClosed, TypeOK, Conn, NoConn
    <3> QED BY <2>8, <3>1, <3>2, <1>3, InvalidateType DEF ReadClosed
  <2> QED BY <2>1, <2>2, <2>3, <2>4, <2>5, <2>6, <2>7, <2>8, <1>4 DEF Read
<1> QED
  BY <1>1, <1>3 DEF TypeOK, Reads, writerVars, Conn

\* What the tasks of connections and the app server do to them.
LEMMA TypeConnections ==
  ASSUME TypeOK,
         \/ CloseExpired \/ Shutdown
         \/ \E c \in Conn : TaskEnds(c) \/ Reap(c) \/ Forward(c) \/ AppDisconnects(c)
  PROVE  TypeOK'
<1> USE DEF backendVars, trackerVars, readerVars, writerVars, Conn
<1>1. conn \in [1..Len(conn) -> Connection] /\ Conn = 1..Len(conn) /\ Len(conn) \in Nat
  BY DEF TypeOK
<1>2. CASE CloseExpired
  <2>1. PICK ks \in SUBSET Key :
          /\ conn' = ClosedWith(ks, "closed")
          /\ open' = [k \in Key |-> IF k \in ks THEN NoConn ELSE open[k]]
          /\ Invalidate(ks)
    BY <1>2 DEF CloseExpired
  <2>2. conn' \in Seq(Connection) /\ DOMAIN conn' = Conn
    BY <2>1, ClosedConnections
  <2>3. open' \in [Key -> Nat] /\ \A k \in Key : open'[k] \in DOMAIN conn' \union {NoConn}
    BY <2>1, <2>2 DEF TypeOK, NoConn
  <2>4. work' \in Nat BY <1>2 DEF CloseExpired, Fault, Costs, TypeOK
  <2> QED BY <1>2, <2>1, <2>2, <2>3, <2>4, InvalidateType DEF CloseExpired, TypeOK
<1>3. CASE Shutdown
  <2> DEFINE closed == ClosedWith(Key, "closed")
  <2>1. closed \in Seq(Connection) /\ \A c \in Conn : closed[c] \in Connection
    BY ClosedConnections
  <2>2. \A c \in Conn : [closed[c] EXCEPT !.task = "reaped"] \in Connection
    BY <2>1 DEF Connection
  <2>3. conn' \in [1..Len(conn) -> Connection]
    BY <1>1, <1>3, <2>2 DEF Shutdown
  <2>4. conn' \in Seq(Connection) /\ DOMAIN conn' = Conn
    BY <1>1, <2>3, FunctionIsSeq
  <2>5. /\ socket' = "stopped" /\ sending' \in [Key -> SUBSET Nat]
        /\ open' = [k \in Key |-> NoConn]
    BY <1>3 DEF Shutdown
  <2> QED BY <1>3, <2>4, <2>5 DEF Shutdown, TypeOK, NoConn
<1>4. ASSUME NEW c \in Conn, Reap(c)
      PROVE  TypeOK'
  <2> DEFINE closed == ClosedWith({conn[c].key}, "reaped")
  <2>1. conn[c] \in Connection /\ conn[c].key \in Key BY <1>1 DEF Connection
  <2>2. closed \in [1..Len(conn) -> Connection] /\ closed[c] \in Connection
    BY <1>1, <2>1, ClosedConnections
  <2>3. [closed[c] EXCEPT !.task = "reaped"] \in Connection BY <2>2 DEF Connection
  <2>4. conn' \in [1..Len(conn) -> Connection]
    BY <1>4, <2>2, <2>3 DEF Reap, Reaped
  <2>5. conn' \in Seq(Connection) /\ DOMAIN conn' = Conn
    BY <1>1, <2>4, FunctionIsSeq
  <2>6. open' \in [Key -> Nat] /\ \A k \in Key : open'[k] \in DOMAIN conn' \union {NoConn}
    BY <1>4, <2>1, <2>5 DEF Reap, TypeOK, NoConn
  <2>7. Invalidate({conn[c].key}) BY <1>4 DEF Reap
  <2> QED BY <1>4, <2>5, <2>6, <2>7, InvalidateType DEF Reap, TypeOK
<1>5. ASSUME NEW c \in Conn, Forward(c)
      PROVE  TypeOK'
  <2>1. conn[c].key \in Key BY <1>1 DEF Connection
  <2>2. events' \in Seq(Key) BY <1>5, <2>1 DEF Forward, TypeOK
  <2>3. work' \in Nat BY <1>5 DEF Forward, Costs, TypeOK
  <2> QED BY <1>5, <2>2, <2>3 DEF Forward, TypeOK
<1>6. ASSUME NEW c \in Conn, AppDisconnects(c)
      PROVE  TypeOK'
  <2>1. conn[c] \in Connection BY <1>1
  <2>2. [conn[c] EXCEPT !.disconnected = TRUE] \in Connection BY <2>1 DEF Connection
  <2>3. conn' \in [1..Len(conn) -> Connection]
    BY <1>1, <1>6, <2>2 DEF AppDisconnects
  <2>4. conn' \in Seq(Connection) /\ DOMAIN conn' = Conn
    BY <1>1, <2>3, FunctionIsSeq
  <2>5. work' \in Nat BY <1>6 DEF AppDisconnects, Fault, Costs, TypeOK
  <2> QED BY <1>6, <2>4, <2>5 DEF AppDisconnects, TypeOK
<1>7. ASSUME NEW c \in Conn, TaskEnds(c)
      PROVE  TypeOK'
  <2>1. conn[c] \in Connection BY <1>1
  <2>2. [conn[c] EXCEPT !.task = "ended"] \in Connection BY <2>1 DEF Connection
  <2>3. conn' \in [1..Len(conn) -> Connection]
    BY <1>1, <1>7, <2>2 DEF TaskEnds
  <2>4. conn' \in Seq(Connection) /\ DOMAIN conn' = Conn
    BY <1>1, <2>3, FunctionIsSeq
  <2> QED BY <1>7, <2>4 DEF TaskEnds, TypeOK
<1> QED BY <1>2, <1>3, <1>4, <1>5, <1>6, <1>7

\* What the writer appends to the envelopes of a stream.
LEMMA Numbered ==
  ASSUME TypeOK, NEW k \in Key, NEW n \in Nat
  PROVE  LET new == sequenced[k] \o [i \in 1..n |-> <<seqId[k], i - 1>>] IN
         /\ new \in Seq(Nat \X Nat) /\ Len(new) = Len(sequenced[k]) + n
         /\ \A i \in 1..Len(sequenced[k]) + n :
              new[i] = IF i <= Len(sequenced[k]) THEN sequenced[k][i]
                       ELSE <<seqId[k], i - Len(sequenced[k]) - 1>>
<1> DEFINE more == [i \in 1..n |-> <<seqId[k], i - 1>>]
<1>1. sequenced[k] \in Seq(Nat \X Nat) /\ seqId[k] \in Nat /\ Len(sequenced[k]) \in Nat
  BY DEF TypeOK
<1>2. \A i \in 1..n : i - 1 \in Nat OBVIOUS
<1>3. more \in [1..n -> Nat \X Nat] BY <1>1, <1>2
<1>5. \A i \in 1..n : more[i] = <<seqId[k], i - 1>> OBVIOUS
<1> HIDE DEF more
<1>6. /\ sequenced[k] \o more \in Seq(Nat \X Nat)
      /\ Len(sequenced[k] \o more) = Len(sequenced[k]) + n
      /\ \A i \in 1..Len(sequenced[k]) + n :
           (sequenced[k] \o more)[i] = IF i <= Len(sequenced[k]) THEN sequenced[k][i]
                                       ELSE more[i - Len(sequenced[k])]
  BY <1>1, <1>3, Followed
<1>7. \A i \in 1..Len(sequenced[k]) + n :
        i > Len(sequenced[k]) => more[i - Len(sequenced[k])] = <<seqId[k], i - Len(sequenced[k]) - 1>>
  BY <1>1, <1>5
<1>8. \A i \in 1..Len(sequenced[k]) + n :
        (sequenced[k] \o more)[i] = IF i <= Len(sequenced[k]) THEN sequenced[k][i]
                                    ELSE <<seqId[k], i - Len(sequenced[k]) - 1>>
  <2> SUFFICES ASSUME NEW i \in 1..Len(sequenced[k]) + n
               PROVE  (sequenced[k] \o more)[i] =
                        IF i <= Len(sequenced[k]) THEN sequenced[k][i]
                        ELSE <<seqId[k], i - Len(sequenced[k]) - 1>>
    OBVIOUS
  <2>1. CASE i <= Len(sequenced[k]) BY <1>6, <2>1
  <2>2. CASE ~(i <= Len(sequenced[k]))
    <3>1. i > Len(sequenced[k]) BY <1>1, <2>2
    <3>2. (sequenced[k] \o more)[i] = more[i - Len(sequenced[k])] BY <1>6, <2>2
    <3> QED BY <3>1, <3>2, <1>7, <2>2
  <2> QED BY <2>1, <2>2
<1> QED BY <1>6, <1>8 DEF more

\* What the writer, the backend and the websocket do.
LEMMA TypeWriter ==
  ASSUME TypeOK,
         \/ WriterTakes \/ Connect \/ Disconnect
         \/ \E k \in Key : \/ ClientSends(k) \/ WriterSends(k)
                           \/ \E i \in 1..arrived[k] : ReadAck(k, i)
  PROVE  TypeOK'
<1> USE DEF backendVars, trackerVars, readerVars, Conn
<1>1. CASE WriterTakes
  <2> DEFINE k == Head(events)
  <2>1. k \in Key /\ Tail(events) \in Seq(Key)
    <3>1. events \in Seq(Key) /\ events # <<>> BY <1>1 DEF WriterTakes, TypeOK
    <3> QED BY <3>1
  <2>2. PICK n \in {0, 1, Parts} :
          LET places == Len(sequenced[k]) + 1 .. Len(sequenced[k]) + n IN
          /\ sequenced' = [sequenced EXCEPT ![k] = @ \o [i \in 1..n |-> <<seqId[k], i - 1>>]]
          /\ buffer' = [buffer EXCEPT ![k] = @ \union places]
          /\ sending' = [sending EXCEPT ![k] = places]
          /\ seqId' = [seqId EXCEPT ![k] = IF n = 0 THEN @ ELSE @ + 1]
    BY <1>1 DEF WriterTakes
  <2>3. n \in Nat /\ Len(sequenced[k]) \in Nat BY <2>1 DEF TypeOK
  <2>4. sequenced' \in [Key -> Seq(Nat \X Nat)]
    BY <2>1, <2>2, <2>3, Numbered DEF TypeOK
  <2>5. Len(sequenced[k]) + 1 .. Len(sequenced[k]) + n \subseteq Nat BY <2>3
  <2>6. /\ buffer' \in [Key -> SUBSET Nat] /\ sending' \in [Key -> SUBSET Nat]
        /\ seqId' \in [Key -> Nat]
    <3> DEFINE places == Len(sequenced[k]) + 1 .. Len(sequenced[k]) + n
    <3>1. /\ buffer' = [buffer EXCEPT ![k] = @ \union places]
          /\ sending' = [sending EXCEPT ![k] = places]
          /\ seqId' = [seqId EXCEPT ![k] = IF n = 0 THEN @ ELSE @ + 1]
      BY <2>2
    <3>2. places \in SUBSET Nat BY <2>5
    <3> HIDE DEF places, k
    <3>3. buffer \in [Key -> SUBSET Nat] /\ sending \in [Key -> SUBSET Nat] /\ seqId \in [Key -> Nat]
      BY DEF TypeOK
    <3>5. k \in Key BY <2>1
    <3>6. buffer[k] \in SUBSET Nat /\ seqId[k] \in Nat BY <3>3, <3>5
    <3>7. buffer[k] \union places \in SUBSET Nat BY <3>2, <3>6
    <3>4. (IF n = 0 THEN seqId[k] ELSE seqId[k] + 1) \in Nat BY <3>6
    <3> QED BY <3>1, <3>2, <3>3, <3>4, <3>7
  <2>7. events' \in Seq(Key) BY <1>1, <2>1 DEF WriterTakes
  <2> QED BY <1>1, <2>4, <2>6, <2>7 DEF WriterTakes, TypeOK
<1>2. CASE Connect
  BY <1>2 DEF Connect, Resent, TypeOK
<1>3. CASE Disconnect
  <2>1. work' \in Nat BY <1>3 DEF Disconnect, Fault, Costs, TypeOK
  <2> QED BY <1>3, <2>1 DEF Disconnect, TypeOK
<1>4. ASSUME NEW k \in Key, ClientSends(k)
      PROVE  TypeOK'
  <2>1. PICK e \in NextEnvelopes(k) :
          log' = Append(log, e) /\ last' = [last EXCEPT ![k] = e]
    BY <1>4 DEF ClientSends
  <2>2. last[k] \in Last /\ last[k].seq \in Nat /\ last[k].part \in 0..Parts
    BY DEF TypeOK, Last
  <2>3. e \in Envelope /\ e \in Last
    BY <2>1, <2>2 DEF NextEnvelopes, Envelope, Last, Kind, Chunk
  <2>4. log' \in Seq(Envelope) /\ Len(log') = Len(log) + 1 /\ Len(log) \in Nat
    BY <2>1, <2>3 DEF TypeOK
  <2>5. last' \in [Key -> Last] BY <2>1, <2>3 DEF TypeOK
  <2>6. work' \in Nat BY <1>4 DEF ClientSends, Costs, TypeOK
  <2>7. at \in 0..Len(log') /\ cursor \in 0..Len(log') BY <2>4 DEF TypeOK
  <2>8. UNCHANGED <<at, arrived, socket, readerVars, trackerVars, writerVars>>
    BY <1>4 DEF ClientSends
  <2>9. /\ arrived' \in [Key -> Nat] /\ assembly' \in [Client -> Assembly \union {NoAssembly}]
        /\ completed' \in [Key -> Nat] /\ conn' \in Seq(Connection) /\ open' \in [Key -> Nat]
        /\ \A k1 \in Key : open'[k1] \in DOMAIN conn' \union {NoConn}
        /\ socket' \in {"down", "up", "stopped"}
    BY <2>8 DEF TypeOK
  <2>10. /\ events' \in Seq(Key) /\ seqId' \in [Key -> Nat]
         /\ sequenced' \in [Key -> Seq(Nat \X Nat)] /\ buffer' \in [Key -> SUBSET Nat]
         /\ sending' \in [Key -> SUBSET Nat]
    BY <2>8 DEF TypeOK, writerVars
  <2>11. at' \in 0..Len(log') /\ cursor' \in 0..Len(log') BY <2>7, <2>8
  <2> QED BY <2>4, <2>5, <2>6, <2>9, <2>10, <2>11 DEF TypeOK
<1>5. ASSUME NEW k \in Key, WriterSends(k)
      PROVE  TypeOK'
  <2>1. sending' \in [Key -> SUBSET Nat] /\ arrived' \in [Key -> Nat]
    BY <1>5 DEF WriterSends, TypeOK
  <2> QED BY <1>5, <2>1 DEF WriterSends, TypeOK
<1>6. ASSUME NEW k \in Key, NEW i \in 1..arrived[k], ReadAck(k, i)
      PROVE  TypeOK'
  <2>1. buffer' \in [Key -> SUBSET Nat]
    BY <1>6 DEF ReadAck, TypeOK
  <2> QED BY <1>6, <2>1 DEF ReadAck, TypeOK
<1> QED BY <1>1, <1>2, <1>3, <1>4, <1>5, <1>6

LEMMA TypeNext == TypeOK /\ [Next]_vars => TypeOK'
<1>1. ASSUME TypeOK, Next
      PROVE  TypeOK'
  <2>1. CASE \E i \in DOMAIN log : Read(log[i]) BY <1>1, <2>1, TypeRead
  <2>2. CASE \/ CloseExpired \/ Shutdown
             \/ \E c \in Conn : TaskEnds(c) \/ Reap(c) \/ Forward(c) \/ AppDisconnects(c)
    BY <1>1, <2>2, TypeConnections
  <2>3. CASE \/ WriterTakes \/ Connect \/ Disconnect
             \/ \E k \in Key : \/ ClientSends(k) \/ WriterSends(k)
                               \/ \E i \in 1..arrived[k] : ReadAck(k, i)
    BY <1>1, <2>3, TypeWriter
  <2> QED BY <1>1, <2>1, <2>2, <2>3 DEF Next
<1>2. ASSUME TypeOK, UNCHANGED vars
      PROVE  TypeOK'
  BY <1>2 DEF TypeOK, vars, backendVars, readerVars, trackerVars, writerVars, Conn
<1> QED BY <1>1, <1>2

\* Every variable keeps its type.
THEOREM TypeCorrect == Spec => []TypeOK
<1> QED BY InitType, TypeNext, PTL DEF Spec

-----------------------------------------------------------------------------
\* The virtual connections.

\* The open connection of a stream is one of that stream.
OpenInv == \A k \in Key : open[k] # NoConn => conn[open[k]].key = k

\* A connection has been given the initialize that opened it, and remembers
\* the number of the last message it was given.
LastInv ==
  \A c \in Conn : LET given == conn[c].delivered IN
    given # <<>> /\ conn[c].last = given[Len(given)].seq

ConnInv == TypeOK /\ OpenInv /\ LastInv /\ OpenIsTracked /\ DeliveredInOrder

\* A connection has a task that is not joined, and that runs unless the app
\* server gave the connection up.
Unjoined(r) ==
  \/ r.task = "running"
  \/ r.task = "ended" /\ r.disconnected

LEMMA InitConn == Init => OpenInv /\ LastInv /\ OpenIsTracked /\ DeliveredInOrder
  BY DEF Init, OpenInv, LastInv, OpenIsTracked, DeliveredInOrder, Conn

\* Only what the connections are and which are open matters.
LEMMA ConnUnchanged ==
  ASSUME ConnInv, UNCHANGED trackerVars
  PROVE  OpenInv' /\ LastInv' /\ OpenIsTracked' /\ DeliveredInOrder'
  BY DEF ConnInv, OpenInv, LastInv, OpenIsTracked, DeliveredInOrder, Conn, trackerVars

\* A step that leaves keys and messages alone.
LEMMA MessagesUnchanged ==
  ASSUME ConnInv, DOMAIN conn' = Conn,
         \A c \in Conn : /\ conn'[c].delivered = conn[c].delivered
                         /\ conn'[c].last = conn[c].last
  PROVE  LastInv' /\ DeliveredInOrder'
  BY DEF ConnInv, LastInv, DeliveredInOrder, Conn

Deliveries == [seq : Nat, chunks : Chunks]

\* A later message at the end leaves the messages in order.
LEMMA AppendLater ==
  ASSUME NEW given \in Seq(Deliveries), given # <<>>, NEW d \in Deliveries,
         given[Len(given)].seq < d.seq,
         \A i, j \in DOMAIN given : i < j => given[i].seq < given[j].seq
  PROVE  LET new == Append(given, d) IN
         /\ new # <<>> /\ new[Len(new)] = d
         /\ \A i, j \in DOMAIN new : i < j => new[i].seq < new[j].seq
<1> DEFINE n == Len(given)
           new == Append(given, d)
<1>1. n \in Nat /\ n >= 1 /\ DOMAIN given = 1..n /\ \A i \in 1..n : given[i] \in Deliveries
  OBVIOUS
<1>2. /\ Len(new) = n + 1 /\ DOMAIN new = 1..(n + 1) /\ new[n + 1] = d
      /\ \A i \in 1..n : new[i] = given[i]
  OBVIOUS
<1>3. d.seq \in Nat /\ \A i \in 1..n : given[i].seq \in Nat BY <1>1 DEF Deliveries
<1>4. \A i, j \in 1..n : i < j => given[i].seq < given[j].seq BY <1>1
<1>5. given[n].seq < d.seq OBVIOUS
<1> HIDE DEF n, new
<1>6. \A i \in 1..n : given[i].seq < d.seq
  <2> SUFFICES ASSUME NEW i \in 1..n PROVE given[i].seq < d.seq
    OBVIOUS
  <2>1. CASE i = n BY <2>1, <1>5
  <2>2. CASE i < n
    <3>1. n \in 1..n BY <1>1
    <3>2. given[i].seq < given[n].seq BY <2>2, <3>1, <1>4
    <3> QED BY <3>1, <3>2, <1>3, <1>5
  <2> QED BY <2>1, <2>2, <1>1
<1>7. ASSUME NEW i \in 1..(n + 1), NEW j \in 1..(n + 1), i < j
      PROVE  new[i].seq < new[j].seq
  <2>1. i \in 1..n BY <1>1, <1>7
  <2>2. CASE j \in 1..n BY <2>1, <2>2, <1>2, <1>4, <1>7
  <2>3. CASE j = n + 1 BY <2>1, <2>3, <1>2, <1>6
  <2> QED BY <2>2, <2>3, <1>1
<1>8. new # <<>> BY <1>1, <1>2
<1> QED BY <1>2, <1>7, <1>8 DEF new

LEMMA ConnDelivered ==
  ASSUME ConnInv, TypeOK', NEW k \in Key, NEW seq \in Nat, NEW chunks \in Chunks,
         conn' = Delivered(k, seq, chunks), open' = open
  PROVE  OpenInv' /\ LastInv' /\ OpenIsTracked' /\ DeliveredInOrder'
<1> DEFINE d == [seq |-> seq, chunks |-> chunks]
           changed(c) == Given(c, seq, chunks)
<1>1. /\ DOMAIN conn' = Conn
      /\ \A c \in Conn :
           conn'[c] = IF c = open[k] /\ Newer(k, seq) THEN changed(c) ELSE conn[c]
  <2>1. TypeOK BY DEF ConnInv
  <2>2. LET given == Delivered(k, seq, chunks) IN
        /\ given \in Seq(Connection) /\ DOMAIN given = Conn
        /\ \A c \in Conn :
             given[c] = IF c = open[k] /\ Newer(k, seq) THEN Given(c, seq, chunks) ELSE conn[c]
    BY <2>1, DeliveredConnections
  <2> QED BY <2>2
<1>2. \A c \in Conn : conn[c] \in Connection BY ConnectionTypes DEF ConnInv
<1>3. \A c \in Conn : /\ changed(c).key = conn[c].key /\ changed(c).end = conn[c].end
                      /\ changed(c).task = conn[c].task /\ changed(c).last = seq
                      /\ changed(c).delivered = Append(conn[c].delivered, d)
  BY <1>2 DEF Connection, Given
<1>9. \A c \in Conn : changed(c).disconnected = conn[c].disconnected
  BY <1>2 DEF Connection, Given
<1> HIDE DEF changed
<1>6. DOMAIN conn' = Conn /\ open' = open BY <1>1
<1>7. \A c \in Conn : /\ conn'[c].key = conn[c].key /\ conn'[c].end = conn[c].end
                      /\ conn'[c].task = conn[c].task
                      /\ conn'[c].disconnected = conn[c].disconnected
  BY <1>1, <1>3, <1>9
<1>4. OpenInv' /\ OpenIsTracked'
  <2>1. \A k1 \in Key : open[k1] \in Conn \union {NoConn} BY DEF ConnInv, TypeOK
  <2>2. OpenInv' BY <1>6, <1>7, <2>1 DEF ConnInv, OpenInv
  <2>3. OpenIsTracked' BY <1>6, <1>7 DEF ConnInv, OpenIsTracked, Conn
  <2> QED BY <2>2, <2>3
<1>5. ASSUME NEW c \in Conn
      PROVE  LET given == conn'[c].delivered IN
             /\ given # <<>> /\ conn'[c].last = given[Len(given)].seq
             /\ \A i, j \in DOMAIN given : i < j => given[i].seq < given[j].seq
  <2> DEFINE old == conn[c].delivered
  <2>1. /\ old \in Seq([seq : Nat, chunks : Chunks]) /\ old # <<>>
        /\ conn[c].last = old[Len(old)].seq
        /\ \A i, j \in DOMAIN old : i < j => old[i].seq < old[j].seq
    BY <1>2 DEF ConnInv, LastInv, DeliveredInOrder, Connection
  <2>2. CASE ~(c = open[k] /\ Newer(k, seq)) BY <2>1, <2>2, <1>1
  <2>3. CASE c = open[k] /\ Newer(k, seq)
    <3>1. conn'[c].delivered = Append(old, d) /\ conn'[c].last = seq /\ conn[c].last < seq
      BY <2>3, <1>1, <1>3 DEF Newer
    <3>2. d \in Deliveries /\ d.seq = seq BY DEF Deliveries
    <3>3. old \in Seq(Deliveries) BY <2>1 DEF Deliveries
    <3>4. conn[c].last < d.seq BY <3>1, <3>2
    <3>6. old # <<>> /\ old[Len(old)].seq < d.seq BY <2>1, <3>4
    <3>7. \A i, j \in DOMAIN old : i < j => old[i].seq < old[j].seq BY <2>1
    <3> HIDE DEF d, old
    <3>5. LET given == Append(old, d) IN
          /\ given # <<>> /\ given[Len(given)] = d
          /\ \A i, j \in DOMAIN given : i < j => given[i].seq < given[j].seq
      BY <3>2, <3>3, <3>6, <3>7, AppendLater
    <3> QED BY <3>1, <3>2, <3>5
  <2> QED BY <2>2, <2>3
<1>8. LastInv' /\ DeliveredInOrder' BY <1>5, <1>6 DEF LastInv, DeliveredInOrder, Conn
<1> QED BY <1>4, <1>8

LEMMA ConnOpened ==
  ASSUME ConnInv, NEW i \in DOMAIN log, Read(log[i]), ReadInitialize(log[i])
  PROVE  OpenInv' /\ LastInv' /\ OpenIsTracked' /\ DeliveredInOrder'
<1> DEFINE e == log[i]
           closed == ClosedWith({e.key}, "closed")
           new == NewConn(e.key, e.seq)
           n == Len(conn)
<1>1. e.key \in Key /\ e.seq \in Nat BY EnvelopeRead DEF ConnInv, Envelope
<1>2. /\ closed \in Seq(Connection) /\ Len(closed) = n /\ DOMAIN closed = Conn
      /\ \A c \in Conn :
           /\ closed[c].key = conn[c].key /\ closed[c].last = conn[c].last
           /\ closed[c].delivered = conn[c].delivered /\ closed[c].task = conn[c].task
           /\ closed[c].disconnected = conn[c].disconnected
           /\ closed[c].end = IF open[e.key] = c THEN "closed" ELSE conn[c].end
  <2>1. \A c : (\E k \in {e.key} : open[k] = c) <=> open[e.key] = c OBVIOUS
  <2> HIDE DEF e
  <2> QED BY <1>1, <2>1, ClosedConnections DEF ConnInv
<1>3. conn' = Append(closed, new) /\ open' = [open EXCEPT ![e.key] = n + 1]
  BY DEF ReadInitialize
<1>4. /\ new.key = e.key /\ new.last = e.seq /\ new.task = "running" /\ new.end = "none"
      /\ new.delivered = <<[seq |-> e.seq, chunks |-> <<>>]>>
  BY DEF NewConn
<1> HIDE DEF e, closed, new
<1>5. n \in Nat /\ Conn = 1..n BY DEF ConnInv, TypeOK, Conn
<1>6. /\ DOMAIN conn' = 1..(n + 1) /\ conn'[n + 1] = new
      /\ \A c \in Conn : conn'[c] = closed[c]
  <2>1. /\ DOMAIN Append(closed, new) = 1..(n + 1) /\ Append(closed, new)[n + 1] = new
        /\ \A c \in 1..n : Append(closed, new)[c] = closed[c]
    BY <1>2, <1>5
  <2> QED BY <2>1, <1>3, <1>5
<1>8. open \in [Key -> Nat] /\ \A k \in Key : open[k] \in Conn \union {NoConn}
  BY DEF ConnInv, TypeOK
<1>9. OpenInv'
  <2> SUFFICES ASSUME NEW k \in Key, open'[k] # NoConn
               PROVE  conn'[open'[k]].key = k
    BY DEF OpenInv
  <2>1. CASE k = e.key BY <2>1, <1>1, <1>3, <1>4, <1>6, <1>8
  <2>2. CASE k # e.key
    <3>1. open'[k] = open[k] /\ open[k] \in Conn BY <2>2, <1>3, <1>8
    <3> QED BY <3>1, <1>2, <1>6 DEF ConnInv, OpenInv
  <2> QED BY <2>1, <2>2
<1>10. \A c \in Conn : conn[c].key \in Key BY ConnectionTypes DEF ConnInv
<1>11. OpenIsTracked'
  <2> SUFFICES ASSUME NEW c \in 1..(n + 1)
               PROVE  /\ conn'[c].end = "none" <=> open'[conn'[c].key] = c
                      /\ conn'[c].end = "none" => Unjoined(conn'[c])
    BY <1>6 DEF OpenIsTracked, Unjoined, Conn
  <2>1. CASE c = n + 1 BY <2>1, <1>1, <1>3, <1>4, <1>6, <1>8 DEF Unjoined
  <2>2. CASE c \in Conn
    <3>1. conn'[c].key = conn[c].key /\ (Unjoined(conn[c]) => Unjoined(conn'[c]))
          /\ conn'[c].end = IF open[e.key] = c THEN "closed" ELSE conn[c].end
      BY <2>2, <1>2, <1>6 DEF Unjoined
    <3>2. /\ conn[c].end = "none" <=> open[conn[c].key] = c
          /\ conn[c].end = "none" => Unjoined(conn[c])
      BY <2>2 DEF ConnInv, OpenIsTracked, Unjoined
    <3>3. c # n + 1 BY <2>2, <1>5
    <3>4. CASE conn[c].key = e.key
      BY <3>1, <3>2, <3>3, <3>4, <1>1, <1>3, <1>8
    <3>5. CASE conn[c].key # e.key
      <4>1. open[e.key] # c
        BY <3>5, <2>2, <1>1, <1>5, <1>8 DEF ConnInv, OpenInv, NoConn
      <4> QED BY <3>1, <3>2, <3>5, <4>1, <2>2, <1>3, <1>8, <1>10
    <3> QED BY <3>4, <3>5
  <2> QED BY <2>1, <2>2, <1>5
<1>12. LastInv' /\ DeliveredInOrder'
  <2> SUFFICES ASSUME NEW c \in 1..(n + 1)
               PROVE  LET given == conn'[c].delivered IN
                      /\ given # <<>> /\ conn'[c].last = given[Len(given)].seq
                      /\ \A p, q \in DOMAIN given : p < q => given[p].seq < given[q].seq
    BY <1>6 DEF LastInv, DeliveredInOrder, Conn
  <2>1. CASE c = n + 1
    <3>1. conn'[c].delivered = <<[seq |-> e.seq, chunks |-> <<>>]>> /\ conn'[c].last = e.seq
      BY <2>1, <1>4, <1>6
    <3> QED BY <3>1
  <2>2. CASE c \in Conn
    BY <2>2, <1>2, <1>6 DEF ConnInv, LastInv, DeliveredInOrder
  <2> QED BY <2>1, <2>2, <1>5
<1> QED BY <1>9, <1>11, <1>12

\* Steps that end connections.
LEMMA ConnClosed ==
  ASSUME ConnInv, NEW ks \in SUBSET Key, conn' = ClosedWith(ks, "closed"),
         open' = [k \in Key |-> IF k \in ks THEN NoConn ELSE open[k]]
  PROVE  OpenInv' /\ LastInv' /\ OpenIsTracked' /\ DeliveredInOrder'
<1>1. /\ DOMAIN conn' = Conn
      /\ \A c \in Conn :
           /\ conn'[c].key = conn[c].key /\ conn'[c].last = conn[c].last
           /\ conn'[c].delivered = conn[c].delivered
           /\ Unjoined(conn[c]) => Unjoined(conn'[c])
           /\ conn'[c].end = IF \E k \in ks : open[k] = c THEN "closed" ELSE conn[c].end
  BY ClosedConnections DEF ConnInv, Unjoined
<1>2. /\ \A k \in Key : open[k] \in Conn \union {NoConn}
      /\ \A c \in Conn : conn[c].key \in Key /\ c # NoConn
  BY ConnectionTypes DEF ConnInv, TypeOK
<1>3. OpenInv'
  BY <1>1, <1>2 DEF ConnInv, OpenInv
<1>4. OpenIsTracked'
  <2> SUFFICES ASSUME NEW c \in Conn
               PROVE  /\ conn'[c].end = "none" <=> open'[conn'[c].key] = c
                      /\ conn'[c].end = "none" => Unjoined(conn'[c])
    BY <1>1 DEF OpenIsTracked, Unjoined, Conn
  <2>1. /\ conn[c].end = "none" <=> open[conn[c].key] = c
        /\ conn[c].end = "none" => Unjoined(conn[c])
    BY DEF ConnInv, OpenIsTracked, Unjoined
  <2>2. \A k \in Key : open[k] = c => k = conn[c].key
    BY <1>2 DEF ConnInv, OpenInv
  <2>3. CASE conn[c].key \in ks BY <2>1, <2>2, <2>3, <1>1, <1>2
  <2>4. CASE conn[c].key \notin ks BY <2>1, <2>2, <2>4, <1>1, <1>2
  <2> QED BY <2>3, <2>4
<1> QED BY <1>1, <1>3, <1>4, MessagesUnchanged

LEMMA ConnShutdown ==
  ASSUME ConnInv, Shutdown
  PROVE  OpenInv' /\ LastInv' /\ OpenIsTracked' /\ DeliveredInOrder'
<1> DEFINE closed == ClosedWith(Key, "closed")
<1>1. \A c \in Conn :
        /\ closed[c] \in Connection /\ closed[c].key = conn[c].key
        /\ closed[c].last = conn[c].last /\ closed[c].delivered = conn[c].delivered
        /\ closed[c].end = IF \E k \in Key : open[k] = c THEN "closed" ELSE conn[c].end
  BY ClosedConnections DEF ConnInv
<1>2. /\ conn' = [c \in Conn |-> [closed[c] EXCEPT !.task = "reaped"]]
      /\ open' = [k \in Key |-> NoConn]
  BY DEF Shutdown
<1>3. \A c \in Conn : conn[c].key \in Key /\ c # NoConn
  BY ConnectionTypes DEF ConnInv
<1> HIDE DEF closed
<1>4. DOMAIN conn' = Conn
      /\ \A c \in Conn :
           /\ conn'[c].key = conn[c].key /\ conn'[c].last = conn[c].last
           /\ conn'[c].delivered = conn[c].delivered /\ conn'[c].end = closed[c].end
  <2>1. ASSUME NEW c \in Conn
        PROVE  /\ conn'[c].key = closed[c].key /\ conn'[c].last = closed[c].last
               /\ conn'[c].delivered = closed[c].delivered /\ conn'[c].end = closed[c].end
    <3>1. closed[c] \in Connection BY <1>1
    <3>2. conn'[c] = [closed[c] EXCEPT !.task = "reaped"] BY <1>2
    <3> QED BY <3>1, <3>2 DEF Connection
  <2>2. DOMAIN conn' = Conn BY <1>2
  <2> QED BY <2>1, <2>2, <1>1
<1>5. \A c \in Conn : closed[c].end # "none" /\ open'[conn[c].key] # c
  BY <1>1, <1>2, <1>3 DEF ConnInv, OpenIsTracked
<1>6. OpenInv' /\ OpenIsTracked'
  <2>1. OpenInv' BY <1>2 DEF OpenInv
  <2>2. \A c \in Conn : conn'[c].end # "none" /\ open'[conn'[c].key] # c
    BY <1>4, <1>5
  <2>3. OpenIsTracked' BY <1>4, <2>2 DEF OpenIsTracked, Conn
  <2> QED BY <2>1, <2>3
<1> QED BY <1>4, <1>6, MessagesUnchanged

LEMMA ConnReaped ==
  ASSUME ConnInv, NEW c \in Conn, Reap(c)
  PROVE  OpenInv' /\ LastInv' /\ OpenIsTracked' /\ DeliveredInOrder'
<1> DEFINE k == conn[c].key
           closed == ClosedWith({k}, "reaped")
<1>1. /\ \A x \in Conn : conn[x] \in Connection /\ conn[x].key \in Key /\ x # NoConn
      /\ \A k1 \in Key : open[k1] \in Conn \union {NoConn}
      /\ open \in [Key -> Nat]
  BY ConnectionTypes DEF ConnInv, TypeOK
<1>2. /\ DOMAIN closed = Conn
      /\ \A x \in Conn :
           /\ closed[x] \in Connection /\ closed[x].key = conn[x].key
           /\ closed[x].last = conn[x].last /\ closed[x].delivered = conn[x].delivered
           /\ closed[x].task = conn[x].task
           /\ closed[x].disconnected = conn[x].disconnected
           /\ closed[x].end = IF \E k1 \in {k} : open[k1] = x THEN "reaped" ELSE conn[x].end
  BY <1>1, ClosedConnections DEF ConnInv
<1>3. /\ conn' = [closed EXCEPT ![c].task = "reaped"]
      /\ open' = [open EXCEPT ![k] = NoConn]
  BY DEF Reap, Reaped
<1>4. k \in Key BY <1>1
<1>5. \A x \in Conn : /\ conn[x].end = "none" <=> open[conn[x].key] = x
                      /\ conn[x].end = "none" => Unjoined(conn[x])
  BY DEF ConnInv, OpenIsTracked, Unjoined
<1>6. \A x \in Conn : open[k] = x => conn[x].key = k
  BY <1>1, <1>4 DEF ConnInv, OpenInv
<1>7. k = conn[c].key OBVIOUS
<1> HIDE DEF k, closed
<1>8. /\ DOMAIN conn' = Conn
      /\ \A x \in Conn :
           /\ conn'[x].key = conn[x].key /\ conn'[x].last = conn[x].last
           /\ conn'[x].delivered = conn[x].delivered
           /\ conn'[x].end = IF open[k] = x THEN "reaped" ELSE conn[x].end
           /\ x # c /\ Unjoined(conn[x]) => Unjoined(conn'[x])
  BY <1>2, <1>3 DEF Connection, Unjoined
<1>9. OpenInv'
  BY <1>1, <1>3, <1>4, <1>8 DEF ConnInv, OpenInv
<1>10. OpenIsTracked'
  <2> SUFFICES ASSUME NEW x \in Conn
               PROVE  /\ conn'[x].end = "none" <=> open'[conn'[x].key] = x
                      /\ conn'[x].end = "none" => Unjoined(conn'[x])
    BY <1>8 DEF OpenIsTracked, Unjoined, Conn
  <2>1. CASE conn[x].key = k
    <3>1. conn'[x].end # "none" BY <2>1, <1>5, <1>8
    <3>2. open'[conn'[x].key] # x BY <2>1, <1>1, <1>3, <1>4, <1>8
    <3> QED BY <3>1, <3>2
  <2>2. CASE conn[x].key # k
    <3>1. open[k] # x /\ x # c BY <2>2, <1>6, <1>7
    <3>2. open'[conn[x].key] = open[conn[x].key] BY <2>2, <1>1, <1>3
    <3> QED BY <3>1, <3>2, <1>5, <1>8
  <2> QED BY <2>1, <2>2
<1> QED BY <1>8, <1>9, <1>10, MessagesUnchanged

LEMMA ConnTaskEnds ==
  ASSUME ConnInv, NEW c \in Conn, TaskEnds(c)
  PROVE  OpenInv' /\ LastInv' /\ OpenIsTracked' /\ DeliveredInOrder'
<1>1. \A x \in Conn : conn[x] \in Connection BY ConnectionTypes DEF ConnInv
<1>2. /\ conn' = [conn EXCEPT ![c].task = "ended"] /\ open' = open
      /\ \A k \in Key : open[k] \in Conn \union {NoConn}
      /\ conn[c].end = "none" => conn[c].disconnected
  BY DEF TaskEnds, Cancelled, ConnInv, TypeOK
<1>3. /\ DOMAIN conn' = Conn
      /\ \A x \in Conn :
           /\ conn'[x].key = conn[x].key /\ conn'[x].last = conn[x].last
           /\ conn'[x].delivered = conn[x].delivered /\ conn'[x].end = conn[x].end
           /\ conn'[x].disconnected = conn[x].disconnected
           /\ conn'[x].task = IF x = c THEN "ended" ELSE conn[x].task
  BY <1>1, <1>2 DEF Connection, Conn
<1>4. OpenInv' BY <1>2, <1>3 DEF ConnInv, OpenInv
<1>5. OpenIsTracked' BY <1>2, <1>3 DEF ConnInv, OpenIsTracked, Conn
<1> QED BY <1>3, <1>4, <1>5, MessagesUnchanged

LEMMA ConnDisconnects ==
  ASSUME ConnInv, NEW c \in Conn, AppDisconnects(c)
  PROVE  OpenInv' /\ LastInv' /\ OpenIsTracked' /\ DeliveredInOrder'
<1>1. \A x \in Conn : conn[x] \in Connection BY ConnectionTypes DEF ConnInv
<1>2. /\ conn' = [conn EXCEPT ![c].disconnected = TRUE] /\ open' = open
      /\ \A k \in Key : open[k] \in Conn \union {NoConn}
  BY DEF AppDisconnects, ConnInv, TypeOK
<1>3. /\ DOMAIN conn' = Conn
      /\ \A x \in Conn :
           /\ conn'[x].key = conn[x].key /\ conn'[x].last = conn[x].last
           /\ conn'[x].delivered = conn[x].delivered /\ conn'[x].end = conn[x].end
           /\ conn'[x].task = conn[x].task
           /\ conn[x].disconnected => conn'[x].disconnected
  BY <1>1, <1>2 DEF Connection, Conn
<1>4. OpenInv' BY <1>2, <1>3 DEF ConnInv, OpenInv
<1>5. OpenIsTracked' BY <1>2, <1>3 DEF ConnInv, OpenIsTracked, Conn
<1> QED BY <1>3, <1>4, <1>5, MessagesUnchanged

LEMMA ConnRead ==
  ASSUME ConnInv, TypeOK', NEW i \in DOMAIN log, Read(log[i])
  PROVE  OpenInv' /\ LastInv' /\ OpenIsTracked' /\ DeliveredInOrder'
<1> DEFINE e == log[i]
<1>1. /\ e \in Envelope /\ e.key \in Key /\ e.seq \in Nat /\ WithChunk(e) \in Chunks
      /\ <<>> \in Chunks /\ TypeOK
  BY EnvelopeRead, CurrentAssembly DEF ConnInv, Envelope, Chunks
<1>2. Read(e) OBVIOUS
<1>3. ReadInitialize(e) => OpenInv' /\ LastInv' /\ OpenIsTracked' /\ DeliveredInOrder'
  BY ConnOpened
<1> HIDE DEF e
<1>4. CASE ReadRepeated(e) \/ ReadRefused(e) \/ ReadMisfit(e) \/ ReadPending(e)
  <2>1. UNCHANGED trackerVars
    BY <1>4 DEF ReadRepeated, ReadRefused, ReadMisfit, ReadPending
  <2> QED BY <2>1, ConnUnchanged
<1>5. CASE ReadMessage(e)
  <2>1. conn' = Delivered(e.key, e.seq, <<>>) /\ open' = open BY <1>5 DEF ReadMessage
  <2> QED BY <2>1, <1>1, ConnDelivered
<1>6. CASE ReadLastPart(e)
  <2>1. conn' = Delivered(e.key, e.seq, WithChunk(e)) /\ open' = open
    BY <1>6 DEF ReadLastPart
  <2> QED BY <2>1, <1>1, ConnDelivered
<1>7. CASE ReadClosed(e)
  <2>1. conn' = ClosedWith({e.key}, "closed") /\ open' = [open EXCEPT ![e.key] = NoConn]
    BY <1>7 DEF ReadClosed
  <2>2. open' = [k \in Key |-> IF k \in {e.key} THEN NoConn ELSE open[k]]
    BY <2>1, <1>1 DEF TypeOK
  <2>3. e.key \in Key /\ {e.key} \in SUBSET Key BY <1>1
  <2>4. conn' = ClosedWith({e.key}, "closed") BY <2>1
  <2> QED BY <2>2, <2>3, <2>4, <1>1, ConnClosed
<1> QED BY <1>2, <1>3, <1>4, <1>5, <1>6, <1>7 DEF Read

LEMMA ConnStep == ConnInv /\ [Next]_vars => ConnInv'
<1> SUFFICES ASSUME ConnInv, [Next]_vars
             PROVE  OpenInv' /\ LastInv' /\ OpenIsTracked' /\ DeliveredInOrder'
  BY TypeNext DEF ConnInv
<1>1. TypeOK' BY TypeNext DEF ConnInv
<1> USE DEF Conn
<1>2. ASSUME NEW i \in DOMAIN log, Read(log[i])
      PROVE  OpenInv' /\ LastInv' /\ OpenIsTracked' /\ DeliveredInOrder'
  BY <1>1, <1>2, ConnRead
<1>3. CASE CloseExpired
  <2>1. PICK ks \in SUBSET Key :
          /\ conn' = ClosedWith(ks, "closed")
          /\ open' = [k \in Key |-> IF k \in ks THEN NoConn ELSE open[k]]
    BY <1>3 DEF CloseExpired
  <2> QED BY <2>1, ConnClosed
<1>4. CASE Shutdown
  BY <1>4, ConnShutdown
<1>5. ASSUME NEW c \in Conn, Reap(c)
      PROVE  OpenInv' /\ LastInv' /\ OpenIsTracked' /\ DeliveredInOrder'
  BY <1>5, ConnReaped
<1>6. ASSUME NEW c \in Conn, AppDisconnects(c)
      PROVE  OpenInv' /\ LastInv' /\ OpenIsTracked' /\ DeliveredInOrder'
  BY <1>6, ConnDisconnects
<1>8. ASSUME NEW c \in Conn, TaskEnds(c)
      PROVE  OpenInv' /\ LastInv' /\ OpenIsTracked' /\ DeliveredInOrder'
  BY <1>8, ConnTaskEnds
<1>7. CASE \/ \E c \in Conn : Forward(c)
           \/ WriterTakes \/ Connect \/ Disconnect \/ UNCHANGED vars
           \/ \E k \in Key : \/ ClientSends(k) \/ WriterSends(k)
                             \/ \E i \in 1..arrived[k] : ReadAck(k, i)
  <2>1. UNCHANGED trackerVars
    BY <1>7 DEF Forward, WriterTakes, Connect, Disconnect, ClientSends, WriterSends, ReadAck, vars
  <2> QED BY <2>1, ConnUnchanged
<1> QED BY <1>2, <1>3, <1>4, <1>5, <1>6, <1>7, <1>8 DEF Next

\* For any streams, clients and faults, the app server has been told of the end
\* of exactly the connections that the tracker dropped, and one whose end it was
\* not told has a task that is still to be joined: a running one, unless the app
\* server gave that connection up itself.
THEOREM OpenTracked == Spec => []OpenIsTracked
<1>1. Init => ConnInv BY InitType, InitConn DEF ConnInv
<1>2. ConnInv => OpenIsTracked BY DEF ConnInv
<1> QED BY <1>1, <1>2, ConnStep, PTL DEF Spec

\* For any streams and any replay by the backend, a connection gets the
\* messages of its stream in order and none twice.
THEOREM DeliveryInOrder == Spec => []DeliveredInOrder
<1>1. Init => ConnInv BY InitType, InitConn DEF ConnInv
<1>2. ConnInv => DeliveredInOrder BY DEF ConnInv
<1> QED BY <1>1, <1>2, ConnStep, PTL DEF Spec

-----------------------------------------------------------------------------
\* The half-assembled messages.

\* An assembly is filed under the client of its stream and holds the first
\* chunks of one message.
AssemblyInv ==
  \A c \in Client : assembly[c] # NoAssembly =>
    /\ ClientOf[assembly[c].key] = c
    /\ \A p \in DOMAIN assembly[c].chunks :
         assembly[c].chunks[p] = <<assembly[c].key, assembly[c].seq, p>>

Bounded == Cardinality(Assembling) <= MaxAssembly

ReaderInv == ConnInv /\ AssemblyInv /\ AssembledIsSent /\ Bounded

LEMMA AssemblingFinite ==
  /\ IsFiniteSet(Assembling) /\ Cardinality(Assembling) \in Nat
  /\ IsFiniteSet(Assembling') /\ Cardinality(Assembling') \in Nat
<1>1. Assembling \in SUBSET Client /\ Assembling' \in SUBSET Client BY DEF Assembling
<1> QED BY <1>1, FS_Subset, FS_CardinalityType

\* Fewer assemblies are not too many.
LEMMA FewerAssemblies ==
  ASSUME Bounded, Assembling' \subseteq Assembling
  PROVE  Bounded'
<1>1. Assembling' \in SUBSET Assembling OBVIOUS
<1>2. Cardinality(Assembling') <= Cardinality(Assembling)
  BY <1>1, AssemblingFinite, FS_Subset
<1> QED BY <1>2, AssemblingFinite DEF Bounded

LEMMA InitReader == Init => AssemblyInv /\ AssembledIsSent /\ Bounded
<1> SUFFICES ASSUME Init PROVE AssemblyInv /\ AssembledIsSent /\ Bounded
  OBVIOUS
<1>1. AssemblyInv /\ AssembledIsSent
  BY DEF Init, AssemblyInv, AssembledIsSent, Conn
<1>2. Assembling = {} BY DEF Init, Assembling
<1>3. Cardinality({}) = 0 BY FS_EmptySet
<1> QED BY <1>1, <1>2, <1>3 DEF Bounded

\* A step that only drops assemblies.
LEMMA AssembliesDropped ==
  ASSUME ReaderInv,
         \A c \in Client : assembly'[c] \in {assembly[c], NoAssembly}
  PROVE  AssemblyInv' /\ Bounded'
<1>1. AssemblyInv' BY DEF ReaderInv, AssemblyInv
<1>2. Assembling' \subseteq Assembling BY DEF Assembling
<1> QED BY <1>1, <1>2, FewerAssemblies DEF ReaderInv

\* The chunk that fits makes an assembly one chunk longer.
LEMMA ChunkFits ==
  ASSUME ReaderInv, NEW e \in Envelope, Fits(e)
  PROVE  /\ Current(e).seq = e.seq /\ WithChunk(e) \in Chunks
         /\ Len(WithChunk(e)) = e.part
         /\ \A p \in DOMAIN WithChunk(e) : WithChunk(e)[p] = <<e.key, e.seq, p>>
<1> DEFINE a == Current(e)
           x == <<e.key, e.seq, e.part>>
<1>1. /\ a \in Assembly /\ a.key = e.key /\ WithChunk(e) \in Chunks
      /\ Len(WithChunk(e)) = Len(a.chunks) + 1
  BY CurrentAssembly DEF ReaderInv, ConnInv
<1>2. a.seq = e.seq /\ e.part = Len(a.chunks) + 1 BY DEF Fits
<1>3. ClientOf[e.key] \in Client BY DEF Envelope
<1>4. \A p \in DOMAIN a.chunks : a.chunks[p] = <<e.key, e.seq, p>>
  <2>1. CASE AssemblyOf(e.key) # NoAssembly
    <3>1. a = assembly[ClientOf[e.key]] /\ a # NoAssembly
      BY <2>1 DEF AssemblyOf, Current
    <3> QED BY <3>1, <1>1, <1>2, <1>3 DEF ReaderInv, AssemblyInv
  <2>2. CASE AssemblyOf(e.key) = NoAssembly
    <3>1. a.chunks = <<>> BY <2>2 DEF Current
    <3> QED BY <3>1
  <2> QED BY <2>1, <2>2
<1>5. a.chunks \in Seq(Key \X Nat \X Nat) /\ x \in Key \X Nat \X Nat
  BY <1>1 DEF Assembly, Chunks, Envelope
<1>6. WithChunk(e) = Append(a.chunks, x) BY DEF WithChunk
<1> HIDE DEF a, x
<1>7. /\ DOMAIN WithChunk(e) = 1..(Len(a.chunks) + 1) /\ Len(a.chunks) \in Nat
      /\ \A p \in 1..Len(a.chunks) : p \in DOMAIN a.chunks /\ WithChunk(e)[p] = a.chunks[p]
      /\ WithChunk(e)[Len(a.chunks) + 1] = x
  BY <1>5, <1>6
<1>8. ASSUME NEW p \in DOMAIN WithChunk(e)
      PROVE  WithChunk(e)[p] = <<e.key, e.seq, p>>
  <2>1. CASE p = Len(a.chunks) + 1 BY <2>1, <1>2, <1>7 DEF x
  <2>2. CASE p \in 1..Len(a.chunks) BY <2>2, <1>4, <1>7
  <2> QED BY <2>1, <2>2, <1>7
<1> QED BY <1>1, <1>2, <1>8 DEF a

\* A chunk is read: if the table is full, an assembly makes room, and the
\* entry of the client becomes a.
LEMMA AssemblyEntered ==
  ASSUME ReaderInv, NEW k \in Key, NEW room \in Rooms(k),
         NEW a \in Assembly \union {NoAssembly},
         a # NoAssembly =>
           a.key = k /\ \A p \in DOMAIN a.chunks : a.chunks[p] = <<a.key, a.seq, p>>,
         assembly' = [room EXCEPT ![ClientOf[k]] = a]
  PROVE  AssemblyInv' /\ Bounded'
<1> DEFINE c == ClientOf[k]
<1>1. assembly \in [Client -> Assembly \union {NoAssembly}] /\ c \in Client
  BY DEF ReaderInv, ConnInv, TypeOK
<1>2. /\ room \in [Client -> Assembly \union {NoAssembly}]
      /\ \A d \in Client : room[d] \in {assembly[d], NoAssembly}
  BY <1>1 DEF Rooms
<1>3. assembly'[c] = a /\ \A d \in Client \ {c} : assembly'[d] = room[d]
  BY <1>1, <1>2
<1>4. AssemblyInv'
  <2> SUFFICES ASSUME NEW d \in Client, assembly'[d] # NoAssembly
               PROVE  /\ ClientOf[assembly'[d].key] = d
                      /\ \A p \in DOMAIN assembly'[d].chunks :
                           assembly'[d].chunks[p] = <<assembly'[d].key, assembly'[d].seq, p>>
    BY DEF AssemblyInv
  <2>1. CASE d = c BY <2>1, <1>3
  <2>2. CASE d # c
    <3>1. assembly'[d] = assembly[d] BY <2>2, <1>2, <1>3
    <3> QED BY <3>1 DEF ReaderInv, AssemblyInv
  <2> QED BY <2>1, <2>2
<1>5. Bounded'
  <2> DEFINE R == {d \in Client : room[d] # NoAssembly}
  <2>1. Assembling' \subseteq R \union {c} BY <1>3 DEF Assembling
  <2>2. R \subseteq Assembling BY <1>2 DEF Assembling
  <2>3. IsFiniteSet(R) /\ Cardinality(R) \in Nat /\ Cardinality(R) <= Cardinality(Assembling)
    BY <2>2, AssemblingFinite, FS_Subset, FS_CardinalityType
  <2>4. CASE c \in Assembling
    <3>1. Assembling' \subseteq Assembling BY <2>1, <2>2, <2>4
    <3> QED BY <3>1, FewerAssemblies DEF ReaderInv
  <2>5. CASE c \notin Assembling
    <3>1. Cardinality(R) < MaxAssembly
      <4>1. CASE Cardinality(Assembling) < MaxAssembly
        BY <4>1, <2>3, AssemblingFinite
      <4>2. CASE ~(Cardinality(Assembling) < MaxAssembly)
        <5>1. PICK victim \in Assembling : room = [assembly EXCEPT ![victim] = NoAssembly]
          BY <4>2, <2>5 DEF Rooms
        <5>2. R \subseteq Assembling \ {victim} BY <5>1, <1>1 DEF Assembling
        <5>3. /\ IsFiniteSet(Assembling \ {victim})
              /\ Cardinality(Assembling \ {victim}) = Cardinality(Assembling) - 1
          BY <5>1, AssemblingFinite, FS_RemoveElement
        <5>4. Cardinality(R) <= Cardinality(Assembling) - 1
          BY <5>2, <5>3, FS_Subset
        <5>5. Cardinality(Assembling) <= MaxAssembly BY DEF ReaderInv, Bounded
        <5> QED BY <5>4, <5>5, <2>3, AssemblingFinite
      <4> QED BY <4>1, <4>2
    <3>2. IsFiniteSet(R \union {c}) /\ Cardinality(R \union {c}) <= Cardinality(R) + 1
      <4>1. /\ IsFiniteSet(R \union {c})
            /\ Cardinality(R \union {c}) = IF c \in R THEN Cardinality(R) ELSE Cardinality(R) + 1
        BY <2>3, FS_AddElement
      <4> HIDE DEF R
      <4> QED BY <4>1, <2>3
    <3>3. Cardinality(R \union {c}) \in Nat BY <3>2, FS_CardinalityType
    <3>4. Cardinality(Assembling') <= Cardinality(R \union {c})
      BY <2>1, <3>2, FS_Subset
    <3> HIDE DEF R, c
    <3> QED BY <2>3, <3>1, <3>2, <3>3, <3>4, AssemblingFinite DEF Bounded
  <2> QED BY <2>4, <2>5
<1> QED BY <1>4, <1>5

\* What is delivered is whole.
LEMMA WholeDelivered ==
  ASSUME ReaderInv, NEW k \in Key, NEW seq \in Nat, NEW chunks \in Chunks,
         chunks = <<>> \/ chunks = [p \in 1..Parts |-> <<k, seq, p>>],
         conn' = Delivered(k, seq, chunks)
  PROVE  AssembledIsSent'
<1> DEFINE d == [seq |-> seq, chunks |-> chunks]
           changed(c) == Given(c, seq, chunks)
<1>1. /\ DOMAIN conn' = Conn
      /\ \A c \in Conn :
           conn'[c] = IF c = open[k] /\ Newer(k, seq) THEN changed(c) ELSE conn[c]
  <2>1. TypeOK BY DEF ReaderInv, ConnInv
  <2>2. LET given == Delivered(k, seq, chunks) IN
        /\ given \in Seq(Connection) /\ DOMAIN given = Conn
        /\ \A c \in Conn :
             given[c] = IF c = open[k] /\ Newer(k, seq) THEN Given(c, seq, chunks) ELSE conn[c]
    BY <2>1, DeliveredConnections
  <2> QED BY <2>2
<1>2. \A c \in Conn : conn[c] \in Connection BY ConnectionTypes DEF ReaderInv, ConnInv
<1>3. \A c \in Conn : /\ changed(c).key = conn[c].key
                      /\ changed(c).delivered = Append(conn[c].delivered, d)
  BY <1>2 DEF Connection, Given
<1>4. d \in Deliveries /\ d.seq = seq /\ d.chunks = chunks BY DEF Deliveries
<1> HIDE DEF changed, d
<1> SUFFICES ASSUME NEW c \in Conn, NEW i \in DOMAIN conn'[c].delivered,
                    conn'[c].delivered[i].chunks # <<>>
             PROVE  conn'[c].delivered[i].chunks =
                      [p \in 1..Parts |-> <<conn'[c].key, conn'[c].delivered[i].seq, p>>]
  BY <1>1 DEF AssembledIsSent, Conn
<1>5. \A j \in DOMAIN conn[c].delivered :
        LET x == conn[c].delivered[j] IN
        x.chunks # <<>> => x.chunks = [p \in 1..Parts |-> <<conn[c].key, x.seq, p>>]
  BY DEF ReaderInv, AssembledIsSent
<1>6. CASE ~(c = open[k] /\ Newer(k, seq))
  <2>1. conn'[c] = conn[c] BY <1>6, <1>1
  <2> QED BY <2>1, <1>5
<1>7. CASE c = open[k] /\ Newer(k, seq)
  <2> DEFINE old == conn[c].delivered
  <2>1. conn'[c].delivered = Append(old, d) /\ conn'[c].key = conn[c].key
    BY <1>7, <1>1, <1>3
  <2>2. old \in Seq(Deliveries) BY <1>2 DEF Connection, Deliveries
  <2>3. conn[c].key = k BY <1>7 DEF ReaderInv, ConnInv, OpenInv, Newer
  <2> HIDE DEF old
  <2>4. /\ DOMAIN Append(old, d) = 1..(Len(old) + 1) /\ Len(old) \in Nat
        /\ \A j \in 1..Len(old) : j \in DOMAIN old /\ Append(old, d)[j] = old[j]
        /\ Append(old, d)[Len(old) + 1] = d
    BY <2>2, <1>4
  <2>5. CASE i = Len(old) + 1 BY <2>5, <2>1, <2>3, <2>4, <1>4
  <2>6. CASE i \in 1..Len(old)
    <3>1. conn'[c].delivered[i] = old[i] /\ i \in DOMAIN old BY <2>6, <2>1, <2>4
    <3>2. old[i].chunks # <<>> =>
            old[i].chunks = [p \in 1..Parts |-> <<conn[c].key, old[i].seq, p>>]
      BY <3>1, <1>5 DEF old
    <3> QED BY <3>1, <3>2, <2>1
  <2>7. i \in 1..Len(old) \/ i = Len(old) + 1
    <3>1. i \in 1..(Len(old) + 1) BY <2>1, <2>4
    <3> QED BY <3>1, <2>4
  <2> QED BY <2>5, <2>6, <2>7
<1> QED BY <1>6, <1>7

LEMMA SentUnchanged ==
  ASSUME ReaderInv, DOMAIN conn' = Conn,
         \A c \in Conn : conn'[c].delivered = conn[c].delivered /\ conn'[c].key = conn[c].key
  PROVE  AssembledIsSent'
  BY DEF ReaderInv, AssembledIsSent, Conn

LEMMA ReaderRead ==
  ASSUME ReaderInv, NEW i \in DOMAIN log, Read(log[i])
  PROVE  AssemblyInv' /\ AssembledIsSent' /\ Bounded'
<1> DEFINE e == log[i]
<1>1. /\ e \in Envelope /\ e.key \in Key /\ e.seq \in Nat /\ <<>> \in Chunks /\ TypeOK
  BY EnvelopeRead DEF ReaderInv, ConnInv, Envelope, Chunks
<1>2. Read(e) OBVIOUS
<1> HIDE DEF e
<1>3. CASE ReadRepeated(e)
  <2>1. UNCHANGED <<assembly, conn>> BY <1>3 DEF ReadRepeated, readerVars, trackerVars
  <2> QED BY <2>1, AssembliesDropped, SentUnchanged DEF Conn
<1>4. CASE ReadRefused(e)
  <2>1. assembly' = Without(assembly, e.key) /\ UNCHANGED conn
    BY <1>4 DEF ReadRefused, trackerVars
  <2>2. \A c \in Client : assembly'[c] \in {assembly[c], NoAssembly}
    BY <2>1, <1>1 DEF Without, TypeOK
  <2> QED BY <2>1, <2>2, AssembliesDropped, SentUnchanged DEF Conn
<1>5. CASE ReadMisfit(e)
  <2>1. PICK room \in Rooms(e.key) : assembly' = [room EXCEPT ![ClientOf[e.key]] = NoAssembly]
    BY <1>5 DEF ReadMisfit
  <2>2. UNCHANGED conn BY <1>5 DEF ReadMisfit, trackerVars
  <2> QED BY <2>1, <2>2, <1>1, AssemblyEntered, SentUnchanged DEF Conn
<1>6. CASE ReadPending(e)
  <2> DEFINE a == [key |-> e.key, seq |-> Current(e).seq, chunks |-> WithChunk(e)]
  <2>1. PICK room \in Rooms(e.key) : assembly' = [room EXCEPT ![ClientOf[e.key]] = a]
    BY <1>6 DEF ReadPending
  <2>2. UNCHANGED conn /\ Fits(e) BY <1>6 DEF ReadPending, trackerVars
  <2>3. a \in Assembly /\ a.key = e.key
        /\ \A p \in DOMAIN a.chunks : a.chunks[p] = <<a.key, a.seq, p>>
    BY <2>2, <1>1, ChunkFits DEF Assembly
  <2> HIDE DEF a
  <2> QED BY <2>1, <2>2, <2>3, <1>1, AssemblyEntered, SentUnchanged DEF Conn
<1>7. CASE ReadLastPart(e)
  <2>1. PICK room \in Rooms(e.key) : assembly' = [room EXCEPT ![ClientOf[e.key]] = NoAssembly]
    BY <1>7 DEF ReadLastPart
  <2>2. conn' = Delivered(e.key, e.seq, WithChunk(e)) /\ Fits(e) /\ e.part = Parts
    BY <1>7 DEF ReadLastPart
  <2>3. /\ WithChunk(e) \in Chunks /\ Len(WithChunk(e)) = Parts
        /\ \A p \in DOMAIN WithChunk(e) : WithChunk(e)[p] = <<e.key, e.seq, p>>
    BY <2>2, <1>1, ChunkFits
  <2>4. WithChunk(e) = [p \in 1..Parts |-> <<e.key, e.seq, p>>]
    <3>1. WithChunk(e) \in [1..Parts -> Key \X Nat \X Nat] BY <2>3 DEF Chunks
    <3> QED BY <3>1, <2>3
  <2>5. AssembledIsSent' BY <2>2, <2>3, <2>4, <1>1, WholeDelivered
  <2> QED BY <2>1, <2>5, <1>1, AssemblyEntered
<1>8. CASE ReadMessage(e)
  <2>1. conn' = Delivered(e.key, e.seq, <<>>) /\ assembly' = assembly
    BY <1>8 DEF ReadMessage
  <2>2. AssembledIsSent' BY <2>1, <1>1, WholeDelivered
  <2> QED BY <2>1, <2>2, AssembliesDropped
<1>9. CASE ReadInitialize(e)
  <2> DEFINE closed == ClosedWith({e.key}, "closed")
             new == NewConn(e.key, e.seq)
  <2>1. /\ closed \in Seq(Connection) /\ Len(closed) = Len(conn) /\ DOMAIN closed = Conn
        /\ \A c \in Conn : closed[c].key = conn[c].key /\ closed[c].delivered = conn[c].delivered
    BY <1>1, ClosedConnections
  <2>2. conn' = Append(closed, new) /\ assembly' = assembly BY <1>9 DEF ReadInitialize
  <2>3. new.delivered = <<[seq |-> e.seq, chunks |-> <<>>]>> BY DEF NewConn
  <2> HIDE DEF closed, new
  <2>4. Len(conn) \in Nat /\ Conn = 1..Len(conn) BY <1>1 DEF TypeOK, Conn
  <2>5. /\ DOMAIN conn' = 1..(Len(conn) + 1) /\ conn'[Len(conn) + 1] = new
        /\ \A c \in Conn : conn'[c] = closed[c]
    <3>1. /\ DOMAIN Append(closed, new) = 1..(Len(conn) + 1)
          /\ Append(closed, new)[Len(conn) + 1] = new
          /\ \A c \in 1..Len(conn) : Append(closed, new)[c] = closed[c]
      BY <2>1, <2>4
    <3> QED BY <3>1, <2>2, <2>4
  <2>6. AssembledIsSent'
    <3> SUFFICES ASSUME NEW c \in 1..(Len(conn) + 1), NEW j \in DOMAIN conn'[c].delivered,
                        conn'[c].delivered[j].chunks # <<>>
                 PROVE  conn'[c].delivered[j].chunks =
                          [p \in 1..Parts |-> <<conn'[c].key, conn'[c].delivered[j].seq, p>>]
      BY <2>5 DEF AssembledIsSent, Conn
    <3>1. c # Len(conn) + 1 BY <2>3, <2>5
    <3>2. c \in Conn BY <3>1, <2>4
    <3>3. conn'[c].delivered = conn[c].delivered /\ conn'[c].key = conn[c].key
      BY <3>2, <2>1, <2>5
    <3>4. \A q \in DOMAIN conn[c].delivered :
            conn[c].delivered[q].chunks # <<>> =>
              conn[c].delivered[q].chunks =
                [p \in 1..Parts |-> <<conn[c].key, conn[c].delivered[q].seq, p>>]
      BY <3>2 DEF ReaderInv, AssembledIsSent
    <3> QED BY <3>3, <3>4
  <2> QED BY <2>2, <2>6, AssembliesDropped
<1>10. CASE ReadClosed(e)
  <2>1. conn' = ClosedWith({e.key}, "closed") /\ Invalidate({e.key})
    BY <1>10 DEF ReadClosed
  <2>2. AssembledIsSent' BY <2>1, <1>1, ClosedConnections, SentUnchanged
  <2> QED BY <2>1, <2>2, AssembliesDropped DEF Invalidate
<1> QED BY <1>2, <1>3, <1>4, <1>5, <1>6, <1>7, <1>8, <1>9, <1>10 DEF Read

LEMMA ReaderStep == ReaderInv /\ [Next]_vars => ReaderInv'
<1> SUFFICES ASSUME ReaderInv, [Next]_vars
             PROVE  AssemblyInv' /\ AssembledIsSent' /\ Bounded'
  BY ConnStep DEF ReaderInv
<1>1. TypeOK BY DEF ReaderInv, ConnInv
<1>2. \A c \in Conn : conn[c] \in Connection /\ conn[c].key \in Key
  BY <1>1, ConnectionTypes
<1>3. ASSUME NEW i \in DOMAIN log, Read(log[i])
      PROVE  AssemblyInv' /\ AssembledIsSent' /\ Bounded'
  BY <1>3, ReaderRead
<1>4. CASE CloseExpired
  <2>1. PICK ks \in SUBSET Key : conn' = ClosedWith(ks, "closed") /\ Invalidate(ks)
    BY <1>4 DEF CloseExpired
  <2>2. AssembledIsSent' BY <2>1, <1>1, ClosedConnections, SentUnchanged
  <2> QED BY <2>1, <2>2, AssembliesDropped DEF Invalidate
<1>5. CASE Shutdown
  <2> DEFINE closed == ClosedWith(Key, "closed")
  <2>1. \A c \in Conn : /\ closed[c] \in Connection /\ closed[c].key = conn[c].key
                        /\ closed[c].delivered = conn[c].delivered
    BY <1>1, ClosedConnections
  <2>2. conn' = [c \in Conn |-> [closed[c] EXCEPT !.task = "reaped"]] /\ assembly' = assembly
    BY <1>5 DEF Shutdown, readerVars
  <2> HIDE DEF closed
  <2>3. DOMAIN conn' = Conn
        /\ \A c \in Conn : /\ conn'[c].delivered = conn[c].delivered
                           /\ conn'[c].key = conn[c].key
    BY <2>1, <2>2 DEF Connection
  <2> QED BY <2>2, <2>3, SentUnchanged, AssembliesDropped
<1>6. ASSUME NEW c \in Conn, Reap(c)
      PROVE  AssemblyInv' /\ AssembledIsSent' /\ Bounded'
  <2> DEFINE closed == ClosedWith({conn[c].key}, "reaped")
  <2>1. DOMAIN closed = Conn
        /\ \A x \in Conn : /\ closed[x] \in Connection /\ closed[x].key = conn[x].key
                           /\ closed[x].delivered = conn[x].delivered
    BY <1>1, <1>2, ClosedConnections
  <2>2. conn' = [closed EXCEPT ![c].task = "reaped"] /\ Invalidate({conn[c].key})
    BY <1>6 DEF Reap, Reaped
  <2> HIDE DEF closed
  <2>3. DOMAIN conn' = Conn
        /\ \A x \in Conn : /\ conn'[x].delivered = conn[x].delivered
                           /\ conn'[x].key = conn[x].key
    BY <2>1, <2>2 DEF Connection
  <2>4. AssembledIsSent' BY <2>3, SentUnchanged
  <2> QED BY <2>2, <2>4, AssembliesDropped DEF Invalidate
<1>7. ASSUME NEW c \in Conn, AppDisconnects(c)
      PROVE  AssemblyInv' /\ AssembledIsSent' /\ Bounded'
  <2>1. conn' = [conn EXCEPT ![c].disconnected = TRUE] /\ assembly' = assembly
    BY <1>7 DEF AppDisconnects, readerVars
  <2>2. DOMAIN conn' = Conn
        /\ \A x \in Conn : /\ conn'[x].delivered = conn[x].delivered
                           /\ conn'[x].key = conn[x].key
    BY <2>1, <1>2 DEF Connection, Conn
  <2> QED BY <2>1, <2>2, SentUnchanged, AssembliesDropped
<1>9. ASSUME NEW c \in Conn, TaskEnds(c)
      PROVE  AssemblyInv' /\ AssembledIsSent' /\ Bounded'
  <2>1. conn' = [conn EXCEPT ![c].task = "ended"] /\ assembly' = assembly
    BY <1>9 DEF TaskEnds, readerVars
  <2>2. DOMAIN conn' = Conn
        /\ \A x \in Conn : /\ conn'[x].delivered = conn[x].delivered
                           /\ conn'[x].key = conn[x].key
    BY <2>1, <1>2 DEF Connection, Conn
  <2> QED BY <2>1, <2>2, SentUnchanged, AssembliesDropped
<1>8. CASE \/ \E c \in Conn : Forward(c)
           \/ WriterTakes \/ Connect \/ Disconnect \/ UNCHANGED vars
           \/ \E k \in Key : \/ ClientSends(k) \/ WriterSends(k)
                             \/ \E i \in 1..arrived[k] : ReadAck(k, i)
  <2>1. UNCHANGED <<assembly, conn>>
    BY <1>8 DEF Forward, WriterTakes, Connect, Disconnect, ClientSends, WriterSends, ReadAck,
                vars, readerVars, trackerVars
  <2> QED BY <2>1, AssembliesDropped, SentUnchanged DEF Conn
<1> QED BY <1>3, <1>4, <1>5, <1>6, <1>7, <1>8, <1>9 DEF Next

LEMMA InitReaderInv == Init => ReaderInv
  BY InitType, InitConn, InitReader DEF ReaderInv, ConnInv

\* For any number of chunks and any clients that give up, mix, repeat or
\* exceed their messages, what is delivered of a chunked message is whole.
THEOREM DeliveredWhole == Spec => []AssembledIsSent
<1>1. ReaderInv => AssembledIsSent BY DEF ReaderInv
<1> QED BY <1>1, InitReaderInv, ReaderStep, PTL DEF Spec

\* For any number of clients the table of half-assembled messages keeps its
\* bound, and no entry is another client's.
THEOREM TableBounded == Spec => []AssembliesBounded
<1>1. ReaderInv => AssembliesBounded
  BY DEF ReaderInv, Bounded, AssemblyInv, Assembling, AssembliesBounded
<1> QED BY <1>1, InitReaderInv, ReaderStep, PTL DEF Spec

-----------------------------------------------------------------------------
\* The outbound buffer.

Before(x, y) == x[1] < y[1] \/ (x[1] = y[1] /\ x[2] < y[2])

\* The cursors of a stream grow.
CursorInv ==
  \A k \in Key :
    /\ \A i, j \in 1..Len(sequenced[k]) : i < j => Before(sequenced[k][i], sequenced[k][j])
    /\ \A i \in 1..Len(sequenced[k]) : sequenced[k][i][1] < seqId[k]

\* What has not arrived is kept, and is about to be sent on the websocket.
KeptInv ==
  \A k \in Key :
    LET n == Len(sequenced[k])
        missing == arrived[k] + 1 .. n IN
    /\ arrived[k] <= n /\ sending[k] \subseteq 1..n
    /\ buffer[k] \subseteq 1..n /\ missing \subseteq buffer[k]
    /\ socket = "up" => missing \subseteq sending[k]

BufferInv == TypeOK /\ CursorInv /\ KeptInv

LEMMA InitBuffer == Init => BufferInv
  BY InitType DEF Init, BufferInv, CursorInv, KeptInv

\* An acknowledgement covers nothing that is later.
LEMMA LaterNotAcked ==
  ASSUME BufferInv, NEW k \in Key, NEW i \in 1..Len(sequenced[k]), NEW ack \in Acks(k, i),
         NEW p \in 1..Len(sequenced[k]), i < p
  PROVE  ~Acked(sequenced[k][p], ack)
<1> DEFINE s == sequenced[k]
<1>1. s \in Seq(Nat \X Nat) /\ Len(s) \in Nat BY DEF BufferInv, TypeOK
<1>2. \A q \in 1..Len(s) : s[q][1] \in Nat /\ s[q][2] \in Nat
  <2>1. \A q \in 1..Len(s) : s[q] \in Nat \X Nat BY <1>1
  <2> QED BY <2>1
<1>3. \A q, r \in 1..Len(s) :
        q < r => s[q][1] < s[r][1] \/ (s[q][1] = s[r][1] /\ s[q][2] < s[r][2])
  BY DEF BufferInv, CursorInv, Before
<1>4. /\ i \in 1..Len(s) /\ p \in 1..Len(s)
      /\ ack \in IF i = Len(s) \/ s[i + 1][1] > s[i][1]
                 THEN {s[i], <<s[i][1], Parts>>} ELSE {s[i]}
  BY DEF Acks
<1>5. ~Acked(s[p], ack) <=> ~(s[p][1] < ack[1] \/ (s[p][1] = ack[1] /\ s[p][2] <= ack[2]))
  BY DEF Acked
<1> HIDE DEF s
<1>6. CASE ack = s[i]
  BY <1>2, <1>3, <1>4, <1>5, <1>6 DEF s
<1>7. CASE ack = <<s[i][1], Parts>> /\ s[i + 1][1] > s[i][1]
  <2>1. i + 1 \in 1..Len(s) BY <1>1, <1>4
  <2>2. s[p][1] >= s[i + 1][1]
    <3>1. CASE p = i + 1 BY <3>1, <2>1, <1>2
    <3>2. CASE i + 1 < p BY <3>2, <2>1, <1>2, <1>3, <1>4
    <3> QED BY <3>1, <3>2, <1>1, <1>4
  <2>3. ack[1] = s[i][1] BY <1>7
  <2>4. s[p][1] > ack[1] BY <2>1, <2>2, <2>3, <1>2, <1>4, <1>7
  <2>5. s[p][1] \in Nat /\ ack[1] \in Nat BY <2>3, <1>2, <1>4
  <2> QED BY <2>4, <2>5, <1>5 DEF s
<1>8. i # Len(s) BY <1>1, <1>4
<1> QED BY <1>4, <1>6, <1>7, <1>8

LEMMA BufferTakes ==
  ASSUME BufferInv, WriterTakes
  PROVE  CursorInv' /\ KeptInv'
<1> DEFINE k == Head(events)
           n == Len(sequenced[k])
<1>1. k \in Key BY DEF WriterTakes, BufferInv, TypeOK
<1>2. PICK m \in {0, 1, Parts} :
        LET places == Len(sequenced[k]) + 1 .. Len(sequenced[k]) + m IN
        /\ sequenced' = [sequenced EXCEPT ![k] = @ \o [i \in 1..m |-> <<seqId[k], i - 1>>]]
        /\ buffer' = [buffer EXCEPT ![k] = @ \union places]
        /\ sending' = [sending EXCEPT ![k] = places]
        /\ seqId' = [seqId EXCEPT ![k] = IF m = 0 THEN @ ELSE @ + 1]
  BY DEF WriterTakes
<1>3. m \in Nat OBVIOUS
<1>4. n \in Nat /\ seqId[k] \in Nat /\ sequenced[k] \in Seq(Nat \X Nat)
      /\ sequenced \in [Key -> Seq(Nat \X Nat)] /\ seqId \in [Key -> Nat]
      /\ arrived \in [Key -> Nat] /\ buffer \in [Key -> SUBSET Nat]
      /\ sending \in [Key -> SUBSET Nat]
  <2>1. /\ sequenced \in [Key -> Seq(Nat \X Nat)] /\ seqId \in [Key -> Nat]
        /\ arrived \in [Key -> Nat] /\ buffer \in [Key -> SUBSET Nat]
        /\ sending \in [Key -> SUBSET Nat]
    BY DEF BufferInv, TypeOK
  <2> HIDE DEF k
  <2>2. seqId[k] \in Nat /\ sequenced[k] \in Seq(Nat \X Nat) BY <2>1, <1>1
  <2>3. Len(sequenced[k]) \in Nat BY <2>2
  <2> QED BY <2>1, <2>2, <2>3
<1> DEFINE new == sequenced[k] \o [i \in 1..m |-> <<seqId[k], i - 1>>]
<1>5. /\ Len(new) = n + m
      /\ \A i \in 1..n + m : new[i] = IF i <= n THEN sequenced[k][i] ELSE <<seqId[k], i - n - 1>>
  BY <1>1, <1>3, Numbered DEF BufferInv
<1>6. /\ sequenced' = [sequenced EXCEPT ![k] = new]
      /\ buffer' = [buffer EXCEPT ![k] = @ \union (n + 1 .. n + m)]
      /\ sending' = [sending EXCEPT ![k] = n + 1 .. n + m]
      /\ seqId' = [seqId EXCEPT ![k] = IF m = 0 THEN @ ELSE @ + 1]
      /\ arrived' = arrived /\ socket' = socket /\ socket = "up"
      /\ \A k1 \in Key : sending[k1] = {}
  BY <1>2 DEF WriterTakes, backendVars
<1>7. \A q \in 1..n : sequenced[k][q][1] \in Nat /\ sequenced[k][q][1] < seqId[k]
  <2>1. \A q \in 1..n : sequenced[k][q] \in Nat \X Nat BY <1>4
  <2> QED BY <2>1, <1>1 DEF BufferInv, CursorInv
<1>8. /\ \A q, r \in 1..n : q < r => Before(sequenced[k][q], sequenced[k][r])
      /\ arrived[k] <= n /\ n <= arrived[k] /\ buffer[k] \subseteq 1..n
  <2>1. arrived[k] + 1 .. n \subseteq {} BY <1>1, <1>6 DEF BufferInv, KeptInv
  <2>2. arrived[k] <= n /\ buffer[k] \subseteq 1..n BY <1>1 DEF BufferInv, KeptInv
  <2>3. arrived[k] \in Nat BY <1>1, <1>4
  <2>4. ~(n \in arrived[k] + 1 .. n) BY <2>1
  <2> HIDE DEF n, k
  <2>5. n <= arrived[k] BY <2>3, <2>4, <1>4
  <2>6. \A q, r \in 1..Len(sequenced[k]) : q < r => Before(sequenced[k][q], sequenced[k][r])
    BY <1>1 DEF BufferInv, CursorInv
  <2> QED BY <2>2, <2>5, <2>6 DEF n
<1>9. ASSUME NEW q \in 1..(n + m), NEW r \in 1..(n + m), q < r
      PROVE  Before(new[q], new[r])
  <2> HIDE DEF new, n, k
  <2>1. CASE r <= n
    <3>1. q \in 1..n /\ r \in 1..n BY <2>1, <1>3, <1>4, <1>9
    <3>2. new[q] = sequenced[k][q] /\ new[r] = sequenced[k][r]
      BY <3>1, <1>5, <1>9
    <3> QED BY <3>1, <3>2, <1>8, <1>9
  <2>2. CASE r > n /\ q <= n
    <3>1. q \in 1..n /\ ~(r <= n) BY <2>2, <1>3, <1>4, <1>9
    <3>2. new[q] = sequenced[k][q] /\ new[r] = <<seqId[k], r - n - 1>>
      BY <3>1, <1>5, <1>9
    <3> QED BY <3>1, <3>2, <1>7 DEF Before
  <2>3. CASE r > n /\ q > n
    <3>1. ~(q <= n) /\ ~(r <= n) BY <2>3, <1>3, <1>4, <1>9
    <3>2. new[q] = <<seqId[k], q - n - 1>> /\ new[r] = <<seqId[k], r - n - 1>>
      BY <3>1, <1>5, <1>9
    <3>3. q - n - 1 < r - n - 1 BY <1>3, <1>4, <1>9
    <3> QED BY <3>2, <3>3 DEF Before
  <2> QED BY <2>1, <2>2, <2>3, <1>3, <1>4
<1>10. \A q \in 1..(n + m) : new[q][1] < (IF m = 0 THEN seqId[k] ELSE seqId[k] + 1)
  <2> HIDE DEF new, n, k
  <2> SUFFICES ASSUME NEW q \in 1..(n + m)
               PROVE  new[q][1] < (IF m = 0 THEN seqId[k] ELSE seqId[k] + 1)
    OBVIOUS
  <2>1. CASE q <= n
    <3>1. new[q] = sequenced[k][q] /\ q \in 1..n BY <2>1, <1>3, <1>4, <1>5
    <3> QED BY <3>1, <1>4, <1>7
  <2>2. CASE ~(q <= n)
    <3>1. new[q] = <<seqId[k], q - n - 1>> BY <2>2, <1>5
    <3>2. m # 0 BY <2>2, <1>4
    <3> QED BY <3>1, <3>2, <1>4
  <2> QED BY <2>1, <2>2
<1>11. CursorInv'
  <2> SUFFICES ASSUME NEW k1 \in Key
      PROVE  /\ \A i, j \in 1..Len(sequenced'[k1]) :
                  i < j => Before(sequenced'[k1][i], sequenced'[k1][j])
             /\ \A i \in 1..Len(sequenced'[k1]) : sequenced'[k1][i][1] < seqId'[k1]
    BY DEF CursorInv, Before
  <2> HIDE DEF new, n, k
  <2>1. CASE k1 = k
    <3>1. sequenced'[k1] = new /\ seqId'[k1] = (IF m = 0 THEN seqId[k] ELSE seqId[k] + 1)
      BY <2>1, <1>1, <1>4, <1>6
    <3> QED BY <3>1, <1>5, <1>9, <1>10
  <2>2. CASE k1 # k
    <3>1. sequenced'[k1] = sequenced[k1] /\ seqId'[k1] = seqId[k1] BY <2>2, <1>4, <1>6
    <3> QED BY <3>1 DEF BufferInv, CursorInv
  <2> QED BY <2>1, <2>2
<1>12. KeptInv'
  <2> SUFFICES ASSUME NEW k1 \in Key
      PROVE  LET l == Len(sequenced'[k1])
                 missing == arrived'[k1] + 1 .. l IN
             /\ arrived'[k1] <= l /\ sending'[k1] \subseteq 1..l
             /\ buffer'[k1] \subseteq 1..l /\ missing \subseteq buffer'[k1]
             /\ socket' = "up" => missing \subseteq sending'[k1]
    BY DEF KeptInv
  <2> HIDE DEF new, n, k
  <2>1. CASE k1 = k
    <3>1. /\ Len(sequenced'[k1]) = n + m /\ arrived'[k1] = n
          /\ buffer'[k1] = buffer[k] \union (n + 1 .. n + m)
          /\ sending'[k1] = n + 1 .. n + m
      <4>1. arrived[k] = n BY <1>1, <1>4, <1>8
      <4> QED BY <2>1, <4>1, <1>1, <1>4, <1>5, <1>6
    <3>2. buffer[k] \subseteq 1..n BY <1>8
    <3>3. 1..n \subseteq 1..(n + m) /\ (n + 1 .. n + m) \subseteq 1..(n + m) /\ n <= n + m
      BY <1>3, <1>4
    <3> QED BY <3>1, <3>2, <3>3
  <2>2. CASE k1 # k
    <3>1. /\ sequenced'[k1] = sequenced[k1] /\ arrived'[k1] = arrived[k1]
          /\ buffer'[k1] = buffer[k1] /\ sending'[k1] = sending[k1] /\ socket' = socket
      BY <2>2, <1>4, <1>6
    <3> QED BY <3>1 DEF BufferInv, KeptInv
  <2> QED BY <2>1, <2>2
<1> QED BY <1>11, <1>12

\* Steps that do not number anything.
LEMMA CursorsUnchanged ==
  ASSUME BufferInv, UNCHANGED <<sequenced, seqId>>
  PROVE  CursorInv'
  BY DEF BufferInv, CursorInv, Before

\* The first envelope that waits is the one the backend misses next, or one
\* it has.
LEMMA BufferSends ==
  ASSUME BufferInv, NEW k \in Key, WriterSends(k)
  PROVE  /\ CursorInv' /\ KeptInv'
         /\ \A k1 \in Key : arrived'[k1] <= arrived[k1] + 1
<1> DEFINE n == Len(sequenced[k])
<1>1. PICK i \in sending[k] :
        /\ \A j \in sending[k] : i <= j
        /\ sending' = [sending EXCEPT ![k] = @ \ {i}]
        /\ arrived' = [arrived EXCEPT ![k] = IF i > @ THEN i ELSE @]
  BY DEF WriterSends
<1>2. /\ n \in Nat /\ arrived \in [Key -> Nat] /\ sending \in [Key -> SUBSET Nat]
  BY DEF BufferInv, TypeOK
<1>3. UNCHANGED <<sequenced, seqId, buffer, socket>> /\ socket = "up"
  BY DEF WriterSends
<1>4. /\ arrived[k] <= n /\ sending[k] \subseteq 1..n /\ buffer[k] \subseteq 1..n
      /\ arrived[k] + 1 .. n \subseteq buffer[k] /\ arrived[k] + 1 .. n \subseteq sending[k]
  BY <1>3 DEF BufferInv, KeptInv
<1> HIDE DEF n
<1>5. i \in 1..n /\ arrived[k] \in Nat BY <1>1, <1>2, <1>4
<1>6. i <= arrived[k] + 1
  <2>1. CASE arrived[k] + 1 <= n
    <3>1. arrived[k] + 1 \in arrived[k] + 1 .. n BY <2>1, <1>2, <1>5
    <3> QED BY <3>1, <1>1, <1>4
  <2>2. CASE arrived[k] + 1 > n BY <2>2, <1>2, <1>5
  <2> QED BY <2>1, <2>2, <1>2, <1>5
<1> DEFINE now == IF i > arrived[k] THEN i ELSE arrived[k]
<1>7. arrived'[k] = now /\ sending'[k] = sending[k] \ {i}
  <2>1. arrived'[k] = now BY <1>1, <1>2
  <2>2. sending'[k] = sending[k] \ {i} BY <1>1, <1>2
  <2> QED BY <2>1, <2>2
<1>11. now \in Nat /\ now <= n /\ now <= arrived[k] + 1 /\ arrived[k] <= now
  BY <1>2, <1>4, <1>5, <1>6
<1>12. i \notin now + 1 .. n BY <1>2, <1>5
<1> HIDE DEF now
<1>8. /\ now <= n /\ sending'[k] \subseteq 1..n
      /\ now + 1 .. n \subseteq buffer[k] /\ now + 1 .. n \subseteq sending'[k]
  <2>1. now + 1 .. n \subseteq arrived[k] + 1 .. n BY <1>2, <1>5, <1>11
  <2>2. now + 1 .. n \subseteq sending[k] \ {i} BY <2>1, <1>4, <1>12
  <2> QED BY <2>1, <2>2, <1>4, <1>7, <1>11
<1>9. KeptInv'
  <2> SUFFICES ASSUME NEW k1 \in Key
      PROVE  LET l == Len(sequenced'[k1])
                 missing == arrived'[k1] + 1 .. l IN
             /\ arrived'[k1] <= l /\ sending'[k1] \subseteq 1..l
             /\ buffer'[k1] \subseteq 1..l /\ missing \subseteq buffer'[k1]
             /\ socket' = "up" => missing \subseteq sending'[k1]
    BY DEF KeptInv
  <2>1. CASE k1 = k
    BY <2>1, <1>3, <1>4, <1>7, <1>8 DEF n
  <2>2. CASE k1 # k
    <3>1. arrived'[k1] = arrived[k1] /\ sending'[k1] = sending[k1] BY <2>2, <1>1, <1>2
    <3> QED BY <3>1, <1>3 DEF BufferInv, KeptInv
  <2> QED BY <2>1, <2>2
<1>10. \A k1 \in Key : arrived'[k1] <= arrived[k1] + 1
  <2> SUFFICES ASSUME NEW k1 \in Key PROVE arrived'[k1] <= arrived[k1] + 1
    OBVIOUS
  <2>1. CASE k1 = k BY <2>1, <1>7, <1>11
  <2>2. CASE k1 # k
    <3>1. arrived'[k1] = arrived[k1] /\ arrived[k1] \in Nat BY <2>2, <1>1, <1>2
    <3> QED BY <3>1
  <2> QED BY <2>1, <2>2
<1> QED BY <1>3, <1>9, <1>10, CursorsUnchanged

LEMMA BufferAcked ==
  ASSUME BufferInv, NEW k \in Key, NEW i \in 1..arrived[k], ReadAck(k, i)
  PROVE  CursorInv' /\ KeptInv'
<1> DEFINE n == Len(sequenced[k])
<1>1. PICK ack \in Acks(k, i) :
        buffer' = [buffer EXCEPT ![k] = {p \in @ : ~Acked(sequenced[k][p], ack)}]
  BY DEF ReadAck
<1>2. n \in Nat /\ arrived[k] \in Nat /\ buffer \in [Key -> SUBSET Nat]
  BY DEF BufferInv, TypeOK
<1>3. UNCHANGED <<sequenced, seqId, arrived, sending, socket>>
  BY DEF ReadAck, backendVars
<1>4. /\ arrived[k] <= n /\ buffer[k] \subseteq 1..n
      /\ arrived[k] + 1 .. n \subseteq buffer[k]
  BY DEF BufferInv, KeptInv
<1>5. i \in 1..n BY <1>2, <1>4
<1>6. ASSUME NEW p \in arrived[k] + 1 .. n
      PROVE  ~Acked(sequenced[k][p], ack)
  <2>1. p \in 1..n /\ i < p BY <1>2
  <2> QED BY <2>1, <1>5, LaterNotAcked
<1>7. buffer'[k] = {p \in buffer[k] : ~Acked(sequenced[k][p], ack)} BY <1>1, <1>2
<1>8. buffer'[k] \subseteq 1..n /\ arrived[k] + 1 .. n \subseteq buffer'[k]
  BY <1>4, <1>6, <1>7
<1>9. KeptInv'
  <2> SUFFICES ASSUME NEW k1 \in Key
      PROVE  LET l == Len(sequenced'[k1])
                 missing == arrived'[k1] + 1 .. l IN
             /\ arrived'[k1] <= l /\ sending'[k1] \subseteq 1..l
             /\ buffer'[k1] \subseteq 1..l /\ missing \subseteq buffer'[k1]
             /\ socket' = "up" => missing \subseteq sending'[k1]
    BY DEF KeptInv
  <2>1. CASE k1 = k
    <3>1. socket = "up" => arrived[k] + 1 .. n \subseteq sending[k] BY DEF BufferInv, KeptInv
    <3>2. sending[k] \subseteq 1..n BY DEF BufferInv, KeptInv
    <3> QED BY <2>1, <3>1, <3>2, <1>3, <1>4, <1>8
  <2>2. CASE k1 # k
    <3>1. buffer'[k1] = buffer[k1] BY <2>2, <1>1, <1>2
    <3> QED BY <3>1, <1>3 DEF BufferInv, KeptInv
  <2> QED BY <2>1, <2>2
<1> QED BY <1>3, <1>9, CursorsUnchanged

\* Steps that leave the buffer alone.
LEMMA BufferUnchanged ==
  ASSUME BufferInv, UNCHANGED <<sequenced, seqId, buffer, arrived>>,
         \/ UNCHANGED <<socket, sending>>
         \/ socket' # "up" /\ sending' = [k \in Key |-> {}]
         \/ socket' = "up" /\ sending' = buffer
  PROVE  CursorInv' /\ KeptInv'
<1>1. KeptInv'
  <2> SUFFICES ASSUME NEW k \in Key
      PROVE  LET l == Len(sequenced'[k])
                 missing == arrived'[k] + 1 .. l IN
             /\ arrived'[k] <= l /\ sending'[k] \subseteq 1..l
             /\ buffer'[k] \subseteq 1..l /\ missing \subseteq buffer'[k]
             /\ socket' = "up" => missing \subseteq sending'[k]
    BY DEF KeptInv
  <2> QED BY DEF BufferInv, KeptInv
<1> QED BY <1>1, CursorsUnchanged

LEMMA BufferStep ==
  ASSUME BufferInv, [Next]_vars
  PROVE  BufferInv' /\ \A k \in Key : arrived'[k] <= arrived[k] + 1
<1>1. TypeOK' BY TypeNext DEF BufferInv
<1>2. \A k \in Key : arrived[k] \in Nat BY DEF BufferInv, TypeOK
<1>3. ASSUME NEW k \in Key, WriterSends(k)
      PROVE  CursorInv' /\ KeptInv' /\ \A k1 \in Key : arrived'[k1] <= arrived[k1] + 1
  BY <1>3, BufferSends
<1>4. ASSUME NEW k \in Key, NEW i \in 1..arrived[k], ReadAck(k, i)
      PROVE  CursorInv' /\ KeptInv' /\ arrived' = arrived
  BY <1>4, BufferAcked DEF ReadAck, backendVars
<1>5. CASE WriterTakes
  <2>1. arrived' = arrived BY <1>5 DEF WriterTakes, backendVars
  <2>2. CursorInv' /\ KeptInv' BY <1>5, BufferTakes
  <2> QED BY <1>1, <1>2, <2>1, <2>2 DEF BufferInv
<1>6. CASE Connect \/ Disconnect \/ Shutdown
  <2>1. /\ UNCHANGED <<sequenced, seqId, buffer, arrived>>
        /\ \/ socket' # "up" /\ sending' = [k \in Key |-> {}]
           \/ socket' = "up" /\ sending' = buffer
    BY <1>6 DEF Connect, Disconnect, Shutdown, Resent, backendVars
  <2>2. CursorInv' /\ KeptInv' BY <2>1, BufferUnchanged
  <2> QED BY <1>1, <1>2, <2>1, <2>2 DEF BufferInv
<1>7. CASE \/ \E i \in DOMAIN log : Read(log[i])
           \/ CloseExpired \/ \E k \in Key : ClientSends(k)
           \/ \E c \in Conn : TaskEnds(c) \/ Reap(c) \/ Forward(c) \/ AppDisconnects(c)
           \/ UNCHANGED vars
  <2>1. UNCHANGED <<sequenced, seqId, buffer, arrived, socket, sending>>
    <3>1. CASE \E i \in DOMAIN log : Read(log[i])
      <4>1. PICK i \in DOMAIN log : Reads(log[i])
        BY <3>1 DEF Read, ReadRepeated, ReadRefused, ReadMisfit, ReadPending, ReadLastPart,
                    ReadMessage, ReadInitialize, ReadClosed
      <4> QED BY <4>1 DEF Reads, writerVars
    <3>2. CASE ~\E i \in DOMAIN log : Read(log[i])
      BY <1>7, <3>2 DEF CloseExpired, ClientSends, TaskEnds, Reap, Forward, AppDisconnects, vars,
                        backendVars, writerVars
    <3> QED BY <3>1, <3>2
  <2>2. CursorInv' /\ KeptInv' BY <2>1, BufferUnchanged
  <2> QED BY <1>1, <1>2, <2>1, <2>2 DEF BufferInv
<1> QED BY <1>1, <1>2, <1>3, <1>4, <1>5, <1>6, <1>7 DEF Next, BufferInv

\* The safety half of EveryMessageArrives: an answer that was numbered and has
\* not arrived is in the outbound buffer, whatever was acknowledged since, and
\* among those to be sent while the websocket is up.
NothingForgotten ==
  \A k \in Key : \A i \in 1..Len(sequenced[k]) :
    arrived[k] < i => i \in buffer[k] /\ (socket = "up" => i \in sending[k])

\* No acknowledgement, reconnect or full buffer makes the writer forget one.
THEOREM BufferCorrect == Spec => []NothingForgotten
<1>1. BufferInv => NothingForgotten
  <2> SUFFICES ASSUME BufferInv, NEW k \in Key, NEW i \in 1..Len(sequenced[k]), arrived[k] < i
               PROVE  i \in buffer[k] /\ (socket = "up" => i \in sending[k])
    BY DEF NothingForgotten
  <2>1. sequenced[k] \in Seq(Nat \X Nat) /\ arrived[k] \in Nat BY DEF BufferInv, TypeOK
  <2>2. i \in arrived[k] + 1 .. Len(sequenced[k]) BY <2>1
  <2> QED BY <2>2 DEF BufferInv, KeptInv
<1>2. BufferInv /\ [Next]_vars => BufferInv' BY BufferStep
<1> QED BY <1>1, <1>2, InitBuffer, PTL DEF Spec

-----------------------------------------------------------------------------
\* The transport implements StreamConnections.

\* Chunk p of message n of stream k was sent.
InLog(k, n, p) ==
  \E j \in DOMAIN log : log[j] = [key |-> k, kind |-> "part", seq |-> n, part |-> p]

\* The client sent every chunk that is half-assembled.
SentInv ==
  \A c \in Client : assembly[c] # NoAssembly =>
    \A p \in DOMAIN assembly[c].chunks : InLog(assembly[c].key, assembly[c].seq, p)

ChannelInv == ReaderInv /\ BufferInv /\ SentInv

LEMMA LogGrows ==
  ASSUME TypeOK, [Next]_vars
  PROVE  DOMAIN log \subseteq DOMAIN log' /\ \A j \in DOMAIN log : log'[j] = log[j]
<1>1. log \in Seq(Envelope) BY DEF TypeOK
<1>2. CASE \E k \in Key : ClientSends(k)
  <2>1. PICK e : log' = Append(log, e) BY <1>2 DEF ClientSends
  <2> QED BY <1>1, <2>1
<1>3. CASE ~\E k \in Key : ClientSends(k)
  <2>1. log' = log
    BY <1>3 DEF Next, Read, ReadRepeated, ReadRefused, ReadMisfit, ReadPending, ReadLastPart,
       ReadMessage, ReadInitialize, ReadClosed, Reads, CloseExpired, TaskEnds, Reap, Forward,
       AppDisconnects, WriterTakes, WriterSends, ReadAck, Connect, Disconnect, Shutdown,
       vars, backendVars
  <2> QED BY <2>1
<1> QED BY <1>2, <1>3

LEMMA StaysInLog ==
  ASSUME TypeOK, [Next]_vars
  PROVE  \A k, n, p : InLog(k, n, p) =>
           \E j \in DOMAIN log' : log'[j] = [key |-> k, kind |-> "part", seq |-> n, part |-> p]
  BY LogGrows DEF InLog

\* All of a message up to a chunk that fits was sent.
LEMMA FitsSent ==
  ASSUME ReaderInv, SentInv, NEW i \in DOMAIN log, Read(log[i]), log[i].kind = "part",
         Fits(log[i])
  PROVE  \A p \in 1..log[i].part : InLog(log[i].key, log[i].seq, p)
<1> DEFINE e == log[i]
           a == Current(e)
<1>1. /\ e \in Envelope /\ e.key \in Key /\ e.part \in Nat /\ ClientOf[e.key] \in Client
      /\ e.kind = "part"
  BY EnvelopeRead DEF ReaderInv, ConnInv, Envelope
<1>2. e = [key |-> e.key, kind |-> "part", seq |-> e.seq, part |-> e.part]
  BY <1>1 DEF Envelope
<1>3. InLog(e.key, e.seq, e.part) BY <1>2 DEF InLog
<1> HIDE DEF e
<1>4. /\ a.seq = e.seq /\ a.key = e.key /\ e.part = Len(a.chunks) + 1
      /\ a.chunks \in Seq(Key \X Nat \X Nat)
  BY <1>1, CurrentAssembly DEF e, Fits, ReaderInv, ConnInv, Assembly, Chunks
<1>5. \A p \in DOMAIN a.chunks : InLog(e.key, e.seq, p)
  <2>1. CASE AssemblyOf(e.key) # NoAssembly
    <3>1. a = assembly[ClientOf[e.key]] /\ a # NoAssembly
      BY <2>1 DEF AssemblyOf, Current
    <3> QED BY <3>1, <1>1, <1>4 DEF SentInv
  <2>2. CASE AssemblyOf(e.key) = NoAssembly
    <3>1. a.chunks = <<>> BY <2>2 DEF Current
    <3> QED BY <3>1
  <2> QED BY <2>1, <2>2
<1> HIDE DEF a
<1>6. \A p \in 1..e.part : p \in DOMAIN a.chunks \/ p = e.part BY <1>1, <1>4
<1> QED BY <1>3, <1>5, <1>6 DEF e

LEMMA SentNext ==
  ASSUME \A c \in Client : assembly'[c] # NoAssembly =>
           \A p \in DOMAIN assembly'[c].chunks : \E j \in DOMAIN log' :
             log'[j] = [key |-> assembly'[c].key, kind |-> "part",
                        seq |-> assembly'[c].seq, part |-> p]
  PROVE  SentInv'
  BY DEF SentInv, InLog

\* A step that only drops assemblies.
LEMMA SentDropped ==
  ASSUME TypeOK, SentInv, [Next]_vars,
         \A c \in Client : assembly'[c] \in {assembly[c], NoAssembly}
  PROVE  SentInv'
<1> SUFFICES ASSUME NEW c \in Client, assembly'[c] # NoAssembly,
                    NEW p \in DOMAIN assembly'[c].chunks
             PROVE  \E j \in DOMAIN log' :
                      log'[j] = [key |-> assembly'[c].key, kind |-> "part",
                                 seq |-> assembly'[c].seq, part |-> p]
  BY SentNext
<1>1. assembly'[c] = assembly[c] OBVIOUS
<1>2. InLog(assembly[c].key, assembly[c].seq, p) BY <1>1 DEF SentInv
<1> QED BY <1>1, <1>2, StaysInLog

\* A chunk is read, and the entry of its client becomes a.
LEMMA SentEntered ==
  ASSUME TypeOK, SentInv, [Next]_vars, NEW k \in Key, NEW room \in Rooms(k), NEW a,
         a # NoAssembly => \A p \in DOMAIN a.chunks : InLog(a.key, a.seq, p),
         assembly' = [room EXCEPT ![ClientOf[k]] = a]
  PROVE  SentInv'
<1>0. assembly \in [Client -> Assembly \union {NoAssembly}] BY DEF TypeOK
<1>1. /\ room \in [Client -> Assembly \union {NoAssembly}]
      /\ \A d \in Client : room[d] \in {assembly[d], NoAssembly}
  BY <1>0 DEF Rooms
<1> SUFFICES ASSUME NEW c \in Client, assembly'[c] # NoAssembly,
                    NEW p \in DOMAIN assembly'[c].chunks
             PROVE  \E j \in DOMAIN log' :
                      log'[j] = [key |-> assembly'[c].key, kind |-> "part",
                                 seq |-> assembly'[c].seq, part |-> p]
  BY SentNext
<1>2. CASE c = ClientOf[k]
  <2>1. assembly'[c] = a BY <1>1, <1>2
  <2>2. InLog(a.key, a.seq, p) BY <2>1
  <2> QED BY <2>1, <2>2, StaysInLog
<1>3. CASE c # ClientOf[k]
  <2>1. assembly'[c] = assembly[c] BY <1>1, <1>3
  <2>2. InLog(assembly[c].key, assembly[c].seq, p) BY <2>1 DEF SentInv
  <2> QED BY <2>1, <2>2, StaysInLog
<1> QED BY <1>2, <1>3

LEMMA SentStep ==
  ASSUME ReaderInv, SentInv, [Next]_vars
  PROVE  SentInv'
<1>1. TypeOK BY DEF ReaderInv, ConnInv
<1>2. ASSUME NEW i \in DOMAIN log, Read(log[i]) PROVE SentInv'
  <2> DEFINE e == log[i]
  <2>1. e \in Envelope /\ e.key \in Key BY <1>1, <1>2, EnvelopeRead DEF Envelope
  <2>2. Read(e) BY <1>2
  <2>3. ASSUME e.kind = "part", Fits(e)
        PROVE  \A p \in 1..e.part : InLog(e.key, e.seq, p)
    BY <1>2, <2>3, FitsSent
  <2> HIDE DEF e
  <2>4. CASE ReadRepeated(e) \/ ReadRefused(e) \/ ReadMessage(e) \/ ReadInitialize(e)
             \/ ReadClosed(e)
    <3>1. \A c \in Client : assembly'[c] \in {assembly[c], NoAssembly}
      BY <2>4, <2>1, <1>1 DEF ReadRepeated, ReadRefused, ReadMessage, ReadInitialize, ReadClosed,
                      Without, Invalidate, readerVars, TypeOK
    <3> QED BY <3>1, <1>1, SentDropped
  <2>5. CASE ReadMisfit(e) \/ ReadLastPart(e)
    <3>1. PICK room \in Rooms(e.key) : assembly' = [room EXCEPT ![ClientOf[e.key]] = NoAssembly]
      BY <2>5 DEF ReadMisfit, ReadLastPart
    <3> QED BY <3>1, <2>1, <1>1, SentEntered
  <2>6. CASE ReadPending(e)
    <3> DEFINE a == [key |-> e.key, seq |-> Current(e).seq, chunks |-> WithChunk(e)]
    <3>1. PICK room \in Rooms(e.key) : assembly' = [room EXCEPT ![ClientOf[e.key]] = a]
      BY <2>6 DEF ReadPending
    <3>2. e.kind = "part" /\ Fits(e) BY <2>6 DEF ReadPending
    <3>3. /\ a.key = e.key /\ a.seq = e.seq
          /\ WithChunk(e) \in Chunks /\ Len(WithChunk(e)) = e.part
      BY <3>2, <2>1, ChunkFits
    <3>4. \A p \in DOMAIN a.chunks : InLog(a.key, a.seq, p)
      BY <3>2, <3>3, <2>3 DEF Chunks
    <3> HIDE DEF a
    <3> QED BY <3>1, <3>4, <2>1, <1>1, SentEntered
  <2> QED BY <2>2, <2>4, <2>5, <2>6 DEF Read
<1>3. CASE ~\E i \in DOMAIN log : Read(log[i])
  <2>1. \A c \in Client : assembly'[c] \in {assembly[c], NoAssembly}
    BY <1>1, <1>3 DEF Next, CloseExpired, TaskEnds, Reap, Forward, AppDisconnects, WriterTakes, WriterSends,
       ReadAck, Connect, Disconnect, Shutdown, ClientSends, Invalidate, vars, readerVars
  <2> QED BY <2>1, <1>1, SentDropped
<1> QED BY <1>2, <1>3

LEMMA ChannelInvariant == Spec => []ChannelInv
<1>1. Init => SentInv BY DEF Init, SentInv
<1>2. ChannelInv /\ [Next]_vars => ChannelInv'
  BY ReaderStep, BufferStep, SentStep DEF ChannelInv
<1> QED BY <1>1, <1>2, InitReaderInv, InitBuffer, PTL DEF Spec, ChannelInv

\* The connections as StreamConnections has them.

\* An element at the end.
LEMMA Appended ==
  ASSUME NEW n \in Nat, NEW f, f = [i \in 1..n |-> f[i]], NEW x
  PROVE  Append(f, x) = [i \in 1..(n + 1) |-> IF i = n + 1 THEN x ELSE f[i]]
<1> DEFINE S == {f[i] : i \in 1..n} \union {x}
<1>1. f \in [1..n -> S] BY Zenon
<1> HIDE DEF S
<1>2. f \in Seq(S) /\ Len(f) = n BY <1>1, FunctionIsSeq
<1>3. x \in S BY DEF S
<1>4. /\ Append(f, x) \in Seq(S) /\ Len(Append(f, x)) = n + 1
      /\ \A i \in 1..(n + 1) : Append(f, x)[i] = IF i = n + 1 THEN x ELSE f[i]
  BY <1>2, <1>3
<1> QED BY <1>4

\* The numbers of what is in a sequence of messages.
Numbers(d) == [i \in DOMAIN d |-> d[i].seq]

LEMMA ConnectionsAre ==
  Connections =
    [c \in Conn |-> [key |-> conn[c].key,
                     stage |-> IF conn[c].end = "none" THEN "live" ELSE "ended",
                     messages |-> Numbers(conn[c].delivered)]]
  BY DEF Connections, Numbers

LEMMA NumbersAppended ==
  ASSUME NEW old \in Seq(Deliveries), NEW d \in Deliveries
  PROVE  Numbers(Append(old, d)) = Append(Numbers(old), d.seq)
<1> DEFINE n == Len(old)
           f == Numbers(old)
<1>1. n \in Nat /\ DOMAIN old = 1..n BY DEF n
<1>2. f = [i \in 1..n |-> f[i]] /\ \A i \in 1..n : f[i] = old[i].seq BY <1>1 DEF Numbers
<1>3. /\ DOMAIN Append(old, d) = 1..(n + 1)
      /\ \A i \in 1..n : Append(old, d)[i] = old[i]
      /\ Append(old, d)[n + 1] = d
  BY <1>1
<1> HIDE DEF n, f
<1>4. Append(f, d.seq) = [i \in 1..(n + 1) |-> IF i = n + 1 THEN d.seq ELSE f[i]]
  BY <1>1, <1>2, Appended
<1>5. \A i \in 1..(n + 1) : Append(old, d)[i].seq = IF i = n + 1 THEN d.seq ELSE f[i]
  <2> SUFFICES ASSUME NEW i \in 1..(n + 1)
               PROVE  Append(old, d)[i].seq = IF i = n + 1 THEN d.seq ELSE f[i]
    OBVIOUS
  <2>1. CASE i = n + 1 BY <2>1, <1>3
  <2>2. CASE i # n + 1
    <3>1. i \in 1..n BY <2>2, <1>1
    <3> QED BY <3>1, <2>2, <1>2, <1>3
  <2> QED BY <2>1, <2>2
<1> QED BY <1>3, <1>4, <1>5 DEF Numbers, f

\* A stream's open connection is its live one.
LEMMA LiveIsOpen ==
  ASSUME ConnInv, NEW c \in Conn, NEW ks \in SUBSET Key
  PROVE  (\E k \in ks : open[k] = c) <=> conn[c].end = "none" /\ conn[c].key \in ks
<1>1. c # NoConn /\ conn[c].key \in Key BY ConnectionTypes DEF ConnInv
<1>2. conn[c].end = "none" <=> open[conn[c].key] = c BY DEF ConnInv, OpenIsTracked
<1>3. \A k \in Key : open[k] = c => conn[c].key = k BY <1>1 DEF ConnInv, OpenInv
<1> QED BY <1>1, <1>2, <1>3

LEMMA EndedRecord ==
  ASSUME NEW k, NEW l, NEW m, NEW x
  PROVE  [[key |-> k, stage |-> l, messages |-> m] EXCEPT !.stage = x]
           = [key |-> k, stage |-> x, messages |-> m]
<1>1. [[key |-> k, stage |-> l, messages |-> m] EXCEPT !.stage = x]
        \in [key : {k}, stage : {x}, messages : {m}]
  OBVIOUS
<1> QED BY <1>1

\* A step that ends connections and gives them nothing.
LEMMA EndMapped ==
  ASSUME ConnInv, NEW ks \in SUBSET Key, DOMAIN conn' = Conn,
         \A c \in Conn :
           /\ conn'[c].key = conn[c].key /\ conn'[c].delivered = conn[c].delivered
           /\ conn'[c].end = "none" <=> conn[c].end = "none" /\ conn[c].key \notin ks
  PROVE  Connections' = Channels!Ended(ks)
<1> DEFINE At(c, stage) == [key |-> conn[c].key, stage |-> stage,
                            messages |-> Numbers(conn[c].delivered)]
           Stage(c) == IF conn[c].end = "none" THEN "live" ELSE "ended"
           After(c) == IF conn'[c].end = "none" THEN "live" ELSE "ended"
<1>1. Connections = [c \in Conn |-> At(c, Stage(c))] BY ConnectionsAre
<1>2. Connections' = [c \in Conn |-> At(c, After(c))]
  <2>1. Conn' = Conn BY DEF Conn
  <2>2. Connections' = [c \in Conn' |-> [key |-> conn'[c].key, stage |-> After(c),
                                        messages |-> Numbers(conn'[c].delivered)]]
    BY DEF Connections, Numbers
  <2> QED BY <2>1, <2>2
<1>3. ASSUME NEW c \in Conn
      PROVE  At(c, After(c)) = IF At(c, Stage(c)).key \in ks
                               THEN [At(c, Stage(c)) EXCEPT !.stage = "ended"]
                               ELSE At(c, Stage(c))
  <2>1. At(c, Stage(c)).key = conn[c].key OBVIOUS
  <2>2. [At(c, Stage(c)) EXCEPT !.stage = "ended"] = At(c, "ended") BY EndedRecord
  <2>3. After(c) = IF conn[c].key \in ks THEN "ended" ELSE Stage(c) OBVIOUS
  <2> HIDE DEF After, Stage
  <2> QED BY <2>1, <2>2, <2>3
<1> HIDE DEF At, After, Stage
<1>4. DOMAIN Connections = Conn /\ \A c \in Conn : Connections[c] = At(c, Stage(c)) BY <1>1
<1> QED BY <1>2, <1>3, <1>4 DEF Channels!Ended

LEMMA SameMapped ==
  ASSUME ConnInv, DOMAIN conn' = Conn,
         \A c \in Conn :
           /\ conn'[c].key = conn[c].key /\ conn'[c].delivered = conn[c].delivered
           /\ conn'[c].end = "none" <=> conn[c].end = "none"
  PROVE  Connections' = Connections
<1>1. Conn' = Conn BY DEF Conn
<1> QED BY <1>1 DEF Connections

\* close_client, whatever marks the end.
LEMMA ClosedMapped ==
  ASSUME ConnInv, NEW ks \in SUBSET Key, NEW why \in {"closed", "reaped"},
         DOMAIN conn' = Conn,
         LET closed == ClosedWith(ks, why) IN
         \A c \in Conn : /\ conn'[c].key = closed[c].key /\ conn'[c].end = closed[c].end
                         /\ conn'[c].delivered = closed[c].delivered
  PROVE  Connections' = Channels!Ended(ks)
<1> DEFINE closed == ClosedWith(ks, why)
<1>1. \A c \in Conn :
        /\ closed[c].key = conn[c].key /\ closed[c].delivered = conn[c].delivered
        /\ closed[c].end = IF \E k \in ks : open[k] = c THEN why ELSE conn[c].end
  BY ClosedConnections DEF ConnInv
<1>2. \A c \in Conn : /\ conn'[c].key = closed[c].key /\ conn'[c].end = closed[c].end
                      /\ conn'[c].delivered = closed[c].delivered
  OBVIOUS
<1> HIDE DEF closed
<1>3. ASSUME NEW c \in Conn
      PROVE  /\ conn'[c].key = conn[c].key /\ conn'[c].delivered = conn[c].delivered
             /\ conn'[c].end = "none" <=> conn[c].end = "none" /\ conn[c].key \notin ks
  <2>1. conn'[c].end = IF \E k \in ks : open[k] = c THEN why ELSE conn[c].end
    BY <1>1, <1>2
  <2>2. (\E k \in ks : open[k] = c) <=> conn[c].end = "none" /\ conn[c].key \in ks
    BY LiveIsOpen
  <2> QED BY <1>1, <1>2, <2>1, <2>2
<1> QED BY <1>3, EndMapped

\* An initialize ends the connection of its stream and begins another.
LEMMA OpenMapped ==
  ASSUME ConnInv, NEW e \in Envelope, ReadInitialize(e)
  PROVE  Connections' = Append(Channels!Ended({e.key}),
                               [key |-> e.key, messages |-> <<e.seq>>, stage |-> "live"])
<1> DEFINE closed == ClosedWith({e.key}, "closed")
           new == NewConn(e.key, e.seq)
           n == Len(conn)
           f == Channels!Ended({e.key})
           x == [key |-> e.key, messages |-> <<e.seq>>, stage |-> "live"]
           Stage(c) == IF c.end = "none" THEN "live" ELSE "ended"
           Map(c) == [key |-> c.key, stage |-> Stage(c), messages |-> Numbers(c.delivered)]
<1>1. e.key \in Key /\ TypeOK BY DEF Envelope, ConnInv
<1>2. /\ closed \in Seq(Connection) /\ Len(closed) = n /\ DOMAIN closed = Conn
      /\ \A c \in Conn : /\ closed[c].key = conn[c].key
                         /\ closed[c].delivered = conn[c].delivered
                         /\ closed[c].end =
                              IF \E k \in {e.key} : open[k] = c THEN "closed" ELSE conn[c].end
  BY <1>1, ClosedConnections
<1>3. conn' = Append(closed, new) BY DEF ReadInitialize
<1>4. n \in Nat /\ Conn = 1..n BY <1>1 DEF TypeOK, Conn
<1>5. Map(new) = x
  <2>1. new.key = e.key /\ new.end = "none" /\ new.delivered = <<[seq |-> e.seq, chunks |-> <<>>]>>
    BY DEF NewConn
  <2>2. Numbers(<<[seq |-> e.seq, chunks |-> <<>>]>>) = <<e.seq>> BY DEF Numbers
  <2> QED BY <2>1, <2>2
<1>6. DOMAIN Connections = Conn
      /\ \A c \in Conn : Connections[c] = [key |-> conn[c].key, stage |-> Stage(conn[c]),
                                           messages |-> Numbers(conn[c].delivered)]
  BY ConnectionsAre
<1>7. f = [c \in 1..n |-> f[c]]
  BY <1>4, <1>6 DEF Channels!Ended
<1>8. ASSUME NEW c \in Conn PROVE Map(closed[c]) = f[c]
  <2>1. f[c] = IF conn[c].key \in {e.key} THEN [Connections[c] EXCEPT !.stage = "ended"]
               ELSE Connections[c]
    BY <1>6 DEF Channels!Ended
  <2>2. [Connections[c] EXCEPT !.stage = "ended"]
          = [key |-> conn[c].key, stage |-> "ended", messages |-> Numbers(conn[c].delivered)]
    BY <1>6, EndedRecord
  <2>3. Stage(closed[c]) = IF conn[c].key \in {e.key} THEN "ended" ELSE Stage(conn[c])
    <3>1. (\E k \in {e.key} : open[k] = c) <=> conn[c].end = "none" /\ conn[c].key \in {e.key}
      BY <1>1, LiveIsOpen
    <3>2. closed[c].end = IF \E k \in {e.key} : open[k] = c THEN "closed" ELSE conn[c].end
      BY <1>2
    <3> HIDE DEF closed
    <3> QED BY <3>1, <3>2
  <2>4. closed[c].key = conn[c].key /\ closed[c].delivered = conn[c].delivered BY <1>2
  <2> HIDE DEF closed, Stage, f
  <2> QED BY <2>1, <2>2, <2>3, <2>4, <1>6
<1>9. /\ Conn' = 1..(n + 1) /\ conn'[n + 1] = new /\ \A c \in 1..n : conn'[c] = closed[c]
  <2> HIDE DEF closed, new
  <2>1. /\ DOMAIN Append(closed, new) = 1..(n + 1) /\ Append(closed, new)[n + 1] = new
        /\ \A c \in 1..n : Append(closed, new)[c] = closed[c]
    BY <1>2, <1>4
  <2> QED BY <2>1, <1>3 DEF Conn
<1>10. Connections' = [c \in Conn' |-> Map(conn'[c])] BY DEF Connections, Numbers
<1> HIDE DEF f, x, Map, closed, new, n
<1>11. Append(f, x) = [c \in 1..(n + 1) |-> IF c = n + 1 THEN x ELSE f[c]]
  BY <1>4, <1>7, Appended
<1>12. \A c \in 1..(n + 1) : Map(conn'[c]) = IF c = n + 1 THEN x ELSE f[c]
  <2> SUFFICES ASSUME NEW c \in 1..(n + 1)
               PROVE  Map(conn'[c]) = IF c = n + 1 THEN x ELSE f[c]
    OBVIOUS
  <2>1. CASE c = n + 1 BY <2>1, <1>5, <1>9
  <2>2. CASE c # n + 1
    <3>1. c \in 1..n BY <2>2, <1>4
    <3> QED BY <3>1, <2>2, <1>4, <1>8, <1>9
  <2> QED BY <2>1, <2>2
<1>13. Append(f, x) = Connections' BY <1>9, <1>10, <1>11, <1>12
<1> QED BY <1>13 DEF f, x

\* What a connection is given is later than all it was given before.
LEMMA GivenLater ==
  ASSUME ConnInv, NEW c \in Conn, NEW i \in DOMAIN conn[c].delivered
  PROVE  conn[c].delivered[i].seq <= conn[c].last
<1> DEFINE d == conn[c].delivered
<1>1. d \in Seq(Deliveries) BY ConnectionTypes DEF ConnInv, Connection, Deliveries
<1>2. d # <<>> /\ conn[c].last = d[Len(d)].seq BY DEF ConnInv, LastInv
<1>3. \A p, q \in DOMAIN d : p < q => d[p].seq < d[q].seq BY DEF ConnInv, DeliveredInOrder
<1>4. i \in DOMAIN d OBVIOUS
<1> HIDE DEF d
<1>5. Len(d) \in Nat /\ DOMAIN d = 1..Len(d) /\ \A p \in 1..Len(d) : d[p] \in Deliveries
  BY <1>1
<1>6. i \in 1..Len(d) /\ Len(d) \in 1..Len(d) BY <1>4, <1>5
<1>7. d[i].seq \in Nat /\ d[Len(d)].seq \in Nat BY <1>5, <1>6 DEF Deliveries
<1>8. d[i].seq <= d[Len(d)].seq
  <2>1. CASE i = Len(d) BY <2>1, <1>7
  <2>2. CASE i < Len(d)
    <3>1. d[i].seq < d[Len(d)].seq BY <2>2, <1>3, <1>5, <1>6
    <3> QED BY <3>1, <1>7
  <2> QED BY <2>1, <2>2, <1>5, <1>6
<1> QED BY <1>2, <1>8 DEF d

LEMMA GivenRecord ==
  ASSUME NEW k, NEW l, NEW m, NEW x
  PROVE  [[key |-> k, stage |-> l, messages |-> m] EXCEPT !.messages = x]
           = [key |-> k, stage |-> l, messages |-> x]
<1>1. [[key |-> k, stage |-> l, messages |-> m] EXCEPT !.messages = x]
        \in [key : {k}, stage : {l}, messages : {x}]
  OBVIOUS
<1> QED BY <1>1

\* The live connection of a stream is given a message that is later.
Gives(k, seq) ==
  \E c \in DOMAIN Connections :
    /\ Connections[c].stage = "live" /\ Connections[c].key = k
    /\ \A i \in DOMAIN Connections[c].messages : Connections[c].messages[i] < seq
    /\ Connections' = [Connections EXCEPT ![c].messages = Append(@, seq)]

\* A message is given, or is not newer than the last one.
LEMMA GiveMapped ==
  ASSUME ConnInv, NEW k \in Key, NEW seq \in Nat, NEW chunks \in Chunks,
         conn' = Delivered(k, seq, chunks)
  PROVE  Connections' = Connections \/ Gives(k, seq)
<1>1. TypeOK BY DEF ConnInv
<1>2. CASE ~Newer(k, seq)
  <2>1. conn' = conn BY <1>2 DEF Delivered
  <2> QED BY <2>1 DEF Connections, Conn
<1>3. CASE Newer(k, seq)
  <2> DEFINE c == open[k]
             d == [seq |-> seq, chunks |-> chunks]
             old == conn[c].delivered
             Stage(r) == IF r.end = "none" THEN "live" ELSE "ended"
             Map(r) == [key |-> r.key, stage |-> Stage(r), messages |-> Numbers(r.delivered)]
  <2>1. c \in Conn /\ c # NoConn /\ conn[c].last < seq
    BY <1>1, <1>3 DEF Newer, TypeOK
  <2>2. conn[c] \in Connection /\ old \in Seq(Deliveries) /\ d \in Deliveries /\ d.seq = seq
        /\ conn[c].last \in Nat
    BY <2>1, <1>1, ConnectionTypes DEF Connection, Deliveries
  <2>3. conn[c].key = k /\ conn[c].end = "none"
    <3>1. conn[c].key = k BY <2>1 DEF ConnInv, OpenInv
    <3> QED BY <3>1, <2>1 DEF ConnInv, OpenIsTracked
  <2>4. DOMAIN Connections = Conn /\ \A b \in Conn : Connections[b] = Map(conn[b])
    BY ConnectionsAre
  <2>5. Connections[c].stage = "live" /\ Connections[c].key = k
        /\ Connections[c].messages = Numbers(old)
    BY <2>1, <2>3, <2>4
  <2>6. \A i \in DOMAIN Numbers(old) : Numbers(old)[i] < seq
    <3> SUFFICES ASSUME NEW i \in DOMAIN Numbers(old) PROVE Numbers(old)[i] < seq
      OBVIOUS
    <3>1. i \in DOMAIN old /\ Numbers(old)[i] = old[i].seq BY DEF Numbers
    <3>2. old[i].seq <= conn[c].last BY <3>1, <2>1, GivenLater
    <3>3. old[i].seq \in Nat
      <4> HIDE DEF old
      <4>1. old[i] \in Deliveries BY <3>1, <2>2
      <4> QED BY <4>1 DEF Deliveries
    <3> QED BY <3>1, <3>2, <3>3, <2>1, <2>2
  <2>7. DOMAIN conn' = Conn
        /\ \A b \in Conn : conn'[b] = IF b = c THEN Given(b, seq, chunks) ELSE conn[b]
    <3>1. LET given == Delivered(k, seq, chunks) IN
          /\ given \in Seq(Connection) /\ DOMAIN given = Conn
          /\ \A b \in Conn :
               given[b] = IF b = open[k] /\ Newer(k, seq) THEN Given(b, seq, chunks) ELSE conn[b]
      BY <1>1, DeliveredConnections
    <3> QED BY <3>1, <1>3
  <2>8. conn'[c].key = k /\ conn'[c].end = "none" /\ conn'[c].delivered = Append(old, d)
    BY <2>1, <2>2, <2>3, <2>7 DEF Given, Connection
  <2>9. Connections' = [b \in Conn |-> Map(conn'[b])]
    BY <2>7 DEF Connections, Numbers, Conn
  <2>10. Map(conn'[c]) = [Connections[c] EXCEPT !.messages = Append(Numbers(old), seq)]
    <3>1. Numbers(Append(old, d)) = Append(Numbers(old), seq)
      BY <2>2, NumbersAppended
    <3>2. Map(conn'[c]) = [key |-> k, stage |-> "live", messages |-> Append(Numbers(old), seq)]
      BY <3>1, <2>8
    <3>3. Connections[c] = [key |-> k, stage |-> "live", messages |-> Numbers(old)]
      BY <2>1, <2>3, <2>4
    <3> QED BY <3>2, <3>3, GivenRecord
  <2>11. \A b \in Conn : b # c => Map(conn'[b]) = Connections[b] BY <2>4, <2>7
  <2> HIDE DEF Map, c, d, old
  <2>12. Connections' = [Connections EXCEPT ![c] =
                           [Connections[c] EXCEPT !.messages = Append(Numbers(old), seq)]]
    BY <2>1, <2>4, <2>9, <2>10, <2>11
  <2> QED BY <2>1, <2>4, <2>5, <2>6, <2>12 DEF Gives
<1> QED BY <1>2, <1>3

LEMMA MessagesGrow ==
  ASSUME TypeOK, [Next]_vars
  PROVE  SentMessages \subseteq SentMessages'
<1>1. DOMAIN log \subseteq DOMAIN log' /\ \A j \in DOMAIN log : log'[j] = log[j]
  BY LogGrows
<1>2. \A j \in DOMAIN log : SentWhole(j) => SentWhole(j)' BY <1>1 DEF SentWhole
<1> QED BY <1>1, <1>2 DEF SentMessages

\* A step that leaves the answers alone, and the envelopes of the clients.
LEMMA ConnectionsMove ==
  ASSUME UNCHANGED <<log, sequenced, arrived>>,
         \/ Connections' = Connections
         \/ \E ks \in SUBSET Key : Connections' = Channels!Ended(ks)
         \/ \E m \in SentMessages :
              \/ /\ m.kind = "initialize"
                 /\ Connections' = Append(Channels!Ended({m.key}),
                                     [key |-> m.key, messages |-> <<m.seq>>, stage |-> "live"])
              \/ m.kind = "message" /\ Gives(m.key, m.seq)
  PROVE  [Channels!Next]_(Channels!channelVars)
<1>1. SentMessages' = SentMessages /\ Answered' = Answered
  BY DEF SentMessages, SentWhole, Answered
<1>2. CASE Connections' = Connections
  BY <1>1, <1>2 DEF Channels!channelVars
<1>3. ASSUME NEW ks \in SUBSET Key, Connections' = Channels!Ended(ks)
      PROVE  Channels!Next
  BY <1>1, <1>3 DEF Channels!Next, Channels!End
<1>4. ASSUME NEW m \in SentMessages, m.kind = "initialize",
             Connections' = Append(Channels!Ended({m.key}),
                              [key |-> m.key, messages |-> <<m.seq>>, stage |-> "live"])
      PROVE  Channels!Next
  BY <1>1, <1>4 DEF Channels!Next, Channels!Open
<1>5. ASSUME NEW m \in SentMessages, m.kind = "message", Gives(m.key, m.seq)
      PROVE  Channels!Next
  <2>1. PICK c \in DOMAIN Connections :
          /\ Connections[c].stage = "live" /\ Connections[c].key = m.key
          /\ \A i \in DOMAIN Connections[c].messages : Connections[c].messages[i] < m.seq
          /\ Connections' = [Connections EXCEPT ![c].messages = Append(@, m.seq)]
    BY <1>5 DEF Gives
  <2> QED BY <1>1, <1>5, <2>1 DEF Channels!Next, Channels!Give
<1> QED BY <1>2, <1>3, <1>4, <1>5

LEMMA RefineRead ==
  ASSUME ChannelInv, NEW i \in DOMAIN log, Read(log[i])
  PROVE  [Channels!Next]_(Channels!channelVars)
<1> DEFINE e == log[i]
           m == [key |-> e.key, seq |-> e.seq,
                 kind |-> IF e.kind = "initialize" THEN "initialize" ELSE "message"]
<1>1. /\ ReaderInv /\ ConnInv /\ TypeOK /\ SentInv
      /\ e \in Envelope /\ e.key \in Key /\ e.seq \in Nat /\ e.part \in Nat
  BY EnvelopeRead DEF ChannelInv, ReaderInv, ConnInv, Envelope
<1>2. UNCHANGED <<log, sequenced, arrived>>
  BY DEF Read, ReadRepeated, ReadRefused, ReadMisfit, ReadPending, ReadLastPart, ReadMessage,
         ReadInitialize, ReadClosed, Reads, writerVars
<1>3. e.kind \in {"initialize", "message"} \/ SentWhole(i) => m \in SentMessages
  BY DEF SentMessages
<1>4. ASSUME e.kind = "part", Fits(e), e.part = Parts PROVE SentWhole(i)
  <2>1. \A p \in 1..Parts : InLog(e.key, e.seq, p) BY <1>1, <1>4, FitsSent
  <2>2. \A p : [e EXCEPT !.part = p] = [key |-> e.key, kind |-> "part", seq |-> e.seq, part |-> p]
    <3>1. e = [key |-> e.key, kind |-> "part", seq |-> e.seq, part |-> e.part]
      BY <1>1, <1>4 DEF Envelope
    <3> HIDE DEF e
    <3> SUFFICES ASSUME NEW p
                 PROVE  [e EXCEPT !.part = p] =
                          [key |-> e.key, kind |-> "part", seq |-> e.seq, part |-> p]
      OBVIOUS
    <3>2. [e EXCEPT !.part = p] \in [key : {e.key}, kind : {"part"}, seq : {e.seq}, part : {p}]
      BY <3>1
    <3> QED BY <3>2
  <2>3. \A p \in 1..Parts : \E j \in DOMAIN log : log[j] = [e EXCEPT !.part = p]
    <3> HIDE DEF e
    <3> SUFFICES ASSUME NEW p \in 1..Parts
                 PROVE  \E j \in DOMAIN log : log[j] = [e EXCEPT !.part = p]
      OBVIOUS
    <3>1. InLog(e.key, e.seq, p) BY <2>1
    <3>2. PICK j \in DOMAIN log :
            log[j] = [key |-> e.key, kind |-> "part", seq |-> e.seq, part |-> p]
      BY <3>1 DEF InLog
    <3>3. log[j] = [e EXCEPT !.part = p] BY <3>2, <2>2
    <3> QED BY <3>3
  <2> QED BY <2>3, <1>4 DEF SentWhole
<1>5. Read(e) OBVIOUS
<1>6. m.key = e.key /\ m.seq = e.seq OBVIOUS
<1> HIDE DEF e
<1>7. ASSUME NEW chunks \in Chunks, conn' = Delivered(e.key, e.seq, chunks),
             m \in SentMessages, m.kind = "message"
      PROVE  [Channels!Next]_(Channels!channelVars)
  <2> HIDE DEF m
  <2>1. ConnInv /\ e.key \in Key /\ e.seq \in Nat BY <1>1
  <2>2. Connections' = Connections \/ Gives(m.key, m.seq)
    BY <2>1, <1>6, <1>7, GiveMapped
  <2> QED BY <2>2, <1>2, <1>7, ConnectionsMove
<1>8. CASE ReadRepeated(e) \/ ReadRefused(e) \/ ReadMisfit(e) \/ ReadPending(e)
  <2>1. UNCHANGED conn
    BY <1>8 DEF ReadRepeated, ReadRefused, ReadMisfit, ReadPending, trackerVars
  <2>2. Connections' = Connections BY <2>1 DEF Connections, Conn
  <2> QED BY <2>2, <1>2, ConnectionsMove
<1>9. CASE ReadMessage(e)
  <2>1. e.kind = "message" /\ conn' = Delivered(e.key, e.seq, <<>>) BY <1>9 DEF ReadMessage
  <2>2. <<>> \in Chunks BY DEF Chunks
  <2>3. m \in SentMessages /\ m.kind = "message" BY <2>1, <1>3
  <2> QED BY <2>1, <2>2, <2>3, <1>7
<1>10. CASE ReadLastPart(e)
  <2>1. /\ e.kind = "part" /\ Fits(e) /\ e.part = Parts
        /\ conn' = Delivered(e.key, e.seq, WithChunk(e))
    BY <1>10 DEF ReadLastPart
  <2>2. WithChunk(e) \in Chunks BY <1>1, CurrentAssembly
  <2>3. m \in SentMessages /\ m.kind = "message" BY <2>1, <1>3, <1>4
  <2> QED BY <2>1, <2>2, <2>3, <1>7
<1>11. CASE ReadInitialize(e)
  <2>1. e.kind = "initialize" BY <1>11 DEF ReadInitialize
  <2>2. m \in SentMessages /\ m.kind = "initialize" BY <2>1, <1>3
  <2>3. Connections' = Append(Channels!Ended({e.key}),
                              [key |-> e.key, messages |-> <<e.seq>>, stage |-> "live"])
    BY <1>1, <1>11, OpenMapped
  <2> HIDE DEF m
  <2> QED BY <2>2, <2>3, <1>2, <1>6, ConnectionsMove
<1>12. CASE ReadClosed(e)
  <2>1. conn' = ClosedWith({e.key}, "closed") BY <1>12 DEF ReadClosed
  <2>2. DOMAIN ClosedWith({e.key}, "closed") = Conn BY DEF ClosedWith
  <2>3. Connections' = Channels!Ended({e.key}) BY <1>1, <2>1, <2>2, ClosedMapped
  <2> QED BY <2>3, <1>1, <1>2, ConnectionsMove
<1> QED BY <1>5, <1>8, <1>9, <1>10, <1>11, <1>12 DEF Read

\* The writer numbers answers, and the backend gets the next one.
LEMMA RefineTakes ==
  ASSUME ChannelInv, [Next]_vars, WriterTakes
  PROVE  Channels!Next
<1>1. UNCHANGED <<log, conn, arrived>> BY DEF WriterTakes, backendVars, trackerVars
<1>2. SentMessages' = SentMessages /\ Connections' = Connections
  BY <1>1 DEF SentMessages, SentWhole, Connections, Conn
<1>3. TypeOK /\ TypeOK' BY TypeNext DEF ChannelInv, BufferInv
<1>4. /\ sequenced \in [Key -> Seq(Nat \X Nat)] /\ sequenced' \in [Key -> Seq(Nat \X Nat)]
      /\ seqId \in [Key -> Nat] /\ Head(events) \in Key
  <2>1. sequenced \in [Key -> Seq(Nat \X Nat)] /\ seqId \in [Key -> Nat] /\ events \in Seq(Key)
    BY <1>3 DEF TypeOK
  <2>2. sequenced' \in [Key -> Seq(Nat \X Nat)] BY <1>3 DEF TypeOK
  <2>3. events # <<>> BY DEF WriterTakes
  <2> QED BY <2>1, <2>2, <2>3
<1>5. Answered' \in [Key -> Nat]
  <2>1. \A k \in Key : Len(sequenced'[k]) \in Nat BY <1>4
  <2> QED BY <2>1 DEF Answered
<1>6. ASSUME NEW k \in Key PROVE Answered[k] <= Answered'[k]
  <2>1. PICK n \in {0, 1, Parts} :
          sequenced' = [sequenced EXCEPT ![Head(events)] =
                          @ \o [i \in 1..n |-> <<seqId[Head(events)], i - 1>>]]
    BY DEF WriterTakes
  <2>2. n \in Nat OBVIOUS
  <2> DEFINE h == Head(events)
             f == [i \in 1..n |-> <<seqId[h], i - 1>>]
             o == sequenced[k]
  <2>3. o \in Seq(Nat \X Nat) /\ Len(o) \in Nat BY <1>4
  <2>4. CASE k = h
    <3>1. sequenced'[k] = o \o f BY <2>1, <2>4, <1>4
    <3>2. f \in [1..n -> Nat \X Nat]
      <4>1. seqId[h] \in Nat BY <1>4
      <4> HIDE DEF h
      <4>2. \A i \in 1..n : i - 1 \in Nat BY <2>2
      <4> QED BY <4>1, <4>2
    <3> HIDE DEF f, o
    <3>3. Len(o \o f) = Len(o) + n BY <2>2, <2>3, <3>2, Followed
    <3> QED BY <3>1, <3>3, <2>2, <2>3 DEF Answered, o
  <2>5. CASE k # h
    <3>1. sequenced'[k] = o BY <2>1, <2>5, <1>4
    <3> QED BY <3>1, <2>3 DEF Answered
  <2> QED BY <2>4, <2>5
<1> QED BY <1>1, <1>2, <1>5, <1>6 DEF Channels!Next, Channels!Answer

LEMMA RefineSends ==
  ASSUME ChannelInv, [Next]_vars, NEW k \in Key, WriterSends(k)
  PROVE  [Channels!Next]_(Channels!channelVars)
<1>1. UNCHANGED <<log, conn, sequenced>> BY DEF WriterSends, trackerVars
<1>2. SentMessages' = SentMessages /\ Connections' = Connections /\ Answered' = Answered
  BY <1>1 DEF SentMessages, SentWhole, Connections, Conn, Answered
<1>3. BufferInv /\ BufferInv' /\ \A k1 \in Key : arrived'[k1] <= arrived[k1] + 1
  BY BufferStep DEF ChannelInv
<1>4. arrived \in [Key -> Nat] /\ arrived' \in [Key -> Nat] /\ Len(sequenced[k]) \in Nat
  <2>1. TypeOK /\ TypeOK' BY <1>3 DEF BufferInv
  <2>2. arrived \in [Key -> Nat] /\ sequenced[k] \in Seq(Nat \X Nat) BY <2>1 DEF TypeOK
  <2>3. arrived' \in [Key -> Nat] BY <2>1 DEF TypeOK
  <2> QED BY <2>2, <2>3
<1>5. PICK i \in sending[k] : arrived' = [arrived EXCEPT ![k] = IF i > @ THEN i ELSE @]
  BY DEF WriterSends
<1>6. i \in Nat BY <1>3 DEF BufferInv, TypeOK
<1>7. CASE ~(i > arrived[k])
  <2>1. arrived' = arrived BY <1>4, <1>5, <1>7
  <2> QED BY <2>1, <1>2 DEF Channels!channelVars
<1>8. CASE i > arrived[k]
  <2>1. arrived'[k] = i BY <1>4, <1>5, <1>8
  <2>2. i = arrived[k] + 1 BY <2>1, <1>3, <1>4, <1>6, <1>8
  <2>3. arrived' = [arrived EXCEPT ![k] = @ + 1] BY <2>2, <1>4, <1>5, <1>8
  <2>4. arrived'[k] <= Len(sequenced[k]) BY <1>1, <1>3 DEF BufferInv, KeptInv
  <2>5. arrived[k] < Answered[k] BY <2>1, <2>2, <2>4, <1>4 DEF Answered
  <2> QED BY <2>3, <2>5, <1>2 DEF Channels!Next, Channels!Arrive
<1> QED BY <1>7, <1>8

LEMMA RefineStep ==
  ASSUME ChannelInv, [Next]_vars
  PROVE  [Channels!Next]_(Channels!channelVars)
<1>1. ConnInv /\ TypeOK BY DEF ChannelInv, ReaderInv, ConnInv
<1>2. \A c \in Conn : conn[c] \in Connection /\ conn[c].key \in Key
  BY <1>1, ConnectionTypes
<1>3. ASSUME NEW i \in DOMAIN log, Read(log[i])
      PROVE  [Channels!Next]_(Channels!channelVars)
  BY <1>3, RefineRead
<1>4. CASE WriterTakes BY <1>4, RefineTakes
<1>5. ASSUME NEW k \in Key, WriterSends(k)
      PROVE  [Channels!Next]_(Channels!channelVars)
  BY <1>5, RefineSends
<1>6. ASSUME NEW k \in Key, ClientSends(k)
      PROVE  [Channels!Next]_(Channels!channelVars)
  <2>1. UNCHANGED <<conn, sequenced, arrived>> BY <1>6 DEF ClientSends, trackerVars, writerVars
  <2>2. Connections' = Connections /\ Answered' = Answered
    BY <2>1 DEF Connections, Conn, Answered
  <2>3. SentMessages \subseteq SentMessages' BY <1>1, MessagesGrow
  <2> QED BY <2>1, <2>2, <2>3 DEF Channels!Next, Channels!Send
<1>7. CASE CloseExpired
  <2>1. PICK ks \in SUBSET Key : conn' = ClosedWith(ks, "closed") BY <1>7 DEF CloseExpired
  <2>2. UNCHANGED <<log, sequenced, arrived>> BY <1>7 DEF CloseExpired, backendVars, writerVars
  <2>3. DOMAIN ClosedWith(ks, "closed") = Conn BY DEF ClosedWith
  <2>4. Connections' = Channels!Ended(ks) BY <1>1, <2>1, <2>3, ClosedMapped
  <2> QED BY <2>2, <2>4, ConnectionsMove
<1>8. CASE Shutdown
  <2> DEFINE closed == ClosedWith(Key, "closed")
  <2>1. conn' = [c \in Conn |-> [closed[c] EXCEPT !.task = "reaped"]] BY <1>8 DEF Shutdown
  <2>2. \A c \in Conn : closed[c] \in Connection BY <1>1, ClosedConnections
  <2>3. DOMAIN conn' = Conn
        /\ \A c \in Conn : /\ conn'[c].key = closed[c].key /\ conn'[c].end = closed[c].end
                           /\ conn'[c].delivered = closed[c].delivered
    <3> HIDE DEF closed
    <3> QED BY <2>1, <2>2 DEF Connection
  <2>4. Key \in SUBSET Key OBVIOUS
  <2>5. Connections' = Channels!Ended(Key) BY <1>1, <2>3, <2>4, ClosedMapped
  <2>6. UNCHANGED <<log, sequenced, arrived>> BY <1>8 DEF Shutdown, backendVars
  <2> QED BY <2>4, <2>5, <2>6, ConnectionsMove
<1>9. ASSUME NEW c \in Conn, Reap(c)
      PROVE  [Channels!Next]_(Channels!channelVars)
  <2> DEFINE ks == {conn[c].key}
             closed == ClosedWith(ks, "reaped")
  <2>1. conn' = [closed EXCEPT ![c].task = "reaped"] BY <1>9 DEF Reap, Reaped
  <2>2. ks \in SUBSET Key BY <1>2
  <2>3. DOMAIN closed = Conn /\ \A b \in Conn : closed[b] \in Connection
    BY <1>1, <2>2, ClosedConnections
  <2>4. DOMAIN conn' = Conn
        /\ \A b \in Conn : /\ conn'[b].key = closed[b].key /\ conn'[b].end = closed[b].end
                           /\ conn'[b].delivered = closed[b].delivered
    <3> HIDE DEF closed, ks
    <3> QED BY <2>1, <2>3 DEF Connection
  <2> HIDE DEF ks
  <2>5. Connections' = Channels!Ended(ks) BY <1>1, <2>2, <2>4, ClosedMapped
  <2>6. UNCHANGED <<log, sequenced, arrived>> BY <1>9 DEF Reap, backendVars, writerVars
  <2> QED BY <2>2, <2>5, <2>6, ConnectionsMove
<1>10. ASSUME NEW c \in Conn, AppDisconnects(c)
       PROVE  [Channels!Next]_(Channels!channelVars)
  <2>1. conn' = [conn EXCEPT ![c].disconnected = TRUE] BY <1>10 DEF AppDisconnects
  <2>2. DOMAIN conn' = Conn
        /\ \A b \in Conn : /\ conn'[b].key = conn[b].key /\ conn'[b].end = conn[b].end
                           /\ conn'[b].delivered = conn[b].delivered
    BY <2>1, <1>2 DEF Connection, Conn
  <2>3. Connections' = Connections BY <1>1, <2>2, SameMapped
  <2>4. UNCHANGED <<log, sequenced, arrived>>
    BY <1>10 DEF AppDisconnects, backendVars, writerVars
  <2> QED BY <2>3, <2>4, ConnectionsMove
<1>12. ASSUME NEW c \in Conn, TaskEnds(c)
       PROVE  [Channels!Next]_(Channels!channelVars)
  <2>1. conn' = [conn EXCEPT ![c].task = "ended"] BY <1>12 DEF TaskEnds
  <2>2. DOMAIN conn' = Conn
        /\ \A b \in Conn : /\ conn'[b].key = conn[b].key /\ conn'[b].end = conn[b].end
                           /\ conn'[b].delivered = conn[b].delivered
    BY <2>1, <1>2 DEF Connection, Conn
  <2>3. Connections' = Connections BY <1>1, <2>2, SameMapped
  <2>4. UNCHANGED <<log, sequenced, arrived>>
    BY <1>12 DEF TaskEnds, backendVars, writerVars
  <2> QED BY <2>3, <2>4, ConnectionsMove
<1>11. CASE \/ \E c \in Conn : Forward(c)
            \/ \E k \in Key : \E i \in 1..arrived[k] : ReadAck(k, i)
            \/ Connect \/ Disconnect \/ UNCHANGED vars
  <2>1. UNCHANGED <<log, conn, sequenced, arrived>>
    BY <1>11 DEF Forward, ReadAck, Connect, Disconnect, vars, backendVars, trackerVars, writerVars
  <2>2. Connections' = Connections BY <2>1 DEF Connections, Conn
  <2> QED BY <2>1, <2>2, ConnectionsMove
<1> QED BY <1>3, <1>4, <1>5, <1>6, <1>7, <1>8, <1>9, <1>10, <1>11, <1>12 DEF Next

\* For any streams, chunks, capacities and faults, the transport keeps the
\* promise of StreamConnections: what it gives was sent whole by the client of
\* the stream, later than what it gave before and to nobody whose end has
\* come, and its answers arrive one after another.
THEOREM Refinement == Spec => ImplementsStreamConnections
<1>1. Init => Channels!Init
  <2> SUFFICES ASSUME Init PROVE Channels!Init
    OBVIOUS
  <2>1. SentMessages = {} BY DEF Init, SentMessages
  <2>2. Connections = <<>>
    <3>1. Conn = {} BY DEF Init, Conn
    <3> QED BY <3>1 DEF Connections
  <2>3. Answered = [k \in Key |-> 0] BY DEF Init, Answered
  <2> QED BY <2>1, <2>2, <2>3 DEF Init, Channels!Init
<1>2. ChannelInv /\ [Next]_vars => [Channels!Next]_(Channels!channelVars) BY RefineStep
<1>3. Spec => Channels!Init /\ [][Channels!Next]_(Channels!channelVars)
  BY <1>1, <1>2, ChannelInvariant, PTL DEF Spec
<1> QED BY <1>3 DEF ImplementsStreamConnections, Channels!Spec
=============================================================================
