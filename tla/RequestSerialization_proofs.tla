-------------------- MODULE RequestSerialization_proofs ---------------------
(***************************************************************************)
(* Proofs about RequestSerialization, for every set of requests and        *)
(* connections, with or without panicking handlers.                        *)
(***************************************************************************)
EXTENDS RequestSerialization, SequenceTheorems, TLAPS

\* How long a prover may take for a step, in seconds.
USE SMTT(20), ZenonT(20)

\* What the queues hold: exactly the queued requests, each under its key, in
\* arrival order.
QueueInv ==
  /\ \A k \in Key : \A i \in 1..Len(queue[k]) :
       LET r == queue[k][i] IN
       KeyOf(r) = k /\ Serialized(r) /\ phase[r] = "queued"
  /\ \A k \in Key : \A i, j \in 1..Len(queue[k]) :
       i < j => arrival[queue[k][i]] < arrival[queue[k][j]]
  /\ \A r \in Request : phase[r] = "queued" =>
       \E i \in 1..Len(queue[KeyOf(r)]) : queue[KeyOf(r)][i] = r

\* What the drain tasks hold: every request between its queue and its end is
\* in the batch of a joining task of its key, alone or among shared reads.
BatchInv ==
  /\ \A d \in Request : batch[d] # {} => drainer[d] \in {"joining", "panicked"}
  /\ \A d \in Request : \A r \in batch[d] :
       KeyOf(r) = KeyOf(d) /\ Serialized(r) /\ phase[r] \notin {"unsent", "queued"}
  /\ \A d \in Request : \A q, r \in batch[d] :
       q # r => SharedRead(q) /\ SharedRead(r)
  /\ \A r \in Request : phase[r] \in {"batched", "running"} /\ Serialized(r) =>
       \E d \in Request : drainer[d] = "joining" /\ r \in batch[d]

\* Ranks grow, and the queue only holds later ranks than what left it.
ArrivalInv ==
  /\ \A r \in Request : phase[r] # "unsent" => arrival[r] < clock
  /\ \A q, r \in Request :
       /\ Serialized(q) /\ Serialized(r) /\ KeyOf(q) = KeyOf(r)
       /\ phase[q] = "queued" /\ phase[r] \notin {"unsent", "queued"}
       => arrival[r] < arrival[q]

\* Between the unlock and the spawn the loop carries the ownership.
SpawnInv == loopAt = "spawn" => drainer[loopOn] = "pending"

IInv == /\ TypeOK /\ OneOwnerPerQueue /\ SpawnInv
        /\ QueueInv /\ BatchInv /\ ArrivalInv /\ ConflictsInOrder

\* The types alone are inductive.
LEMMA InitTypeOK == Init => TypeOK
  BY ConstantsAssumption DEF Init, TypeOK, Phase

LEMMA KeyOfInKey == \A r \in Request : KeyOf(r) \in Key
  BY DEF Key

\* What one pass of drain keeps in the queue is a suffix of it.
LEMMA Suffix ==
  ASSUME NEW S, NEW q \in Seq(S), NEW n \in 1..Len(q)
  PROVE  /\ SubSeq(q, n + 1, Len(q)) \in Seq(S)
         /\ Len(SubSeq(q, n + 1, Len(q))) = Len(q) - n
         /\ \A i \in 1..(Len(q) - n) : SubSeq(q, n + 1, Len(q))[i] = q[n + i]
<1>1. Len(q) \in Nat /\ n \in Nat /\ 1 <= n /\ n <= Len(q)
  BY LenProperties
<1>2. \A i \in (n + 1)..Len(q) : q[i] \in S
  BY <1>1, ElementOfSeq
<1>3. n + 1 \in 1..(Len(q) + 1) /\ Len(q) \in n .. Len(q)
  BY <1>1
<1>4. SubSeq(q, n + 1, Len(q)) \in Seq(S)
  BY <1>1, <1>2
<1>5. Len(SubSeq(q, n + 1, Len(q))) = Len(q) - n
  BY <1>1
<1>6. \A i \in 1..(Len(q) - n) : SubSeq(q, n + 1, Len(q))[i] = q[n + i]
  BY <1>1
<1> QED BY <1>4, <1>5, <1>6

LEMMA NextTypeOK == TypeOK /\ [Next]_vars => TypeOK'
<1> SUFFICES ASSUME TypeOK, [Next]_vars PROVE TypeOK'
  OBVIOUS
<1> USE DEF TypeOK, Phase, Ended, LoopTo, gateVars, loopVars, queueVars,
            drainVars, histVars
<1>1. ASSUME NEW r \in Request, DispatchFree(r) PROVE TypeOK'
  BY <1>1 DEF DispatchFree, Arrive
<1>2. ASSUME NEW r \in Request, Enqueue(r) PROVE TypeOK'
  <2>1. queue' \in [Key -> Seq(Request)] /\ present' \subseteq Key
    BY <1>2, KeyOfInKey, AppendProperties DEF Enqueue
  <2>2. CASE ShouldSpawn(KeyOf(r))
    <3>1. /\ loopAt' = "spawn" /\ loopOn' = r
          /\ drainer' = [drainer EXCEPT ![r] = "pending"]
          /\ phase' = [phase EXCEPT ![r] = "queued"]
          /\ arrival' = [arrival EXCEPT ![r] = clock] /\ clock' = clock + 1
          /\ UNCHANGED <<connections, cleaned, accepting, batch>>
      BY <1>2, <2>2 DEF Enqueue, Arrive
    <3> QED BY <2>1, <3>1
  <2>3. CASE ~ShouldSpawn(KeyOf(r))
    BY <1>2, <2>1, <2>3 DEF Enqueue, Arrive
  <2> QED BY <2>2, <2>3
<1>3. ASSUME NEW r \in Request, SpawnDrain(r) PROVE TypeOK'
  BY <1>3 DEF SpawnDrain
<1>4. ASSUME NEW c \in Connection, CloseBegin(c) PROVE TypeOK'
  BY <1>4 DEF CloseBegin
<1>5. ASSUME NEW c \in Connection, GateClose(c) PROVE TypeOK'
  BY <1>5 DEF GateClose
<1>6. ASSUME NEW c \in Connection, CloseEnd(c) PROVE TypeOK'
  BY <1>6 DEF CloseEnd
<1>7. CASE LoopBreak
  BY <1>7 DEF LoopBreak
<1>8. CASE LoopExit
  BY <1>8 DEF LoopExit
<1>9. ASSUME NEW d \in Request, DrainPop(d) PROVE TypeOK'
  <2>1. KeyOf(d) \in Key /\ queue[KeyOf(d)] \in Seq(Request)
    BY KeyOfInKey
  <2>2. PICK n \in 1..Len(queue[KeyOf(d)]) :
          /\ batch' = [batch EXCEPT ![d] = {queue[KeyOf(d)][i] : i \in 1..n}]
          /\ queue' = [queue EXCEPT ![KeyOf(d)] = SubSeq(@, n + 1, Len(@))]
          /\ phase' = [r \in Request |->
                         IF \E i \in 1..n : queue[KeyOf(d)][i] = r
                           THEN "batched" ELSE phase[r]]
    BY <1>9 DEF DrainPop
  <2>3. queue' \in [Key -> Seq(Request)]
    BY <2>1, <2>2, Suffix
  <2>4. {queue[KeyOf(d)][i] : i \in 1..n} \subseteq Request
    BY <2>1, ElementOfSeq, LenProperties
  <2>5. batch' \in [Request -> SUBSET Request] /\ phase' \in [Request -> Phase]
    BY <2>2, <2>4
  <2> QED BY <1>9, <2>3, <2>5 DEF DrainPop
<1>10. ASSUME NEW d \in Request, DrainExit(d) PROVE TypeOK'
  BY <1>10 DEF DrainExit
<1>11. ASSUME NEW d \in Request, DrainJoined(d) PROVE TypeOK'
  BY <1>11 DEF DrainJoined
<1>12. ASSUME NEW r \in Request, GateEnter(r) PROVE TypeOK'
  BY <1>12 DEF GateEnter
<1>13. ASSUME NEW r \in Request, HandlerFinish(r) PROVE TypeOK'
  BY <1>13 DEF HandlerFinish
<1>14. ASSUME NEW r \in Request, HandlerPanic(r) PROVE TypeOK'
  BY <1>14 DEF HandlerPanic
<1>15. CASE UNCHANGED vars
  BY <1>15 DEF vars
<1> QED
  BY <1>1, <1>2, <1>3, <1>4, <1>5, <1>6, <1>7, <1>8, <1>9, <1>10, <1>11,
     <1>12, <1>13, <1>14, <1>15 DEF Next, LoopNext, DrainNext, HandlerNext

\* Every reachable state of the processor loop, the queues, the drain tasks
\* and the gates is well typed.
THEOREM TypeCorrect == Spec => []TypeOK
  BY InitTypeOK, NextTypeOK, PTL DEF Spec

-----------------------------------------------------------------------------
(* The order and ownership invariant. *)

LEMMA ConflictFacts ==
  \A q, r \in Request : Conflicts(q, r) =>
    /\ q # r /\ Serialized(q) /\ Serialized(r) /\ KeyOf(q) = KeyOf(r)
    /\ ~(SharedRead(q) /\ SharedRead(r))
  BY DEF Conflicts

LEMMA InitIInv == Init => IInv
<1> SUFFICES ASSUME Init PROVE IInv
  OBVIOUS
<1>1. TypeOK
  BY InitTypeOK
<1>2. OneOwnerPerQueue
  BY DEF Init, OneOwnerPerQueue, Owns
<1>3. QueueInv
  BY DEF Init, QueueInv
<1>4. SpawnInv /\ BatchInv /\ ArrivalInv /\ ConflictsInOrder
  BY DEF Init, SpawnInv, BatchInv, ArrivalInv, ConflictsInOrder
<1> QED BY <1>1, <1>2, <1>3, <1>4 DEF IInv

\* Steps that leave the requests, their queues and the drain tasks alone.
LEMMA LoopOnlyStep ==
  ASSUME IInv, TypeOK', UNCHANGED <<queueVars, drainVars, phase, histVars>>,
         loopAt' = "spawn" => loopAt = "spawn" /\ UNCHANGED loopVars
  PROVE  IInv'
<1> USE DEF IInv, queueVars, drainVars, histVars, loopVars
<1>1. OneOwnerPerQueue'
  BY DEF OneOwnerPerQueue, Owns
<1>2. QueueInv'
  BY DEF QueueInv
<1>3. BatchInv' /\ ArrivalInv' /\ ConflictsInOrder' /\ SpawnInv'
  BY DEF SpawnInv, BatchInv, ArrivalInv, ConflictsInOrder, Ended
<1> QED BY <1>1, <1>2, <1>3

\* Ownership without the key, and OneOwnerPerQueue' in its terms.
Holds(d) == drainer[d] \in {"pending", "popping", "joining", "panicked"}

LEMMA OwnerForm ==
  ASSUME \A k \in Key : k \in present' <=>
           \E d \in Request : KeyOf(d) = k /\ Holds(d)',
         \A d, e \in Request :
           Holds(d)' /\ Holds(e)' /\ KeyOf(d) = KeyOf(e) => d = e,
         \A k \in Key : queue'[k] # <<>> => k \in present'
  PROVE  OneOwnerPerQueue'
  BY DEF OneOwnerPerQueue, Owns, Holds

LEMMA EnqueueStep ==
  ASSUME IInv, TypeOK', NEW r \in Request, Enqueue(r)
  PROVE  IInv'
<1> DEFINE k == KeyOf(r)
<1> USE DEF IInv
<1>0. /\ k \in Key /\ queue[k] \in Seq(Request) /\ TypeOK
      /\ phase[r] = "unsent" /\ Serialized(r) /\ loopAt = "select"
  BY KeyOfInKey DEF Enqueue, TypeOK
<1>1. /\ queue' = [queue EXCEPT ![k] = Append(@, r)]
      /\ present' = present \union {k} /\ batch' = batch
      /\ phase' = [phase EXCEPT ![r] = "queued"]
      /\ arrival' = [arrival EXCEPT ![r] = clock] /\ clock' = clock + 1
  BY DEF Enqueue, Arrive
<1>2. \/ /\ k \notin present /\ loopAt' = "spawn" /\ loopOn' = r
         /\ drainer' = [drainer EXCEPT ![r] = "pending"]
      \/ k \in present /\ drainer' = drainer /\ loopAt' = loopAt
  BY DEF Enqueue, ShouldSpawn, LoopTo, loopVars
<1>3. /\ Len(queue'[k]) = Len(queue[k]) + 1 /\ Len(queue[k]) \in Nat
      /\ queue'[k][Len(queue[k]) + 1] = r
      /\ \A i \in 1..Len(queue[k]) : queue'[k][i] = queue[k][i]
      /\ \A l \in Key : l # k => queue'[l] = queue[l]
  BY <1>0, <1>1, AppendProperties, LenProperties DEF TypeOK
<1>4. \A l \in Key : \A i \in 1..Len(queue[l]) :
        queue[l][i] \in Request /\ queue[l][i] # r
  BY <1>0, ElementOfSeq DEF TypeOK, QueueInv
<1>5. k \notin present =>
        \A d \in Request : KeyOf(d) = k =>
          drainer[d] \notin {"pending", "popping", "joining", "panicked"}
  BY <1>0 DEF OneOwnerPerQueue, Owns
<1>6. OneOwnerPerQueue'
  <2>1. \A l \in Key : queue'[l] # <<>> => l \in present'
    BY <1>0, <1>1, <1>3 DEF OneOwnerPerQueue
  <2>2. CASE k \in present
    <3>1. present' = present /\ drainer' = drainer
      BY <1>1, <1>2, <2>2
    <3> QED BY <2>1, <3>1 DEF OneOwnerPerQueue, Owns
  <2>3. CASE k \notin present
    <3>1. drainer' = [drainer EXCEPT ![r] = "pending"]
      BY <1>2, <2>3
    <3>2. \A d \in Request : Holds(d)' <=> (Holds(d) \/ d = r)
      BY <1>0, <3>1 DEF Holds, TypeOK
    <3>3. \A l \in Key : l \in present' <=>
            \E d \in Request : KeyOf(d) = l /\ Holds(d)'
      BY <1>1, <3>2 DEF OneOwnerPerQueue, Owns, Holds
    <3>4. \A d, e \in Request :
            Holds(d)' /\ Holds(e)' /\ KeyOf(d) = KeyOf(e) => d = e
      BY <1>5, <2>3, <3>2 DEF OneOwnerPerQueue, Owns, Holds
    <3> QED BY <2>1, <3>3, <3>4, OwnerForm
  <2> QED BY <2>2, <2>3
<1>7. SpawnInv'
  BY <1>0, <1>2 DEF SpawnInv, TypeOK
<1>8. QueueInv'
  <2>1. ASSUME NEW l \in Key, NEW i \in 1..Len(queue'[l])
        PROVE  /\ KeyOf(queue'[l][i]) = l /\ Serialized(queue'[l][i])
               /\ phase'[queue'[l][i]] = "queued"
    <3>1. CASE l = k /\ i = Len(queue[k]) + 1
      BY <1>0, <1>1, <1>3, <3>1 DEF TypeOK
    <3>2. CASE ~(l = k /\ i = Len(queue[k]) + 1)
      <4>1. i \in 1..Len(queue[l]) /\ queue'[l][i] = queue[l][i]
        BY <1>3, <3>2
      <4> QED BY <1>0, <1>1, <1>4, <4>1 DEF QueueInv, TypeOK
    <3> QED BY <3>1, <3>2
  <2>2. ASSUME NEW l \in Key, NEW i \in 1..Len(queue'[l]),
               NEW j \in 1..Len(queue'[l]), i < j
        PROVE  arrival'[queue'[l][i]] < arrival'[queue'[l][j]]
    <3>1. CASE l = k /\ j = Len(queue[k]) + 1
      <4>1. i \in 1..Len(queue[k]) /\ queue'[k][i] = queue[k][i]
        BY <1>3, <2>2, <3>1
      <4>2. phase[queue[k][i]] # "unsent" /\ queue[k][i] # r /\ queue[k][i] \in Request
        BY <1>0, <1>4, <4>1 DEF QueueInv
      <4>3. arrival[queue[k][i]] < clock
        BY <4>2 DEF ArrivalInv
      <4> QED BY <1>0, <1>1, <1>3, <3>1, <4>1, <4>2, <4>3 DEF TypeOK
    <3>2. CASE ~(l = k /\ j = Len(queue[k]) + 1)
      <4>1. /\ i \in 1..Len(queue[l]) /\ queue'[l][i] = queue[l][i]
            /\ j \in 1..Len(queue[l]) /\ queue'[l][j] = queue[l][j]
        BY <1>3, <2>2, <3>2
      <4> QED BY <1>0, <1>1, <1>4, <2>2, <4>1 DEF QueueInv, TypeOK
    <3> QED BY <3>1, <3>2
  <2>3. ASSUME NEW q \in Request, phase'[q] = "queued"
        PROVE  \E i \in 1..Len(queue'[KeyOf(q)]) : queue'[KeyOf(q)][i] = q
    <3>1. CASE q = r
      BY <1>3, <3>1
    <3>2. CASE q # r
      <4>1. PICK i \in 1..Len(queue[KeyOf(q)]) : queue[KeyOf(q)][i] = q
        BY <1>0, <1>1, <2>3, <3>2 DEF QueueInv, TypeOK
      <4>2. i \in 1..Len(queue'[KeyOf(q)]) /\ queue'[KeyOf(q)][i] = q
        BY <1>3, <4>1, KeyOfInKey
      <4> QED BY <4>2
    <3> QED BY <3>1, <3>2
  <2> QED BY <2>1, <2>2, <2>3 DEF QueueInv
<1>9. BatchInv'
  <2>1. \A d \in Request : batch[d] # {} => drainer'[d] = drainer[d]
    BY <1>0, <1>2, <1>5 DEF BatchInv, TypeOK
  <2>2. \A d \in Request : r \notin batch[d]
    BY <1>0 DEF BatchInv
  <2>3. /\ batch' = batch /\ phase'[r] = "queued"
        /\ \A q \in Request : q # r => phase'[q] = phase[q]
    BY <1>0, <1>1 DEF TypeOK
  <2>4. \A d \in Request : \A q \in batch[d] : q \in Request /\ q # r
    BY <1>0, <2>2 DEF TypeOK
  <2>5. \A d \in Request : \A q \in batch'[d] :
          KeyOf(q) = KeyOf(d) /\ Serialized(q) /\ phase'[q] \notin {"unsent", "queued"}
    BY <2>3, <2>4 DEF BatchInv
  <2>6. \A q \in Request : phase'[q] \in {"batched", "running"} /\ Serialized(q) =>
          \E d \in Request : drainer'[d] = "joining" /\ q \in batch'[d]
    BY <2>1, <2>3 DEF BatchInv
  <2> QED BY <2>1, <2>3, <2>5, <2>6 DEF BatchInv
<1>10. ArrivalInv'
  BY <1>0, <1>1 DEF ArrivalInv, TypeOK
<1>11. ConflictsInOrder'
  <2>1. SUFFICES ASSUME NEW q \in Request, NEW s \in Request,
                        Conflicts(q, s), phase'[q] # "unsent",
                        arrival'[q] < arrival'[s], phase'[s] \in {"running", "finished"}
                 PROVE  phase'[q] \in Ended
    BY DEF ConflictsInOrder
  <2>2. s # r /\ phase[s] = phase'[s] /\ arrival'[s] = arrival[s] /\ arrival[s] < clock
    BY <1>0, <1>1, <2>1 DEF ArrivalInv, TypeOK
  <2>3. q # r
    BY <1>0, <1>1, <2>1, <2>2 DEF TypeOK
  <2>4. phase'[q] = phase[q] /\ arrival'[q] = arrival[q]
    BY <1>0, <1>1, <2>3 DEF TypeOK
  <2> QED BY <2>1, <2>2, <2>4 DEF ConflictsInOrder
<1> QED BY <1>6, <1>7, <1>8, <1>9, <1>10, <1>11

LEMMA DispatchFreeStep ==
  ASSUME IInv, TypeOK', NEW r \in Request, DispatchFree(r)
  PROVE  IInv'
<1> USE DEF IInv
<1>1. /\ phase[r] = "unsent" /\ ~Serialized(r) /\ TypeOK /\ loopAt = "select"
      /\ phase' = [phase EXCEPT ![r] = "batched"]
      /\ arrival' = [arrival EXCEPT ![r] = clock] /\ clock' = clock + 1
      /\ UNCHANGED <<loopAt, loopOn, present, queue, drainer, batch>>
  BY DEF DispatchFree, Arrive, queueVars, drainVars, loopVars
<1>2. \A k \in Key : \A i \in 1..Len(queue[k]) : queue[k][i] \in Request
  BY <1>1, ElementOfSeq DEF TypeOK
<1>3. OneOwnerPerQueue' /\ SpawnInv'
  BY <1>1 DEF OneOwnerPerQueue, Owns, SpawnInv
<1>4. QueueInv'
  <2>1. \A k \in Key : \A i \in 1..Len(queue[k]) : queue[k][i] # r
    BY <1>1 DEF QueueInv
  <2>2. \A q \in Request : q # r => phase'[q] = phase[q] /\ arrival'[q] = arrival[q]
    BY <1>1 DEF TypeOK
  <2>3. phase'[r] # "queued"
    BY <1>1 DEF TypeOK
  <2> QED BY <1>1, <1>2, <2>1, <2>2, <2>3 DEF QueueInv
<1>5. BatchInv'
  BY <1>1 DEF BatchInv, TypeOK
<1>6. ArrivalInv'
  BY <1>1 DEF ArrivalInv, TypeOK
<1>7. ConflictsInOrder'
  BY <1>1, ConflictFacts DEF ConflictsInOrder, TypeOK
<1> QED BY <1>3, <1>4, <1>5, <1>6, <1>7

LEMMA SpawnDrainStep ==
  ASSUME IInv, TypeOK', NEW r \in Request, SpawnDrain(r)
  PROVE  IInv'
<1> USE DEF IInv
<1>1. /\ loopAt' = "select" /\ drainer[r] = "pending" /\ TypeOK
      /\ drainer' = [drainer EXCEPT ![r] = "popping"]
      /\ UNCHANGED <<present, queue, batch, phase, arrival, clock>>
  BY DEF SpawnDrain, SpawnInv, queueVars, histVars, LoopTo
<1>2. OneOwnerPerQueue'
  <2>1. \A d \in Request : Holds(d)' <=> Holds(d)
    BY <1>1 DEF Holds, TypeOK
  <2> QED BY <1>1, <2>1, OwnerForm DEF OneOwnerPerQueue, Owns, Holds
<1>3. QueueInv' /\ SpawnInv'
  BY <1>1 DEF QueueInv, SpawnInv
<1>4. BatchInv'
  <2>1. batch[r] = {}
    BY <1>1 DEF BatchInv
  <2>2. \A d \in Request : d # r => drainer'[d] = drainer[d]
    BY <1>1 DEF TypeOK
  <2> QED BY <1>1, <2>1, <2>2 DEF BatchInv
<1>5. ArrivalInv' /\ ConflictsInOrder'
  BY <1>1 DEF ArrivalInv, ConflictsInOrder, Ended
<1> QED BY <1>2, <1>3, <1>4, <1>5

LEMMA DrainPopStep ==
  ASSUME IInv, TypeOK', NEW d \in Request, DrainPop(d)
  PROVE  IInv'
<1> DEFINE k == KeyOf(d)
<1> USE DEF IInv
<1>0. k \in Key /\ queue[k] \in Seq(Request) /\ TypeOK /\ drainer[d] = "popping"
  BY KeyOfInKey DEF DrainPop, TypeOK
<1>1. PICK n \in 1..Len(queue[k]) :
        /\ PopsFront(queue[k], n)
        /\ batch' = [batch EXCEPT ![d] = {queue[k][i] : i \in 1..n}]
        /\ queue' = [queue EXCEPT ![k] = SubSeq(@, n + 1, Len(@))]
        /\ phase' = [r \in Request |->
                       IF \E i \in 1..n : queue[k][i] = r THEN "batched"
                                                          ELSE phase[r]]
  BY DEF DrainPop
<1>2. /\ drainer' = [drainer EXCEPT ![d] = "joining"]
      /\ UNCHANGED <<loopAt, loopOn, present, arrival, clock>>
  BY DEF DrainPop, loopVars, histVars
<1>3. Len(queue[k]) \in Nat /\ n \in 1..Len(queue[k]) /\ n \in Nat
  BY <1>0, <1>1, LenProperties
<1>4. /\ Len(queue'[k]) = Len(queue[k]) - n
      /\ \A i \in 1..Len(queue'[k]) : queue'[k][i] = queue[k][n + i]
      /\ \A l \in Key : l # k => queue'[l] = queue[l]
  BY <1>0, <1>1, <1>3, Suffix DEF TypeOK
<1>5. \A l \in Key : \A i \in 1..Len(queue[l]) : queue[l][i] \in Request
  BY <1>0, ElementOfSeq DEF TypeOK
<1>6. \A i, j \in 1..Len(queue[k]) : queue[k][i] = queue[k][j] => i = j
  <2> SUFFICES ASSUME NEW i \in 1..Len(queue[k]), NEW j \in 1..Len(queue[k]),
                      queue[k][i] = queue[k][j], i # j
               PROVE  FALSE
    OBVIOUS
  <2>1. arrival[queue[k][i]] \in Nat
    BY <1>0, <1>5 DEF TypeOK
  <2>2. i < j \/ j < i
    BY <1>3
  <2> QED BY <1>0, <2>1, <2>2 DEF QueueInv
<1>7. \A i \in 1..Len(queue[k]) :
        phase'[queue[k][i]] = IF i <= n THEN "batched" ELSE "queued"
  <2> TAKE i \in 1..Len(queue[k])
  <2>1. phase[queue[k][i]] = "queued" /\ queue[k][i] \in Request
    BY <1>0, <1>5 DEF QueueInv
  <2>2. CASE i <= n
    BY <1>1, <1>3, <2>1, <2>2
  <2>3. CASE ~(i <= n)
    BY <1>1, <1>3, <1>6, <2>1, <2>3
  <2> QED BY <2>2, <2>3
<1>8. \A l \in Key : l # k => \A i \in 1..Len(queue[l]) :
        phase'[queue[l][i]] = "queued"
  <2> SUFFICES ASSUME NEW l \in Key, l # k, NEW i \in 1..Len(queue[l])
               PROVE  phase'[queue[l][i]] = "queued"
    OBVIOUS
  <2>1. KeyOf(queue[l][i]) = l /\ phase[queue[l][i]] = "queued" /\ queue[l][i] \in Request
    BY <1>5 DEF QueueInv
  <2>2. \A j \in 1..n : KeyOf(queue[k][j]) = k
    BY <1>0, <1>3 DEF QueueInv
  <2> HIDE DEF k
  <2> QED BY <1>1, <2>1, <2>2
<1>9. OneOwnerPerQueue'
  <2>1. \A e \in Request : Holds(e)' <=> Holds(e)
    BY <1>0, <1>2 DEF Holds, TypeOK
  <2>2. \A l \in Key : queue'[l] # <<>> => l \in present
    <3>1. k \in present
      BY <1>0 DEF OneOwnerPerQueue, Owns
    <3> QED BY <1>4, <3>1 DEF OneOwnerPerQueue
  <2> QED BY <1>2, <2>1, <2>2, OwnerForm DEF OneOwnerPerQueue, Owns, Holds
<1>10. SpawnInv'
  BY <1>0, <1>2 DEF SpawnInv, TypeOK
<1>11. QueueInv'
  <2>1. \A i \in 1..Len(queue'[k]) : n + i \in 1..Len(queue[k]) /\ ~(n + i <= n)
    BY <1>3, <1>4
  <2>2. ASSUME NEW l \in Key, NEW i \in 1..Len(queue'[l])
        PROVE  /\ KeyOf(queue'[l][i]) = l /\ Serialized(queue'[l][i])
               /\ phase'[queue'[l][i]] = "queued"
    <3>1. CASE l = k
      BY <1>0, <1>4, <1>7, <2>1, <3>1 DEF QueueInv
    <3>2. CASE l # k
      BY <1>4, <1>8, <3>2 DEF QueueInv
    <3> QED BY <3>1, <3>2
  <2>3. ASSUME NEW l \in Key, NEW i \in 1..Len(queue'[l]),
               NEW j \in 1..Len(queue'[l]), i < j
        PROVE  arrival'[queue'[l][i]] < arrival'[queue'[l][j]]
    <3>1. CASE l = k
      <4>1. n + i < n + j
        BY <1>3, <1>4, <2>3, <3>1
      <4>2. /\ n + i \in 1..Len(queue[k]) /\ queue'[l][i] = queue[k][n + i]
            /\ n + j \in 1..Len(queue[k]) /\ queue'[l][j] = queue[k][n + j]
        BY <1>4, <2>1, <3>1
      <4>3. arrival[queue[k][n + i]] < arrival[queue[k][n + j]]
        BY <1>0, <4>1, <4>2 DEF QueueInv
      <4> QED BY <1>2, <4>2, <4>3
    <3>2. CASE l # k
      BY <1>2, <1>4, <2>3, <3>2 DEF QueueInv
    <3> QED BY <3>1, <3>2
  <2>4. ASSUME NEW q \in Request, phase'[q] = "queued"
        PROVE  \E i \in 1..Len(queue'[KeyOf(q)]) : queue'[KeyOf(q)][i] = q
    <3>1. phase[q] = "queued"
      BY <1>1, <2>4
    <3>2. PICK i \in 1..Len(queue[KeyOf(q)]) : queue[KeyOf(q)][i] = q
      BY <3>1 DEF QueueInv
    <3>3. CASE KeyOf(q) = k
      <4>1. ~(i <= n)
        BY <1>7, <2>4, <3>2, <3>3
      <4>2. i - n \in 1..Len(queue'[k]) /\ n + (i - n) = i
        BY <1>3, <1>4, <3>3, <4>1
      <4> QED BY <1>4, <3>2, <3>3, <4>2
    <3>4. CASE KeyOf(q) # k
      BY <1>4, <3>2, <3>4, KeyOfInKey
    <3> QED BY <3>3, <3>4
  <2> QED BY <2>2, <2>3, <2>4 DEF QueueInv
<1>12. batch[d] = {}
  BY <1>0 DEF BatchInv
<1>13. \A e \in Request : e # d => batch'[e] = batch[e] /\ drainer'[e] = drainer[e]
  BY <1>0, <1>1, <1>2 DEF TypeOK
<1>14. batch'[d] = {queue[k][i] : i \in 1..n} /\ drainer'[d] = "joining"
  BY <1>0, <1>1, <1>2 DEF TypeOK
<1>15. \A r \in Request : phase'[r] # phase[r] =>
         r \in batch'[d] /\ phase[r] = "queued" /\ phase'[r] = "batched"
  <2> SUFFICES ASSUME NEW r \in Request, phase'[r] # phase[r]
               PROVE  r \in batch'[d] /\ phase[r] = "queued" /\ phase'[r] = "batched"
    OBVIOUS
  <2>1. PICK i \in 1..n : queue[k][i] = r
    BY <1>1
  <2>2. i \in 1..Len(queue[k])
    BY <1>3
  <2>3. phase[r] = "queued"
    BY <1>0, <2>1, <2>2 DEF QueueInv
  <2>4. phase'[r] = "batched"
    BY <1>1, <2>1
  <2>5. r \in batch'[d]
    BY <1>14, <2>1
  <2> QED BY <2>3, <2>4, <2>5
<1>16. \A r \in batch'[d] :
         /\ KeyOf(r) = k /\ Serialized(r) /\ r \in Request
         /\ phase[r] = "queued" /\ phase'[r] = "batched"
  <2> TAKE r \in batch'[d]
  <2>1. PICK i \in 1..n : r = queue[k][i]
    BY <1>14
  <2>2. i \in 1..Len(queue[k]) /\ i <= n
    BY <1>3, <2>1
  <2> QED BY <1>0, <1>5, <1>7, <2>1, <2>2 DEF QueueInv
<1>17. BatchInv'
  <2>1. \A e \in Request : batch'[e] # {} => drainer'[e] \in {"joining", "panicked"}
    BY <1>13, <1>14 DEF BatchInv
  <2>2. ASSUME NEW e \in Request, NEW r \in batch'[e]
        PROVE  KeyOf(r) = KeyOf(e) /\ Serialized(r) /\ phase'[r] \notin {"unsent", "queued"}
    <3>1. CASE e = d
      BY <1>16, <3>1
    <3>2. CASE e # d
      <4>1. r \in batch[e] /\ r \in Request
        BY <1>0, <1>13, <3>2 DEF TypeOK
      <4> QED BY <1>15, <4>1 DEF BatchInv
    <3> QED BY <3>1, <3>2
  <2>3. ASSUME NEW e \in Request, NEW q \in batch'[e], NEW r \in batch'[e], q # r
        PROVE  SharedRead(q) /\ SharedRead(r)
    <3>1. CASE e = d
      <4>1. PICK i \in 1..n : q = queue[k][i]
        BY <1>14, <3>1
      <4>2. PICK j \in 1..n : r = queue[k][j]
        BY <1>14, <3>1
      <4>3. n > 1
        BY <1>3, <2>3, <4>1, <4>2
      <4> QED BY <1>1, <4>1, <4>2, <4>3 DEF PopsFront
    <3>2. CASE e # d
      BY <1>13, <2>3, <3>2 DEF BatchInv
    <3> QED BY <3>1, <3>2
  <2>4. ASSUME NEW r \in Request, phase'[r] \in {"batched", "running"}, Serialized(r)
        PROVE  \E e \in Request : drainer'[e] = "joining" /\ r \in batch'[e]
    <3>1. CASE phase'[r] = phase[r]
      <4>1. PICK e \in Request : drainer[e] = "joining" /\ r \in batch[e]
        BY <2>4, <3>1 DEF BatchInv
      <4> QED BY <1>0, <1>13, <4>1
    <3>2. CASE phase'[r] # phase[r]
      BY <1>14, <1>15, <3>2
    <3> QED BY <3>1, <3>2
  <2> QED BY <2>1, <2>2, <2>3, <2>4 DEF BatchInv
<1>18. ArrivalInv'
  <2>1. \A r \in Request : phase'[r] # "unsent" => arrival'[r] < clock'
    BY <1>2, <1>15 DEF ArrivalInv
  <2>2. ASSUME NEW q \in Request, NEW r \in Request, Serialized(q), Serialized(r),
               KeyOf(q) = KeyOf(r), phase'[q] = "queued",
               phase'[r] \notin {"unsent", "queued"}
        PROVE  arrival'[r] < arrival'[q]
    <3>1. phase[q] = "queued"
      BY <1>15, <2>2
    <3>2. CASE phase[r] = phase'[r]
      BY <1>2, <2>2, <3>1, <3>2 DEF ArrivalInv
    <3>3. CASE phase[r] # phase'[r]
      <4>1. r \in batch'[d] /\ KeyOf(q) = k
        BY <1>15, <1>16, <2>2, <3>3
      <4>2. PICK i \in 1..n : r = queue[k][i]
        BY <1>14, <4>1
      <4>3. PICK j \in 1..Len(queue[k]) : q = queue[k][j]
        BY <3>1, <4>1 DEF QueueInv
      <4>4. ~(j <= n)
        BY <1>7, <2>2, <4>3
      <4>5. i \in 1..Len(queue[k]) /\ i < j
        BY <1>3, <4>2, <4>3, <4>4
      <4> QED BY <1>0, <1>2, <4>2, <4>3, <4>5 DEF QueueInv
    <3> QED BY <3>2, <3>3
  <2> QED BY <2>1, <2>2 DEF ArrivalInv
<1>19. ConflictsInOrder'
  <2>1. \A r \in Request :
          /\ phase'[r] \in {"running", "finished"} => phase'[r] = phase[r]
          /\ phase[r] \in Ended => phase'[r] = phase[r]
          /\ phase'[r] # "unsent" => phase[r] # "unsent"
    BY <1>15 DEF Ended
  <2>2. SUFFICES ASSUME NEW q \in Request, NEW r \in Request,
                        Conflicts(q, r), phase'[q] # "unsent",
                        arrival'[q] < arrival'[r], phase'[r] \in {"running", "finished"}
                 PROVE  phase'[q] \in Ended
    BY DEF ConflictsInOrder
  <2>3. phase[q] \in Ended
    BY <1>2, <2>1, <2>2 DEF ConflictsInOrder
  <2> QED BY <2>1, <2>3
<1> QED BY <1>9, <1>10, <1>11, <1>17, <1>18, <1>19

LEMMA DrainExitStep ==
  ASSUME IInv, TypeOK', NEW d \in Request, DrainExit(d)
  PROVE  IInv'
<1> DEFINE k == KeyOf(d)
<1> USE DEF IInv
<1>1. /\ TypeOK /\ k \in Key /\ drainer[d] = "popping" /\ queue[k] = <<>>
      /\ present' = present \ {k}
      /\ drainer' = [drainer EXCEPT ![d] = "exited"]
      /\ UNCHANGED <<loopAt, loopOn, queue, batch, phase, arrival, clock>>
  BY KeyOfInKey DEF DrainExit, loopVars, histVars
<1>2. OneOwnerPerQueue'
  <2>1. \A e \in Request : Holds(e)' <=> Holds(e) /\ e # d
    BY <1>1 DEF Holds, TypeOK
  <2>2. \A e \in Request : Holds(e) /\ KeyOf(e) = k => e = d
    BY <1>1 DEF OneOwnerPerQueue, Owns, Holds
  <2>3. \A l \in Key : l \in present <=> \E e \in Request : KeyOf(e) = l /\ Holds(e)
    BY DEF OneOwnerPerQueue, Owns, Holds
  <2>4. \A e, f \in Request : Holds(e) /\ Holds(f) /\ KeyOf(e) = KeyOf(f) => e = f
    BY DEF OneOwnerPerQueue, Owns, Holds
  <2>5. \A l \in Key : l \in present' <=> \E e \in Request : KeyOf(e) = l /\ Holds(e)'
    BY <1>1, <2>1, <2>2, <2>3
  <2>6. \A l \in Key : queue'[l] # <<>> => l \in present'
    BY <1>1 DEF OneOwnerPerQueue
  <2> QED BY <2>1, <2>4, <2>5, <2>6, OwnerForm
<1>3. SpawnInv'
  BY <1>1 DEF SpawnInv, TypeOK
<1>4. BatchInv'
  <2>1. batch[d] = {}
    BY <1>1 DEF BatchInv
  <2>2. \A e \in Request : e # d => drainer'[e] = drainer[e]
    BY <1>1 DEF TypeOK
  <2> QED BY <1>1, <2>1, <2>2 DEF BatchInv
<1>5. QueueInv' /\ ArrivalInv' /\ ConflictsInOrder'
  BY <1>1 DEF QueueInv, ArrivalInv, ConflictsInOrder, Ended
<1> QED BY <1>2, <1>3, <1>4, <1>5

LEMMA DrainJoinedStep ==
  ASSUME IInv, TypeOK', NEW d \in Request, DrainJoined(d)
  PROVE  IInv'
<1> USE DEF IInv
<1>1. /\ TypeOK /\ drainer[d] = "joining"
      /\ \A r \in batch[d] : phase[r] \in Ended
      /\ batch' = [batch EXCEPT ![d] = {}]
      /\ drainer' = [drainer EXCEPT ![d] = "popping"]
      /\ UNCHANGED <<loopAt, loopOn, present, queue, phase, arrival, clock>>
  BY DEF DrainJoined, loopVars, queueVars, histVars
<1>2. OneOwnerPerQueue'
  <2>1. \A e \in Request : Holds(e)' <=> Holds(e)
    BY <1>1 DEF Holds, TypeOK
  <2> QED BY <1>1, <2>1, OwnerForm DEF OneOwnerPerQueue, Owns, Holds
<1>3. SpawnInv'
  BY <1>1 DEF SpawnInv, TypeOK
<1>4. BatchInv'
  <2>1. /\ batch'[d] = {}
        /\ \A e \in Request : e # d => drainer'[e] = drainer[e] /\ batch'[e] = batch[e]
    BY <1>1 DEF TypeOK
  <2>2. \A r \in Request : phase[r] \in {"batched", "running"} => r \notin batch[d]
    BY <1>1 DEF Ended
  <2> QED BY <1>1, <2>1, <2>2 DEF BatchInv
<1>5. QueueInv' /\ ArrivalInv' /\ ConflictsInOrder'
  BY <1>1 DEF QueueInv, ArrivalInv, ConflictsInOrder, Ended
<1> QED BY <1>2, <1>3, <1>4, <1>5

\* Whatever conflicts with a request in a batch and arrived earlier is over.
LEMMA BatchedIsNext ==
  ASSUME IInv, NEW q \in Request, NEW r \in Request, Conflicts(q, r),
         phase[r] \in {"batched", "running"}, phase[q] # "unsent",
         arrival[q] < arrival[r]
  PROVE  phase[q] \in Ended
<1> USE DEF IInv
<1>1. /\ q # r /\ Serialized(q) /\ Serialized(r) /\ KeyOf(q) = KeyOf(r)
      /\ ~(SharedRead(q) /\ SharedRead(r))
  BY ConflictFacts
<1>2. phase[q] # "queued"
  <2>1. arrival[q] \in Nat /\ arrival[r] \in Nat
    BY DEF TypeOK
  <2> QED BY <1>1, <2>1 DEF ArrivalInv
<1>3. phase[q] \notin {"batched", "running"}
  <2> SUFFICES ASSUME phase[q] \in {"batched", "running"} PROVE FALSE
    OBVIOUS
  <2>1. PICK d \in Request : drainer[d] = "joining" /\ q \in batch[d]
    BY <1>1 DEF BatchInv
  <2>2. PICK e \in Request : drainer[e] = "joining" /\ r \in batch[e]
    BY <1>1 DEF BatchInv
  <2>3. KeyOf(d) = KeyOf(e)
    BY <1>1, <2>1, <2>2 DEF BatchInv
  <2>4. d = e
    BY <2>1, <2>2, <2>3 DEF OneOwnerPerQueue, Owns
  <2> QED BY <1>1, <2>1, <2>2, <2>4 DEF BatchInv
<1> QED BY <1>2, <1>3 DEF TypeOK, Phase

\* Steps that only move requests on from their batch.
LEMMA PhaseStep ==
  ASSUME IInv, TypeOK', UNCHANGED <<loopVars, queueVars, batch, histVars>>,
         \A d \in Request : drainer'[d] # drainer[d] =>
           drainer[d] = "joining" /\ drainer'[d] = "panicked",
         \A q \in Request : phase'[q] # phase[q] =>
           phase[q] \in {"batched", "running"} /\ phase'[q] \in {"running"} \union Ended,
         \A q, d \in Request :
           /\ phase'[q] \in {"batched", "running"}
           /\ drainer[d] = "joining" /\ q \in batch[d]
           => drainer'[d] = "joining"
  PROVE  IInv'
<1> USE DEF IInv, Ended
<1>1. UNCHANGED <<loopAt, loopOn, present, queue, batch, arrival, clock>> /\ TypeOK
  BY DEF loopVars, queueVars, histVars
<1>2. OneOwnerPerQueue'
  <2>1. \A e \in Request : Holds(e)' <=> Holds(e)
    BY DEF Holds
  <2> QED BY <1>1, <2>1, OwnerForm DEF OneOwnerPerQueue, Owns, Holds
<1>3. SpawnInv'
  BY <1>1 DEF SpawnInv, TypeOK
<1>4. QueueInv'
  <2>1. \A k \in Key : \A i \in 1..Len(queue[k]) :
          queue[k][i] \in Request /\ phase[queue[k][i]] = "queued"
    BY <1>1, ElementOfSeq DEF TypeOK, QueueInv
  <2>2. \A q \in Request : phase'[q] = "queued" <=> phase[q] = "queued"
    BY <1>1
  <2> QED BY <1>1, <2>1, <2>2 DEF QueueInv
<1>5. BatchInv'
  <2>1. \A d \in Request : \A q \in batch[d] : q \in Request
    BY <1>1 DEF TypeOK
  <2>2. \A q \in Request : phase'[q] \in {"batched", "running"} =>
          phase[q] \in {"batched", "running"}
    BY <1>1
  <2>3. \A d \in Request : batch'[d] # {} => drainer'[d] \in {"joining", "panicked"}
    BY <1>1 DEF BatchInv
  <2>4. \A d \in Request : \A r \in batch'[d] :
          KeyOf(r) = KeyOf(d) /\ Serialized(r) /\ phase'[r] \notin {"unsent", "queued"}
    BY <1>1, <2>1 DEF BatchInv
  <2>5. \A r \in Request : phase'[r] \in {"batched", "running"} /\ Serialized(r) =>
          \E d \in Request : drainer'[d] = "joining" /\ r \in batch'[d]
    BY <1>1, <2>2 DEF BatchInv
  <2> QED BY <1>1, <2>3, <2>4, <2>5 DEF BatchInv
<1>6. ArrivalInv'
  <2>1. \A q \in Request : /\ phase'[q] \in {"unsent", "queued"} => phase'[q] = phase[q]
                           /\ phase[q] \in {"unsent", "queued"} => phase'[q] = phase[q]
    OBVIOUS
  <2>2. \A q \in Request : phase'[q] = "unsent" <=> phase[q] = "unsent"
    BY <2>1
  <2>3. \A q \in Request : phase'[q] = "queued" <=> phase[q] = "queued"
    BY <2>1
  <2> QED BY <1>1, <2>2, <2>3 DEF ArrivalInv
<1>7. ConflictsInOrder'
  <2>1. SUFFICES ASSUME NEW q \in Request, NEW r \in Request,
                        Conflicts(q, r), phase'[q] # "unsent",
                        arrival'[q] < arrival'[r], phase'[r] \in {"running", "finished"}
                 PROVE  phase'[q] \in Ended
    BY DEF ConflictsInOrder
  <2>2. phase[q] # "unsent" /\ arrival[q] < arrival[r]
    BY <1>1, <2>1
  <2>3. phase[r] \in {"batched", "running", "finished"}
    BY <2>1
  <2>4. phase[q] \in Ended
    <3>1. CASE phase[r] \in {"batched", "running"}
      BY <2>1, <2>2, <3>1, BatchedIsNext
    <3>2. CASE phase[r] = "finished"
      BY <2>1, <2>2, <3>2 DEF ConflictsInOrder
    <3> QED BY <2>3, <3>1, <3>2
  <2> QED BY <2>4
<1> QED BY <1>2, <1>3, <1>4, <1>5, <1>6, <1>7

LEMMA HandlerPanicStep ==
  ASSUME IInv, TypeOK', NEW r \in Request, HandlerPanic(r)
  PROVE  IInv'
<1> USE DEF IInv
<1>1. /\ TypeOK /\ phase[r] = "running"
      /\ phase' = [q \in Request |-> IF q \in Unwound(r) THEN "dropped" ELSE phase[q]]
      /\ drainer' = [d \in Request |->
                       IF drainer[d] = "joining" /\ r \in batch[d] THEN "panicked"
                                                                   ELSE drainer[d]]
      /\ UNCHANGED <<loopVars, queueVars, batch, histVars>>
  BY DEF HandlerPanic
<1>2. \A q \in Unwound(r) : q \in Request /\ phase[q] \in {"batched", "running"}
  BY <1>1 DEF Unwound, BatchInv, TypeOK, Phase
<1>3. \A q, d \in Request :
        drainer[d] = "joining" /\ r \in batch[d] /\ q \in batch[d]
          => q \in Unwound(r) \/ phase[q] \in Ended
  BY DEF Unwound
<1>4. \A d \in Request : drainer'[d] # drainer[d] =>
        drainer[d] = "joining" /\ drainer'[d] = "panicked"
  BY <1>1
<1>5. \A q \in Request : phase'[q] # phase[q] =>
        phase[q] \in {"batched", "running"} /\ phase'[q] \in {"running"} \union Ended
  BY <1>1, <1>2 DEF Ended
<1>6. \A q, d \in Request :
        /\ phase'[q] \in {"batched", "running"}
        /\ drainer[d] = "joining" /\ q \in batch[d]
        => drainer'[d] = "joining"
  BY <1>1, <1>3 DEF Ended
<1> QED BY <1>1, <1>4, <1>5, <1>6, PhaseStep

LEMMA NextIInv == IInv /\ [Next]_vars => IInv'
<1> SUFFICES ASSUME IInv, [Next]_vars PROVE IInv'
  OBVIOUS
<1>0. TypeOK'
  BY NextTypeOK DEF IInv
<1> USE <1>0
<1>1. ASSUME NEW r \in Request, DispatchFree(r) PROVE IInv'
  BY <1>1, DispatchFreeStep
<1>2. ASSUME NEW r \in Request, Enqueue(r) PROVE IInv'
  BY <1>2, EnqueueStep
<1>3. ASSUME NEW r \in Request, SpawnDrain(r) PROVE IInv'
  BY <1>3, SpawnDrainStep
<1>4. ASSUME NEW c \in Connection, CloseBegin(c) PROVE IInv'
  BY <1>4, LoopOnlyStep DEF CloseBegin, LoopTo
<1>5. ASSUME NEW c \in Connection, GateClose(c) PROVE IInv'
  BY <1>5, LoopOnlyStep DEF GateClose, loopVars
<1>6. ASSUME NEW c \in Connection, CloseEnd(c) PROVE IInv'
  BY <1>6, LoopOnlyStep DEF CloseEnd, LoopTo
<1>7. CASE LoopBreak
  BY <1>7, LoopOnlyStep DEF LoopBreak, LoopTo
<1>8. CASE LoopExit
  BY <1>8, LoopOnlyStep DEF LoopExit, LoopTo
<1>9. ASSUME NEW d \in Request, DrainPop(d) PROVE IInv'
  BY <1>9, DrainPopStep
<1>10. ASSUME NEW d \in Request, DrainExit(d) PROVE IInv'
  BY <1>10, DrainExitStep
<1>11. ASSUME NEW d \in Request, DrainJoined(d) PROVE IInv'
  BY <1>11, DrainJoinedStep
<1>12. ASSUME NEW r \in Request, GateEnter(r) PROVE IInv'
  BY <1>12, PhaseStep DEF GateEnter, drainVars, IInv, TypeOK, Ended
<1>13. ASSUME NEW r \in Request, HandlerFinish(r) PROVE IInv'
  BY <1>13, PhaseStep DEF HandlerFinish, drainVars, IInv, TypeOK, Ended
<1>14. ASSUME NEW r \in Request, HandlerPanic(r) PROVE IInv'
  BY <1>14, HandlerPanicStep
<1>15. CASE UNCHANGED vars
  BY <1>15, LoopOnlyStep DEF vars, loopVars
<1> QED
  BY <1>1, <1>2, <1>3, <1>4, <1>5, <1>6, <1>7, <1>8, <1>9, <1>10, <1>11,
     <1>12, <1>13, <1>14, <1>15 DEF Next, LoopNext, DrainNext, HandlerNext

LEMMA SpecIInv == Spec => []IInv
  BY InitIInv, NextIInv, PTL DEF Spec

\* Conflicting requests of one key never overlap and start in arrival order,
\* for any number of clients and requests (drain's batches).
THEOREM OrderCorrect == Spec => []ConflictsInOrder
<1>1. IInv => ConflictsInOrder
  BY DEF IInv
<1> QED BY <1>1, SpecIInv, PTL

\* Every queue in the map has exactly one task that will serve it, and no
\* request waits in a queue that has none (should_spawn against remove).
THEOREM OwnershipCorrect == Spec => []OneOwnerPerQueue
<1>1. IInv => OneOwnerPerQueue
  BY DEF IInv
<1> QED BY <1>1, SpecIInv, PTL

-----------------------------------------------------------------------------
(* No handler outlives its connection. *)

\* Torn-down connections have a closed, drained gate.
DrainInv ==
  /\ \A c \in cleaned : GateDrained(c)
  /\ loopAt = "exited" => \A c \in connections : GateDrained(c)

LEMMA InitDrainInv == Init => DrainInv
  BY DEF Init, DrainInv

\* A closed gate stays closed and lets nobody in.
LEMMA ClosedStays ==
  ASSUME TypeOK, [Next]_vars, NEW c \in Connection, ~accepting[c]
  PROVE  ~accepting'[c] /\ InFlight(c)' \subseteq InFlight(c)
<1> USE DEF InFlight, TypeOK
<1>1. accepting'[c] = accepting[c] \/ accepting'[c] = FALSE
  BY DEF Next, LoopNext, DrainNext, HandlerNext, vars, gateVars, DispatchFree,
         Enqueue, SpawnDrain, CloseBegin, GateClose, CloseEnd, LoopBreak, LoopExit,
         DrainPop, DrainExit, DrainJoined, GateEnter, HandlerFinish, HandlerPanic
<1> DEFINE RunsPast == \A r \in Request : phase'[r] = "running" =>
                         phase[r] = "running" \/ accepting[ConnOf[r]]
<1>2. RunsPast
  <2>1. ASSUME NEW r \in Request, DispatchFree(r) PROVE RunsPast
    BY <2>1 DEF DispatchFree
  <2>2. ASSUME NEW r \in Request, Enqueue(r) PROVE RunsPast
    BY <2>2 DEF Enqueue
  <2>3. ASSUME NEW d \in Request, DrainPop(d) PROVE RunsPast
    BY <2>3 DEF DrainPop
  <2>4. ASSUME NEW r \in Request, GateEnter(r) PROVE RunsPast
    BY <2>4 DEF GateEnter
  <2>5. ASSUME NEW r \in Request, HandlerFinish(r) PROVE RunsPast
    BY <2>5 DEF HandlerFinish
  <2>6. ASSUME NEW r \in Request, HandlerPanic(r) PROVE RunsPast
    BY <2>6 DEF HandlerPanic
  <2>7. CASE UNCHANGED phase
    BY <2>7
  <2> QED BY <2>1, <2>2, <2>3, <2>4, <2>5, <2>6, <2>7
          DEF Next, LoopNext, DrainNext, HandlerNext, vars, SpawnDrain, CloseBegin,
              GateClose, CloseEnd, LoopBreak, LoopExit, DrainExit, DrainJoined
<1> QED BY <1>1, <1>2

\* A drained gate stays drained: nothing reopens it or passes it.
LEMMA DrainedStays ==
  ASSUME TypeOK, [Next]_vars, NEW c \in Connection, GateDrained(c)
  PROVE  GateDrained(c)'
  BY ClosedStays DEF GateDrained, InFlight

LEMMA NextDrainInv == TypeOK /\ DrainInv /\ [Next]_vars => DrainInv'
<1> SUFFICES ASSUME TypeOK, DrainInv, [Next]_vars PROVE DrainInv'
  OBVIOUS
<1>1. \A c \in cleaned' : c \in cleaned \/ (c \in Connection /\ GateDrained(c))
  <2>1. ASSUME NEW c \in Connection, CloseEnd(c)
               PROVE  \A d \in cleaned' : d \in cleaned \/ (d \in Connection /\ GateDrained(d))
    BY <2>1 DEF CloseEnd
  <2>2. CASE cleaned' = cleaned
    BY <2>2
  <2> QED BY <2>1, <2>2 DEF Next, LoopNext, DrainNext, HandlerNext, vars, gateVars,
         DispatchFree, Enqueue, SpawnDrain, CloseBegin, GateClose, LoopBreak, LoopExit,
         DrainPop, DrainExit, DrainJoined, GateEnter, HandlerFinish, HandlerPanic
<1>2. loopAt' = "exited" =>
        connections' = connections /\ \A c \in connections : GateDrained(c)
  <2>1. CASE LoopExit
    BY <2>1 DEF LoopExit, gateVars
  <2>2. CASE ~LoopExit
    BY <2>2 DEF DrainInv, TypeOK, Next, LoopNext, DrainNext, HandlerNext, vars,
         gateVars, loopVars, LoopTo, DispatchFree, Enqueue, SpawnDrain, CloseBegin,
         GateClose, CloseEnd, LoopBreak, DrainPop, DrainExit, DrainJoined, GateEnter,
         HandlerFinish, HandlerPanic
  <2> QED BY <2>1, <2>2
<1>3. \A c \in Connection : GateDrained(c) => GateDrained(c)'
  BY DrainedStays
<1>4. cleaned \subseteq Connection /\ connections \subseteq Connection
  BY DEF TypeOK
<1> QED BY <1>1, <1>2, <1>3, <1>4 DEF DrainInv

\* When connection_closed or the loop goes on past the gate, no handler of
\* the connection runs any more, whatever was queued.
THEOREM TeardownCorrect == Spec => []TornDownQuiescent
<1>1. TypeOK /\ DrainInv => TornDownQuiescent
  BY ConstantsAssumption DEF DrainInv, GateDrained, InFlight, TornDownQuiescent
<1>2. Spec => []DrainInv
  BY InitDrainInv, NextDrainInv, TypeCorrect, PTL DEF Spec
<1> QED BY <1>1, <1>2, TypeCorrect, PTL

-----------------------------------------------------------------------------
(* The safety half of CloseCompletes: a close waits for ever fewer handlers, *)
(* and for none that nobody runs.                                            *)

OnlyFewer ==
  \A c \in Connection :
    ~accepting[c] => ~accepting'[c] /\ InFlight(c)' \subseteq InFlight(c)

WaitedIsPolled ==
  \A c \in Connection : \A r \in InFlight(c) :
    Serialized(r) => \E d \in Request : drainer[d] = "joining" /\ r \in batch[d]

(* Once a connection's gate is closed it stays closed, and the handlers that *)
(* rpc_gate.shutdown() waits for only become fewer: no batch popped from a   *)
(* queue later on, whoever it belongs to, can hold the processor loop up.    *)
THEOREM CloseShrinks == Spec => [][OnlyFewer]_vars
<1>1. TypeOK /\ [Next]_vars => [OnlyFewer]_vars
  BY ClosedStays DEF OnlyFewer
<1> QED BY <1>1, TypeCorrect, PTL DEF Spec

(* A serialized handler that a close waits for is in the batch of a drain    *)
(* task that is joining it: neither a panic nor the end of a drain task      *)
(* leaves one behind that holds a token of the gate and is polled by nobody. *)
THEOREM RunningIsPolled == Spec => []WaitedIsPolled
<1>1. IInv => WaitedIsPolled
  BY DEF IInv, BatchInv, InFlight, WaitedIsPolled
<1> QED BY <1>1, SpecIInv, PTL

-----------------------------------------------------------------------------
(* A request is skipped only for its own connection's sake. *)

\* A connection that the loop takes for lost stays so, as does a loop that
\* leaves: connections only leave the map, and "shutdown" ends in "exited".
Lost(c) == c \notin connections \/ loopAt \in {"shutdown", "exited"}

\* A gate is closed only for a lost connection.
GateInv == \A c \in Connection : ~accepting[c] => Lost(c)

LEMMA LostStays ==
  ASSUME [Next]_vars, NEW c \in Connection, Lost(c)
  PROVE  Lost(c)'
<1>1. connections' \subseteq connections
  BY DEF Next, LoopNext, DrainNext, HandlerNext, vars, gateVars, DispatchFree,
         Enqueue, SpawnDrain, CloseBegin, GateClose, CloseEnd, LoopBreak, LoopExit,
         DrainPop, DrainExit, DrainJoined, GateEnter, HandlerFinish, HandlerPanic
<1>2. loopAt \in {"shutdown", "exited"} => loopAt' \in {"shutdown", "exited"}
  BY DEF Next, LoopNext, DrainNext, HandlerNext, vars, loopVars, LoopTo, DispatchFree,
         Enqueue, SpawnDrain, CloseBegin, GateClose, CloseEnd, LoopBreak, LoopExit,
         DrainPop, DrainExit, DrainJoined, GateEnter, HandlerFinish, HandlerPanic
<1> QED BY <1>1, <1>2 DEF Lost

\* The loop closes the gate of a connection it is closing, which is out of the
\* map by then, or of all that are left when it shuts down.
ClosingInv == loopAt = "closing" => loopOn \notin connections

LEMMA NextClosing == ClosingInv /\ [Next]_vars => ClosingInv'
  BY DEF ClosingInv, Next, LoopNext, DrainNext, HandlerNext, vars, gateVars, loopVars,
         LoopTo, DispatchFree, Enqueue, SpawnDrain, CloseBegin, GateClose, CloseEnd,
         LoopBreak, LoopExit, DrainPop, DrainExit, DrainJoined, GateEnter,
         HandlerFinish, HandlerPanic

LEMMA NextGate ==
  ASSUME TypeOK, ClosingInv, GateInv, [Next]_vars
  PROVE  GateInv'
<1> SUFFICES ASSUME NEW c \in Connection, ~accepting'[c] PROVE Lost(c)'
  BY DEF GateInv
<1>1. ASSUME NEW d \in Connection, GateClose(d) PROVE Lost(c)
  <2>1. accepting' = [accepting EXCEPT ![d] = FALSE] /\ Lost(d)
    BY <1>1, Zenon DEF GateClose, ClosingInv, Lost
  <2>2. c = d \/ ~accepting[c]
    BY <2>1, Zenon DEF TypeOK
  <2> QED BY <2>1, <2>2 DEF GateInv
<1>2. ASSUME UNCHANGED accepting PROVE Lost(c)
  BY <1>2 DEF GateInv
<1>3. \/ \E d \in Connection : GateClose(d)
      \/ UNCHANGED accepting
  BY DEF Next, LoopNext, DrainNext, HandlerNext, vars, gateVars,
         DispatchFree, Enqueue, SpawnDrain, CloseBegin, CloseEnd, LoopBreak, LoopExit,
         DrainPop, DrainExit, DrainJoined, GateEnter, HandlerFinish, HandlerPanic
<1> QED BY <1>1, <1>2, <1>3, LostStays

\* Only a closed gate skips a request.
LEMMA NewlySkipped ==
  ASSUME TypeOK, [Next]_vars, NEW r \in Request, phase'[r] = "skipped"
  PROVE  phase[r] = "skipped" \/ ~accepting[ConnOf[r]]
<1> USE DEF TypeOK
<1>1. ASSUME NEW q \in Request, DispatchFree(q) \/ Enqueue(q) PROVE phase[r] = "skipped"
  BY <1>1 DEF DispatchFree, Enqueue
<1>2. ASSUME NEW d \in Request, DrainPop(d) PROVE phase[r] = "skipped"
  BY <1>2 DEF DrainPop
<1>3. ASSUME NEW q \in Request, GateEnter(q)
      PROVE  phase[r] = "skipped" \/ ~accepting[ConnOf[r]]
  BY <1>3 DEF GateEnter
<1>4. ASSUME NEW q \in Request, HandlerFinish(q) \/ HandlerPanic(q)
      PROVE  phase[r] = "skipped"
  BY <1>4 DEF HandlerFinish, HandlerPanic
<1>5. CASE UNCHANGED phase
  BY <1>5
<1> QED BY <1>1, <1>2, <1>3, <1>4, <1>5
        DEF Next, LoopNext, DrainNext, HandlerNext, vars, SpawnDrain, CloseBegin,
            GateClose, CloseEnd, LoopBreak, LoopExit, DrainExit, DrainJoined

SkipInv == ClosingInv /\ GateInv /\ SkippedOnlyWhenClosed

LEMMA InitSkipInv == Init => SkipInv
  BY DEF Init, SkipInv, ClosingInv, GateInv, SkippedOnlyWhenClosed

LEMMA NextSkipInv == TypeOK /\ SkipInv /\ [Next]_vars => SkipInv'
<1> SUFFICES ASSUME TypeOK, SkipInv, [Next]_vars PROVE SkipInv'
  OBVIOUS
<1>1. ClosingInv' /\ GateInv'
  BY NextClosing, NextGate DEF SkipInv
<1>2. SkippedOnlyWhenClosed'
  <2> SUFFICES ASSUME NEW r \in Request, phase'[r] = "skipped" PROVE Lost(ConnOf[r])'
    BY DEF SkippedOnlyWhenClosed, Lost
  <2>1. ConnOf[r] \in Connection
    BY ConstantsAssumption
  <2>2. Lost(ConnOf[r])
    BY <2>1, NewlySkipped DEF SkipInv, GateInv, SkippedOnlyWhenClosed, Lost
  <2> QED BY <2>1, <2>2, LostStays
<1> QED BY <1>1, <1>2 DEF SkipInv

\* While a connection is in the map and the server is up, none of its requests
\* is lost to the close of another connection.
THEOREM SkippedCorrect == Spec => []SkippedOnlyWhenClosed
<1>1. SkipInv => SkippedOnlyWhenClosed
  BY DEF SkipInv
<1> QED BY <1>1, InitSkipInv, NextSkipInv, TypeCorrect, PTL DEF Spec

-----------------------------------------------------------------------------
(* The refinement. *)

LEMMA RefineInit == Init => Access!Init
  BY DEF Init, Access!Init, AccessStatus

LEMMA RefineArrive ==
  ASSUME IInv, TypeOK', NEW r \in Request, Arrive(r), phase[r] = "unsent",
         phase' = [phase EXCEPT ![r] = "queued"]
         \/ phase' = [phase EXCEPT ![r] = "batched"]
  PROVE  Access!Arrive(r)
<1>1. TypeOK /\ ArrivalInv
  BY DEF IInv
<1>2. AccessStatus' = [AccessStatus EXCEPT ![r] = "waiting"] /\ AccessStatus[r] = "new"
  <2>1. \A q \in Request : q # r => phase'[q] = phase[q]
    BY <1>1 DEF TypeOK
  <2>2. phase'[r] \in {"queued", "batched"}
    BY <1>1 DEF TypeOK
  <2> QED BY <2>1, <2>2 DEF AccessStatus
<1>3. \A q \in Request : AccessStatus[q] # "new" => arrival[q] < arrival'[r]
  BY <1>1 DEF AccessStatus, ArrivalInv, Arrive, TypeOK
<1>4. arrival' = [arrival EXCEPT ![r] = arrival'[r]]
  BY <1>1 DEF Arrive, TypeOK
<1> QED BY <1>2, <1>3, <1>4 DEF Access!Arrive

LEMMA RefineStutter ==
  ASSUME UNCHANGED <<phase, arrival>>
  PROVE  UNCHANGED Access!vars
  BY DEF Access!vars, AccessStatus

LEMMA RefineLeave ==
  ASSUME IInv, NEW S \in SUBSET Request, UNCHANGED arrival,
         \A r \in S : phase[r] \in {"batched", "running"} /\ phase'[r] \in Ended,
         \A r \in Request : r \notin S => phase'[r] = phase[r]
  PROVE  Access!Leave(S)
<1>1. \A r \in S : AccessStatus[r] \in {"waiting", "running"}
  BY DEF AccessStatus
<1>2. AccessStatus' = [r \in Request |-> IF r \in S THEN "left" ELSE AccessStatus[r]]
  <2>1. \A r \in S : AccessStatus'[r] = "left"
    BY DEF AccessStatus, Ended
  <2>2. \A r \in Request : r \notin S => AccessStatus'[r] = AccessStatus[r]
    BY DEF AccessStatus
  <2>3. AccessStatus' = [r \in Request |-> AccessStatus'[r]]
    BY DEF AccessStatus
  <2> QED BY <2>1, <2>2, <2>3
<1> QED BY <1>1, <1>2 DEF Access!Leave

LEMMA RefineNext == IInv /\ [Next]_vars => [Access!Next]_Access!vars
<1> SUFFICES ASSUME IInv, [Next]_vars PROVE [Access!Next]_Access!vars
  OBVIOUS
<1>0. TypeOK /\ TypeOK'
  BY NextTypeOK DEF IInv
<1>1. ASSUME NEW r \in Request, DispatchFree(r) PROVE Access!Next
  BY <1>0, <1>1, RefineArrive DEF DispatchFree, Access!Next
<1>2. ASSUME NEW r \in Request, Enqueue(r) PROVE Access!Next
  BY <1>0, <1>2, RefineArrive DEF Enqueue, Access!Next
<1>3. ASSUME NEW d \in Request, DrainPop(d) PROVE UNCHANGED Access!vars
  <2>1. PICK n \in 1..Len(queue[KeyOf(d)]) :
          phase' = [r \in Request |->
                      IF \E i \in 1..n : queue[KeyOf(d)][i] = r THEN "batched"
                                                                ELSE phase[r]]
    BY <1>3 DEF DrainPop
  <2>2. queue[KeyOf(d)] \in Seq(Request) /\ KeyOf(d) \in Key
    BY <1>0, KeyOfInKey DEF TypeOK
  <2>3. \A i \in 1..n : phase[queue[KeyOf(d)][i]] = "queued"
    BY <2>2, LenProperties DEF IInv, QueueInv
  <2>4. AccessStatus' = AccessStatus
    BY <2>1, <2>3 DEF AccessStatus
  <2> QED BY <1>3, <2>4 DEF DrainPop, histVars, Access!vars
<1>4. ASSUME NEW r \in Request, GateEnter(r) PROVE Access!Next
  <2>1. arrival' = arrival /\ phase[r] = "batched"
    BY <1>4 DEF GateEnter, histVars
  <2>2. CASE accepting[ConnOf[r]]
    <3>1. phase' = [phase EXCEPT ![r] = "running"]
      BY <1>4, <2>2 DEF GateEnter
    <3>2. /\ AccessStatus[r] = "waiting"
          /\ AccessStatus' = [AccessStatus EXCEPT ![r] = "running"]
      BY <1>0, <2>1, <3>1 DEF AccessStatus, TypeOK
    <3>3. \A q \in Request :
            Conflicts(q, r) /\ AccessStatus[q] # "new" /\ arrival[q] < arrival[r]
              => AccessStatus[q] = "left"
      BY <2>1, BatchedIsNext DEF AccessStatus, Ended
    <3> QED BY <2>1, <3>2, <3>3 DEF Access!Start, Access!Next
  <2>3. CASE ~accepting[ConnOf[r]]
    <3>1. phase' = [phase EXCEPT ![r] = "skipped"]
      BY <1>4, <2>3 DEF GateEnter
    <3>2. Access!Leave({r})
      BY <1>0, <2>1, <3>1, RefineLeave DEF TypeOK, Ended
    <3> QED BY <3>2 DEF Access!Next
  <2> QED BY <2>2, <2>3
<1>5. ASSUME NEW r \in Request, HandlerFinish(r) PROVE Access!Next
  <2>1. Access!Leave({r})
    BY <1>0, <1>5, RefineLeave DEF HandlerFinish, histVars, TypeOK, Ended
  <2> QED BY <2>1 DEF Access!Next
<1>6. ASSUME NEW r \in Request, HandlerPanic(r) PROVE Access!Next
  <2>1. \A q \in Unwound(r) : q \in Request /\ phase[q] \in {"batched", "running"}
    BY <1>0, <1>6 DEF HandlerPanic, Unwound, IInv, BatchInv, TypeOK, Phase
  <2>2. Access!Leave(Unwound(r))
    BY <1>6, <2>1, RefineLeave DEF HandlerPanic, histVars, Ended
  <2> QED BY <2>1, <2>2 DEF Access!Next
<1>7. CASE UNCHANGED <<phase, arrival>>
  BY <1>7, RefineStutter
<1> QED BY <1>1, <1>2, <1>3, <1>4, <1>5, <1>6, <1>7
        DEF Next, LoopNext, DrainNext, HandlerNext, vars, histVars, SpawnDrain,
            CloseBegin, GateClose, CloseEnd, LoopBreak, LoopExit, DrainExit, DrainJoined

\* The server's queues, drain tasks and gates implement in-order access per
\* key: clients cannot tell batching and task spawning from it.
THEOREM Refinement == Spec => ImplementsSerializedAccess
  BY RefineInit, RefineNext, SpecIInv, PTL
     DEF Spec, ImplementsSerializedAccess, Access!Spec
=============================================================================
