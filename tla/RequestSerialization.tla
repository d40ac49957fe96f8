----------------------- MODULE RequestSerialization -------------------------
(***************************************************************************)
(* How the app server runs initialized client requests:                    *)
(*   - codex-rs/app-server/src/lib.rs, the processor loop, which           *)
(*     dispatches requests and closes connections one event at a time;     *)
(*   - request_serialization.rs, a FIFO queue per serialization key and    *)
(*     one drain task per live queue;                                      *)
(*   - connection_rpc_gate.rs, the gate that closes a connection.          *)
(* A drain task is named by the request whose enqueue spawned it, so that  *)
(* nothing in the model prevents two of them from serving one key.         *)
(***************************************************************************)
EXTENDS Naturals, Sequences, FiniteSets

CONSTANTS Request,       \* initialized client requests
          Connection,    \* client connections
          ConnOf,        \* the connection a request came from
          ScopeOf,       \* its serialization scope, a [kind, name] record
          MayPanic       \* whether a handler may panic

ScopeKind == {"None", "Global", "GlobalSharedRead", "Thread", "ThreadPath",
              "CommandExecProcess", "Process", "FuzzyFileSearchSession",
              "FsWatch", "McpOauth"}

ASSUME ConstantsAssumption ==
  /\ ConnOf \in [Request -> Connection]
  /\ \A r \in Request : ScopeOf[r].kind \in ScopeKind
  /\ MayPanic \in BOOLEAN

VARIABLES
  loopAt,        \* the processor loop: what it is awaiting
  loopOn,        \* the request or connection that await is about
  connections,   \* the loop's connection map
  cleaned,       \* connections whose connection_closed ran to its end
  accepting,     \* ConnectionRpcGate.accepting
  present,       \* keys that have an entry in RequestSerializationQueues
  queue,         \* the VecDeque of each entry
  drainer,       \* the drain task spawned for the enqueue of this request
  batch,         \* the requests a drain task has popped and is joining
  phase,         \* how far each request has come
  arrival,       \* history: rank of the request's arrival at its queue
  clock          \* history: the next rank

gateVars   == <<connections, cleaned, accepting>>
loopVars   == <<loopAt, loopOn>>
queueVars  == <<present, queue>>
drainVars  == <<drainer, batch>>
histVars   == <<arrival, clock>>
vars == <<loopVars, gateVars, queueVars, drainVars, phase, histVars>>

Nobody == "nobody"

-----------------------------------------------------------------------------
(* RequestSerializationQueueKey::from_scope: keys of process-like scopes    *)
(* are private to the connection, the two global scopes share one key.      *)

PerConnection == {"CommandExecProcess", "Process", "FsWatch"}

KeyKind(kind) == IF kind = "GlobalSharedRead" THEN "Global" ELSE kind

KeyOf(r) ==
  [kind |-> KeyKind(ScopeOf[r].kind), name |-> ScopeOf[r].name,
   conn |-> IF ScopeOf[r].kind \in PerConnection THEN ConnOf[r] ELSE Nobody]

Serialized(r) == ScopeOf[r].kind # "None"
SharedRead(r) == ScopeOf[r].kind = "GlobalSharedRead"
Key == {KeyOf(r) : r \in Request}

\* Two requests of one key that must not overlap.
Conflicts(q, r) ==
  /\ q # r /\ Serialized(q) /\ Serialized(r)
  /\ KeyOf(q) = KeyOf(r)
  /\ ~(SharedRead(q) /\ SharedRead(r))

\* Handlers that hold a token of the connection's TaskTracker.
InFlight(c) == {r \in Request : phase[r] = "running" /\ ConnOf[r] = c}

Ended == {"finished", "skipped", "dropped"}

Init ==
  /\ loopAt = "select" /\ loopOn = Nobody
  /\ connections = Connection /\ cleaned = {}
  /\ accepting = [c \in Connection |-> TRUE]
  /\ present = {} /\ queue = [k \in Key |-> <<>>]
  /\ drainer = [r \in Request |-> "none"]
  /\ batch = [r \in Request |-> {}]
  /\ phase = [r \in Request |-> "unsent"]
  /\ arrival = [r \in Request |-> 0] /\ clock = 1

-----------------------------------------------------------------------------
(* The processor loop. *)

LoopTo(at, on) == loopAt' = at /\ loopOn' = on

Arrive(r) ==
  arrival' = [arrival EXCEPT ![r] = clock] /\ clock' = clock + 1

\* dispatch_initialized_client_request without a scope: the request is
\* spawned on a task of its own.
DispatchFree(r) ==
  /\ loopAt = "select" /\ ConnOf[r] \in connections
  /\ phase[r] = "unsent" /\ ~Serialized(r)
  /\ phase' = [phase EXCEPT ![r] = "batched"] /\ Arrive(r)
  /\ UNCHANGED <<loopVars, gateVars, queueVars, drainVars>>

\* RequestSerializationQueues::enqueue, the part under the lock.  The task
\* is spawned after the lock is released.
AlwaysSpawn(k) == TRUE

ShouldSpawn(k) == k \notin present

Enqueue(r) ==
  LET k == KeyOf(r) IN
  /\ loopAt = "select" /\ ConnOf[r] \in connections
  /\ phase[r] = "unsent" /\ Serialized(r)
  /\ queue' = [queue EXCEPT ![k] = Append(@, r)]
  /\ present' = present \union {k}
  /\ IF ShouldSpawn(k)
       THEN LoopTo("spawn", r) /\ drainer' = [drainer EXCEPT ![r] = "pending"]
       ELSE UNCHANGED <<loopVars, drainer>>
  /\ phase' = [phase EXCEPT ![r] = "queued"] /\ Arrive(r)
  /\ UNCHANGED <<gateVars, batch>>

SpawnDrain(r) ==
  /\ loopAt = "spawn" /\ loopOn = r
  /\ drainer' = [drainer EXCEPT ![r] = "popping"]
  /\ LoopTo("select", Nobody)
  /\ UNCHANGED <<gateVars, queueVars, batch, phase, histVars>>

\* TransportEvent::ConnectionClosed: the connection leaves the map first;
\* the gate is closed after an await on the outbound router.
CloseBegin(c) ==
  /\ loopAt = "select" /\ c \in connections
  /\ connections' = connections \ {c}
  /\ LoopTo("closing", c)
  /\ UNCHANGED <<cleaned, accepting, queueVars, drainVars, phase, histVars>>

CloseEveryGate(c) ==
  /\ \/ loopAt = "closing" /\ loopOn = c
     \/ loopAt = "shutdown" /\ c \in connections
  /\ accepting[c]
  /\ accepting' = [d \in Connection |-> FALSE]
  /\ UNCHANGED <<loopVars, connections, cleaned, queueVars, drainVars, phase,
                 histVars>>

\* ConnectionRpcGate::shutdown, the part under the lock.
GateClose(c) ==
  /\ \/ loopAt = "closing" /\ loopOn = c
     \/ loopAt = "shutdown" /\ c \in connections
  /\ accepting[c]
  /\ accepting' = [accepting EXCEPT ![c] = FALSE]
  /\ UNCHANGED <<loopVars, connections, cleaned, queueVars, drainVars, phase,
                 histVars>>

DrainedAtOnce(c) == ~accepting[c]

DrainedOfQueued(c) ==
  ~accepting[c] /\ \A r \in Request :
    ConnOf[r] = c => phase[r] \notin {"queued", "batched", "running"}

\* tasks.wait() returns: closed and no token left.
GateDrained(c) == ~accepting[c] /\ InFlight(c) = {}

\* The rest of MessageProcessor::connection_closed drops what the
\* connection's handlers use.
CloseEnd(c) ==
  /\ loopAt = "closing" /\ loopOn = c /\ GateDrained(c)
  /\ cleaned' = cleaned \union {c}
  /\ LoopTo("select", Nobody)
  /\ UNCHANGED <<connections, accepting, queueVars, drainVars, phase, histVars>>

\* The loop breaks; unless the shutdown is forced it closes every gate that
\* is left and waits for all of them.
LoopBreak ==
  /\ loopAt = "select"
  /\ \/ LoopTo("shutdown", Nobody)
     \/ LoopTo("forced", Nobody)
  /\ UNCHANGED <<gateVars, queueVars, drainVars, phase, histVars>>

LoopExit ==
  /\ loopAt = "shutdown"
  /\ \A c \in connections : GateDrained(c)
  /\ LoopTo("exited", Nobody)
  /\ UNCHANGED <<gateVars, queueVars, drainVars, phase, histVars>>

-----------------------------------------------------------------------------
(* RequestSerializationQueues::drain. *)

PopsReadsAfterWrites(q, n) ==
  n > 1 => \A i \in 2..n : SharedRead(q[i])

PopsWithoutLooking(q, n) == n = Len(q)

\* The first n requests of q are what one pass pops: one exclusive request,
\* or the whole run of shared reads at the front.
PopsFront(q, n) ==
  /\ n > 1 => \A i \in 1..n : SharedRead(q[i])
  /\ SharedRead(q[1]) /\ n < Len(q) => ~SharedRead(q[n + 1])

DrainPop(d) ==
  LET k == KeyOf(d) IN
  /\ drainer[d] = "popping"
  /\ \E n \in 1..Len(queue[k]) :
       /\ PopsFront(queue[k], n)
       /\ batch' = [batch EXCEPT ![d] = {queue[k][i] : i \in 1..n}]
       /\ queue' = [queue EXCEPT ![k] = SubSeq(@, n + 1, Len(@))]
       /\ phase' = [r \in Request |->
                      IF \E i \in 1..n : queue[k][i] = r THEN "batched"
                                                         ELSE phase[r]]
  /\ drainer' = [drainer EXCEPT ![d] = "joining"]
  /\ UNCHANGED <<loopVars, gateVars, present, histVars>>

ExitWithoutRemove(d) ==
  /\ drainer[d] = "popping" /\ queue[KeyOf(d)] = <<>>
  /\ drainer' = [drainer EXCEPT ![d] = "exited"]
  /\ UNCHANGED <<loopVars, gateVars, queueVars, batch, phase, histVars>>

DrainExit(d) ==
  LET k == KeyOf(d) IN
  /\ drainer[d] = "popping" /\ queue[k] = <<>>
  /\ present' = present \ {k}
  /\ drainer' = [drainer EXCEPT ![d] = "exited"]
  /\ UNCHANGED <<loopVars, gateVars, queue, batch, phase, histVars>>

DrainJoined(d) ==
  /\ drainer[d] = "joining"
  /\ \A r \in batch[d] : phase[r] \in Ended
  /\ batch' = [batch EXCEPT ![d] = {}]
  /\ drainer' = [drainer EXCEPT ![d] = "popping"]
  /\ UNCHANGED <<loopVars, gateVars, queueVars, phase, histVars>>

-----------------------------------------------------------------------------
(* ConnectionRpcGate::run around one handler. *)

GateEnter(r) ==
  /\ phase[r] = "batched"
  /\ phase' = [phase EXCEPT ![r] =
                 IF accepting[ConnOf[r]] THEN "running" ELSE "skipped"]
  /\ UNCHANGED <<loopVars, gateVars, queueVars, drainVars, histVars>>

HandlerFinish(r) ==
  /\ phase[r] = "running"
  /\ phase' = [phase EXCEPT ![r] = "finished"]
  /\ UNCHANGED <<loopVars, gateVars, queueVars, drainVars, histVars>>

\* A panic unwinds the task that polls the handler: a drain task takes the
\* futures of its whole batch with it and leaves its queue in the map.
Unwound(r) ==
  {r} \union UNION {{q \in batch[d] : phase[q] \notin Ended} :
                    d \in {e \in Request : drainer[e] = "joining" /\ r \in batch[e]}}

HandlerPanic(r) ==
  /\ MayPanic /\ phase[r] = "running"
  /\ phase' = [q \in Request |-> IF q \in Unwound(r) THEN "dropped" ELSE phase[q]]
  /\ drainer' = [d \in Request |->
                   IF drainer[d] = "joining" /\ r \in batch[d] THEN "panicked"
                                                               ELSE drainer[d]]
  /\ UNCHANGED <<loopVars, gateVars, queueVars, batch, histVars>>

-----------------------------------------------------------------------------
LoopNext ==
  \/ \E r \in Request : DispatchFree(r) \/ Enqueue(r) \/ SpawnDrain(r)
  \/ \E c \in Connection : CloseBegin(c) \/ GateClose(c) \/ CloseEnd(c)
  \/ LoopBreak \/ LoopExit

DrainNext == \E d \in Request : DrainPop(d) \/ DrainExit(d) \/ DrainJoined(d)

HandlerNext ==
  \E r \in Request : GateEnter(r) \/ HandlerFinish(r) \/ HandlerPanic(r)

Next == LoopNext \/ DrainNext \/ HandlerNext

Spec == Init /\ [][Next]_vars

\* The runtime polls every ready task; handlers are assumed to return.  That
\* clients send requests or disconnect is not assumed.
Fairness ==
  /\ \A r \in Request : /\ WF_vars(SpawnDrain(r)) /\ WF_vars(DrainPop(r))
                        /\ WF_vars(DrainExit(r)) /\ WF_vars(DrainJoined(r))
                        /\ WF_vars(GateEnter(r)) /\ WF_vars(HandlerFinish(r))
  /\ \A c \in Connection : WF_vars(GateClose(c)) /\ WF_vars(CloseEnd(c))
  /\ WF_vars(LoopExit)

FairSpec == Spec /\ Fairness

-----------------------------------------------------------------------------
Phase == {"unsent", "queued", "batched", "running"} \union Ended

TypeOK ==
  /\ loopAt \in {"select", "spawn", "closing", "shutdown", "forced", "exited"}
  /\ loopAt = "spawn" => loopOn \in Request
  /\ loopAt = "closing" => loopOn \in Connection
  /\ loopAt \notin {"spawn", "closing"} => loopOn = Nobody
  /\ connections \subseteq Connection /\ cleaned \subseteq Connection
  /\ accepting \in [Connection -> BOOLEAN]
  /\ present \subseteq Key
  /\ queue \in [Key -> Seq(Request)]
  /\ drainer \in [Request -> {"none", "pending", "popping", "joining",
                              "exited", "panicked"}]
  /\ batch \in [Request -> SUBSET Request]
  /\ phase \in [Request -> Phase]
  /\ arrival \in [Request -> Nat] /\ clock \in Nat

\* Requests of one key take effect in arrival order: a handler only starts
\* when every conflicting request that arrived before it has ended, so an
\* exclusive request never overlaps another request of its key and a shared
\* read never overtakes a queued write (drain, join_all over a batch).
ConflictsInOrder ==
  \A q, r \in Request :
    /\ Conflicts(q, r) /\ phase[q] # "unsent" /\ arrival[q] < arrival[r]
    /\ phase[r] \in {"running", "finished"}
    => phase[q] \in Ended

\* No wakeup is lost between the map and the spawned tasks: a key has an
\* entry exactly while one task owns it, and a queued request always has
\* such an owner (should_spawn in enqueue against the removal in drain).
Owns(d, k) ==
  KeyOf(d) = k /\ drainer[d] \in {"pending", "popping", "joining", "panicked"}

OneOwnerPerQueue ==
  /\ \A k \in Key : k \in present <=> \E d \in Request : Owns(d, k)
  /\ \A d, e \in Request :
       Owns(d, KeyOf(d)) /\ Owns(e, KeyOf(e)) /\ KeyOf(d) = KeyOf(e) => d = e
  /\ \A k \in Key : queue[k] # <<>> => k \in present

\* No handler of a connection is running, nor will start, once the state its
\* handlers use is torn down: connection_closed waits for the gate before it
\* goes on, and so does the loop before it shuts the threads down.
TornDownQuiescent ==
  \A r \in Request :
    \/ ConnOf[r] \in cleaned
    \/ loopAt = "exited" /\ ConnOf[r] \in connections
    => phase[r] # "running"

\* A request is only skipped for its own connection's sake: while a
\* connection is in the map and the server is up, none of its requests is
\* lost to another connection's close.
SkippedOnlyWhenClosed ==
  \A r \in Request :
    phase[r] = "skipped" =>
      ConnOf[r] \notin connections \/ loopAt \in {"shutdown", "exited"}

\* Every request that was dispatched is run or skipped, unless a handler of
\* its own key panicked: the unwound drain task strands no other key.
Stranded(k) == \E d \in Request : KeyOf(d) = k /\ drainer[d] = "panicked"
EveryRequestEnds ==
  \A r \in Request : phase[r] \in {"queued", "batched", "running"}
                       ~> phase[r] \in Ended \/ Stranded(KeyOf(r))

\* Closing a connection never waits on queued requests, only on running
\* ones: the loop always gets past rpc_gate.shutdown().
CloseCompletes ==
  \A c \in Connection : (loopAt = "closing" /\ loopOn = c) ~> c \in cleaned

\* Queueing, batching and gating together implement in-order access.
AccessStatus ==
  [r \in Request |-> IF phase[r] = "unsent" THEN "new"
                    ELSE IF phase[r] \in {"queued", "batched"} THEN "waiting"
                    ELSE IF phase[r] = "running" THEN "running" ELSE "left"]

Access == INSTANCE SerializedAccess WITH status <- AccessStatus

ImplementsSerializedAccess == Access!Spec
=============================================================================
