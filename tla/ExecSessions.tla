---------------------------- MODULE ExecSessions ----------------------------
(* The resumable sessions of the exec-server: the registry that attaches,   *)
(* detaches and expires them (exec-server/src/server/session_registry.rs),  *)
(* the handler and the loop of each connection (handler.rs, processor.rs),  *)
(* and the processes a session owns (local_process.rs).  A connection       *)
(* handles one message at a time; the tasks that expire sessions run beside *)
(* all of them.  A request that is being handled is dropped, at an await,   *)
(* when the transport of its connection closes.                             *)
EXTENDS Naturals, FiniteSets

CONSTANTS
  Connection,   \* the connections there will be
  Session,      \* the session ids there will be
  Process,      \* process ids a client uses
  MaxStarts,    \* bound: processes started
  None          \* no connection, session or process

ASSUME ConstantsAssumption ==
  /\ IsFiniteSet(Connection) /\ IsFiniteSet(Session) /\ IsFiniteSet(Process)
  /\ None \notin Connection \union Session \union Process
  /\ MaxStarts \in Nat

VARIABLES
  sessions,    \* the registry's map
  made,        \* session ids that were ever in it
  attachment,  \* AttachmentState of each session
  sender,      \* where the notifications of each session go
  entry,       \* the process table of each session
  alive,       \* the children that run, whatever the tables say
  pc,          \* where each connection is
  handle,      \* the SessionHandle of each connection
  doomed,      \* the expired session a resume has removed and must shut down
  spawning,    \* the process id a connection is starting
  down,        \* transports that are closed
  timers,      \* expiry tasks that sleep: pairs of a session and a connection
  expiring,    \* sessions that an expiry task has removed and must shut down
  abandoned,   \* history: sessions whose shutdown was dropped
  starts       \* processes started so far

registryVars == <<sessions, made, attachment>>
processVars == <<entry, alive, spawning, starts>>
timerVars == <<timers, expiring>>
vars == <<sessions, made, attachment, sender, entry, alive, pc, handle, doomed,
          spawning, down, timers, expiring, abandoned, starts>>

NoAttachment == [current |-> None, detached |-> None, expires |-> "never"]

Init ==
  /\ sessions = {} /\ made = {}
  /\ attachment = [s \in Session |-> NoAttachment]
  /\ sender = [s \in Session |-> None]
  /\ entry = [s \in Session |-> [p \in Process |-> "absent"]]
  /\ alive = {}
  /\ pc = [c \in Connection |-> "idle"]
  /\ handle = [c \in Connection |-> None]
  /\ doomed = [c \in Connection |-> None]
  /\ spawning = [c \in Connection |-> None]
  /\ down = {}
  /\ timers = {} /\ expiring = {} /\ abandoned = {} /\ starts = 0

Goto(c, place) == pc' = [pc EXCEPT ![c] = place]

HasActiveConnection(s) == attachment[s].current # None
IsExpired(s) == attachment[s].expires = "past"

IsAttached(c) == handle[c] # None /\ attachment[handle[c]].current = c

(***************************************************************************)
(* initialize.  The registry is locked from the lookup to the attachment,  *)
(* and only its holder attaches a connection.                              *)
(***************************************************************************)

AttachedOnTheClock(s, c) == [attachment[s] EXCEPT !.current = c]
Attached(s, c) == [current |-> c, detached |-> None, expires |-> "never"]

Attach(c, s) ==
  /\ attachment' = [attachment EXCEPT ![s] = Attached(s, c)]
  /\ sender' = [sender EXCEPT ![s] = c]
  /\ handle' = [handle EXCEPT ![c] = s]
  /\ Goto(c, "serving")

NewSession(c) ==
  /\ pc[c] = "idle"
  /\ \E s \in Session \ made :
       /\ sessions' = sessions \union {s}
       /\ made' = made \union {s}
       /\ Attach(c, s)
  /\ UNCHANGED <<doomed, down, processVars, timerVars, abandoned>>

ResumesAnyway(s) == ~IsExpired(s)
MayResume(s) == ~IsExpired(s) /\ ~HasActiveConnection(s)

Resume(c, s) ==
  /\ pc[c] = "idle"
  /\ s \in sessions /\ MayResume(s)
  /\ Attach(c, s)
  /\ UNCHANGED <<sessions, made, doomed, down, processVars, timerVars, abandoned>>

\* A resume that comes after the deadline, before the expiry task: it removes
\* the session itself, and shuts it down after the lock is released.
ResumeExpired(c, s) ==
  /\ pc[c] = "idle"
  /\ s \in sessions /\ IsExpired(s)
  /\ sessions' = sessions \ {s}
  /\ doomed' = [doomed EXCEPT ![c] = s]
  /\ Goto(c, "expired")
  /\ UNCHANGED <<made, attachment, sender, handle, down, processVars, timerVars,
                 abandoned>>

\* LocalProcess::shutdown: the table is drained, what runs is terminated.
Shutdown(s) ==
  /\ entry' = [entry EXCEPT ![s] = [p \in Process |-> "absent"]]
  /\ alive' = {x \in alive : x[1] # s \/ entry[s][x[2]] # "Running"}

\* The resume then fails, and the client may send another initialize.
ShutdownExpired(c) ==
  /\ pc[c] = "expired"
  /\ Shutdown(doomed[c])
  /\ doomed' = [doomed EXCEPT ![c] = None]
  /\ Goto(c, "idle")
  /\ UNCHANGED <<registryVars, sender, handle, down, spawning, starts,
                 timerVars, abandoned>>

\* The transport of the resuming connection closes while it awaits the table.
DropShutdown(c) ==
  /\ pc[c] = "expired" /\ c \in down
  /\ abandoned' = abandoned \union {doomed[c]}
  /\ doomed' = [doomed EXCEPT ![c] = None]
  /\ Goto(c, "closing")
  /\ UNCHANGED <<registryVars, sender, handle, down, processVars, timerVars>>

(***************************************************************************)
(* process/start, and the end of a process.                                *)
(***************************************************************************)

StartProcess(c, p) ==
  /\ pc[c] = "serving" /\ IsAttached(c)
  /\ starts < MaxStarts
  /\ entry[handle[c]][p] = "absent"
  /\ entry' = [entry EXCEPT ![handle[c]][p] = "Starting"]
  /\ spawning' = [spawning EXCEPT ![c] = p]
  /\ starts' = starts + 1
  /\ Goto(c, "spawning")
  /\ UNCHANGED <<registryVars, sender, alive, handle, doomed, down, timerVars,
                 abandoned>>

Spawned(c) ==
  /\ pc[c] = "spawning"
  /\ entry' = [entry EXCEPT ![handle[c]][spawning[c]] = "Running"]
  /\ alive' = alive \union {<<handle[c], spawning[c]>>}
  /\ spawning' = [spawning EXCEPT ![c] = None]
  /\ Goto(c, "serving")
  /\ UNCHANGED <<registryVars, sender, handle, doomed, down, starts, timerVars,
                 abandoned>>

SpawnFails(c) ==
  /\ pc[c] = "spawning"
  /\ entry' = [entry EXCEPT ![handle[c]][spawning[c]] =
                 IF @ = "Starting" THEN "absent" ELSE @]
  /\ spawning' = [spawning EXCEPT ![c] = None]
  /\ Goto(c, "serving")
  /\ UNCHANGED <<registryVars, sender, alive, handle, doomed, down, starts,
                 timerVars, abandoned>>

\* The transport closes before the entry is filled in: the child is dropped,
\* which terminates it, and the entry stays as it is.
DropSpawn(c) ==
  /\ pc[c] = "spawning" /\ c \in down
  /\ spawning' = [spawning EXCEPT ![c] = None]
  /\ Goto(c, "closing")
  /\ UNCHANGED <<registryVars, sender, entry, alive, handle, doomed, down, starts,
                 timerVars, abandoned>>

Terminate(c, p) ==
  /\ pc[c] = "serving" /\ IsAttached(c)
  /\ entry[handle[c]][p] = "Running"
  /\ <<handle[c], p>> \in alive
  /\ alive' = alive \ {<<handle[c], p>>}
  /\ UNCHANGED <<registryVars, sender, entry, pc, handle, doomed, spawning, down,
                 starts, timerVars, abandoned>>

ProcessExits(s, p) ==
  /\ <<s, p>> \in alive
  /\ alive' = alive \ {<<s, p>>}
  /\ UNCHANGED <<registryVars, sender, entry, pc, handle, doomed, spawning, down,
                 starts, timerVars, abandoned>>

\* EXITED_PROCESS_RETENTION after the close.
RemoveExited(s, p) ==
  /\ entry[s][p] = "Running" /\ <<s, p>> \notin alive
  /\ entry' = [entry EXCEPT ![s][p] = "absent"]
  /\ UNCHANGED <<registryVars, sender, alive, pc, handle, doomed, spawning, down,
                 starts, timerVars, abandoned>>

(***************************************************************************)
(* The end of a connection, and of a session.                              *)
(***************************************************************************)

TransportCloses(c) ==
  /\ c \notin down
  /\ down' = down \union {c}
  /\ UNCHANGED <<registryVars, sender, processVars, pc, handle, doomed, timerVars,
                 abandoned>>

\* The loop ends: at the disconnect, at a protocol error of the client, or
\* because the session is attached to another connection.
LoopEnds(c) ==
  /\ pc[c] \in {"idle", "serving"}
  /\ Goto(c, "closing")
  /\ UNCHANGED <<registryVars, sender, processVars, handle, doomed, down,
                 timerVars, abandoned>>

ReleasedByNobody(c) == [current |-> None, detached |-> None, expires |-> "later"]
Released(c) == [current |-> None, detached |-> c, expires |-> "later"]

\* handler.shutdown and SessionHandle::detach, first the attachment ...
Detach(c) ==
  /\ pc[c] = "closing"
  /\ IF IsAttached(c)
     THEN /\ attachment' = [attachment EXCEPT ![handle[c]] = Released(c)]
          /\ Goto(c, "detached")
     ELSE Goto(c, "gone") /\ UNCHANGED attachment
  /\ UNCHANGED <<sessions, made, sender, processVars, handle, doomed, down,
                 timerVars, abandoned>>

SenderKept(s) == sender
SenderCleared(s) == [sender EXCEPT ![s] = None]

\* ... then, under another lock, the sender; then the expiry task is spawned.
ClearSender(c) ==
  /\ pc[c] = "detached"
  /\ sender' = SenderCleared(handle[c])
  /\ timers' = timers \union {<<handle[c], c>>}
  /\ Goto(c, "gone")
  /\ UNCHANGED <<registryVars, processVars, handle, doomed, down, expiring,
                 abandoned>>

\* DETACHED_SESSION_TTL after the detach.
DeadlinePasses(s) ==
  /\ attachment[s].expires = "later"
  /\ attachment' = [attachment EXCEPT ![s].expires = "past"]
  /\ UNCHANGED <<sessions, made, sender, processVars, pc, handle, doomed, down,
                 timerVars, abandoned>>

\* is_detached_connection_expired, and the same without the owner of the timer.
ExpiredForAnyone(s, c) == attachment[s].current = None
ExpiredFor(s, c) ==
  /\ attachment[s].current = None
  /\ attachment[s].detached = c
  /\ IsExpired(s)

\* The sleep of an expiry task ends after the deadline of its own detach, which
\* is earlier than that of any later one.
Slept(s, c) == attachment[s].detached = c => IsExpired(s)

ExpireIfDetached(s, c) ==
  /\ <<s, c>> \in timers /\ Slept(s, c)
  /\ timers' = timers \ {<<s, c>>}
  /\ IF s \in sessions /\ ExpiredFor(s, c)
     THEN /\ sessions' = sessions \ {s}
          /\ expiring' = expiring \union {s}
     ELSE UNCHANGED <<sessions, expiring>>
  /\ UNCHANGED <<made, attachment, sender, processVars, pc, handle, doomed, down,
                 abandoned>>

ShutdownDetached(s) ==
  /\ s \in expiring
  /\ Shutdown(s)
  /\ expiring' = expiring \ {s}
  /\ UNCHANGED <<registryVars, sender, pc, handle, doomed, spawning, down,
                 timers, abandoned, starts>>

-----------------------------------------------------------------------------
\* What a connection does with the requests of its client, and at its end.
Serve(c) ==
  \/ NewSession(c)
  \/ \E s \in Session : Resume(c, s) \/ ResumeExpired(c, s)
  \/ \E p \in Process : StartProcess(c, p) \/ Terminate(c, p)

ServerStep(c) ==
  \/ ShutdownExpired(c) \/ Spawned(c) \/ Detach(c) \/ ClearSender(c)

Next ==
  \/ \E c \in Connection :
       \/ Serve(c) \/ ServerStep(c)
       \/ SpawnFails(c) \/ DropShutdown(c) \/ DropSpawn(c)
       \/ TransportCloses(c) \/ LoopEnds(c)
  \/ \E s \in Session :
       \/ DeadlinePasses(s) \/ ShutdownDetached(s)
       \/ \E c \in Connection : ExpireIfDetached(s, c)
       \/ \E p \in Process : ProcessExits(s, p) \/ RemoveExited(s, p)

Spec == Init /\ [][Next]_vars

\* The server polls its tasks and time passes.  A client need not do anything,
\* and a process need not exit by itself; but the loop of a connection whose
\* transport is closed ends.
Fairness ==
  /\ \A c \in Connection :
       /\ WF_vars(ServerStep(c))
       /\ WF_vars(c \in down /\ LoopEnds(c))
  /\ \A s \in Session :
       /\ WF_vars(DeadlinePasses(s)) /\ WF_vars(ShutdownDetached(s))
       /\ \A c \in Connection : WF_vars(ExpireIfDetached(s, c))

FairSpec == Spec /\ Fairness

-----------------------------------------------------------------------------
TypeOK ==
  /\ made \subseteq Session /\ sessions \subseteq made
  /\ attachment \in [Session -> [current: Connection \union {None},
                                 detached: Connection \union {None},
                                 expires: {"never", "later", "past"}]]
  /\ sender \in [Session -> Connection \union {None}]
  /\ entry \in [Session -> [Process -> {"absent", "Starting", "Running"}]]
  /\ alive \subseteq Session \X Process
  /\ pc \in [Connection -> {"idle", "expired", "serving", "spawning", "closing",
                            "detached", "gone"}]
  /\ handle \in [Connection -> Session \union {None}]
  /\ doomed \in [Connection -> Session \union {None}]
  /\ spawning \in [Connection -> Process \union {None}]
  /\ down \subseteq Connection
  /\ timers \subseteq Session \X Connection
  /\ expiring \subseteq Session /\ abandoned \subseteq Session
  /\ starts \in 0..MaxStarts
  /\ \A c \in Connection :
       /\ pc[c] \in {"serving", "spawning", "detached"} => handle[c] # None
       /\ pc[c] = "expired" <=> doomed[c] # None
       /\ pc[c] = "spawning" <=> spawning[c] # None
       /\ handle[c] # None => pc[c] \notin {"idle", "expired"}
  /\ \A t \in timers : pc[t[2]] = "gone" /\ handle[t[2]] = t[1]

Working == {c \in Connection : pc[c] \in {"serving", "spawning"}}

\* A connection that serves requests is the one its session is attached to, and
\* the session is in the registry: no resume takes a session over, no expiry
\* takes it away, and a process is never started in a session that is gone.
ServesOwnSession ==
  \A c \in Working :
    /\ handle[c] \in sessions
    /\ attachment[handle[c]].current = c

\* Notifications of a session go to the connection it is attached to, or to the
\* last one for as long as its detach is under way; never to a connection that
\* has left the session behind.
SentToAttached ==
  \A s \in Session : \A c \in Connection :
    sender[s] = c =>
      \/ attachment[s].current = c
      \/ pc[c] = "detached" /\ handle[c] = s

\* The processes of a session that left the registry are on their way out:
\* somebody is about to shut the session down, unless the shutdown was dropped
\* with the connection that tried to resume it.
Ending(s) == s \in expiring \/ \E c \in Connection : doomed[c] = s
NoOrphans ==
  \A s \in made \ sessions :
    (\E p \in Process : entry[s][p] # "absent" \/ <<s, p>> \in alive) =>
      Ending(s) \/ s \in abandoned

\* The registry implements SessionLease: attaching, detaching, the deadline and
\* the two ways of removal are the steps of a lease, whoever takes them.  The
\* timer of an earlier detach ends no session that was resumed since, nor one
\* that was resumed and detached again; an id that ended is not used again.
LeaseStage ==
  [s \in Session |-> IF s \notin made THEN "new"
                     ELSE IF s \notin sessions THEN "ended"
                     ELSE IF HasActiveConnection(s) THEN "held"
                     ELSE IF IsExpired(s) THEN "over" ELSE "free"]
LeaseHolder ==
  [s \in Session |-> IF s \in sessions THEN attachment[s].current ELSE None]

Lease == INSTANCE SessionLease WITH
  stage <- LeaseStage, holder <- LeaseHolder, running <- alive, Nobody <- None

ImplementsSessionLease == Lease!Spec

\* A session whose connection is lost and that nobody resumes is removed.
Detached(s) == s \in sessions /\ attachment[s].current = None
DetachedSessionEnds ==
  \A s \in Session : Detached(s) ~> ~Detached(s)

\* The README of the exec-server says of a connection that closes: the server
\* terminates any remaining managed processes.  A session waits for a resume first;
\* once it is removed none of its processes runs on.  A late resume that removes it
\* and is dropped before it has shut the session down leaves them running.
ProcessesTerminated ==
  \A s \in Session :
    (s \in made \ sessions) ~> \A p \in Process : <<s, p>> \notin alive

\* The notifications of an attached session go to its connection, once no other
\* connection is detaching from it ("Output is streamed asynchronously").
AttachedIsNotified ==
  \A s \in sessions : \A c \in Connection :
    (attachment[s].current = c /\ \A d \in Connection : pc[d] # "detached") =>
      sender[s] = c
=============================================================================
