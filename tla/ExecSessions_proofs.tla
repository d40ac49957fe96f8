------------------------- MODULE ExecSessions_proofs -------------------------
(* For any connections, sessions and processes: who serves a session, where *)
(* its notifications go, what happens to its processes and when it ends.    *)
(*                                                                          *)
(* The argument is one inductive invariant.  That a serving connection is   *)
(* attached to a session of the registry (ServesOwnSession) rests on the    *)
(* clock of a session running only while nobody is attached (ClockInv), and *)
(* that no process is left behind (NoOrphans) on both: a process is started *)
(* by a serving connection, hence in a session of the registry, and a       *)
(* shutdown reaches every child because each has an entry (AliveInv).       *)
(* With three facts about handles, removals and reserved ids (LeaseInv) the *)
(* registry implements SessionLease, step by step.                          *)
EXTENDS ExecSessions, TLAPS

\* How long a prover may take for a step, in seconds.
USE SMTT(20), ZenonT(20)

\* The expiry clock of a session stands still while it is attached.
ClockInv ==
  \A s \in Session : attachment[s].expires # "never" => attachment[s].current = None

\* A child that runs has an entry in the table of its session.
AliveInv ==
  \A s \in Session : \A p \in Process : <<s, p>> \in alive => entry[s][p] = "Running"

Attachments == [current: Connection \union {None}, detached: Connection \union {None},
                expires: {"never", "later", "past"}]

Inv ==
  /\ TypeOK /\ ClockInv /\ AliveInv
  /\ ServesOwnSession /\ SentToAttached /\ NoOrphans

USE ConstantsAssumption

LEMMA InitInv == Init => Inv
  BY DEF Init, Inv, TypeOK, ClockInv, AliveInv, ServesOwnSession, SentToAttached,
         NoOrphans, Working, NoAttachment

-----------------------------------------------------------------------------
\* Types.

LEMMA TypeAttach ==
  ASSUME TypeOK, ClockInv, NEW c \in Connection,
         \/ NewSession(c)
         \/ \E s \in Session : Resume(c, s) \/ ResumeExpired(c, s)
  PROVE  TypeOK' /\ ClockInv'
<1>1. CASE NewSession(c)
  BY <1>1 DEF NewSession, Attach, Attached, Goto, TypeOK, ClockInv, processVars, timerVars
<1>2. ASSUME NEW s \in Session, Resume(c, s)
      PROVE  TypeOK' /\ ClockInv'
  BY <1>2 DEF Resume, Attach, Attached, Goto, TypeOK, ClockInv, processVars, timerVars
<1>3. ASSUME NEW s \in Session, ResumeExpired(c, s)
      PROVE  TypeOK' /\ ClockInv'
  BY <1>3 DEF ResumeExpired, Goto, TypeOK, ClockInv, processVars, timerVars
<1> QED BY <1>1, <1>2, <1>3

LEMMA TypeStart ==
  ASSUME TypeOK, ClockInv, AliveInv, NEW c \in Connection,
         \/ \E p \in Process : StartProcess(c, p) \/ Terminate(c, p)
         \/ Spawned(c) \/ SpawnFails(c) \/ DropSpawn(c)
  PROVE  TypeOK' /\ ClockInv' /\ AliveInv'
<1> USE DEF registryVars, timerVars, Goto, ClockInv
<1>1. ASSUME NEW p \in Process, StartProcess(c, p)
      PROVE  TypeOK' /\ ClockInv' /\ AliveInv'
  <2>1. TypeOK' BY <1>1 DEF StartProcess, TypeOK
  <2>2. AliveInv' BY <1>1 DEF StartProcess, TypeOK, AliveInv
  <2> QED BY <2>1, <2>2, <1>1 DEF StartProcess
<1>2. ASSUME NEW p \in Process, Terminate(c, p)
      PROVE  TypeOK' /\ ClockInv' /\ AliveInv'
  BY <1>2 DEF Terminate, TypeOK, AliveInv
<1>3. CASE Spawned(c)
  <2>1. TypeOK' BY <1>3 DEF Spawned, TypeOK
  <2>2. AliveInv' BY <1>3 DEF Spawned, TypeOK, AliveInv
  <2> QED BY <2>1, <2>2, <1>3 DEF Spawned
<1>4. CASE SpawnFails(c)
  <2>1. TypeOK' BY <1>4 DEF SpawnFails, TypeOK
  <2>2. AliveInv' BY <1>4 DEF SpawnFails, TypeOK, AliveInv
  <2> QED BY <2>1, <2>2, <1>4 DEF SpawnFails
<1>5. CASE DropSpawn(c)
  BY <1>5 DEF DropSpawn, TypeOK, AliveInv
<1> QED BY <1>1, <1>2, <1>3, <1>4, <1>5

LEMMA TypeEnd ==
  ASSUME TypeOK, ClockInv, AliveInv, NEW c \in Connection,
         \/ ShutdownExpired(c) \/ DropShutdown(c) \/ TransportCloses(c) \/ LoopEnds(c)
         \/ Detach(c) \/ ClearSender(c)
  PROVE  TypeOK' /\ ClockInv' /\ AliveInv'
<1> USE DEF registryVars, processVars, timerVars, Goto, ClockInv
<1>1. CASE ShutdownExpired(c)
  <2>1. TypeOK' BY <1>1 DEF ShutdownExpired, Shutdown, TypeOK
  <2>2. AliveInv' BY <1>1 DEF ShutdownExpired, Shutdown, TypeOK, AliveInv
  <2> QED BY <2>1, <2>2, <1>1 DEF ShutdownExpired
<1>2. CASE DropShutdown(c)
  BY <1>2 DEF DropShutdown, TypeOK, AliveInv
<1>3. CASE TransportCloses(c)
  BY <1>3 DEF TransportCloses, TypeOK, AliveInv
<1>4. CASE LoopEnds(c)
  BY <1>4 DEF LoopEnds, TypeOK, AliveInv
<1>5. CASE Detach(c)
  <2>1. CASE IsAttached(c)
    <3>1. handle[c] \in Session /\ Released(c) \in Attachments
      BY <2>1 DEF IsAttached, Released, Attachments, TypeOK
    <3>2. attachment \in [Session -> Attachments] BY DEF TypeOK, Attachments
    <3>3. attachment' \in [Session -> Attachments]
      BY <2>1, <1>5, <3>1, <3>2 DEF Detach
    <3>4. TypeOK' BY <2>1, <1>5, <3>1, <3>3 DEF Detach, IsAttached, Attachments, TypeOK
    <3>5. ClockInv'
      <4> SUFFICES ASSUME NEW s \in Session, attachment'[s].expires # "never"
                   PROVE  attachment'[s].current = None
        OBVIOUS
      <4>1. CASE s = handle[c] BY <4>1, <2>1, <1>5 DEF Detach, Released, TypeOK
      <4>2. CASE s # handle[c] BY <4>2, <2>1, <1>5 DEF Detach, TypeOK
      <4> QED BY <4>1, <4>2
    <3> QED BY <3>4, <3>5, <1>5 DEF Detach, AliveInv
  <2>2. CASE ~IsAttached(c)
    <3>1. TypeOK' BY <2>2, <1>5 DEF Detach, TypeOK
    <3> QED BY <3>1, <2>2, <1>5 DEF Detach, AliveInv
  <2> QED BY <2>1, <2>2
<1>6. CASE ClearSender(c)
  BY <1>6 DEF ClearSender, SenderCleared, TypeOK, AliveInv
<1> QED BY <1>1, <1>2, <1>3, <1>4, <1>5, <1>6

LEMMA TypeExpiry ==
  ASSUME TypeOK, ClockInv, AliveInv, NEW s \in Session,
         \/ DeadlinePasses(s) \/ ShutdownDetached(s)
         \/ \E c \in Connection : ExpireIfDetached(s, c)
         \/ \E p \in Process : ProcessExits(s, p) \/ RemoveExited(s, p)
  PROVE  TypeOK' /\ ClockInv' /\ AliveInv'
<1> USE DEF registryVars, processVars, timerVars, ClockInv
<1>1. CASE DeadlinePasses(s)
  <2> DEFINE late == [attachment[s] EXCEPT !.expires = "past"]
  <2>1. TypeOK'
    <3>1. attachment \in [Session -> Attachments] BY DEF TypeOK, Attachments
    <3>2. late \in Attachments BY <3>1 DEF Attachments
    <3>3. attachment' = [attachment EXCEPT ![s] = late] BY <1>1 DEF DeadlinePasses
    <3> HIDE DEF late
    <3>4. attachment' \in [Session -> Attachments] BY <3>1, <3>2, <3>3
    <3> QED BY <3>4, <1>1 DEF DeadlinePasses, TypeOK, Attachments
  <2>2. ClockInv' BY <1>1 DEF DeadlinePasses, TypeOK
  <2> QED BY <2>1, <2>2, <1>1 DEF DeadlinePasses, AliveInv
<1>2. CASE ShutdownDetached(s)
  <2>1. TypeOK' BY <1>2 DEF ShutdownDetached, Shutdown, TypeOK
  <2>2. AliveInv' BY <1>2 DEF ShutdownDetached, Shutdown, TypeOK, AliveInv
  <2> QED BY <2>1, <2>2, <1>2 DEF ShutdownDetached
<1>3. ASSUME NEW c \in Connection, ExpireIfDetached(s, c)
      PROVE  TypeOK' /\ ClockInv' /\ AliveInv'
  <2>1. TypeOK' BY <1>3 DEF ExpireIfDetached, TypeOK
  <2>2. UNCHANGED <<attachment, entry, alive>> BY <1>3 DEF ExpireIfDetached
  <2> QED BY <2>1, <2>2 DEF AliveInv
<1>4. ASSUME NEW p \in Process, ProcessExits(s, p)
      PROVE  TypeOK' /\ ClockInv' /\ AliveInv'
  BY <1>4 DEF ProcessExits, TypeOK, AliveInv
<1>5. ASSUME NEW p \in Process, RemoveExited(s, p)
      PROVE  TypeOK' /\ ClockInv' /\ AliveInv'
  <2>1. TypeOK' BY <1>5 DEF RemoveExited, TypeOK
  <2>2. AliveInv'
    <3> SUFFICES ASSUME NEW t \in Session, NEW q \in Process, <<t, q>> \in alive
                 PROVE  entry'[t][q] = "Running"
      BY <1>5 DEF RemoveExited, AliveInv
    <3>1. entry[t][q] = "Running" /\ (t # s \/ q # p)
      BY <1>5 DEF RemoveExited, AliveInv
    <3> QED BY <3>1, <1>5 DEF RemoveExited, TypeOK
  <2> QED BY <2>1, <2>2, <1>5 DEF RemoveExited
<1> QED BY <1>1, <1>2, <1>3, <1>4, <1>5

LEMMA Types ==
  Inv /\ [Next]_vars => TypeOK' /\ ClockInv' /\ AliveInv'
<1> SUFFICES ASSUME Inv, [Next]_vars PROVE TypeOK' /\ ClockInv' /\ AliveInv'
  OBVIOUS
<1>1. TypeOK /\ ClockInv /\ AliveInv BY DEF Inv
<1>2. ASSUME NEW c \in Connection,
             NewSession(c) \/ \E s \in Session : Resume(c, s) \/ ResumeExpired(c, s)
      PROVE  TypeOK' /\ ClockInv' /\ AliveInv'
  <2>1. UNCHANGED <<entry, alive>>
    BY <1>2 DEF NewSession, Resume, ResumeExpired, processVars
  <2> QED BY <1>2, <2>1, <1>1, TypeAttach DEF AliveInv
<1>3. CASE UNCHANGED vars
  BY <1>3, <1>1 DEF vars, TypeOK, ClockInv, AliveInv
<1> QED
  BY <1>1, <1>2, <1>3, TypeStart, TypeEnd, TypeExpiry DEF Next, Serve, ServerStep

-----------------------------------------------------------------------------
\* Who serves a session, and where its notifications go.

LEMMA Serves == Inv /\ [Next]_vars => ServesOwnSession'
<1> SUFFICES ASSUME Inv, [Next]_vars, NEW d \in Connection, (d \in Working)'
             PROVE  handle'[d] \in sessions' /\ attachment'[handle'[d]].current = d
  BY DEF ServesOwnSession, Working
<1> DEFINE Ok == handle'[d] \in sessions' /\ attachment'[handle'[d]].current = d
<1>1. TypeOK /\ ClockInv /\ ServesOwnSession BY DEF Inv
<1> USE <1>1 DEF Working, Goto
<1>2. ASSUME d \in Working, handle'[d] = handle[d], handle[d] \in sessions',
             attachment'[handle[d]].current = attachment[handle[d]].current
      PROVE  Ok
  BY <1>2 DEF ServesOwnSession
<1>3. ASSUME d \in Working, UNCHANGED <<sessions, attachment, handle>>
      PROVE  Ok
  BY <1>3 DEF ServesOwnSession
<1>4. ASSUME NEW c \in Connection, NewSession(c) PROVE Ok
  BY <1>4 DEF NewSession, Attach, Attached, ServesOwnSession, TypeOK
<1>5. ASSUME NEW c \in Connection, NEW s \in Session, Resume(c, s) PROVE Ok
  BY <1>5 DEF Resume, MayResume, HasActiveConnection, Attach, Attached, ServesOwnSession, TypeOK
<1>6. ASSUME NEW c \in Connection, NEW s \in Session, ResumeExpired(c, s) PROVE Ok
  BY <1>6 DEF ResumeExpired, IsExpired, ClockInv, ServesOwnSession, TypeOK
<1>7. ASSUME NEW c \in Connection, NEW p \in Process, StartProcess(c, p) \/ Terminate(c, p)
      PROVE  Ok
  BY <1>7, <1>3 DEF StartProcess, Terminate, registryVars, TypeOK
<1>8. ASSUME NEW c \in Connection,
             ShutdownExpired(c) \/ Spawned(c) \/ ClearSender(c) \/ SpawnFails(c)
             \/ DropShutdown(c) \/ DropSpawn(c) \/ TransportCloses(c) \/ LoopEnds(c)
      PROVE  Ok
  BY <1>8, <1>3 DEF ShutdownExpired, Spawned, ClearSender, SpawnFails, DropShutdown,
     DropSpawn, TransportCloses, LoopEnds, registryVars, processVars, TypeOK
<1>9. ASSUME NEW c \in Connection, Detach(c) PROVE Ok
  BY <1>9 DEF Detach, IsAttached, Released, ServesOwnSession, TypeOK
<1>10. ASSUME NEW s \in Session, NEW c \in Connection, ExpireIfDetached(s, c) PROVE Ok
  BY <1>10 DEF ExpireIfDetached, ExpiredFor, ServesOwnSession, TypeOK
<1>11. ASSUME NEW s \in Session, DeadlinePasses(s) PROVE Ok
  BY <1>11 DEF DeadlinePasses, ServesOwnSession, TypeOK
<1>12. ASSUME NEW s \in Session, NEW p \in Process,
              ShutdownDetached(s) \/ ProcessExits(s, p) \/ RemoveExited(s, p)
       PROVE  Ok
  BY <1>12, <1>3 DEF ShutdownDetached, ProcessExits, RemoveExited, registryVars
<1>13. ASSUME NEW s \in Session, ShutdownDetached(s) PROVE Ok
  BY <1>13, <1>3 DEF ShutdownDetached, registryVars
<1>14. CASE UNCHANGED vars
  BY <1>14, <1>3 DEF vars
<1> QED
  BY <1>4, <1>5, <1>6, <1>7, <1>8, <1>9, <1>10, <1>11, <1>12, <1>13, <1>14
  DEF Next, Serve, ServerStep

LEMMA Sends == Inv /\ [Next]_vars => SentToAttached'
<1> SUFFICES ASSUME Inv, [Next]_vars, NEW t \in Session, NEW d \in Connection,
                    sender'[t] = d
             PROVE  attachment'[t].current = d \/ (pc'[d] = "detached" /\ handle'[d] = t)
  BY DEF SentToAttached
<1> DEFINE Ok == attachment'[t].current = d \/ (pc'[d] = "detached" /\ handle'[d] = t)
<1>1. TypeOK /\ SentToAttached BY DEF Inv
<1> USE <1>1 DEF Goto
<1>2. ASSUME sender[t] = d, attachment'[t].current = attachment[t].current,
             pc[d] = "detached" => pc'[d] = "detached" /\ handle'[d] = handle[d]
      PROVE  Ok
  BY <1>2 DEF SentToAttached
<1>3. ASSUME NEW c \in Connection, NewSession(c) \/ \E s \in Session : Resume(c, s)
      PROVE  Ok
  <2>1. PICK s \in Session : pc[c] = "idle" /\ Attach(c, s)
    BY <1>3 DEF NewSession, Resume
  <2>2. CASE t = s
    BY <2>1, <2>2 DEF Attach, Attached, TypeOK
  <2>3. CASE t # s
    BY <2>1, <2>3, <1>2 DEF Attach, TypeOK
  <2> QED BY <2>2, <2>3
<1>4. ASSUME NEW c \in Connection,
             \/ \E s \in Session : ResumeExpired(c, s)
             \/ \E p \in Process : StartProcess(c, p) \/ Terminate(c, p)
      PROVE  Ok
  BY <1>4, <1>2 DEF ResumeExpired, StartProcess, Terminate, registryVars, TypeOK
<1>5. ASSUME NEW c \in Connection,
             ShutdownExpired(c) \/ Spawned(c) \/ SpawnFails(c)
             \/ DropShutdown(c) \/ DropSpawn(c) \/ TransportCloses(c) \/ LoopEnds(c)
      PROVE  Ok
  BY <1>5, <1>2 DEF ShutdownExpired, Spawned, SpawnFails, DropShutdown,
     DropSpawn, TransportCloses, LoopEnds, registryVars, TypeOK
<1>6. ASSUME NEW c \in Connection, Detach(c) PROVE Ok
  <2>1. CASE IsAttached(c)
    BY <2>1, <1>6 DEF Detach, IsAttached, Released, SentToAttached, TypeOK
  <2>2. CASE ~IsAttached(c)
    BY <2>2, <1>6, <1>2 DEF Detach, TypeOK
  <2> QED BY <2>1, <2>2
<1>7. ASSUME NEW c \in Connection, ClearSender(c) PROVE Ok
  <2>1. t # handle[c] /\ sender[t] = d
    BY <1>7 DEF ClearSender, SenderCleared, TypeOK
  <2>2. attachment[t].current = d \/ (d # c /\ pc[d] = "detached" /\ handle[d] = t)
    BY <2>1 DEF SentToAttached
  <2> QED BY <2>2, <1>7 DEF ClearSender, registryVars, TypeOK
<1>8. ASSUME NEW s \in Session, NEW c \in Connection, ExpireIfDetached(s, c) PROVE Ok
  BY <1>8, <1>2 DEF ExpireIfDetached
<1>9. ASSUME NEW s \in Session, DeadlinePasses(s) PROVE Ok
  BY <1>9, <1>2 DEF DeadlinePasses, TypeOK
<1>10. ASSUME NEW s \in Session,
              ShutdownDetached(s) \/ \E p \in Process : ProcessExits(s, p) \/ RemoveExited(s, p)
       PROVE  Ok
  BY <1>10, <1>2 DEF ShutdownDetached, ProcessExits, RemoveExited, registryVars
<1>11. CASE UNCHANGED vars
  BY <1>11, <1>2 DEF vars
<1> QED
  BY <1>3, <1>4, <1>5, <1>6, <1>7, <1>8, <1>9, <1>10, <1>11 DEF Next, Serve, ServerStep

-----------------------------------------------------------------------------
\* The processes of a session that is gone.

LEMMA Orphans == Inv /\ [Next]_vars => NoOrphans'
<1> SUFFICES ASSUME Inv, [Next]_vars, NEW t \in Session, t \in made' \ sessions',
                    NEW q \in Process, entry'[t][q] # "absent" \/ <<t, q>> \in alive'
             PROVE  Ending(t)' \/ t \in abandoned'
  BY Types DEF NoOrphans, TypeOK
<1> DEFINE Ok == Ending(t)' \/ t \in abandoned'
<1>1. TypeOK /\ AliveInv /\ ServesOwnSession /\ NoOrphans BY DEF Inv
<1> USE <1>1 DEF Goto, Ending
<1>2. ASSUME t \in made \ sessions,
             entry[t][q] # "absent" \/ <<t, q>> \in alive
      PROVE  Ending(t) \/ t \in abandoned
  BY <1>2 DEF NoOrphans
<1>3. ASSUME NEW c \in Connection, NewSession(c) PROVE Ok
  <2>1. t \in made \ sessions /\ UNCHANGED <<entry, alive, expiring, doomed, abandoned>>
    BY <1>3 DEF NewSession, processVars, timerVars
  <2> QED BY <2>1, <1>2
<1>4. ASSUME NEW c \in Connection, NEW s \in Session, Resume(c, s) PROVE Ok
  <2>1. UNCHANGED <<sessions, made, entry, alive, expiring, doomed, abandoned>>
    BY <1>4 DEF Resume, processVars, timerVars
  <2> QED BY <2>1, <1>2
<1>5. ASSUME NEW c \in Connection, NEW s \in Session, ResumeExpired(c, s) PROVE Ok
  <2>1. UNCHANGED <<made, entry, alive, expiring, abandoned>> /\ doomed[c] = None
    BY <1>5 DEF ResumeExpired, processVars, timerVars, TypeOK
  <2>2. CASE t = s BY <2>2, <1>5 DEF ResumeExpired, TypeOK
  <2>3. CASE t # s
    <3>1. Ending(t) \/ t \in abandoned BY <2>1, <2>3, <1>2, <1>5 DEF ResumeExpired
    <3> QED BY <3>1, <2>1, <1>5 DEF ResumeExpired, TypeOK
  <2> QED BY <2>2, <2>3
<1>6. ASSUME NEW c \in Connection,
             \/ \E p \in Process : StartProcess(c, p)
             \/ Spawned(c) \/ SpawnFails(c)
      PROVE  Ok
  <2>1. UNCHANGED <<sessions, made, expiring, doomed, abandoned>>
    BY <1>6 DEF StartProcess, Spawned, SpawnFails, registryVars, timerVars
  <2>2. handle[c] \in sessions
    BY <1>6 DEF StartProcess, Spawned, SpawnFails, ServesOwnSession, Working
  <2>3. t # handle[c] BY <2>1, <2>2
  <2>4. entry'[t] = entry[t] /\ (<<t, q>> \in alive' => <<t, q>> \in alive)
    BY <1>6, <2>3 DEF StartProcess, Spawned, SpawnFails, TypeOK
  <2> QED BY <2>1, <2>4, <1>2
<1>7. ASSUME NEW c \in Connection,
             \/ \E p \in Process : Terminate(c, p)
             \/ DropSpawn(c) \/ TransportCloses(c) \/ LoopEnds(c) \/ Detach(c) \/ ClearSender(c)
      PROVE  Ok
  <2>1. /\ UNCHANGED <<sessions, made, entry, expiring, doomed, abandoned>>
        /\ alive' \subseteq alive
    BY <1>7 DEF Terminate, DropSpawn, TransportCloses, LoopEnds, Detach, ClearSender,
       registryVars, processVars, timerVars
  <2> QED BY <2>1, <1>2
<1>8. ASSUME NEW s \in Session, Shutdown(s)
      PROVE  t # s /\ entry'[t] = entry[t] /\ (<<t, q>> \in alive' => <<t, q>> \in alive)
  <2>1. ASSUME t = s PROVE FALSE
    <3>1. entry'[t][q] = "absent" BY <2>1, <1>8 DEF Shutdown, TypeOK
    <3>2. <<t, q>> \in alive /\ entry[t][q] # "Running" BY <2>1, <1>8, <3>1 DEF Shutdown
    <3> QED BY <3>2 DEF AliveInv
  <2> QED BY <2>1, <1>8 DEF Shutdown, TypeOK
<1>9. ASSUME NEW c \in Connection, ShutdownExpired(c) PROVE Ok
  <2>1. doomed[c] \in Session /\ Shutdown(doomed[c])
    BY <1>9 DEF ShutdownExpired, TypeOK
  <2>2. UNCHANGED <<sessions, made, expiring, abandoned>>
    BY <1>9 DEF ShutdownExpired, registryVars, timerVars
  <2>3. t # doomed[c] /\ (Ending(t) \/ t \in abandoned) BY <2>1, <2>2, <1>8, <1>2
  <2> QED BY <2>2, <2>3, <1>9 DEF ShutdownExpired, TypeOK
<1>10. ASSUME NEW s \in Session, ShutdownDetached(s) PROVE Ok
  <2>1. Shutdown(s) /\ UNCHANGED <<sessions, made, doomed, abandoned>>
    BY <1>10 DEF ShutdownDetached, registryVars
  <2>2. t # s /\ (Ending(t) \/ t \in abandoned) BY <2>1, <1>8, <1>2
  <2> QED BY <2>1, <2>2, <1>10 DEF ShutdownDetached
<1>11. ASSUME NEW c \in Connection, DropShutdown(c) PROVE Ok
  <2>1. UNCHANGED <<sessions, made, entry, alive, expiring>>
    BY <1>11 DEF DropShutdown, registryVars, processVars, timerVars
  <2>2. Ending(t) \/ t \in abandoned BY <2>1, <1>2
  <2> QED BY <2>1, <2>2, <1>11 DEF DropShutdown, TypeOK
<1>12. ASSUME NEW s \in Session, NEW c \in Connection, ExpireIfDetached(s, c) PROVE Ok
  <2>1. UNCHANGED <<made, entry, alive, doomed, abandoned>>
    BY <1>12 DEF ExpireIfDetached, processVars
  <2>2. (sessions' = sessions /\ expiring' = expiring)
        \/ (sessions' = sessions \ {s} /\ expiring' = expiring \union {s})
    BY <1>12 DEF ExpireIfDetached
  <2> QED BY <2>1, <2>2, <1>2
<1>13. ASSUME NEW s \in Session,
              DeadlinePasses(s) \/ \E p \in Process : ProcessExits(s, p) \/ RemoveExited(s, p)
       PROVE  Ok
  <2>1. UNCHANGED <<sessions, made, expiring, doomed, abandoned>> /\ alive' \subseteq alive
    BY <1>13 DEF DeadlinePasses, ProcessExits, RemoveExited, registryVars, processVars,
       timerVars
  <2>2. entry'[t][q] # "absent" => entry[t][q] # "absent"
    <3>1. CASE UNCHANGED entry BY <3>1
    <3>2. ASSUME NEW p \in Process, RemoveExited(s, p)
          PROVE  entry'[t][q] # "absent" => entry[t][q] # "absent"
      <4>1. entry'[t][q] \in {entry[t][q], "absent"}
        BY <3>2 DEF RemoveExited, TypeOK
      <4> QED BY <4>1
    <3> QED BY <1>13, <3>1, <3>2 DEF DeadlinePasses, ProcessExits, processVars
  <2> QED BY <2>1, <2>2, <1>2
<1>14. CASE UNCHANGED vars
  BY <1>14, <1>2 DEF vars
<1> QED
  BY <1>3, <1>4, <1>5, <1>6, <1>7, <1>9, <1>10, <1>11, <1>12, <1>13, <1>14
  DEF Next, Serve, ServerStep

LEMMA StepInv == Inv /\ [Next]_vars => Inv'
  BY Types, Serves, Sends, Orphans DEF Inv

LEMMA Invariance == Spec => []Inv
  BY InitInv, StepInv, PTL DEF Spec

-----------------------------------------------------------------------------
\* Every reachable state is well typed: a connection past initialize has its
\* handle, and one that has removed an expired session knows which.
THEOREM TypeCorrect == Spec => []TypeOK
<1>1. Inv => TypeOK BY DEF Inv
<1> QED BY <1>1, Invariance, PTL

\* A serving connection is attached to a session of the registry, for any number
\* of connections that resume it and of expiry tasks that wake.
THEOREM AttachmentCorrect == Spec => []ServesOwnSession
<1>1. Inv => ServesOwnSession BY DEF Inv
<1> QED BY <1>1, Invariance, PTL

\* No connection that left a session behind is sent its notifications.
THEOREM SenderCorrect == Spec => []SentToAttached
<1>1. Inv => SentToAttached BY DEF Inv
<1> QED BY <1>1, Invariance, PTL

\* The processes of a removed session are about to be shut down, unless that
\* shutdown was dropped with a resuming connection.
THEOREM OrphanCorrect == Spec => []NoOrphans
<1>1. Inv => NoOrphans BY DEF Inv
<1> QED BY <1>1, Invariance, PTL

-----------------------------------------------------------------------------
\* The registry implements SessionLease.  Beside the invariant above this needs
\* to know who holds a handle, what was removed and which ids are reserved.

\* A session is attached to no connection but one that holds its handle.
HeldInv ==
  \A s \in Session : \A c \in Connection : attachment[s].current = c => handle[c] = s

\* Whatever somebody has removed, to shut it down, is in the registry no more.
GoneInv ==
  /\ expiring \subseteq made \ sessions
  /\ \A c \in Connection : doomed[c] # None => doomed[c] \in made \ sessions

\* The id of a process that is being started stays reserved.
StartingInv ==
  \A c \in Connection :
    pc[c] = "spawning" => entry[handle[c]][spawning[c]] = "Starting"

LeaseInv == HeldInv /\ GoneInv /\ StartingInv

LEMMA InitLeaseInv == Init => LeaseInv
  BY DEF Init, LeaseInv, HeldInv, GoneInv, StartingInv, NoAttachment

LEMMA StepHeld == Inv /\ HeldInv /\ [Next]_vars => HeldInv'
<1> SUFFICES ASSUME Inv, HeldInv, [Next]_vars PROVE HeldInv'
  OBVIOUS
<1>1. TypeOK BY DEF Inv
<1> USE <1>1 DEF Goto
<1>2. ASSUME UNCHANGED <<attachment, handle>> PROVE HeldInv'
  BY <1>2 DEF HeldInv
<1>3. ASSUME NEW c \in Connection, NEW s \in Session, pc[c] = "idle", Attach(c, s)
      PROVE  HeldInv'
  <2>1. handle[c] = None BY <1>3 DEF TypeOK
  <2>2. handle' = [handle EXCEPT ![c] = s] /\ handle[c] = None
    BY <1>3, <2>1 DEF Attach
  <2>3. attachment' = [attachment EXCEPT ![s] = Attached(s, c)] BY <1>3 DEF Attach
  <2> SUFFICES ASSUME NEW t \in Session, NEW d \in Connection, attachment'[t].current = d
               PROVE  handle'[d] = t
    BY DEF HeldInv
  <2>4. CASE t = s BY <2>2, <2>3, <2>4 DEF Attached, TypeOK
  <2>5. CASE t # s
    <3>1. handle[d] = t BY <2>3, <2>5 DEF HeldInv, TypeOK
    <3> QED BY <2>2, <3>1 DEF TypeOK
  <2> QED BY <2>4, <2>5
<1>4. ASSUME NEW c \in Connection, Serve(c) PROVE HeldInv'
  <2>1. CASE NewSession(c) BY <2>1, <1>3 DEF NewSession
  <2>2. ASSUME NEW s \in Session, Resume(c, s) PROVE HeldInv'
    BY <2>2, <1>3 DEF Resume
  <2>3. ASSUME NEW s \in Session, ResumeExpired(c, s) PROVE HeldInv'
    BY <2>3, <1>2 DEF ResumeExpired
  <2>4. ASSUME NEW p \in Process, StartProcess(c, p) \/ Terminate(c, p) PROVE HeldInv'
    BY <2>4, <1>2 DEF StartProcess, Terminate, registryVars
  <2> QED BY <2>1, <2>2, <2>3, <2>4, <1>4 DEF Serve
<1>5. ASSUME NEW c \in Connection,
             \/ ShutdownExpired(c) \/ Spawned(c) \/ ClearSender(c) \/ SpawnFails(c)
             \/ DropShutdown(c) \/ DropSpawn(c) \/ TransportCloses(c) \/ LoopEnds(c)
      PROVE  HeldInv'
  BY <1>5, <1>2 DEF ShutdownExpired, Spawned, ClearSender, SpawnFails, DropShutdown,
     DropSpawn, TransportCloses, LoopEnds, registryVars
<1>6. ASSUME NEW c \in Connection, Detach(c) PROVE HeldInv'
  BY <1>6 DEF Detach, IsAttached, Released, HeldInv, TypeOK
<1>7. ASSUME NEW s \in Session, DeadlinePasses(s) PROVE HeldInv'
  <2>1. \A t \in Session : attachment'[t].current = attachment[t].current
    BY <1>7 DEF DeadlinePasses, TypeOK
  <2> QED BY <1>7, <2>1 DEF DeadlinePasses, HeldInv
<1>8. ASSUME NEW s \in Session,
             \/ ShutdownDetached(s)
             \/ \E c \in Connection : ExpireIfDetached(s, c)
             \/ \E p \in Process : ProcessExits(s, p) \/ RemoveExited(s, p)
      PROVE  HeldInv'
  BY <1>8, <1>2 DEF ShutdownDetached, ExpireIfDetached, ProcessExits, RemoveExited,
     registryVars
<1>9. CASE UNCHANGED vars BY <1>9, <1>2 DEF vars
<1> QED BY <1>4, <1>5, <1>6, <1>7, <1>8, <1>9 DEF Next, ServerStep

LEMMA StepGone == Inv /\ GoneInv /\ [Next]_vars => GoneInv'
<1> SUFFICES ASSUME Inv, GoneInv, [Next]_vars PROVE GoneInv'
  OBVIOUS
<1>1. TypeOK BY DEF Inv
<1> USE <1>1
<1>2. ASSUME UNCHANGED <<made, sessions>>, expiring' \subseteq expiring,
             \A c \in Connection : doomed'[c] \in {doomed[c], None}
      PROVE  GoneInv'
  BY <1>2 DEF GoneInv
<1>3. ASSUME NEW c \in Connection, NewSession(c) PROVE GoneInv'
  <2>1. UNCHANGED <<expiring, doomed>> BY <1>3 DEF NewSession, timerVars
  <2>2. PICK s \in Session \ made : sessions' = sessions \union {s} /\ made' = made \union {s}
    BY <1>3 DEF NewSession
  <2> QED BY <2>1, <2>2 DEF GoneInv
<1>4. ASSUME NEW c \in Connection, NEW s \in Session, ResumeExpired(c, s) PROVE GoneInv'
  BY <1>4 DEF ResumeExpired, GoneInv, timerVars, TypeOK
<1>5. ASSUME NEW s \in Session, NEW c \in Connection, ExpireIfDetached(s, c) PROVE GoneInv'
  BY <1>5 DEF ExpireIfDetached, GoneInv, TypeOK
<1>6. ASSUME NEW c \in Connection,
             \/ \E s \in Session : Resume(c, s)
             \/ \E p \in Process : StartProcess(c, p) \/ Terminate(c, p)
             \/ Spawned(c) \/ Detach(c) \/ ClearSender(c)
             \/ SpawnFails(c) \/ DropSpawn(c) \/ TransportCloses(c) \/ LoopEnds(c)
      PROVE  GoneInv'
  BY <1>6, <1>2 DEF Resume, StartProcess, Terminate, Spawned, Detach, ClearSender,
     SpawnFails, DropSpawn, TransportCloses, LoopEnds, registryVars, timerVars
<1>7. ASSUME NEW c \in Connection, ShutdownExpired(c) \/ DropShutdown(c) PROVE GoneInv'
  BY <1>7, <1>2 DEF ShutdownExpired, DropShutdown, registryVars, timerVars, TypeOK
<1>8. ASSUME NEW s \in Session,
             \/ DeadlinePasses(s) \/ ShutdownDetached(s)
             \/ \E p \in Process : ProcessExits(s, p) \/ RemoveExited(s, p)
      PROVE  GoneInv'
  BY <1>8, <1>2 DEF DeadlinePasses, ShutdownDetached, ProcessExits, RemoveExited,
     registryVars, timerVars
<1>9. CASE UNCHANGED vars BY <1>9, <1>2 DEF vars
<1> QED BY <1>3, <1>4, <1>5, <1>6, <1>7, <1>8, <1>9 DEF Next, Serve, ServerStep

LEMMA StepStarting == Inv /\ GoneInv /\ StartingInv /\ [Next]_vars => StartingInv'
<1> SUFFICES ASSUME Inv, GoneInv, StartingInv, [Next]_vars,
                    NEW d \in Connection, pc'[d] = "spawning"
             PROVE  entry'[handle'[d]][spawning'[d]] = "Starting"
  BY DEF StartingInv
<1> DEFINE Ok == entry'[handle'[d]][spawning'[d]] = "Starting"
<1>1. TypeOK /\ ServesOwnSession BY DEF Inv
<1> USE <1>1 DEF Goto
<1>2. ASSUME pc[d] = "spawning", handle'[d] = handle[d], spawning'[d] = spawning[d],
             entry'[handle[d]] = entry[handle[d]]
      PROVE  Ok
  BY <1>2 DEF StartingInv
<1>3. ASSUME pc[d] = "spawning"
      PROVE  /\ handle[d] \in sessions /\ attachment[handle[d]].current = d
             /\ spawning[d] \in Process
             /\ entry[handle[d]][spawning[d]] = "Starting"
  BY <1>3 DEF ServesOwnSession, Working, StartingInv, TypeOK
<1>4. ASSUME NEW c \in Connection, NewSession(c) \/ \E s \in Session : Resume(c, s)
      PROVE  Ok
  BY <1>4, <1>2 DEF NewSession, Resume, Attach, processVars, TypeOK
<1>5. ASSUME NEW c \in Connection,
             \/ \E s \in Session : ResumeExpired(c, s)
             \/ \E p \in Process : Terminate(c, p)
             \/ DropShutdown(c) \/ DropSpawn(c) \/ TransportCloses(c) \/ LoopEnds(c)
             \/ Detach(c) \/ ClearSender(c)
      PROVE  Ok
  <2>1. UNCHANGED <<entry, handle>>
    BY <1>5 DEF ResumeExpired, Terminate, DropShutdown, DropSpawn, TransportCloses,
       LoopEnds, Detach, ClearSender, processVars
  <2>2. CASE \E s \in Session : ResumeExpired(c, s)
    BY <2>1, <2>2, <1>2 DEF ResumeExpired, processVars, TypeOK
  <2>3. CASE \E p \in Process : Terminate(c, p)
    BY <2>1, <2>3, <1>2 DEF Terminate
  <2>4. CASE DropSpawn(c)
    BY <2>1, <2>4, <1>2 DEF DropSpawn, TypeOK
  <2>5. CASE DropShutdown(c) \/ LoopEnds(c)
    BY <2>1, <2>5, <1>2 DEF DropShutdown, LoopEnds, processVars, TypeOK
  <2>6. CASE TransportCloses(c) \/ Detach(c) \/ ClearSender(c)
    BY <2>1, <2>6, <1>2 DEF TransportCloses, Detach, ClearSender, processVars, TypeOK
  <2> QED BY <2>2, <2>3, <2>4, <2>5, <2>6, <1>5
<1>6. ASSUME NEW c \in Connection, NEW p \in Process, StartProcess(c, p) PROVE Ok
  <2>1. UNCHANGED handle /\ handle[c] \in sessions /\ attachment[handle[c]].current = c
    BY <1>6 DEF StartProcess, ServesOwnSession, Working
  <2>2. CASE d = c BY <2>1, <2>2, <1>6 DEF StartProcess, TypeOK
  <2>3. CASE d # c
    <3>1. pc[d] = "spawning" BY <2>3, <1>6 DEF StartProcess, TypeOK
    <3>2. handle[d] # handle[c] BY <3>1, <2>3, <2>1, <1>3
    <3> QED BY <3>1, <3>2, <2>3, <1>6, <1>2 DEF StartProcess, TypeOK
  <2> QED BY <2>2, <2>3
<1>7. ASSUME NEW c \in Connection, Spawned(c) \/ SpawnFails(c) PROVE Ok
  <2>1. UNCHANGED handle /\ handle[c] \in sessions /\ attachment[handle[c]].current = c
    BY <1>7 DEF Spawned, SpawnFails, ServesOwnSession, Working
  <2>2. d # c /\ pc[d] = "spawning" BY <1>7 DEF Spawned, SpawnFails, TypeOK
  <2>3. handle[d] # handle[c] BY <2>1, <2>2, <1>3
  <2> QED BY <2>2, <2>3, <1>7, <1>2 DEF Spawned, SpawnFails, TypeOK
<1>8. ASSUME NEW c \in Connection, ShutdownExpired(c) PROVE Ok
  <2>1. d # c /\ pc[d] = "spawning" /\ UNCHANGED <<handle, spawning>>
    BY <1>8 DEF ShutdownExpired, TypeOK
  <2>2. doomed[c] \in made \ sessions BY <1>8 DEF ShutdownExpired, GoneInv, TypeOK
  <2>3. handle[d] # doomed[c] BY <2>1, <2>2, <1>3
  <2> QED BY <2>1, <2>3, <1>8, <1>2 DEF ShutdownExpired, Shutdown, TypeOK
<1>9. ASSUME NEW s \in Session, ShutdownDetached(s) PROVE Ok
  <2>1. pc[d] = "spawning" /\ UNCHANGED <<handle, spawning>>
    BY <1>9 DEF ShutdownDetached
  <2>2. handle[d] # s BY <2>1, <1>9, <1>3 DEF ShutdownDetached, GoneInv
  <2> QED BY <2>1, <2>2, <1>9, <1>2 DEF ShutdownDetached, Shutdown, TypeOK
<1>10. ASSUME NEW s \in Session, NEW p \in Process, RemoveExited(s, p) PROVE Ok
  <2>1. pc[d] = "spawning" /\ UNCHANGED <<handle, spawning>>
    BY <1>10 DEF RemoveExited
  <2>2. handle[d] # s \/ spawning[d] # p BY <2>1, <1>10, <1>3 DEF RemoveExited
  <2> QED BY <2>1, <2>2, <1>10, <1>3 DEF RemoveExited, TypeOK
<1>11. ASSUME NEW s \in Session,
              \/ DeadlinePasses(s)
              \/ \E c \in Connection : ExpireIfDetached(s, c)
              \/ \E p \in Process : ProcessExits(s, p)
       PROVE  Ok
  <2>1. UNCHANGED <<entry, pc, handle, spawning>>
    BY <1>11 DEF DeadlinePasses, ExpireIfDetached, ProcessExits, processVars
  <2> QED BY <2>1, <1>2
<1>12. CASE UNCHANGED vars BY <1>12, <1>2 DEF vars
<1> QED
  BY <1>4, <1>5, <1>6, <1>7, <1>8, <1>9, <1>10, <1>11, <1>12 DEF Next, Serve, ServerStep

LEMMA LeaseInvariance == Spec => [](Inv /\ LeaseInv)
<1>1. Inv /\ LeaseInv /\ [Next]_vars => LeaseInv'
  BY StepHeld, StepGone, StepStarting DEF LeaseInv
<1> QED BY <1>1, InitLeaseInv, Invariance, PTL DEF Spec

LEMMA LeaseInit == Init => Lease!Init
  BY DEF Init, Lease!Init, LeaseStage, LeaseHolder

\* A function that differs at one place only is an update of that place.
LEMMA UpdateAtOnePlace ==
  ASSUME NEW S, NEW s \in S, NEW f, NEW g, f = [x \in S |-> f[x]], g = [x \in S |-> g[x]],
         \A t \in S \ {s} : g[t] = f[t]
  PROVE  g = [f EXCEPT ![s] = g[s]] /\ (g[s] = f[s] => g = f)
  OBVIOUS

\* The stage and the holder of a session depend on what the registry says of it.
LEMMA LeaseChange ==
  ASSUME NEW s \in Session,
         \A t \in Session \ {s} : /\ t \in made' <=> t \in made
                                  /\ t \in sessions' <=> t \in sessions
                                  /\ attachment'[t] = attachment[t]
  PROVE  /\ LeaseStage' = [LeaseStage EXCEPT ![s] = LeaseStage'[s]]
         /\ LeaseHolder' = [LeaseHolder EXCEPT ![s] = LeaseHolder'[s]]
         /\ LeaseStage'[s] = LeaseStage[s] => LeaseStage' = LeaseStage
         /\ LeaseHolder'[s] = LeaseHolder[s] => LeaseHolder' = LeaseHolder
<1>1. \A t \in Session \ {s} :
        LeaseStage'[t] = LeaseStage[t] /\ LeaseHolder'[t] = LeaseHolder[t]
  BY DEF LeaseStage, LeaseHolder, HasActiveConnection, IsExpired
<1>2. /\ LeaseStage = [t \in Session |-> LeaseStage[t]]
      /\ LeaseStage' = [t \in Session |-> LeaseStage'[t]]
  BY DEF LeaseStage
<1>3. /\ LeaseHolder = [t \in Session |-> LeaseHolder[t]]
      /\ LeaseHolder' = [t \in Session |-> LeaseHolder'[t]]
  BY DEF LeaseHolder
<1>4. /\ LeaseStage' = [LeaseStage EXCEPT ![s] = LeaseStage'[s]]
      /\ LeaseStage'[s] = LeaseStage[s] => LeaseStage' = LeaseStage
  BY <1>1, <1>2, UpdateAtOnePlace
<1>5. /\ LeaseHolder' = [LeaseHolder EXCEPT ![s] = LeaseHolder'[s]]
      /\ LeaseHolder'[s] = LeaseHolder[s] => LeaseHolder' = LeaseHolder
  BY <1>1, <1>3, UpdateAtOnePlace
<1> QED BY <1>4, <1>5

LEMMA LeaseStays ==
  ASSUME UNCHANGED registryVars
  PROVE  UNCHANGED <<LeaseStage, LeaseHolder>>
  BY DEF registryVars, LeaseStage, LeaseHolder, HasActiveConnection, IsExpired

LEMMA LeaseStops ==
  ASSUME UNCHANGED registryVars, alive' \subseteq alive
  PROVE  Lease!Next
  BY LeaseStays DEF Lease!Next, Lease!Stop

\* A connection that attaches takes the lease.
LEMMA LeaseTaken ==
  ASSUME Inv, LeaseInv, NEW c \in Connection,
         NewSession(c) \/ \E s \in Session : Resume(c, s)
  PROVE  Lease!Next
<1>1. TypeOK /\ HeldInv BY DEF Inv, LeaseInv
<1>2. PICK s \in Session : /\ pc[c] = "idle" /\ Attach(c, s)
                           /\ LeaseStage[s] \in {"new", "free"}
                           /\ made' = made \union {s} /\ sessions' = sessions \union {s}
                           /\ UNCHANGED alive
  <2>1. CASE NewSession(c)
    BY <2>1 DEF NewSession, LeaseStage, processVars
  <2>2. ASSUME NEW s \in Session, Resume(c, s)
        PROVE  LeaseStage[s] = "free" /\ made' = made \union {s} /\ sessions' = sessions \union {s}
    BY <2>2, <1>1 DEF Resume, MayResume, LeaseStage, TypeOK
  <2> QED BY <2>1, <2>2 DEF Resume, processVars
<1>3. \A t \in Session : LeaseHolder[t] # c
  BY <1>1, <1>2 DEF LeaseHolder, HeldInv, TypeOK
<1>4. attachment' = [attachment EXCEPT ![s] = Attached(s, c)] BY <1>2 DEF Attach
<1>5. LeaseStage'[s] = "held" /\ LeaseHolder'[s] = c
  BY <1>1, <1>2, <1>4 DEF LeaseStage, LeaseHolder, HasActiveConnection, Attached, TypeOK
<1>6. \A t \in Session \ {s} : attachment'[t] = attachment[t] BY <1>1, <1>4 DEF TypeOK
<1>7. Lease!Take(s, c)
  BY <1>2, <1>3, <1>5, <1>6, LeaseChange DEF Lease!Take
<1> QED BY <1>7 DEF Lease!Next

\* A detach lets the lease go, unless the session has ended or is another's.
LEMMA LeaseReleased ==
  ASSUME Inv, LeaseInv, NEW c \in Connection, Detach(c)
  PROVE  [Lease!Next]_Lease!leaseVars
<1>1. TypeOK BY DEF Inv
<1>2. CASE ~IsAttached(c)
  BY <1>2, LeaseStays DEF Detach, registryVars, processVars, Lease!leaseVars
<1>3. CASE IsAttached(c)
  <2> DEFINE s == handle[c]
  <2>1. s \in Session /\ attachment[s].current = c BY <1>1, <1>3 DEF IsAttached, TypeOK
  <2>2. /\ attachment' = [attachment EXCEPT ![s] = Released(c)]
        /\ UNCHANGED <<made, sessions, alive>>
    BY <1>3 DEF Detach, processVars
  <2>3. \A t \in Session \ {s} : attachment'[t] = attachment[t] BY <1>1, <2>2 DEF TypeOK
  <2>4. attachment'[s] = Released(c) BY <1>1, <2>1, <2>2 DEF TypeOK
  <2> HIDE DEF s
  <2>5. CASE s \in sessions
    <3>1. LeaseStage[s] = "held"
      BY <1>1, <2>1, <2>5 DEF LeaseStage, HasActiveConnection, TypeOK
    <3>2. LeaseStage'[s] = "free" /\ LeaseHolder'[s] = None
      BY <1>1, <2>1, <2>2, <2>4, <2>5 DEF LeaseStage, LeaseHolder, HasActiveConnection,
         IsExpired, Released, TypeOK
    <3>3. Lease!LetGo(s) BY <2>1, <2>2, <2>3, <3>1, <3>2, LeaseChange DEF Lease!LetGo
    <3> QED BY <2>1, <3>3 DEF Lease!Next
  <2>6. CASE s \notin sessions
    <3>1. LeaseStage'[s] = LeaseStage[s] /\ LeaseHolder'[s] = LeaseHolder[s]
      BY <2>1, <2>2, <2>6 DEF LeaseStage, LeaseHolder
    <3>2. UNCHANGED <<LeaseStage, LeaseHolder>>
      BY <2>1, <2>2, <2>3, <3>1, LeaseChange
    <3> QED BY <2>2, <3>2 DEF Lease!leaseVars
  <2> QED BY <2>5, <2>6
<1> QED BY <1>2, <1>3

\* The deadline passes for a session that is waiting, or that has ended.
LEMMA LeaseLapses ==
  ASSUME Inv, NEW s \in Session, DeadlinePasses(s)
  PROVE  [Lease!Next]_Lease!leaseVars
<1>1. TypeOK /\ ClockInv BY DEF Inv
<1>2. /\ attachment[s].expires = "later" /\ attachment[s].current = None
      /\ attachment' = [attachment EXCEPT ![s].expires = "past"]
      /\ UNCHANGED <<made, sessions, alive>>
  BY <1>1 DEF DeadlinePasses, ClockInv, processVars
<1>3. /\ \A t \in Session \ {s} : attachment'[t] = attachment[t]
      /\ attachment'[s].current = None /\ attachment'[s].expires = "past"
  BY <1>1, <1>2 DEF TypeOK
<1>4. LeaseHolder' = LeaseHolder
  BY <1>2, <1>3 DEF LeaseHolder
<1>5. CASE s \in sessions
  <2>1. LeaseStage[s] = "free" /\ LeaseStage'[s] = "over"
    BY <1>1, <1>2, <1>3, <1>5 DEF LeaseStage, HasActiveConnection, IsExpired, TypeOK
  <2>2. Lease!Pass(s, "free", "over")
    BY <1>2, <1>3, <1>4, <2>1, LeaseChange DEF Lease!Pass
  <2> QED BY <2>2 DEF Lease!Next
<1>6. CASE s \notin sessions
  <2>1. LeaseStage'[s] = LeaseStage[s] BY <1>2, <1>6 DEF LeaseStage
  <2>2. LeaseStage' = LeaseStage BY <1>2, <1>3, <2>1, LeaseChange
  <2> QED BY <1>2, <1>4, <2>2 DEF Lease!leaseVars
<1> QED BY <1>5, <1>6

\* A removal, by a late resume or by an expiry task, ends a lease that is over.
LEMMA LeaseEnds ==
  ASSUME Inv, NEW s \in Session,
         s \in sessions, IsExpired(s), sessions' = sessions \ {s},
         UNCHANGED <<made, attachment, alive>>
  PROVE  Lease!Next
<1>1. TypeOK /\ attachment[s].current = None BY DEF Inv, ClockInv, IsExpired
<1>2. LeaseStage[s] = "over" /\ LeaseStage'[s] = "ended"
  BY <1>1 DEF LeaseStage, HasActiveConnection, TypeOK
<1>3. LeaseHolder' = LeaseHolder BY <1>1 DEF LeaseHolder
<1>4. Lease!Pass(s, "over", "ended")
  BY <1>2, <1>3, LeaseChange DEF Lease!Pass
<1> QED BY <1>4 DEF Lease!Next

\* A process starts in the session that its connection holds.
LEMMA LeaseStarts ==
  ASSUME Inv, LeaseInv, NEW c \in Connection, Spawned(c)
  PROVE  Lease!Next
<1>1. TypeOK /\ AliveInv /\ ServesOwnSession /\ StartingInv BY DEF Inv, LeaseInv
<1> DEFINE s == handle[c]
           p == spawning[c]
<1>2. s \in sessions /\ attachment[s].current = c /\ p \in Process /\ s \in Session
  BY <1>1 DEF Spawned, ServesOwnSession, Working, TypeOK
<1>3. alive' = alive \union {<<s, p>>} /\ UNCHANGED registryVars BY DEF Spawned
<1>4. entry[s][p] = "Starting" BY <1>1 DEF StartingInv, Spawned
<1> HIDE DEF s, p
<1>5. LeaseStage[s] = "held"
  BY <1>1, <1>2 DEF LeaseStage, HasActiveConnection, TypeOK
<1>6. <<s, p>> \notin alive BY <1>1, <1>2, <1>4 DEF AliveInv
<1>7. Lease!Start(s, p) BY <1>3, <1>5, <1>6, LeaseStays DEF Lease!Start
<1> QED BY <1>2, <1>7 DEF Lease!Next

LEMMA LeaseStep == Inv /\ LeaseInv /\ [Next]_vars => [Lease!Next]_Lease!leaseVars
<1> SUFFICES ASSUME Inv, LeaseInv, [Next]_vars PROVE [Lease!Next]_Lease!leaseVars
  OBVIOUS
<1>1. ASSUME NEW c \in Connection, NEW s \in Session, ResumeExpired(c, s)
      PROVE  Lease!Next
  BY <1>1, LeaseEnds DEF ResumeExpired, processVars
<1>2. ASSUME NEW c \in Connection,
             \/ \E p \in Process : StartProcess(c, p) \/ Terminate(c, p)
             \/ ShutdownExpired(c) \/ ClearSender(c) \/ SpawnFails(c) \/ DropShutdown(c)
             \/ DropSpawn(c) \/ TransportCloses(c) \/ LoopEnds(c)
      PROVE  Lease!Next
  BY <1>2, LeaseStops DEF StartProcess, Terminate, ShutdownExpired, Shutdown, ClearSender,
     SpawnFails, DropShutdown, DropSpawn, TransportCloses, LoopEnds, processVars
<1>3. ASSUME NEW s \in Session, NEW c \in Connection, ExpireIfDetached(s, c)
      PROVE  Lease!Next
  <2>1. UNCHANGED <<made, attachment, alive>> BY <1>3 DEF ExpireIfDetached, processVars
  <2>2. CASE s \in sessions /\ ExpiredFor(s, c)
    BY <2>1, <2>2, <1>3, LeaseEnds DEF ExpireIfDetached, ExpiredFor
  <2>3. CASE ~(s \in sessions /\ ExpiredFor(s, c))
    BY <2>1, <2>3, <1>3, LeaseStops DEF ExpireIfDetached, registryVars
  <2> QED BY <2>2, <2>3
<1>4. ASSUME NEW s \in Session,
             ShutdownDetached(s) \/ \E p \in Process : ProcessExits(s, p) \/ RemoveExited(s, p)
      PROVE  Lease!Next
  BY <1>4, LeaseStops DEF ShutdownDetached, Shutdown, ProcessExits, RemoveExited
<1>5. CASE UNCHANGED vars
  BY <1>5, LeaseStays DEF vars, registryVars, Lease!leaseVars
<1> QED
  BY <1>1, <1>2, <1>3, <1>4, <1>5, LeaseTaken, LeaseReleased, LeaseLapses, LeaseStarts
  DEF Next, Serve, ServerStep

\* Attaching, detaching and the two ways of removal implement the lease: one
\* holder at a time, no end before the time is over, none taken up after it.
THEOREM LeaseRefinement == Spec => ImplementsSessionLease
  BY LeaseInit, LeaseStep, LeaseInvariance, PTL
     DEF Spec, ImplementsSessionLease, Lease!Spec
-----------------------------------------------------------------------------
\* The safety half of DetachedSessionEnds: a session that nobody is attached to
\* has its clock running, and the timer of its last detach sleeps or is about to
\* be spawned.  Earlier timers that wake, and resumes, leave it its own.
Timed(s, c) ==
  /\ attachment[s].detached = c /\ attachment[s].expires # "never"
  /\ <<s, c>> \in timers \/ (pc[c] = "detached" /\ handle[c] = s)
DetachedIsTimed ==
  \A s \in sessions : attachment[s].current = None => \E c \in Connection : Timed(s, c)

LEMMA StepTimed == Inv /\ DetachedIsTimed /\ [Next]_vars => DetachedIsTimed'
<1> SUFFICES ASSUME Inv, DetachedIsTimed, [Next]_vars,
                    NEW t \in sessions', attachment'[t].current = None
             PROVE  \E d \in Connection : Timed(t, d)'
  BY DEF DetachedIsTimed
<1> DEFINE Ok == \E d \in Connection : Timed(t, d)'
<1>1. TypeOK /\ ClockInv /\ t \in Session BY Types DEF Inv, TypeOK
<1> USE <1>1 DEF Goto
<1>2. ASSUME t \in sessions, attachment[t].current = None,
             attachment'[t].detached = attachment[t].detached,
             attachment[t].expires # "never" => attachment'[t].expires # "never",
             timers \subseteq timers',
             \A d \in Connection :
               pc[d] = "detached" /\ handle[d] = t =>
                 (pc'[d] = "detached" /\ handle'[d] = t) \/ <<t, d>> \in timers'
      PROVE  Ok
  BY <1>2 DEF DetachedIsTimed, Timed
<1>3. ASSUME NEW c \in Connection, NewSession(c) \/ \E s \in Session : Resume(c, s)
      PROVE  Ok
  <2>1. PICK s \in Session : /\ pc[c] = "idle" /\ Attach(c, s)
                             /\ sessions' = sessions \union {s}
    BY <1>3 DEF NewSession, Resume
  <2>2. t # s BY <2>1 DEF Attach, Attached, TypeOK
  <2>3. t \in sessions /\ attachment'[t] = attachment[t]
    BY <2>1, <2>2 DEF Attach, TypeOK
  <2>4. timers' = timers BY <1>3 DEF NewSession, Resume, timerVars
  <2>5. \A d \in Connection : pc[d] = "detached" => pc'[d] = pc[d] /\ handle'[d] = handle[d]
    BY <2>1 DEF Attach, TypeOK
  <2> QED BY <2>3, <2>4, <2>5, <1>2
<1>4. ASSUME NEW c \in Connection,
             \/ \E s \in Session : ResumeExpired(c, s)
             \/ \E p \in Process : StartProcess(c, p) \/ Terminate(c, p)
             \/ ShutdownExpired(c) \/ Spawned(c) \/ SpawnFails(c)
             \/ DropShutdown(c) \/ DropSpawn(c) \/ TransportCloses(c) \/ LoopEnds(c)
      PROVE  Ok
  <2>1. UNCHANGED <<attachment, handle, timers>> /\ sessions' \subseteq sessions
    BY <1>4 DEF ResumeExpired, StartProcess, Terminate, ShutdownExpired, Spawned, SpawnFails,
       DropShutdown, DropSpawn, TransportCloses, LoopEnds, registryVars, timerVars
  <2>2. \A d \in Connection : pc[d] = "detached" => pc'[d] = "detached"
    <3>1. CASE TransportCloses(c) \/ \E p \in Process : Terminate(c, p)
      BY <3>1 DEF TransportCloses, Terminate
    <3>2. CASE \/ \E s \in Session : ResumeExpired(c, s)
               \/ \E p \in Process : StartProcess(c, p)
               \/ ShutdownExpired(c) \/ Spawned(c) \/ SpawnFails(c)
               \/ DropShutdown(c) \/ DropSpawn(c) \/ LoopEnds(c)
      <4>1. pc[c] # "detached"
        BY <3>2 DEF ResumeExpired, StartProcess, ShutdownExpired, Spawned, SpawnFails,
           DropShutdown, DropSpawn, LoopEnds
      <4>2. PICK l \in {"expired", "spawning", "idle", "serving", "closing"} :
              pc' = [pc EXCEPT ![c] = l]
        BY <3>2 DEF ResumeExpired, StartProcess, ShutdownExpired, Spawned, SpawnFails,
           DropShutdown, DropSpawn, LoopEnds, Goto
      <4> QED BY <4>1, <4>2 DEF TypeOK
    <3> QED BY <1>4, <3>1, <3>2
  <2> QED BY <2>1, <2>2, <1>2
<1>5. ASSUME NEW c \in Connection, Detach(c) PROVE Ok
  <2>1. UNCHANGED <<sessions, handle, timers>> /\ pc[c] = "closing"
    BY <1>5 DEF Detach, timerVars
  <2>2. \A d \in Connection : pc[d] = "detached" => pc'[d] = "detached"
    BY <1>5 DEF Detach, TypeOK
  <2>3. CASE ~IsAttached(c) BY <2>1, <2>2, <2>3, <1>5, <1>2 DEF Detach
  <2>4. CASE IsAttached(c) /\ t # handle[c]
    <3>1. attachment'[t] = attachment[t] BY <2>4, <1>5 DEF Detach, TypeOK
    <3> QED BY <2>1, <2>2, <3>1, <1>2
  <2>5. CASE IsAttached(c) /\ t = handle[c]
    <3>1. attachment'[t] = Released(c) BY <2>5, <1>5 DEF Detach, TypeOK
    <3>2. pc'[c] = "detached" BY <2>5, <1>5 DEF Detach, TypeOK
    <3>3. Timed(t, c)' BY <2>1, <2>5, <3>1, <3>2 DEF Timed, Released
    <3> QED BY <3>3
  <2> QED BY <2>3, <2>4, <2>5
<1>6. ASSUME NEW c \in Connection, ClearSender(c) PROVE Ok
  <2>1. UNCHANGED <<sessions, attachment, handle>> /\ timers' = timers \union {<<handle[c], c>>}
    BY <1>6 DEF ClearSender, registryVars
  <2>2. \A d \in Connection : d # c => pc'[d] = pc[d] BY <1>6 DEF ClearSender, TypeOK
  <2> QED BY <2>1, <2>2, <1>2
<1>7. ASSUME NEW s \in Session, DeadlinePasses(s) PROVE Ok
  <2>1. UNCHANGED <<sessions, pc, handle, timers>>
    BY <1>7 DEF DeadlinePasses, timerVars
  <2>2. /\ attachment'[t].current = attachment[t].current
        /\ attachment'[t].detached = attachment[t].detached
        /\ attachment'[t].expires \in {attachment[t].expires, "past"}
    BY <1>7 DEF DeadlinePasses, TypeOK
  <2> QED BY <2>1, <2>2, <1>2
<1>8. ASSUME NEW s \in Session, NEW c \in Connection, ExpireIfDetached(s, c) PROVE Ok
  <2>1. /\ UNCHANGED <<attachment, pc, handle>> /\ sessions' \subseteq sessions
        /\ timers' = timers \ {<<s, c>>}
    BY <1>8 DEF ExpireIfDetached
  <2>2. PICK d \in Connection : Timed(t, d) BY <2>1 DEF DetachedIsTimed
  <2>3. ASSUME <<t, d>> = <<s, c>> PROVE FALSE
    <3>1. ExpiredFor(s, c)
      BY <2>1, <2>2, <2>3, <1>8 DEF Timed, ExpireIfDetached, Slept, ExpiredFor
    <3> QED BY <2>3, <3>1, <1>8 DEF ExpireIfDetached
  <2> QED BY <2>1, <2>2, <2>3 DEF Timed
<1>9. ASSUME NEW s \in Session,
             ShutdownDetached(s) \/ \E p \in Process : ProcessExits(s, p) \/ RemoveExited(s, p)
      PROVE  Ok
  <2>1. UNCHANGED <<sessions, attachment, pc, handle, timers>>
    BY <1>9 DEF ShutdownDetached, ProcessExits, RemoveExited, registryVars, timerVars
  <2> QED BY <2>1, <1>2
<1>10. CASE UNCHANGED vars BY <1>10, <1>2 DEF vars
<1> QED
  BY <1>3, <1>4, <1>5, <1>6, <1>7, <1>8, <1>9, <1>10 DEF Next, Serve, ServerStep

\* No detached session is forgotten: the task that will remove it, unless somebody
\* resumes it first, is there from the moment of the detach.
THEOREM TimerCorrect == Spec => []DetachedIsTimed
<1>1. Init => DetachedIsTimed BY DEF Init, DetachedIsTimed
<1>2. Inv /\ DetachedIsTimed /\ [Next]_vars => DetachedIsTimed' BY StepTimed
<1> QED BY <1>1, <1>2, Invariance, PTL DEF Spec
=============================================================================
