------------------------ MODULE TurnLifecycle_proofs -------------------------
(***************************************************************************)
(* Theorems about TurnLifecycle: its types, and the invariant that keeps   *)
(* the active turn, the actors that abort it and the tasks that finish     *)
(* consistent whatever they interleave; then who owes the end of a turn,   *)
(* who holds the permit of the goal continuation, and who will notice the  *)
(* mail that asks for a turn.                                              *)
(***************************************************************************)
EXTENDS TurnLifecycle, TLAPS

\* How long a prover may take for a step, in seconds.
USE SMTT(20), ZenonT(20)

LEMMA ShellFacts ==
  /\ NoShell \notin Shell
  /\ \A t \in Turn : \A at \in {"reserve", "bind", "launch"} : NewShell(t, at) \in Shell
  BY ConstantsAssumption DEF Shell, NoShell, NewShell

LEMMA NextTurnFresh ==
  used \subseteq Turn /\ CanStart => NextTurn \in Turn /\ NextTurn \notin used
  BY DEF CanStart, NextTurn

LEMMA RestPlace ==
  \A a \in Actor : /\ Rest(a) \in {"idle", "gone"}
                   /\ AfterPendingWork(a) \in {"gc_lock", "idle", "gone"}
  BY DEF Rest, AfterPendingWork

-----------------------------------------------------------------------------
(* Types. *)

LEMMA InitTypeOK == Init => TypeOK
<1> SUFFICES ASSUME Init PROVE TypeOK
  OBVIOUS
<1>1. goalActive \in BOOLEAN
  BY DEF Init
<1>2. pc \in [Actor -> {"idle", "unused"}]
  BY DEF Init
<1>3. /\ tools \in [Turn -> 0..MaxTools] /\ interrupts \in 0..MaxInterrupts
      /\ permit \in Actor \union {NoActor}
  BY ConstantsAssumption DEF Init
<1> QED
  BY <1>1, <1>2, <1>3 DEF Init, TypeOK, HoldsTurn, HoldsShell, Locations, Running,
     Closers, Tail, Reservers, Starters

\* start_task.
LEMMA StartTypeOK ==
  ASSUME TypeOK, NEW a \in Actor, Start(a) PROVE TypeOK'
<1> USE ConstantsAssumption DEF TypeOK, Goto, turnVars, queueVars, startVars, goalVars, taskVars, abortVars,
            eventVars, userVars, Actor, Item, HoldsTurn, HoldsShell, Locations, Running,
            Closers, Tail, Reservers, Starters
<1>1. CASE StartQueued(a)
  BY <1>1 DEF StartQueued
<1>2. CASE StartPending(a)
  BY <1>2 DEF StartPending, TakePending, AcceptsMail, IsActive
<1>3. CASE StartMail(a)
  BY <1>3 DEF StartMail, TakeMail
<1>4. CASE StartBind(a)
  BY <1>4, ShellFacts DEF StartBind, GetOrInsert, IsActive
<1>5. CASE StartExtend(a)
  BY <1>5 DEF StartExtend
<1>6. CASE StartLaunch(a)
  <2>1. starting[a] \in Turn /\ active' \in Shell
    BY <1>6, ShellFacts DEF StartLaunch, GetOrInsert, IsActive
  <2>2. /\ tasks' \in [Shell -> SUBSET Turn] /\ permit' \in Actor \union {NoActor}
        /\ UNCHANGED <<pending, phase, waiters, queueVars, carried, goalActive, taskVars,
                       abortVars, eventVars, userVars>>
    BY <1>6, <2>1 DEF StartLaunch
  <2>3. PICK l \in {"idle", "gone", "gc_lock"}, m \in {"compact", "prewarm"} :
          pc' = [pc EXCEPT ![starting[a]] = m, ![a] = l]
    BY <1>6, RestPlace DEF StartLaunch
  <2>4. /\ starting' = [starting EXCEPT ![a] = NoTurn]
        /\ shell' = [shell EXCEPT ![a] = NoShell]
    BY <1>6 DEF StartLaunch
  <2> QED BY <2>1, <2>2, <2>3, <2>4
<1> QED
  BY <1>1, <1>2, <1>3, <1>4, <1>5, <1>6 DEF Start

\* Pending work and the goal continuation.
LEMMA ContinueTypeOK ==
  ASSUME TypeOK, NEW a \in Actor, Continue(a) PROVE TypeOK'
<1> USE ConstantsAssumption DEF TypeOK, Goto, turnVars, queueVars, startVars, goalVars, taskVars, abortVars,
            eventVars, userVars, Actor, Item, HoldsTurn, HoldsShell, Locations, Running,
            Closers, Tail, Reservers, Starters
<1>1. CASE WorkCheck(a)
  BY <1>1, RestPlace DEF WorkCheck
<1>2. CASE WorkReserve(a)
  <2>1. /\ UNCHANGED <<tasks, pending, phase, waiters, queueVars, carried, goalVars,
                       taskVars, abortVars, eventVars, sent, steered, interrupts>>
        /\ pc[a] = "ms_reserve"
    BY <1>2 DEF WorkReserve
  <2>2. CASE Reserve(a, "st_queued")
    <3>1. PICK t \in Turn : /\ active' = NewShell(t, "reserve") /\ used' = used \union {t}
                            /\ starting' = [starting EXCEPT ![a] = t]
      BY <2>2, NextTurnFresh DEF Reserve
    <3>2. active' \in Shell
      BY <3>1, ShellFacts
    <3>3. shell' = [shell EXCEPT ![a] = active'] /\ pc' = [pc EXCEPT ![a] = "st_queued"]
      BY <2>2 DEF Reserve
    <3> QED BY <2>1, <3>1, <3>2, <3>3
  <2>3. CASE IsActive /\ Goto(a, AfterPendingWork(a)) /\ UNCHANGED <<active, used, starting, shell>>
    BY <2>1, <2>3, RestPlace
  <2> QED BY <1>2, <2>2, <2>3 DEF WorkReserve
<1>3. CASE GoalLock(a)
  BY <1>3 DEF GoalLock
<1>4. CASE GoalCheck(a)
  <2>1. CASE Candidate
    BY <1>4, <2>1 DEF GoalCheck
  <2>2. CASE ~Candidate
    BY <1>4, <2>2, RestPlace DEF GoalCheck, GiveUp
  <2> QED BY <2>1, <2>2
<1>5. CASE GoalReserve(a)
  <2>1. /\ UNCHANGED <<tasks, pending, phase, waiters, queueVars, carried, goalActive,
                       taskVars, abortVars, eventVars, sent, steered, interrupts>>
        /\ pc[a] = "gc_reserve"
    BY <1>5 DEF GoalReserve
  <2>2. CASE Reserve(a, "gc_reread") /\ UNCHANGED permit
    <3>1. PICK t \in Turn : /\ active' = NewShell(t, "reserve") /\ used' = used \union {t}
                            /\ starting' = [starting EXCEPT ![a] = t]
      BY <2>2, NextTurnFresh DEF Reserve
    <3>2. active' \in Shell
      BY <3>1, ShellFacts
    <3>3. shell' = [shell EXCEPT ![a] = active'] /\ pc' = [pc EXCEPT ![a] = "gc_reread"]
      BY <2>2 DEF Reserve
    <3> QED BY <2>1, <2>2, <3>1, <3>2, <3>3
  <2>3. CASE IsActive /\ GiveUp(a) /\ UNCHANGED <<active, used, starting, shell>>
    BY <2>1, <2>3, RestPlace DEF GiveUp
  <2> QED BY <1>5, <2>2, <2>3 DEF GoalReserve
<1>6. CASE GoalStale(a)
  BY <1>6, RestPlace DEF GoalStale, GiveBack, GiveUp, StillReserved
<1>7. CASE GoalCurrent(a)
  BY <1>7 DEF GoalCurrent
<1>8. CASE GoalStill(a)
  <2>1. CASE StillReserved(a)
    BY <1>8, <2>1 DEF GoalStill
  <2>2. CASE ~StillReserved(a)
    <3>1. PICK l \in {"idle", "gone"} :
            permit' = NoActor /\ pc' = [pc EXCEPT ![a] = l]
      BY <1>8, <2>2, RestPlace DEF GoalStill, GiveUp
    <3>2. /\ starting' = [starting EXCEPT ![a] = NoTurn]
          /\ shell' = [shell EXCEPT ![a] = NoShell]
          /\ UNCHANGED <<turnVars, queueVars, carried, goalActive, taskVars, abortVars,
                         eventVars, userVars>>
      BY <1>8, <2>2 DEF GoalStill
    <3> QED BY <3>1, <3>2
  <2> QED BY <2>1, <2>2
<1> QED
  BY <1>1, <1>2, <1>3, <1>4, <1>5, <1>6, <1>7, <1>8 DEF Continue

\* A task while it runs.
LEMMA RunTypeOK ==
  ASSUME TypeOK, NEW t \in Turn, Run(t) PROVE TypeOK'
<1> USE ConstantsAssumption DEF TypeOK, Goto, turnVars, queueVars, startVars, goalVars, taskVars, abortVars,
            eventVars, userVars, Actor, Item, HoldsTurn, HoldsShell, Locations, Running,
            Closers, Tail, Reservers, Starters
<1>1. CASE Prewarm(t)
  BY <1>1 DEF Prewarm
<1>2. CASE RunCompact(t)
  BY <1>2 DEF RunCompact
<1>3. CASE Begin(t)
  BY <1>3 DEF Begin
<1>4. CASE EarlyReturn(t)
  BY <1>4 DEF EarlyReturn
<1>5. CASE DrainPending(t)
  BY <1>5 DEF DrainPending, TakePending, AcceptsMail, IsActive
<1>6. CASE DrainMail(t)
  BY <1>6 DEF DrainMail, TakeMail
<1>7. CASE Record(t)
  BY <1>7 DEF Record
<1>8. CASE ToolRuns(t)
  BY <1>8 DEF ToolRuns, CallsTool, SetPhase, IsActive
<1>9. CASE ToolAsks(t)
  <2>1. phase' \in [Shell -> {"CurrentTurn", "NextTurn"}]
    BY <1>9 DEF ToolAsks, CallsTool, SetPhase
  <2>2. /\ tools' \in [Turn -> 0..MaxTools] /\ followUp' \in [Turn -> BOOLEAN]
        /\ pc[t] = "sample"
        /\ UNCHANGED <<active, tasks, pending, queueVars, startVars, goalVars, kind,
                       input, abortVars, eventVars, userVars>>
    BY <1>9 DEF ToolAsks, CallsTool
  <2>3. CASE IsActive
    <3>1. /\ waiters' = [waiters EXCEPT ![active] = @ \union {t}]
          /\ pc' = [pc EXCEPT ![t] = "approval"]
      BY <1>9, <2>3 DEF ToolAsks
    <3>2. waiters' \in [Shell -> SUBSET Turn]
      BY <3>1
    <3> QED BY <2>1, <2>2, <3>1, <3>2
  <2>4. CASE ~IsActive
    BY <1>9, <2>1, <2>2, <2>4 DEF ToolAsks
  <2> QED BY <2>3, <2>4
<1>10. CASE Answer(t)
  BY <1>10 DEF Answer, TasksNow, IsActive
<1>11. CASE SampleEnd(t)
  BY <1>11 DEF SampleEnd
<1>12. CASE Check(t)
  <2>1. \A l \in Rounds(t) \union AfterRequest(t) :
          l \in {"drain", "recheck", "sample"}
    BY DEF Rounds, AfterRequest
  <2>2. LooksAtTurn(t, {"checkMail"}, Rounds(t), AfterRequest(t))
          \subseteq Rounds(t) \union AfterRequest(t) \union {"checkMail"}
    BY DEF LooksAtTurn
  <2>3. PICK l \in {"drain", "recheck", "sample", "checkMail"} : pc' = [pc EXCEPT ![t] = l]
    BY <1>12, <2>1, <2>2 DEF Check
  <2>4. /\ pc'[t] = l /\ followUp' \in [Turn -> BOOLEAN]
        /\ UNCHANGED <<turnVars, queueVars, startVars, goalVars, kind, input, tools,
                       abortVars, eventVars, userVars>>
    BY <1>12, <2>3 DEF Check
  <2> QED BY <2>3, <2>4
<1>13. CASE Recheck(t)
  <2>1. PICK l \in {"recheckMail", "begin", "finish"} : pc' = [pc EXCEPT ![t] = l]
    BY <1>13 DEF Recheck, LooksAtTurn
  <2> QED BY <1>13, <2>1 DEF Recheck
<1> QED
  BY <1>1, <1>2, <1>3, <1>4, <1>5, <1>6, <1>7, <1>8, <1>9, <1>10, <1>11, <1>12, <1>13
       DEF Run

\* A task that finishes, or whose handle is aborted.
LEMMA FinishTypeOK ==
  ASSUME TypeOK, NEW t \in Turn, FinishTask(t) \/ Die(t) PROVE TypeOK'
<1> USE ConstantsAssumption DEF TypeOK, Goto, turnVars, queueVars, startVars, goalVars, taskVars, abortVars,
            eventVars, userVars, Actor, Item, HoldsTurn, HoldsShell, Locations, Running,
            Closers, Tail, Reservers, Starters
<1>1. CASE Finish(t)
  BY <1>1 DEF Finish
<1>2. CASE Remove(t)
  <2>1. LastTask(t) => active \in Shell
    BY DEF LastTask, TasksNow, IsActive
  <2>2. /\ tasks' \in [Shell -> SUBSET Turn] /\ pc[t] = "remove"
        /\ UNCHANGED <<active, pending, phase, waiters, queueVars, starting, carried,
                       goalVars, taskVars, abortVars, eventVars, userVars>>
    BY <1>2 DEF Remove, Removed
  <2>3. CASE shell' = [shell EXCEPT ![t] = active] /\ pc' = [pc EXCEPT ![t] = "leftover"]
             /\ active \in Shell
    BY <2>2, <2>3
  <2>4. CASE UNCHANGED shell /\ pc' = [pc EXCEPT ![t] = "complete"]
    BY <2>2, <2>4
  <2> QED BY <1>2, <2>1, <2>3, <2>4 DEF Remove
<1>3. CASE Leftover(t)
  BY <1>3 DEF Leftover
<1>4. CASE Complete(t)
  BY <1>4, ShellFacts DEF Complete
<1>5. CASE Clear(t)
  <2>1. /\ UNCHANGED <<tasks, pending, phase, waiters, queueVars, starting, carried,
                       goalVars, taskVars, abortVars, eventVars, userVars>>
        /\ shell' = [shell EXCEPT ![t] = NoShell] /\ pc[t] = "clear"
    BY <1>5 DEF Clear
  <2>2. active' \in {active, NoShell}
    BY <1>5 DEF Clear
  <2>3. PICK l \in {"gone", "ms_check"} : pc' = [pc EXCEPT ![t] = l]
    BY <1>5 DEF Clear, LooksForWork
  <2> QED BY <2>1, <2>2, <2>3
<1>6. CASE Die(t)
  BY <1>6 DEF Die
<1> QED
  BY <1>1, <1>2, <1>3, <1>4, <1>5, <1>6 DEF FinishTask

\* Aborts.
LEMMA AbortTypeOK ==
  ASSUME TypeOK, NEW a \in Actor, Abort(a) PROVE TypeOK'
<1> USE ConstantsAssumption DEF TypeOK, Goto, turnVars, queueVars, startVars, goalVars, taskVars, abortVars,
            eventVars, userVars, Actor, Item, HoldsTurn, HoldsShell, Locations, Running,
            Closers, Tail, Reservers, Starters
<1>1. CASE AbortTake(a)
  <2>1. TasksNow \subseteq Turn /\ (TasksNow # {} => active \in Shell)
    BY DEF TasksNow, IsActive
  <2>2. /\ active' = NoShell /\ tasks' \in [Shell -> SUBSET Turn]
        /\ victims' = [victims EXCEPT ![a] = TasksNow] /\ pc[a] = "take"
        /\ UNCHANGED <<pending, phase, waiters, queueVars, starting, carried, goalVars,
                       taskVars, target, cancelled, killed, eventVars, userVars>>
    BY <1>1 DEF AbortTake
  <2>3. CASE TasksNow # {}
    <3>1. shell' = [shell EXCEPT ![a] = active] /\ pc' = [pc EXCEPT ![a] = "cancel"]
      BY <1>1, <2>3 DEF AbortTake
    <3> QED BY <2>1, <2>2, <2>3, <3>1
  <2>4. CASE TasksNow = {}
    <3>1. PICK l \in {"st_queued", "idle", "gone"} :
            /\ pc' = [pc EXCEPT ![a] = l]
            /\ l = "st_queued" => starting[a] # NoTurn
      BY <1>1, <2>4, RestPlace DEF AbortTake, Replacing
    <3>2. UNCHANGED shell
      BY <1>1, <2>4 DEF AbortTake
    <3> QED BY <2>1, <2>2, <3>1, <3>2
  <2> QED BY <2>3, <2>4
<1>2. CASE AbortMiss(a)
  BY <1>2, RestPlace DEF AbortMiss
<1>3. CASE AbortCancel(a)
  BY <1>3 DEF AbortCancel, CancelToken
<1>4. CASE AbortKill(a)
  BY <1>4 DEF AbortKill
<1>5. CASE AbortEmit(a)
  BY <1>5 DEF AbortEmit, NextVictims
<1>6. CASE AbortClear(a)
  BY <1>6 DEF AbortClear, Waiting, Replacing
<1> QED
  BY <1>1, <1>2, <1>3, <1>4, <1>5, <1>6 DEF Abort

\* Operations and other events from outside.
LEMMA UserTypeOK ==
  ASSUME TypeOK, UserOp \/ QueueDenied \/ \E t \in Turn : Approve(t) PROVE TypeOK'
<1> USE ConstantsAssumption DEF TypeOK, Goto, turnVars, queueVars, startVars, goalVars, taskVars, abortVars,
            eventVars, userVars, Actor, Item, HoldsTurn, HoldsShell, Locations, Running,
            Closers, Tail, Reservers, Starters
<1>1. ASSUME NEW u \in Prompt, Steer(u) PROVE TypeOK'
  BY <1>1 DEF Steer, LoopIdle, TasksNow, IsActive
<1>2. ASSUME NEW u \in Prompt, SteerRefused(u) PROVE TypeOK'
  BY <1>2 DEF SteerRefused, LoopIdle
<1>3. ASSUME NEW u \in Prompt, UserTurn(u) PROVE TypeOK'
  BY <1>3, NextTurnFresh DEF UserTurn, LoopIdle, SpawnTask
<1>4. ASSUME NEW m \in Mail, SendMail(m) PROVE TypeOK'
  BY <1>4 DEF SendMail, LoopIdle
<1>5. ASSUME NEW j \in Denied, ApproveDenied(j) PROVE TypeOK'
  <2>1. CASE InjectInto(j) /\ UNCHANGED <<carried, pc>>
    BY <1>5, <2>1 DEF ApproveDenied, LoopIdle, InjectInto, IsActive
  <2>2. CASE /\ carried' = [carried EXCEPT ![Loop] = {j}]
             /\ Goto(Loop, "queue")
             /\ UNCHANGED pending
    BY <1>5, <2>2 DEF ApproveDenied, LoopIdle
  <2> QED BY <1>5, <2>1, <2>2 DEF ApproveDenied
<1>6. ASSUME NEW j \in Injected, Inject(j) PROVE TypeOK'
  <2>1. CASE InjectInto(j) /\ UNCHANGED history
    BY <1>6, <2>1 DEF Inject, InjectInto, IsActive
  <2>2. CASE history' = history \union {j} /\ UNCHANGED pending
    BY <1>6, <2>2 DEF Inject
  <2> QED BY <1>6, <2>1, <2>2 DEF Inject
<1>7. ASSUME NEW t \in Turn, GuardianTrips(t) PROVE TypeOK'
  BY <1>7 DEF GuardianTrips, TasksNow, IsActive
<1>8. ASSUME NEW t \in Turn, Approve(t) PROVE TypeOK'
  <2>1. /\ UNCHANGED <<active, tasks, pending, phase, queueVars, startVars, goalVars,
                       taskVars, abortVars, eventVars, userVars>>
        /\ waiters' = [waiters EXCEPT ![active] = @ \ {t}]
    BY <1>8 DEF Approve
  <2>2. CASE pc' = [pc EXCEPT ![t] = "sample"]
    BY <2>1, <2>2
  <2>3. CASE UNCHANGED pc
    BY <2>1, <2>3
  <2> QED BY <1>8, <2>2, <2>3 DEF Approve
<1>9. CASE Compact
  BY <1>9, NextTurnFresh DEF Compact, LoopIdle, SpawnTask
<1>10. CASE Interrupt
  BY <1>10 DEF Interrupt, LoopIdle
<1>11. CASE GoalCall
  BY <1>11 DEF GoalCall
<1>12. CASE GoalChange
  BY <1>12 DEF GoalChange
<1>13. CASE QueueDenied
  BY <1>13 DEF QueueDenied
<1> QED
  BY <1>1, <1>2, <1>3, <1>4, <1>5, <1>6, <1>7, <1>8, <1>9, <1>10, <1>11, <1>12, <1>13
       DEF UserOp

LEMMA NextTypeOK == TypeOK /\ [Next]_vars => TypeOK'
<1> SUFFICES ASSUME TypeOK, [Next]_vars PROVE TypeOK'
  OBVIOUS
<1>1. ASSUME NEW a \in Actor, Step(a) PROVE TypeOK'
  BY <1>1, StartTypeOK, ContinueTypeOK, AbortTypeOK DEF Step
<1>2. ASSUME NEW t \in Turn, Run(t) \/ FinishTask(t) \/ Die(t) PROVE TypeOK'
  BY <1>2, RunTypeOK, FinishTypeOK
<1>3. ASSUME UserOp \/ QueueDenied \/ \E t \in Turn : Approve(t) PROVE TypeOK'
  BY <1>3, UserTypeOK
<1>4. CASE UNCHANGED vars
  BY <1>4 DEF TypeOK, vars, turnVars, queueVars, startVars, goalVars, taskVars,
     abortVars, eventVars, userVars
<1> QED
  BY <1>1, <1>2, <1>3, <1>4 DEF Next

\* Every reachable state of the session is well typed, and an actor that is
\* going to use a turn, an ActiveTurn or a victim has one.
THEOREM TypeCorrect == Spec => []TypeOK
  BY InitTypeOK, NextTypeOK, PTL DEF Spec

-----------------------------------------------------------------------------
(* The active turn and the tasks it lists. *)

\* A task that an abort can find, or has found.
Listed(t) == t \in TasksNow \/ t \in killed \/ \E a \in Actor : t \in victims[a]
Busy == Running \union {"remove", "complete", "gone"}

\* Only the active turn has tasks.  A listed task is still running or on its
\* way out, holds no ActiveTurn, and no actor has taken a task that is in the
\* active turn.
ListInv ==
  /\ \A s \in Shell : s # active => tasks[s] = {}
  /\ \A t \in Turn : Listed(t) => pc[t] \in Busy /\ shell[t] = NoShell
  /\ \A t \in TasksNow : t \notin killed /\ \A a \in Actor : t \notin victims[a]

\* A turn that was not launched is nobody's yet, but for the one actor that
\* is starting it.
FreshInv ==
  /\ \A t \in Turn : pc[t] = "unused" => shell[t] = NoShell /\ ~Listed(t)
  /\ \A t \in Turn : t \notin used => pc[t] = "unused"
  /\ \A a \in Actor : starting[a] \in Turn =>
       starting[a] \in used /\ pc[starting[a]] = "unused"
  /\ \A a, b \in Actor : starting[a] \in Turn /\ starting[a] = starting[b] => a = b

\* Only an aborting actor has victims, and it kills what it has cancelled.
AbortInv ==
  \A a \in Actor : /\ victims[a] # {} => pc[a] \in {"cancel", "kill", "emit"}
                   /\ pc[a] \in {"kill", "emit"} => target[a] \in cancelled

Inv == /\ TypeOK /\ ListInv /\ FreshInv /\ AbortInv
       /\ EveryRunningTurnCanBeAborted /\ ReservationIsOwned

Owning == Reservers \union Closers

LEMMA Disjoint ==
  /\ \A l \in Busy : l \notin Tail /\ l \notin {"unused", "idle", "take", "cancel",
                                              "kill", "emit", "clear_pending", "queue"}
  /\ \A l \in Reservers : l \in Tail
  /\ \A l \in Owning : l \notin {"cancel", "kill", "emit", "clear_pending", "gone", "take"}
  /\ \A l \in Running : l \in Busy /\ l \notin Owning
  /\ \A l \in Running : l \notin {"remove", "complete", "gone"}
  BY DEF Busy, Running, Tail, Reservers, Starters, Owning, Closers

LEMMA InitInv == Init => Inv
<1> SUFFICES ASSUME Init PROVE Inv
  OBVIOUS
<1>1. /\ active = NoShell /\ TasksNow = {} /\ killed = {} /\ used = {}
      /\ \A a \in Actor : victims[a] = {} /\ shell[a] = NoShell /\ starting[a] = NoTurn
      /\ \A s \in Shell : tasks[s] = {}
      /\ \A a \in Actor : pc[a] \in {"idle", "unused"}
      /\ \A t \in Turn : pc[t] = "unused"
  BY ConstantsAssumption DEF Init, TasksNow, IsActive, Actor
<1>2. \A t \in Turn : ~Listed(t) /\ t \in Actor
  BY <1>1 DEF Listed, Actor
<1> QED
  BY <1>1, <1>2, InitTypeOK, ConstantsAssumption
  DEF Inv, ListInv, FreshInv, AbortInv, EveryRunningTurnCanBeAborted,
      ReservationIsOwned, IsActive, Running

reachVars == <<active, tasks, victims, killed, cancelled, starting, used, shell>>

\* A step that moves one actor along, and nothing else that matters here.
LEMMA Move ==
  ASSUME Inv, TypeOK', NEW a \in Actor, NEW l, pc' = [pc EXCEPT ![a] = l],
         UNCHANGED reachVars,
         \A b \in Actor : b # a => target'[b] = target[b],
         pc[a] # "unused", l \notin {"unused", "kill", "emit"},
         victims[a] = {},
         a \in Turn /\ Listed(a) => l \in Busy,
         a \in Turn /\ l \in Running => pc[a] \in Running,
         a \notin killed /\ shell[a] # NoShell /\ pc[a] \in Owning => l \in Owning
  PROVE  Inv'
<1> USE DEF Inv, reachVars
<1>0. /\ \A t \in Turn : t \in Actor
      /\ \A b \in Actor : pc'[b] = IF b = a THEN l ELSE pc[b]
      /\ TasksNow' = TasksNow /\ IsActive' = IsActive
      /\ \A t \in Turn : Listed(t)' = Listed(t)
  BY DEF Actor, TypeOK, TasksNow, IsActive, Listed
<1>1. ListInv'
  BY <1>0 DEF ListInv
<1>2. FreshInv'
  BY <1>0 DEF FreshInv
<1>3. AbortInv'
  BY <1>0 DEF AbortInv
<1>4. EveryRunningTurnCanBeAborted'
  BY <1>0 DEF EveryRunningTurnCanBeAborted
<1>5. ReservationIsOwned'
  BY <1>0 DEF ReservationIsOwned, Owning, IsActive
<1> QED
  BY <1>1, <1>2, <1>3, <1>4, <1>5

LEMMA Stays ==
  ASSUME Inv, TypeOK', UNCHANGED <<reachVars, pc, target>>
  PROVE  Inv'
  BY DEF Inv, reachVars, ListInv, FreshInv, AbortInv, EveryRunningTurnCanBeAborted,
         ReservationIsOwned, TasksNow, IsActive, Listed

\* A task that runs goes from one place in its run to another.
LEMMA RunMoves ==
  ASSUME TypeOK, NEW t \in Turn, Run(t)
  PROVE  /\ pc[t] \in Running /\ UNCHANGED <<reachVars, target>>
         /\ \E l \in Running : pc' = [pc EXCEPT ![t] = l]
<1> USE DEF reachVars, Goto, Running, turnVars, queueVars, startVars, goalVars, taskVars,
            abortVars, eventVars, userVars
<1>0. t \in Actor /\ pc = [pc EXCEPT ![t] = pc[t]]
  BY DEF Actor, TypeOK
<1>1. CASE Prewarm(t)
  BY <1>1 DEF Prewarm
<1>2. CASE RunCompact(t)
  BY <1>2 DEF RunCompact
<1>3. CASE Begin(t) \/ EarlyReturn(t)
  BY <1>3 DEF Begin, EarlyReturn
<1>4. CASE DrainPending(t)
  BY <1>4 DEF DrainPending, TakePending
<1>5. CASE DrainMail(t)
  BY <1>5 DEF DrainMail, TakeMail
<1>6. CASE Record(t)
  BY <1>6 DEF Record
<1>7. CASE ToolRuns(t)
  BY <1>0, <1>7 DEF ToolRuns, CallsTool
<1>8. CASE ToolAsks(t)
  BY <1>0, <1>8 DEF ToolAsks, CallsTool
<1>9. CASE Answer(t)
  BY <1>0, <1>9 DEF Answer
<1>10. CASE SampleEnd(t)
  BY <1>10 DEF SampleEnd
<1>11. CASE Check(t)
  <2>1. \A l \in Rounds(t) \union AfterRequest(t) \union {"checkMail"} : l \in Running
    BY DEF Rounds, AfterRequest
  <2>2. LooksAtTurn(t, {"checkMail"}, Rounds(t), AfterRequest(t))
          \in SUBSET (Rounds(t) \union AfterRequest(t) \union {"checkMail"})
    BY DEF LooksAtTurn
  <2> QED BY <1>11, <2>1, <2>2 DEF Check
<1>12. CASE Recheck(t)
  BY <1>12 DEF Recheck, LooksAtTurn
<1> QED
  BY <1>1, <1>2, <1>3, <1>4, <1>5, <1>6, <1>7, <1>8, <1>9, <1>10, <1>11, <1>12 DEF Run

LEMMA IdleVictims ==
  Inv => \A a \in Actor : pc[a] \notin {"cancel", "kill", "emit"} => victims[a] = {}
  BY DEF Inv, AbortInv

LEMMA RunInv ==
  ASSUME Inv, TypeOK', NEW t \in Turn, Run(t)
  PROVE  Inv'
<1>1. TypeOK /\ t \in Actor
  BY DEF Inv, Actor
<1>2. PICK l \in Running : pc' = [pc EXCEPT ![t] = l]
  BY <1>1, RunMoves
<1>3. pc[t] \in Running /\ UNCHANGED <<reachVars, target>>
  BY <1>1, RunMoves
<1>4. /\ pc[t] \notin {"unused", "cancel", "kill", "emit"} /\ pc[t] \notin Owning
      /\ l \in Busy /\ l \notin {"unused", "kill", "emit"}
  BY <1>3, Disjoint
<1>5. victims[t] = {}
  BY <1>1, <1>4, IdleVictims
<1> QED BY <1>1, <1>2, <1>3, <1>4, <1>5, Move

-----------------------------------------------------------------------------
(* A task that finishes. *)

LEMMA RemoveInv ==
  ASSUME Inv, TypeOK', NEW t \in Turn, Remove(t)
  PROVE  Inv'
<1> USE DEF Inv
<1>0. /\ t \in Actor /\ pc[t] = "remove" /\ \A u \in Turn : u \in Actor
      /\ tasks' = [s \in Shell |-> IF s = active THEN tasks[s] \ {t} ELSE tasks[s]]
      /\ UNCHANGED <<active, victims, killed, cancelled, starting, used, target>>
  BY DEF Remove, Removed, Actor, turnVars, abortVars, userVars
<1>1. /\ TasksNow' = TasksNow \ {t} /\ IsActive' = IsActive
      /\ \A u \in Turn : Listed(u)' => Listed(u)
      /\ \A u \in Turn : u # t => Listed(u)' = Listed(u)
  BY <1>0 DEF TasksNow, IsActive, Listed, TypeOK
<1>2. CASE LastTask(t)
  <2>a. TasksNow = {t} /\ TasksNow' = {}
    BY <1>1, <1>2 DEF LastTask
  <2>b. t \notin killed /\ \A b \in Actor : t \notin victims[b]
    BY <2>a DEF ListInv
  <2>c. IsActive /\ active \in Shell
    BY <2>a DEF TasksNow, IsActive, TypeOK
  <2>1. /\ TasksNow = {t} /\ TasksNow' = {} /\ t \notin killed /\ ~Listed(t)'
        /\ IsActive /\ active \in Shell
    BY <1>0, <2>a, <2>b, <2>c DEF Listed
  <2>2. shell' = [shell EXCEPT ![t] = active] /\ pc' = [pc EXCEPT ![t] = "leftover"]
    BY <1>2 DEF Remove, Goto
  <2>3. /\ \A b \in Actor : shell'[b] = IF b = t THEN active ELSE shell[b]
        /\ \A b \in Actor : pc'[b] = IF b = t THEN "leftover" ELSE pc[b]
    BY <2>2 DEF TypeOK
  <2>4. ListInv'
    BY <1>0, <1>1, <2>1, <2>3 DEF ListInv
  <2>5. FreshInv'
    BY <1>0, <1>1, <2>1, <2>3 DEF FreshInv
  <2>6. AbortInv'
    BY <1>0, <2>3 DEF AbortInv
  <2>7. EveryRunningTurnCanBeAborted'
    BY <1>0, <1>1, <2>3 DEF EveryRunningTurnCanBeAborted, Running
  <2>8. ReservationIsOwned'
    BY <1>0, <2>1, <2>3 DEF ReservationIsOwned, Closers
  <2> QED BY <2>4, <2>5, <2>6, <2>7, <2>8
<1>3. CASE ~LastTask(t)
  <2>1. UNCHANGED shell /\ pc' = [pc EXCEPT ![t] = "complete"]
    BY <1>3 DEF Remove, Goto
  <2>2. \A b \in Actor : pc'[b] = IF b = t THEN "complete" ELSE pc[b]
    BY <2>1 DEF TypeOK
  <2>3. ListInv'
    BY <1>0, <1>1, <2>1, <2>2 DEF ListInv, Busy
  <2>4. FreshInv'
    BY <1>0, <1>1, <2>1, <2>2 DEF FreshInv
  <2>5. AbortInv'
    BY <1>0, <2>2 DEF AbortInv
  <2>6. EveryRunningTurnCanBeAborted'
    BY <1>0, <1>1, <2>2 DEF EveryRunningTurnCanBeAborted, Running
  <2>7. ReservationIsOwned'
    <3>1. IsActive /\ tasks'[active] = {} => tasks[active] = {}
      <4> SUFFICES ASSUME IsActive, tasks'[active] = {}, tasks[active] # {} PROVE FALSE
        OBVIOUS
      <4>1. active \in Shell /\ TasksNow = tasks[active]
        BY DEF TasksNow, IsActive, TypeOK
      <4>2. tasks[active] \ {t} = {}
        BY <1>0, <4>1
      <4>3. tasks[active] = {t}
        BY <4>2
      <4> QED BY <1>3, <4>1, <4>3 DEF LastTask
    <3>2. t \notin killed /\ pc[t] \in Reservers \union Closers => FALSE
      BY <1>0 DEF Reservers, Starters, Closers
    <3> SUFFICES ASSUME IsActive', tasks'[active'] = {}
                 PROVE  \E b \in Actor \ killed' :
                          shell'[b] = active' /\ pc'[b] \in Reservers \union Closers
      BY DEF ReservationIsOwned
    <3>3. PICK b \in Actor \ killed : shell[b] = active /\ pc[b] \in Reservers \union Closers
      BY <1>0, <1>1, <3>1 DEF ReservationIsOwned
    <3>4. b # t
      BY <3>2, <3>3
    <3> QED BY <1>0, <2>1, <2>2, <3>3, <3>4
  <2> QED BY <2>3, <2>4, <2>5, <2>6, <2>7
<1> QED BY <1>2, <1>3

\* An ActiveTurn without a task that its holder clears or gives back.
LEMMA LetGo ==
  ASSUME Inv, TypeOK', NEW a \in Actor, NEW l \in {"gone", "idle", "ms_check"},
         pc[a] \in Owning, shell[a] \in Shell,
         active' = IF StillReserved(a) THEN NoShell ELSE active,
         shell' = [shell EXCEPT ![a] = NoShell], pc' = [pc EXCEPT ![a] = l],
         starting' \in {starting, [starting EXCEPT ![a] = NoTurn]},
         UNCHANGED <<tasks, victims, killed, cancelled, used, target>>
  PROVE  Inv'
<1> USE DEF Inv
<1>a. /\ pc[a] \notin {"unused", "cancel", "kill", "emit"}
      /\ l \notin {"kill", "emit", "unused"} /\ l \notin Running
  BY DEF Running, Owning, Reservers, Starters, Closers
<1>b. victims[a] = {}
  BY <1>a, IdleVictims
<1>c. NoTurn \notin Turn /\ NoShell \notin Shell /\ shell[a] # NoShell
  BY ConstantsAssumption, ShellFacts
<1>d. /\ \A t \in Turn : t \in Actor
      /\ \A b \in Actor : pc'[b] = IF b = a THEN l ELSE pc[b]
      /\ \A b \in Actor : shell'[b] = IF b = a THEN NoShell ELSE shell[b]
      /\ \A b \in Actor : starting'[b] \in {starting[b], NoTurn}
  BY DEF Actor, TypeOK
<1>1. a \in Turn => ~Listed(a)
  BY <1>a, <1>b, <1>c, <1>d DEF ListInv, TypeOK
<1>2. /\ TasksNow' = TasksNow
      /\ \A t \in Turn : Listed(t)' = Listed(t)
  BY <1>a, <1>b, <1>c, <1>d DEF TasksNow, IsActive, Listed, StillReserved
<1>3. ListInv'
  BY <1>a, <1>b, <1>c, <1>d, <1>1, <1>2 DEF ListInv, StillReserved
<1>4. FreshInv'
  BY <1>a, <1>b, <1>c, <1>d, <1>2 DEF FreshInv
<1>5. AbortInv'
  BY <1>a, <1>b, <1>c, <1>d DEF AbortInv
<1>6. EveryRunningTurnCanBeAborted'
  BY <1>a, <1>b, <1>c, <1>d, <1>2 DEF EveryRunningTurnCanBeAborted
<1>7. ReservationIsOwned'
  BY <1>a, <1>b, <1>c, <1>d, <1>2 DEF ReservationIsOwned, IsActive, StillReserved
<1> QED BY <1>3, <1>4, <1>5, <1>6, <1>7

LEMMA FinishInv ==
  ASSUME Inv, TypeOK', NEW t \in Turn, FinishTask(t) \/ Die(t)
  PROVE  Inv'
<1> USE DEF reachVars, Goto, turnVars, queueVars, startVars, goalVars, taskVars,
            abortVars, eventVars, userVars
<1>0. /\ TypeOK /\ t \in Actor
      /\ pc[t] \notin {"cancel", "kill", "emit"} => victims[t] = {}
  BY IdleVictims DEF Inv, Actor
<1>1. CASE Finish(t)
  <2>1. PICK l \in {"gone", "remove"} : pc' = [pc EXCEPT ![t] = l]
    BY <1>1 DEF Finish
  <2>2. l \in Busy /\ pc[t] = "finish" /\ "finish" \notin Owning /\ l \notin Running
    BY <1>1 DEF Finish, Busy, Owning, Reservers, Starters, Closers, Running
  <2> QED BY <1>0, <1>1, <2>1, <2>2, Move DEF Finish
<1>2. CASE Remove(t)
  BY <1>2, RemoveInv
<1>3. CASE Leftover(t)
  <2>1. "complete" \in Busy /\ "complete" \in Owning /\ "complete" \notin Running
    BY DEF Busy, Owning, Closers, Running
  <2> QED BY <1>0, <1>3, <2>1, Move DEF Leftover
<1>4. CASE Complete(t)
  <2>1. "clear" \in Owning /\ "clear" \notin Running /\ "gone" \notin Running /\ "gone" \in Busy
    BY DEF Busy, Owning, Closers, Running
  <2>2. Listed(t) => shell[t] = NoShell
    BY DEF Inv, ListInv
  <2>3. PICK l \in {"gone", "clear"} :
          pc' = [pc EXCEPT ![t] = l] /\ (l = "gone" <=> shell[t] = NoShell)
    BY <1>4 DEF Complete
  <2> QED BY <1>0, <1>4, <2>1, <2>2, <2>3, Move DEF Complete
<1>5. CASE Clear(t)
  <2>1. PICK l \in {"gone", "ms_check"} : pc' = [pc EXCEPT ![t] = l]
    BY <1>5 DEF Clear, LooksForWork
  <2>2. pc[t] = "clear" /\ pc[t] \in Owning /\ shell[t] \in Shell
    BY <1>0, <1>5 DEF Clear, Owning, Closers, TypeOK, HoldsShell
  <2> QED BY <1>0, <1>5, <2>1, <2>2, LetGo DEF Clear
<1>6. CASE Die(t)
  <2>1. Listed(t) /\ "gone" \in Busy /\ "gone" \notin Running
    BY <1>6 DEF Die, Listed, Busy, Running
  <2>2. pc[t] \in Busy
    BY <2>1 DEF Inv, ListInv
  <2>3. pc[t] \notin {"unused", "cancel", "kill", "emit"}
    BY <2>2, Disjoint
  <2> QED BY <1>0, <1>6, <2>1, <2>3, Move DEF Die
<1> QED
  BY <1>1, <1>2, <1>3, <1>4, <1>5, <1>6 DEF FinishTask

-----------------------------------------------------------------------------
(* Starting a turn. *)

\* A place that no listed task is in.
Free == Tail \union {"idle", "take", "queue"}

LEMMA FreeActor ==
  ASSUME Inv, NEW a \in Actor, pc[a] \in Free
  PROVE  /\ a \notin killed /\ victims[a] = {} /\ (a \in Turn => ~Listed(a))
         /\ pc[a] \notin Busy \union {"unused", "cancel", "kill", "emit"}
<1>1. pc[a] \notin Busy \union {"unused", "cancel", "kill", "emit"}
  BY DEF Free, Busy, Running, Tail, Reservers, Starters
<1>2. a \in Turn => ~Listed(a)
  BY <1>1 DEF Inv, ListInv
<1>3. a \notin killed
  BY <1>2 DEF Inv, TypeOK, Listed
<1> QED BY <1>1, <1>2, <1>3, IdleVictims

\* Such an actor goes to another such place, or ends.
LEMMA MoveFree ==
  ASSUME Inv, TypeOK', NEW a \in Actor, NEW l \in Free \union {"gone"},
         pc' = [pc EXCEPT ![a] = l], UNCHANGED reachVars,
         \A b \in Actor : b # a => target'[b] = target[b],
         pc[a] \in Free,
         shell[a] # NoShell /\ pc[a] \in Owning => l \in Owning
  PROVE  Inv'
<1>1. l \notin {"unused", "kill", "emit"} /\ l \notin Running
  BY DEF Free, Running, Tail, Reservers, Starters
<1>2. /\ a \notin killed /\ victims[a] = {} /\ (a \in Turn => ~Listed(a))
      /\ pc[a] # "unused"
  BY FreeActor
<1> QED BY <1>1, <1>2, Move

LEMMA BindInv ==
  ASSUME Inv, TypeOK', NEW a \in Actor, StartBind(a)
  PROVE  Inv'
<1> USE DEF Inv
<1>1. /\ pc[a] \in Free /\ starting[a] \in Turn
      /\ UNCHANGED <<tasks, victims, killed, cancelled, starting, used, target>>
      /\ active' = IF IsActive THEN active ELSE NewShell(starting[a], "bind")
  BY DEF StartBind, GetOrInsert, Free, Tail, Reservers, Starters, TypeOK, HoldsTurn,
         abortVars, userVars
<1>2. /\ a \notin killed /\ (a \in Turn => ~Listed(a)) /\ pc[a] # "unused"
  BY <1>1, FreeActor
<1>3. /\ \A b \in Actor : pc'[b] = IF b = a THEN "st_extend" ELSE pc[b]
      /\ \A b \in Actor : shell'[b] = IF b = a THEN active' ELSE shell[b]
      /\ \A t \in Turn : t \in Actor
  BY DEF StartBind, Goto, TypeOK, Actor
<1>4. active' \in Shell /\ IsActive' /\ NoShell \notin Shell
  BY <1>1, ShellFacts DEF IsActive, TypeOK
<1>5. TasksNow' = TasksNow /\ \A t \in Turn : Listed(t)' = Listed(t)
  BY <1>1, <1>4 DEF TasksNow, IsActive, ListInv, Listed
<1>6. ListInv'
  BY <1>1, <1>2, <1>3, <1>4, <1>5 DEF ListInv, IsActive
<1>7. FreshInv'
  BY <1>1, <1>2, <1>3, <1>5 DEF FreshInv
<1>8. AbortInv'
  BY <1>1, <1>2, <1>3, IdleVictims DEF AbortInv, Free, Tail, Reservers, Starters
<1>9. EveryRunningTurnCanBeAborted'
  BY <1>1, <1>3, <1>5 DEF EveryRunningTurnCanBeAborted, Running
<1>10. ReservationIsOwned'
  BY <1>1, <1>2, <1>3 DEF ReservationIsOwned, Reservers, Starters
<1> QED BY <1>6, <1>7, <1>8, <1>9, <1>10

LEMMA LaunchInv ==
  ASSUME Inv, TypeOK', NEW a \in Actor, StartLaunch(a)
  PROVE  Inv'
<1> USE DEF Inv
<1> DEFINE t == starting[a]
<1>1. /\ pc[a] \in Free /\ t \in Turn
      /\ UNCHANGED <<victims, killed, cancelled, used, target>>
      /\ active' = IF IsActive THEN active ELSE NewShell(t, "launch")
      /\ tasks' = [tasks EXCEPT ![active'] = @ \union {t}]
  BY DEF StartLaunch, GetOrInsert, Free, Tail, Reservers, Starters, TypeOK, HoldsTurn,
         abortVars, userVars
<1>2. /\ a \notin killed /\ (a \in Turn => ~Listed(a)) /\ victims[a] = {}
      /\ pc[a] \notin Busy \union {"unused", "cancel", "kill", "emit"}
  BY <1>1, FreeActor
<1>3. pc[t] = "unused" /\ t \in used /\ ~Listed(t) /\ shell[t] = NoShell /\ t # a
  BY <1>1, <1>2 DEF FreshInv
<1>4. PICK l \in {"idle", "gone", "gc_lock"}, m \in {"compact", "prewarm"} :
        pc' = [pc EXCEPT ![t] = m, ![a] = l]
  BY RestPlace DEF StartLaunch
<1>5. /\ \A b \in Actor : pc'[b] = IF b = a THEN l ELSE IF b = t THEN m ELSE pc[b]
      /\ \A b \in Actor : shell'[b] = IF b = a THEN NoShell ELSE shell[b]
      /\ \A b \in Actor : starting'[b] = IF b = a THEN NoTurn ELSE starting[b]
      /\ \A u \in Turn : u \in Actor
  BY <1>1, <1>3, <1>4 DEF StartLaunch, TypeOK, Actor
<1>6. active' \in Shell /\ IsActive' /\ NoShell \notin Shell /\ NoTurn \notin Turn
  BY <1>1, ShellFacts, ConstantsAssumption DEF IsActive, TypeOK
<1>7. \A s \in Shell : tasks'[s] = IF s = active' THEN TasksNow \union {t} ELSE {}
  <2>1. \A s \in Shell : tasks[s] = IF s = active' THEN TasksNow ELSE {}
    BY <1>1, <1>6 DEF TasksNow, IsActive, ListInv
  <2>2. tasks \in [Shell -> SUBSET Turn]
    BY DEF TypeOK
  <2> QED BY <1>1, <1>6, <2>1, <2>2
<1>8. TasksNow' = TasksNow \union {t} /\ \A u \in Turn : Listed(u)' <=> Listed(u) \/ u = t
  BY <1>1, <1>6, <1>7 DEF TasksNow, Listed
<1>9. m \in Running /\ m \in Busy /\ l \notin {"unused", "kill", "emit"} /\ l \notin Running
  BY DEF Running, Busy
<1>10. ListInv'
  <2>1. \A s \in Shell : s # active' => tasks'[s] = {}
    BY <1>7
  <2>2. \A u \in Turn : Listed(u)' => pc'[u] \in Busy /\ shell'[u] = NoShell
    BY <1>2, <1>3, <1>5, <1>8, <1>9 DEF ListInv
  <2>3. \A u \in TasksNow' : u \notin killed' /\ \A b \in Actor : u \notin victims'[b]
    BY <1>1, <1>3, <1>8 DEF ListInv, Listed
  <2> QED BY <2>1, <2>2, <2>3 DEF ListInv
<1>11. FreshInv'
  BY <1>1, <1>2, <1>3, <1>5, <1>6, <1>8, <1>9 DEF FreshInv
<1>12. AbortInv'
  BY <1>1, <1>2, <1>3, <1>5, <1>9 DEF AbortInv
<1>13. EveryRunningTurnCanBeAborted'
  BY <1>1, <1>5, <1>8, <1>9 DEF EveryRunningTurnCanBeAborted
<1>14. ReservationIsOwned'
  BY <1>6, <1>7 DEF ReservationIsOwned
<1> QED BY <1>10, <1>11, <1>12, <1>13, <1>14

LEMMA StartInv ==
  ASSUME Inv, TypeOK', NEW a \in Actor, Start(a)
  PROVE  Inv'
<1> USE DEF reachVars, Goto, turnVars, queueVars, startVars, goalVars, taskVars,
            abortVars, eventVars, userVars
<1>1. {"st_queued", "st_pending", "st_mail", "st_bind", "st_extend", "st_launch"}
        \subseteq Free \intersect Owning
  BY DEF Free, Tail, Owning, Reservers, Starters
<1>2. CASE StartQueued(a)
  BY <1>1, <1>2, MoveFree DEF StartQueued
<1>3. CASE StartPending(a)
  <2>1. PICK l \in {"st_mail", "st_bind"} : pc' = [pc EXCEPT ![a] = l]
    BY <1>3 DEF StartPending
  <2> QED BY <1>1, <1>3, <2>1, MoveFree DEF StartPending, TakePending
<1>4. CASE StartMail(a)
  BY <1>1, <1>4, MoveFree DEF StartMail
<1>5. CASE StartExtend(a)
  BY <1>1, <1>5, MoveFree DEF StartExtend
<1> QED BY <1>2, <1>3, <1>4, <1>5, BindInv, LaunchInv DEF Start

-----------------------------------------------------------------------------
(* Reserving a turn, and giving it back. *)

LEMMA ReserveInv ==
  ASSUME Inv, TypeOK', NEW a \in Actor, NEW l \in Reservers, Reserve(a, l),
         pc[a] \in Free, UNCHANGED <<tasks, victims, killed, cancelled, target>>
  PROVE  Inv'
<1> USE DEF Inv
<1> DEFINE t == NextTurn
<1>1. /\ ~IsActive /\ active' = NewShell(t, "reserve") /\ used' = used \union {t}
      /\ t \in Turn /\ t \notin used
  BY NextTurnFresh DEF Reserve, TypeOK
<1>2. /\ a \notin killed /\ victims[a] = {} /\ (a \in Turn => ~Listed(a))
      /\ pc[a] # "unused"
  BY FreeActor
<1>3. /\ \A b \in Actor : pc'[b] = IF b = a THEN l ELSE pc[b]
      /\ \A b \in Actor : shell'[b] = IF b = a THEN active' ELSE shell[b]
      /\ \A b \in Actor : starting'[b] = IF b = a THEN t ELSE starting[b]
      /\ \A u \in Turn : u \in Actor
  BY DEF Reserve, Goto, TypeOK, Actor
<1>4. active' \in Shell /\ IsActive' /\ NoShell \notin Shell
  BY <1>1, ShellFacts DEF IsActive
<1>5. TasksNow' = TasksNow /\ \A u \in Turn : Listed(u)' = Listed(u)
  BY <1>1, <1>4 DEF TasksNow, IsActive, ListInv, Listed
<1>6. l \notin {"unused", "kill", "emit"} /\ l \notin Running
  BY DEF Reservers, Starters, Running
<1>7. ListInv'
  BY <1>1, <1>2, <1>3, <1>4, <1>5 DEF ListInv, IsActive
<1>8. FreshInv'
  BY <1>1, <1>2, <1>3, <1>5, <1>6 DEF FreshInv
<1>9. AbortInv'
  BY <1>2, <1>3, <1>6 DEF AbortInv
<1>10. EveryRunningTurnCanBeAborted'
  BY <1>3, <1>5, <1>6 DEF EveryRunningTurnCanBeAborted
<1>11. ReservationIsOwned'
  BY <1>2, <1>3 DEF ReservationIsOwned
<1> QED BY <1>7, <1>8, <1>9, <1>10, <1>11

LEMMA ContinueInv ==
  ASSUME Inv, TypeOK', NEW a \in Actor, Continue(a)
  PROVE  Inv'
<1> USE DEF reachVars, Goto, turnVars, queueVars, startVars, goalVars, taskVars,
            abortVars, eventVars, userVars
<1>1. /\ {"ms_check", "ms_reserve", "gc_lock", "gc_check", "gc_reserve", "gc_reread",
          "gc_still", "st_queued", "idle"} \subseteq Free
      /\ {"gc_reread", "gc_still", "st_queued"} \subseteq Reservers \intersect Owning
      /\ \A l \in {"ms_check", "ms_reserve", "gc_lock", "gc_check", "gc_reserve"} :
           l \notin Owning
  BY DEF Free, Tail, Owning, Reservers, Starters, Closers
<1>2. /\ Rest(a) \in {"idle", "gone"} /\ AfterPendingWork(a) \in {"idle", "gone", "gc_lock"}
  BY RestPlace
<1>3. CASE WorkCheck(a)
  <2>1. PICK l \in {"idle", "gone", "gc_lock", "ms_reserve"} : pc' = [pc EXCEPT ![a] = l]
    BY <1>2, <1>3 DEF WorkCheck
  <2> QED BY <1>1, <1>3, <2>1, MoveFree DEF WorkCheck
<1>4. CASE WorkReserve(a)
  <2>1. CASE Reserve(a, "st_queued")
    BY <1>1, <1>4, <2>1, ReserveInv DEF WorkReserve
  <2>2. CASE Goto(a, AfterPendingWork(a)) /\ UNCHANGED <<active, used, starting, shell>>
    BY <1>1, <1>2, <1>4, <2>2, MoveFree DEF WorkReserve
  <2> QED BY <1>4, <2>1, <2>2 DEF WorkReserve
<1>5. CASE GoalLock(a)
  BY <1>1, <1>5, MoveFree DEF GoalLock
<1>6. CASE GoalCheck(a)
  <2>1. PICK l \in {"idle", "gone", "gc_reserve"} : pc' = [pc EXCEPT ![a] = l]
    BY <1>2, <1>6 DEF GoalCheck, GiveUp
  <2> QED BY <1>1, <1>6, <2>1, MoveFree DEF GoalCheck
<1>7. CASE GoalReserve(a)
  <2>1. CASE Reserve(a, "gc_reread")
    BY <1>1, <1>7, <2>1, ReserveInv DEF GoalReserve
  <2>2. CASE GiveUp(a) /\ UNCHANGED <<active, used, starting, shell>>
    BY <1>1, <1>2, <1>7, <2>2, MoveFree DEF GoalReserve, GiveUp
  <2> QED BY <1>7, <2>1, <2>2 DEF GoalReserve
<1>8. pc[a] \in {"gc_reread", "gc_still"} => shell[a] \in Shell
  BY DEF Inv, TypeOK, HoldsShell
<1>9. CASE GoalStale(a)
  BY <1>1, <1>2, <1>8, <1>9, LetGo DEF GoalStale, GiveBack, GiveUp
<1>10. CASE GoalCurrent(a)
  BY <1>1, <1>10, MoveFree DEF GoalCurrent
<1>11. CASE GoalStill(a) /\ StillReserved(a)
  BY <1>1, <1>11, MoveFree DEF GoalStill
<1>12. CASE GoalStill(a) /\ ~StillReserved(a)
  BY <1>1, <1>2, <1>8, <1>12, LetGo DEF GoalStill, GiveUp
<1> QED
  BY <1>3, <1>4, <1>5, <1>6, <1>7, <1>9, <1>10, <1>11, <1>12 DEF Continue

-----------------------------------------------------------------------------
(* Aborting. *)

LEMMA TakeInv ==
  ASSUME Inv, TypeOK', NEW a \in Actor, AbortTake(a)
  PROVE  Inv'
<1> USE DEF Inv
<1>1. /\ pc[a] \in Free /\ active' = NoShell
      /\ UNCHANGED <<killed, cancelled, used, target, starting>>
  BY DEF AbortTake, Free, userVars
<1>2. /\ a \notin killed /\ victims[a] = {} /\ (a \in Turn => ~Listed(a))
      /\ pc[a] # "unused"
  BY <1>1, FreeActor
<1>3. PICK l \in {"cancel", "st_queued", "idle", "gone"} :
        /\ pc' = [pc EXCEPT ![a] = l]
        /\ TasksNow # {} => l = "cancel"
  BY RestPlace DEF AbortTake, Goto
<1>4. /\ \A b \in Actor : pc'[b] = IF b = a THEN l ELSE pc[b]
      /\ \A b \in Actor : b # a => shell'[b] = shell[b]
      /\ \A b \in Actor : victims'[b] = IF b = a THEN TasksNow ELSE victims[b]
      /\ \A u \in Turn : u \in Actor
  BY <1>3 DEF AbortTake, TypeOK, Actor
<1>5. ~IsActive' /\ TasksNow' = {} /\ \A s \in Shell : tasks'[s] = {}
  BY <1>1 DEF IsActive, TasksNow, AbortTake, ListInv
<1>6. \A u \in Turn : Listed(u)' = Listed(u)
  BY <1>1, <1>2, <1>4, <1>5 DEF Listed
<1>7. l \notin {"unused", "kill", "emit"} /\ l \notin Running
  BY DEF Running
<1>8. ListInv'
  BY <1>2, <1>4, <1>5, <1>6 DEF ListInv
<1>9. FreshInv'
  BY <1>1, <1>2, <1>4, <1>6, <1>7 DEF FreshInv
<1>10. AbortInv'
  BY <1>1, <1>3, <1>4, <1>7 DEF AbortInv
<1>11. EveryRunningTurnCanBeAborted'
  BY <1>1, <1>2, <1>4, <1>7 DEF EveryRunningTurnCanBeAborted
<1>12. ReservationIsOwned'
  BY <1>5 DEF ReservationIsOwned
<1> QED BY <1>8, <1>9, <1>10, <1>11, <1>12

\* While it aborts, an actor is no listed task and holds no reservation.
LEMMA Aborter ==
  ASSUME Inv, NEW a \in Actor, pc[a] \in {"cancel", "kill", "emit", "clear_pending"}
  PROVE  pc[a] \notin Busy \union Owning \union Running \union {"unused"}
  BY DEF Busy, Running, Owning, Reservers, Starters, Closers

LEMMA CancelInv ==
  ASSUME Inv, TypeOK', NEW a \in Actor, AbortCancel(a)
  PROVE  Inv'
<1> USE DEF Inv
<1>1. PICK v \in victims[a] :
        cancelled' = cancelled \union {v} /\ target' = [target EXCEPT ![a] = v]
  BY DEF AbortCancel, CancelToken
<1>2. /\ UNCHANGED <<active, tasks, victims, killed, starting, used, shell>>
      /\ pc[a] = "cancel" /\ pc[a] \notin Busy \union Owning \union Running \union {"unused"}
      /\ "kill" \notin Running
  BY Aborter DEF AbortCancel, turnVars, startVars, userVars, Running
<1>3. /\ \A b \in Actor : pc'[b] = IF b = a THEN "kill" ELSE pc[b]
      /\ \A b \in Actor : target'[b] = IF b = a THEN v ELSE target[b]
      /\ \A u \in Turn : u \in Actor
  BY <1>1 DEF AbortCancel, Goto, TypeOK, Actor
<1>4. TasksNow' = TasksNow /\ IsActive' = IsActive /\ \A u \in Turn : Listed(u)' = Listed(u)
  BY <1>2 DEF TasksNow, IsActive, Listed
<1>5. ListInv'
  BY <1>2, <1>3, <1>4 DEF ListInv
<1>6. FreshInv'
  BY <1>2, <1>3, <1>4 DEF FreshInv
<1>7. AbortInv'
  BY <1>1, <1>2, <1>3 DEF AbortInv
<1>8. EveryRunningTurnCanBeAborted'
  BY <1>1, <1>2, <1>3, <1>4 DEF EveryRunningTurnCanBeAborted
<1>9. ReservationIsOwned'
  BY <1>2, <1>3, <1>4 DEF ReservationIsOwned, Owning
<1> QED BY <1>5, <1>6, <1>7, <1>8, <1>9

LEMMA KillInv ==
  ASSUME Inv, TypeOK', NEW a \in Actor, AbortKill(a)
  PROVE  Inv'
<1> USE DEF Inv
<1>1. /\ UNCHANGED <<active, tasks, victims, cancelled, starting, used, shell, target>>
      /\ pc[a] = "kill" /\ pc[a] \notin Busy \union Owning \union Running \union {"unused"}
      /\ killed' = killed \union {target[a]} /\ "emit" \notin Running
  BY Aborter DEF AbortKill, turnVars, startVars, userVars, Running
<1>2. target[a] \in Turn /\ target[a] \in victims[a] /\ Listed(target[a])
  BY <1>1 DEF TypeOK, Listed
<1>3. /\ \A b \in Actor : pc'[b] = IF b = a THEN "emit" ELSE pc[b]
      /\ \A u \in Turn : u \in Actor
  BY DEF AbortKill, Goto, TypeOK, Actor
<1>4. TasksNow' = TasksNow /\ IsActive' = IsActive /\ \A u \in Turn : Listed(u)' = Listed(u)
  BY <1>1, <1>2 DEF TasksNow, IsActive, Listed
<1>5. shell[target[a]] = NoShell /\ target[a] \notin TasksNow
  BY <1>2 DEF ListInv
<1>6. ListInv'
  BY <1>1, <1>3, <1>4, <1>5 DEF ListInv
<1>7. FreshInv'
  BY <1>1, <1>3, <1>4 DEF FreshInv
<1>8. AbortInv'
  BY <1>1, <1>3 DEF AbortInv
<1>9. EveryRunningTurnCanBeAborted'
  BY <1>1, <1>3, <1>4 DEF EveryRunningTurnCanBeAborted
<1>10. ReservationIsOwned'
  BY <1>1, <1>3, <1>4, <1>5 DEF ReservationIsOwned, Owning, IsActive
<1> QED BY <1>6, <1>7, <1>8, <1>9, <1>10

LEMMA EmitInv ==
  ASSUME Inv, TypeOK', NEW a \in Actor, AbortEmit(a)
  PROVE  Inv'
<1> USE DEF Inv
<1>1. /\ UNCHANGED <<active, tasks, killed, cancelled, starting, used, shell>>
      /\ pc[a] = "emit" /\ pc[a] \notin Busy \union Owning \union Running \union {"unused"}
      /\ target[a] \in cancelled
  BY Aborter DEF AbortEmit, turnVars, startVars, userVars, AbortInv
<1>2. PICK l \in {"clear_pending", "cancel"} :
        pc' = [pc EXCEPT ![a] = l] /\ (l = "clear_pending" <=> victims'[a] = {})
  BY DEF AbortEmit, Goto
<1>3. /\ \A b \in Actor : pc'[b] = IF b = a THEN l ELSE pc[b]
      /\ \A b \in Actor : victims'[b] = IF b = a THEN victims[a] \ {target[a]} ELSE victims[b]
      /\ \A b \in Actor : b # a => target'[b] = target[b]
      /\ \A u \in Turn : u \in Actor
  BY <1>2 DEF AbortEmit, NextVictims, TypeOK, Actor
<1>4. /\ TasksNow' = TasksNow /\ IsActive' = IsActive
      /\ \A u \in Turn : Listed(u)' => Listed(u)
  BY <1>1, <1>3 DEF TasksNow, IsActive, Listed
<1>5. l \notin Running /\ l \notin {"unused", "kill", "emit"}
  BY DEF Running
<1>6. ListInv'
  BY <1>1, <1>3, <1>4 DEF ListInv
<1>7. FreshInv'
  BY <1>1, <1>3, <1>4, <1>5 DEF FreshInv
<1>8. AbortInv'
  BY <1>1, <1>2, <1>3, <1>5 DEF AbortInv
<1>9. EveryRunningTurnCanBeAborted'
  BY <1>1, <1>3, <1>4, <1>5 DEF EveryRunningTurnCanBeAborted
<1>10. ReservationIsOwned'
  BY <1>1, <1>3, <1>4 DEF ReservationIsOwned, Owning
<1> QED BY <1>6, <1>7, <1>8, <1>9, <1>10

LEMMA ClearPendingInv ==
  ASSUME Inv, TypeOK', NEW a \in Actor, AbortClear(a)
  PROVE  Inv'
<1> USE DEF Inv
<1>1. /\ UNCHANGED <<active, tasks, victims, killed, cancelled, starting, used, target>>
      /\ pc[a] = "clear_pending"
      /\ pc[a] \notin Busy \union Owning \union Running \union {"unused"}
  BY Aborter DEF AbortClear, abortVars, userVars
<1>2. PICK l \in {"st_queued", "ms_check"} : \A b \in Actor : pc'[b] =
        IF b = a THEN l ELSE IF b \in Waiting(shell[a]) THEN "sample" ELSE pc[b]
  BY DEF AbortClear
<1>3. \A b \in Actor : b # a =>
        \/ pc'[b] = pc[b]
        \/ pc[b] = "approval" /\ pc'[b] = "sample"
  BY <1>2 DEF Waiting
<1>4. /\ \A b \in Actor : shell'[b] = IF b = a THEN NoShell ELSE shell[b]
      /\ \A u \in Turn : u \in Actor
  BY DEF AbortClear, TypeOK, Actor
<1>5. TasksNow' = TasksNow /\ IsActive' = IsActive /\ \A u \in Turn : Listed(u)' = Listed(u)
  BY <1>1 DEF TasksNow, IsActive, Listed
<1>6. /\ pc'[a] \notin Running /\ pc'[a] \notin {"unused", "kill", "emit"}
      /\ "sample" \in Running /\ "sample" \in Busy /\ "approval" \in Running
      /\ "approval" \notin Owning
  BY <1>2 DEF Running, Busy, Owning, Reservers, Starters, Closers
<1>7. ListInv'
  BY <1>1, <1>3, <1>4, <1>5, <1>6 DEF ListInv
<1>8. FreshInv'
  BY <1>1, <1>3, <1>4, <1>5, <1>6 DEF FreshInv
<1>9. AbortInv'
  BY <1>1, <1>3, <1>6 DEF AbortInv
<1>10. EveryRunningTurnCanBeAborted'
  BY <1>1, <1>3, <1>4, <1>5, <1>6 DEF EveryRunningTurnCanBeAborted
<1>11. ReservationIsOwned'
  <2>1. \A b \in Actor : pc[b] \in Owning => b # a /\ pc'[b] = pc[b] /\ shell'[b] = shell[b]
    BY <1>1, <1>3, <1>4, <1>6
  <2> QED BY <1>1, <1>5, <2>1 DEF ReservationIsOwned, Owning
<1> QED BY <1>7, <1>8, <1>9, <1>10, <1>11

LEMMA AbortsInv ==
  ASSUME Inv, TypeOK', NEW a \in Actor, Abort(a)
  PROVE  Inv'
<1>1. CASE AbortMiss(a)
  <2>1. /\ Rest(a) \in {"idle", "gone"} /\ {"idle", "take"} \subseteq Free
        /\ pc[a] = "take" /\ pc' = [pc EXCEPT ![a] = Rest(a)] /\ "take" \notin Owning
    BY <1>1, RestPlace DEF AbortMiss, Goto, Free, Owning, Reservers, Starters, Closers
  <2>2. UNCHANGED <<reachVars, target>>
    BY <1>1 DEF AbortMiss, reachVars, turnVars, startVars, abortVars, userVars
  <2> QED BY <2>1, <2>2, MoveFree
<1> QED
  BY <1>1, TakeInv, CancelInv, KillInv, EmitInv, ClearPendingInv DEF Abort

-----------------------------------------------------------------------------
(* Operations of the user and of other threads. *)

LEMMA SpawnInv ==
  ASSUME Inv, TypeOK', NEW k, NEW in, SpawnTask(k, in), pc[Loop] = "idle",
         UNCHANGED <<active, tasks, shell, victims, killed, cancelled, target>>
  PROVE  Inv'
<1> USE DEF Inv
<1> DEFINE t == NextTurn
<1>1. used' = used \union {t} /\ t \in Turn /\ t \notin used
  BY NextTurnFresh DEF SpawnTask, TypeOK
<1>2. /\ Loop \in Actor /\ Loop \notin Turn /\ NoTurn \notin Turn
      /\ \A u \in Turn : u \in Actor /\ u # Loop
  BY ConstantsAssumption DEF Actor
<1>3. /\ \A b \in Actor : pc'[b] = IF b = Loop THEN "take" ELSE pc[b]
      /\ \A b \in Actor : starting'[b] = IF b = Loop THEN t ELSE starting[b]
  BY <1>2 DEF SpawnTask, Goto, TypeOK
<1>4. TasksNow' = TasksNow /\ IsActive' = IsActive /\ \A u \in Turn : Listed(u)' = Listed(u)
  BY DEF TasksNow, IsActive, Listed
<1>5. victims[Loop] = {} /\ "idle" \notin Owning /\ "take" \notin Running
  BY <1>2, IdleVictims DEF Owning, Reservers, Starters, Closers, Running
<1>6. ListInv'
  BY <1>2, <1>3, <1>4 DEF ListInv
<1>7. FreshInv'
  BY <1>1, <1>2, <1>3, <1>4 DEF FreshInv
<1>8. AbortInv'
  BY <1>3, <1>5 DEF AbortInv
<1>9. EveryRunningTurnCanBeAborted'
  BY <1>2, <1>3, <1>4 DEF EveryRunningTurnCanBeAborted
<1>10. ReservationIsOwned'
  BY <1>2, <1>3, <1>4, <1>5 DEF ReservationIsOwned, Owning
<1> QED BY <1>6, <1>7, <1>8, <1>9, <1>10

LEMMA ApproveInv ==
  ASSUME Inv, TypeOK', NEW t \in Turn, Approve(t)
  PROVE  Inv'
<1> USE DEF reachVars, turnVars, startVars, abortVars, userVars
<1>1. UNCHANGED <<reachVars, target>> /\ t \in Actor
  BY DEF Approve, Actor
<1>2. CASE pc[t] = "approval"
  <2>1. /\ pc' = [pc EXCEPT ![t] = "sample"] /\ victims[t] = {}
        /\ "sample" \in Busy /\ "approval" \in Running /\ "approval" \notin Owning
    BY <1>1, <1>2, IdleVictims
    DEF Approve, Goto, Busy, Running, Owning, Reservers, Starters, Closers
  <2> QED BY <1>1, <1>2, <2>1, Move
<1>3. CASE pc[t] # "approval"
  BY <1>1, <1>3, Stays DEF Approve
<1> QED BY <1>2, <1>3

LEMMA UserInv ==
  ASSUME Inv, TypeOK', UserOp \/ QueueDenied
  PROVE  Inv'
<1> USE DEF reachVars, Goto, turnVars, queueVars, startVars, goalVars, taskVars,
            abortVars, eventVars, userVars, LoopIdle
<1>1. /\ Loop \in Actor /\ GoalCaller \in Actor /\ Guardian \in Actor
      /\ {"idle", "take", "queue", "ms_check"} \subseteq Free
      /\ "idle" \notin Owning /\ "queue" \notin Owning
  BY DEF Actor, Free, Tail, Owning, Reservers, Starters, Closers
<1>2. ASSUME NEW u \in Prompt, Steer(u) \/ SteerRefused(u) PROVE Inv'
  BY <1>2, Stays DEF Steer, SteerRefused
<1>3. ASSUME NEW u \in Prompt, UserTurn(u) PROVE Inv'
  BY <1>3, SpawnInv DEF UserTurn
<1>4. CASE Compact
  BY <1>4, SpawnInv DEF Compact
<1>5. CASE Interrupt
  BY <1>1, <1>5, MoveFree DEF Interrupt
<1>6. ASSUME NEW m \in Mail, SendMail(m) PROVE Inv'
  <2>1. CASE m \in TriggerMail
    BY <1>1, <1>6, <2>1, MoveFree DEF SendMail
  <2>2. CASE m \notin TriggerMail
    BY <1>6, <2>2, Stays DEF SendMail
  <2> QED BY <2>1, <2>2
<1>7. ASSUME NEW j \in Denied, ApproveDenied(j) PROVE Inv'
  <2>1. CASE UNCHANGED pc
    BY <1>7, <2>1, Stays DEF ApproveDenied
  <2>2. CASE pc' = [pc EXCEPT ![Loop] = "queue"]
    BY <1>1, <1>7, <2>2, MoveFree DEF ApproveDenied
  <2> QED BY <1>7, <2>1, <2>2 DEF ApproveDenied
<1>8. ASSUME NEW j \in Injected, Inject(j) PROVE Inv'
  BY <1>8, Stays DEF Inject, InjectInto
<1>9. ASSUME NEW t \in Turn, GuardianTrips(t) PROVE Inv'
  <2>1. \A b \in Actor : b # Guardian => target'[b] = target[b]
    BY <1>9 DEF GuardianTrips, Inv, TypeOK
  <2> QED BY <1>1, <1>9, <2>1, MoveFree DEF GuardianTrips
<1>10. CASE GoalCall
  BY <1>1, <1>10, MoveFree DEF GoalCall
<1>11. CASE GoalChange
  BY <1>11, Stays DEF GoalChange
<1>12. CASE QueueDenied
  BY <1>1, <1>12, MoveFree DEF QueueDenied
<1> QED
  BY <1>2, <1>3, <1>4, <1>5, <1>6, <1>7, <1>8, <1>9, <1>10, <1>11, <1>12 DEF UserOp

-----------------------------------------------------------------------------
(* The theorems. *)

LEMMA NextInv == Inv /\ [Next]_vars => Inv'
<1> SUFFICES ASSUME Inv, [Next]_vars PROVE Inv'
  OBVIOUS
<1>1. TypeOK'
  BY NextTypeOK DEF Inv
<1>2. CASE UserOp \/ QueueDenied
  BY <1>1, <1>2, UserInv
<1>3. ASSUME NEW a \in Actor, Step(a) PROVE Inv'
  BY <1>1, <1>3, StartInv, ContinueInv, AbortsInv DEF Step
<1>4. ASSUME NEW t \in Turn, Run(t) \/ FinishTask(t) \/ Die(t) \/ Approve(t) PROVE Inv'
  BY <1>1, <1>4, RunInv, FinishInv, ApproveInv
<1>5. CASE UNCHANGED vars
  BY <1>1, <1>5, Stays
  DEF vars, turnVars, startVars, abortVars, userVars, reachVars
<1> QED BY <1>2, <1>3, <1>4, <1>5 DEF Next

LEMMA Inductive == Spec => []Inv
  BY InitInv, NextInv, PTL DEF Spec

(* Whatever the number of turns and of tool calls, the actors' interleaving  *)
(* and the input, a task that runs and was not cancelled is in the active    *)
(* turn or drained by an abort under way: abort_all_tasks cannot miss it.    *)
THEOREM ReachCorrect == Spec => []EveryRunningTurnCanBeAborted
<1>1. Inv => EveryRunningTurnCanBeAborted
  BY DEF Inv
<1> QED BY <1>1, Inductive, PTL

(* An active turn without a task always has an actor, not aborted, that is   *)
(* going to add a task or to clear it: the reservation of                    *)
(* maybe_start_turn_for_pending_work never blocks the session forever.       *)
THEOREM ReservationCorrect == Spec => []ReservationIsOwned
<1>1. Inv => ReservationIsOwned
  BY DEF Inv
<1> QED BY <1>1, Inductive, PTL

(* A task that has left the active turn and may be starting the next one is  *)
(* never aborted: remove_task and drain_tasks exclude each other.            *)
THEOREM StarterCorrect == Spec => []StarterNeverKilled
<1>1. Inv => StarterNeverKilled
  BY Disjoint DEF Inv, ListInv, Listed, StarterNeverKilled, TypeOK
<1> QED BY <1>1, Inductive, PTL
-----------------------------------------------------------------------------
(* The safety halves of EveryTurnEnds and of the goal continuation: the end  *)
(* of a launched turn is always somebody's to announce, and the permit of    *)
(* the continuation is always in the hands of an actor that gives it back.   *)

Aborts == {"cancel", "kill", "emit"}
Owes   == Running \union {"remove", "leftover", "complete"}
HasPermit == Reservers \union {"gc_check", "gc_reserve"}

EndIsOwed ==
  \A t \in Turn : pc[t] # "unused" =>
    \/ t \in completed \union aborted
    \/ t \notin cancelled /\ pc[t] \in Owes
    \/ \E a \in {Loop, Guardian} : t \in victims[a] /\ pc[a] \in Aborts

PermitIsOwned ==
  permit # NoActor => pc[permit] \in HasPermit /\ permit \notin killed

\* A task in the hands of an aborter.
Drained(t) == \E a \in Actor : t \in victims[a]

EndInv ==
  /\ \A t \in Turn : pc[t] # "unused" =>
       t \in completed \/ t \in aborted \/ Drained(t) \/ pc[t] \in Owes
  /\ \A t \in cancelled : t \in aborted \/ Drained(t)
  /\ killed \subseteq cancelled
  /\ \A a \in Actor : pc[a] \in Aborts \union {"take"} => a \in {Loop, Guardian}
PermitInv == permit # NoActor => pc[permit] \in HasPermit

OwedInv == EndInv /\ PermitInv

LEMMA OwedPlaces ==
  /\ \A l \in Running : l \in Owes
  /\ \A l \in Owes : l \notin HasPermit \union Aborts \union {"unused", "take", "gone", "idle"}
  /\ \A l \in Starters : l \in HasPermit /\ l \notin Aborts \union {"unused", "take"}
  /\ \A l \in HasPermit : l \notin Aborts \union {"unused", "take", "clear_pending", "gone", "idle"}
  BY DEF Owes, Running, HasPermit, Reservers, Starters, Aborts

\* A step that keeps what is owed: whoever leaves the run of a task has ended it
\* or was aborted, and nobody aborts but the loop and the guardian.
LEMMA EndKept ==
  ASSUME Inv, EndInv, Inv',
         completed \subseteq completed',
         \A t \in Turn : t \in aborted \/ Drained(t) => t \in aborted' \/ Drained(t)',
         \A t \in cancelled' \ cancelled : Drained(t)',
         killed' \subseteq cancelled',
         cancelled \subseteq cancelled',
         \A t \in Turn : \/ pc'[t] = pc[t] \/ pc'[t] \in Owes
                         \/ pc[t] \notin Owes \union {"unused"}
                         \/ t \in completed' \/ t \in cancelled,
         \A a \in Actor : pc'[a] \in Aborts \union {"take"} =>
           pc[a] \in Aborts \union {"take"} \/ a \in {Loop, Guardian}
  PROVE  EndInv'
<1>1. cancelled \subseteq Turn BY DEF Inv, TypeOK
<1>2. \A t \in cancelled' : t \in aborted' \/ Drained(t)'
  BY <1>1 DEF EndInv
<1>3. ASSUME NEW t \in Turn, pc'[t] # "unused"
      PROVE  t \in completed' \/ t \in aborted' \/ Drained(t)' \/ pc'[t] \in Owes
  BY <1>3, <1>2 DEF EndInv
<1> QED BY <1>2, <1>3 DEF EndInv

\* The same for a step that moves one actor.
LEMMA OwedMove ==
  ASSUME Inv, OwedInv, Inv', NEW a \in Actor, NEW l, pc' = [pc EXCEPT ![a] = l],
         UNCHANGED <<cancelled, victims, aborted, killed>>, completed \subseteq completed',
         a \in Turn => \/ l \in Owes \/ pc[a] \notin Owes \union {"unused"}
                       \/ a \in completed' \/ a \in cancelled,
         l \in Aborts \union {"take"} =>
           pc[a] \in Aborts \union {"take"} \/ a \in {Loop, Guardian},
         permit' # NoActor =>
           (permit' = permit /\ permit # a) \/ (permit' = a /\ l \in HasPermit)
  PROVE  OwedInv'
<1>1. \A b \in Actor : pc'[b] = IF b = a THEN l ELSE pc[b] BY DEF Inv, TypeOK
<1>2. \A t \in Turn : t \in Actor BY DEF Actor
<1>3. EndInv'
  BY <1>1, <1>2, EndKept DEF OwedInv, EndInv, Drained
<1>4. PermitInv' BY <1>1 DEF OwedInv, PermitInv, Inv, TypeOK
<1> QED BY <1>3, <1>4 DEF OwedInv

LEMMA OwedStays ==
  ASSUME OwedInv, UNCHANGED <<pc, cancelled, victims, aborted, killed, completed, permit>>
  PROVE  OwedInv'
  BY DEF OwedInv, EndInv, PermitInv, Drained

LEMMA OwedRun ==
  ASSUME Inv, OwedInv, Inv', NEW t \in Turn, Run(t)
  PROVE  OwedInv'
<1>1. TypeOK /\ t \in Actor BY DEF Inv, Actor
<1>2. PICK l \in Running : pc' = [pc EXCEPT ![t] = l] BY <1>1, RunMoves
<1>3. pc[t] \in Running /\ UNCHANGED <<victims, killed, cancelled>>
  BY <1>1, RunMoves DEF reachVars
<1>4. UNCHANGED <<completed, aborted, permit>>
  BY DEF Run, Prewarm, RunCompact, Begin, EarlyReturn, DrainPending, DrainMail, Record,
     ToolRuns, ToolAsks, Answer, SampleEnd, Check, Recheck, eventVars, goalVars
<1>5. permit # t \/ permit = NoActor BY <1>3, OwedPlaces DEF OwedInv, PermitInv
<1> QED BY <1>1, <1>2, <1>3, <1>4, <1>5, OwedPlaces, OwedMove

\* The end of a task: it announces the end, unless it was cancelled.
LEMMA OwedFinish ==
  ASSUME Inv, OwedInv, Inv', NEW t \in Turn, FinishTask(t) \/ Die(t)
  PROVE  OwedInv'
<1> USE DEF Goto, abortVars, eventVars, goalVars
<1>1. TypeOK /\ t \in Actor BY DEF Inv, Actor
<1>2. pc[t] \in Closers \union {"finish", "remove"} => permit # t \/ permit = NoActor
  BY DEF OwedInv, PermitInv, HasPermit, Reservers, Starters, Closers
<1>3. CASE Finish(t)
  BY <1>3, <1>1, <1>2, OwedPlaces, OwedMove DEF Finish, Owes, Aborts
<1>4. CASE Remove(t)
  <2>1. PICK l \in {"leftover", "complete"} : pc' = [pc EXCEPT ![t] = l]
    BY <1>4 DEF Remove
  <2> QED BY <2>1, <1>4, <1>1, <1>2, OwedPlaces, OwedMove DEF Remove, Owes, Aborts
<1>5. CASE Leftover(t)
  BY <1>5, <1>1, <1>2, OwedPlaces, OwedMove DEF Leftover, Owes, Aborts, Closers
<1>6. CASE Complete(t)
  BY <1>6, <1>1, <1>2, OwedPlaces, OwedMove DEF Complete, Owes, Aborts, Closers
<1>7. CASE Clear(t)
  <2>1. PICK l \in {"gone", "ms_check"} : pc' = [pc EXCEPT ![t] = l]
    BY <1>7 DEF Clear, LooksForWork
  <2>2. pc[t] \notin Owes \union {"unused"} BY <1>7 DEF Clear, Owes, Running
  <2> QED BY <2>1, <2>2, <1>7, <1>1, <1>2, OwedMove DEF Clear, Aborts, Closers
<1>8. CASE Die(t)
  <2>1. t \in cancelled BY <1>8 DEF Die, OwedInv, EndInv
  <2>2. pc[t] \notin Tail /\ pc[t] \in Busy
    BY <1>8, Disjoint DEF Die, Inv, ListInv, Listed
  <2>3. permit # t \/ permit = NoActor
    BY <2>2 DEF OwedInv, PermitInv, HasPermit, Tail, Busy, Running, Reservers, Starters
  <2> QED BY <2>1, <2>3, <1>8, <1>1, OwedMove DEF Die, Aborts
<1> QED BY <1>3, <1>4, <1>5, <1>6, <1>7, <1>8 DEF FinishTask

\* start_task, which gives the permit back when the turn is launched.
LEMMA OwedStart ==
  ASSUME Inv, OwedInv, Inv', NEW a \in Actor, Start(a)
  PROVE  OwedInv'
<1> USE DEF Goto, abortVars, eventVars, goalVars
<1>1. TypeOK BY DEF Inv
<1>2. pc[a] \in Starters
  BY DEF Start, StartQueued, StartPending, StartMail, StartBind, StartExtend, StartLaunch, Starters
<1>3. CASE StartLaunch(a)
  <2> DEFINE t == starting[a]
  <2>1. t \in Turn /\ t \in Actor /\ pc[t] = "unused" /\ t # a
    BY <1>3, <1>1 DEF StartLaunch, TypeOK, HoldsTurn, Starters, Inv, FreshInv, Actor
  <2> HIDE DEF t
  <2>2. PICK l \in {"idle", "gone", "gc_lock"}, m \in {"compact", "prewarm"} :
          pc' = [pc EXCEPT ![t] = m, ![a] = l]
    BY <1>3, RestPlace DEF StartLaunch, t
  <2>3. \A b \in Actor : pc'[b] = IF b = a THEN l ELSE IF b = t THEN m ELSE pc[b]
    BY <2>1, <2>2, <1>1 DEF TypeOK
  <2>4. UNCHANGED <<cancelled, victims, aborted, killed, completed>> /\ m \in Owes
    BY <1>3 DEF StartLaunch, Owes, Running
  <2>5. EndInv'
    <3>1. \A u \in Turn : u \in Actor BY DEF Actor
    <3>2. pc[a] \notin Owes \union {"unused"} BY <1>2, OwedPlaces
    <3>3. l \notin Aborts \union {"take"} /\ m \notin Aborts \union {"take"}
      BY <2>2 DEF Aborts
    <3> QED BY <2>3, <2>4, <3>1, <3>2, <3>3, EndKept DEF OwedInv, EndInv, Drained
  <2>6. PermitInv'
    <3>1. (permit' = permit /\ permit # a) \/ permit' = NoActor
      BY <1>3 DEF StartLaunch
    <3>2. permit # t \/ permit = NoActor BY <2>1, OwedPlaces DEF OwedInv, PermitInv
    <3> QED BY <3>1, <3>2, <2>3, <1>1 DEF OwedInv, PermitInv, TypeOK
  <2> QED BY <2>5, <2>6 DEF OwedInv
<1>4. CASE ~StartLaunch(a)
  <2>1. PICK l \in Starters : pc' = [pc EXCEPT ![a] = l]
    BY <1>4 DEF Start, StartQueued, StartPending, StartMail, StartBind, StartExtend, Starters
  <2>2. UNCHANGED <<cancelled, victims, aborted, killed, completed, permit>>
    BY <1>4 DEF Start, StartQueued, StartPending, StartMail, StartBind, StartExtend
  <2> QED BY <2>1, <2>2, <1>2, OwedPlaces, OwedMove
<1> QED BY <1>3, <1>4

\* Pending work and the goal continuation, which takes the permit.
LEMMA OwedContinue ==
  ASSUME Inv, OwedInv, Inv', NEW a \in Actor, Continue(a)
  PROVE  OwedInv'
<1> USE DEF Goto, abortVars, eventVars
<1>1. UNCHANGED <<cancelled, victims, aborted, killed, completed>>
  BY DEF Continue, WorkCheck, WorkReserve, GoalLock, GoalCheck, GoalReserve, GoalStale,
     GoalCurrent, GoalStill
<1>2. pc[a] \notin Owes \union {"unused"}
  BY DEF Continue, WorkCheck, WorkReserve, GoalLock, GoalCheck, GoalReserve, GoalStale,
     GoalCurrent, GoalStill, Owes, Running
<1>3. ASSUME NEW l \in {"ms_reserve", "gc_lock", "gc_check", "gc_reserve", "gc_reread",
                        "gc_still", "st_queued", "idle", "gone"},
             pc' = [pc EXCEPT ![a] = l],
             permit' # NoActor =>
               (permit' = permit /\ permit # a) \/ (permit' = a /\ l \in HasPermit)
      PROVE  OwedInv'
  BY <1>1, <1>2, <1>3, OwedMove DEF Aborts
<1>4. CASE WorkCheck(a) \/ WorkReserve(a)
  <2>1. pc[a] \in {"ms_check", "ms_reserve"} /\ permit' = permit
    BY <1>4 DEF WorkCheck, WorkReserve, goalVars
  <2>2. permit # a \/ permit = NoActor
    BY <2>1 DEF OwedInv, PermitInv, HasPermit, Reservers, Starters
  <2>3. PICK l \in {"ms_reserve", "gc_lock", "st_queued", "idle", "gone"} :
          pc' = [pc EXCEPT ![a] = l]
    BY <1>4, RestPlace DEF WorkCheck, WorkReserve, Reserve
  <2> QED BY <2>1, <2>2, <2>3, <1>3
<1>5. CASE GoalLock(a)
  BY <1>5, <1>3 DEF GoalLock, HasPermit
<1>6. CASE GoalCheck(a) \/ GoalReserve(a) \/ GoalStill(a)
  <2>1. CASE GiveUp(a)
    BY <2>1, <1>3, RestPlace DEF GiveUp
  <2>2. CASE ~GiveUp(a)
    <3>1. permit' = permit
      BY <2>2, <1>6 DEF GoalCheck, GoalReserve, GoalStill, goalVars
    <3>2. PICK l \in {"gc_reserve", "gc_reread", "st_queued"} : pc' = [pc EXCEPT ![a] = l]
      BY <2>2, <1>6 DEF GoalCheck, GoalReserve, GoalStill, Reserve
    <3>3. l \in HasPermit BY DEF HasPermit, Reservers, Starters
    <3> QED BY <3>1, <3>2, <3>3, <1>3
  <2> QED BY <2>1, <2>2
<1>7. CASE GoalStale(a)
  BY <1>7, <1>3, RestPlace DEF GoalStale, GiveUp
<1>8. CASE GoalCurrent(a)
  BY <1>8, <1>3 DEF GoalCurrent, goalVars, HasPermit, Reservers
<1> QED BY <1>4, <1>5, <1>6, <1>7, <1>8 DEF Continue

\* An abort answers for the end of every task it has drained.
LEMMA OwedAbort ==
  ASSUME Inv, OwedInv, Inv', NEW a \in Actor, Abort(a)
  PROVE  OwedInv'
<1> USE DEF Goto, abortVars, eventVars, goalVars
<1>1. /\ TypeOK /\ EndInv /\ PermitInv /\ AbortInv BY DEF Inv, OwedInv
<1>2. UNCHANGED <<completed, permit>>
  BY DEF Abort, AbortTake, AbortMiss, AbortCancel, AbortKill, AbortEmit, AbortClear
<1>3. pc[a] \in Aborts \union {"take", "clear_pending"}
  BY DEF Abort, AbortTake, AbortMiss, AbortCancel, AbortKill, AbortEmit, AbortClear, Aborts
<1>4. permit # a \/ permit = NoActor BY <1>1, <1>3, OwedPlaces DEF PermitInv
<1>5. pc[a] \notin Owes \union {"unused"} BY <1>3 DEF Owes, Running, Aborts
<1>6. \A t \in Turn : t \in Actor BY DEF Actor
<1>7. CASE ~AbortClear(a)
  <2>1. pc' = [pc EXCEPT ![a] = pc'[a]]
    BY <1>7, <1>1 DEF Abort, AbortTake, AbortMiss, AbortCancel, AbortKill, AbortEmit, TypeOK
  <2>2. \A b \in Actor : b # a => pc'[b] = pc[b] BY <2>1, <1>1 DEF TypeOK
  <2>3. PermitInv' BY <2>2, <1>2, <1>4, <1>1 DEF PermitInv, TypeOK
  <2>4. pc[a] \in Aborts \union {"take"}
    BY <1>7 DEF Abort, AbortTake, AbortMiss, AbortCancel, AbortKill, AbortEmit, Aborts
  <2>5. \A t \in Turn : t \in aborted \/ Drained(t) => t \in aborted' \/ Drained(t)'
    <3>1. CASE AbortTake(a)
      BY <3>1, IdleVictims, <1>1 DEF AbortTake, Drained, TypeOK
    <3>2. CASE AbortMiss(a) \/ AbortCancel(a) \/ AbortKill(a)
      BY <3>2 DEF AbortMiss, AbortCancel, AbortKill, Drained
    <3>3. CASE AbortEmit(a)
      BY <3>3, <1>1 DEF AbortEmit, NextVictims, Drained, TypeOK
    <3> QED BY <3>1, <3>2, <3>3, <1>7 DEF Abort
  <2>6. /\ cancelled \subseteq cancelled' /\ killed' \subseteq cancelled'
        /\ \A t \in cancelled' \ cancelled : Drained(t)'
    <3>1. CASE AbortCancel(a)
      BY <3>1, <1>1 DEF AbortCancel, CancelToken, EndInv, Drained
    <3>2. CASE AbortKill(a)
      BY <3>2, <1>1 DEF AbortKill, AbortInv, EndInv
    <3>3. CASE AbortTake(a) \/ AbortMiss(a) \/ AbortEmit(a)
      BY <3>3, <1>1 DEF AbortTake, AbortMiss, AbortEmit, EndInv
    <3> QED BY <3>1, <3>2, <3>3, <1>7 DEF Abort
  <2>7. EndInv'
    BY <2>2, <2>4, <2>5, <2>6, <1>1, <1>2, <1>5, <1>6, EndKept
  <2> QED BY <2>3, <2>7 DEF OwedInv
<1>8. CASE AbortClear(a)
  <2>1. UNCHANGED <<victims, cancelled, killed, aborted>> BY <1>8 DEF AbortClear
  <2>2. /\ pc'[a] \in {"st_queued", "ms_check"}
        /\ \A b \in Actor : b # a =>
             pc'[b] = pc[b] \/ (pc[b] = "approval" /\ pc'[b] = "sample")
    BY <1>8, <1>1 DEF AbortClear, Waiting
  <2>3. \A b \in Actor : pc'[b] \in Aborts \union {"take"} => pc[b] \in Aborts \union {"take"}
    BY <2>2 DEF Aborts
  <2>4. "sample" \in Owes BY DEF Owes, Running
  <2>5. EndInv'
    BY <2>1, <2>2, <2>3, <2>4, <1>1, <1>2, <1>5, <1>6, EndKept DEF EndInv, Drained
  <2>6. PermitInv'
    BY <2>2, <1>1, <1>2, <1>4 DEF PermitInv, TypeOK, HasPermit, Reservers, Starters
  <2> QED BY <2>5, <2>6 DEF OwedInv
<1> QED BY <1>7, <1>8

LEMMA OwedUser ==
  ASSUME Inv, OwedInv, Inv', UserOp \/ QueueDenied \/ \E t \in Turn : Approve(t)
  PROVE  OwedInv'
<1> USE DEF Goto, abortVars, eventVars, goalVars
<1>1. TypeOK /\ PermitInv /\ Loop \in Actor /\ Guardian \in Actor /\ GoalCaller \in Actor
  BY DEF Inv, OwedInv, Actor
<1>2. Loop \notin Turn /\ Guardian \notin Turn /\ GoalCaller \notin Turn
  BY ConstantsAssumption
<1>3. ASSUME NEW a \in {Loop, Guardian, GoalCaller}, pc[a] \in {"idle", "queue"},
             NEW l, pc' = [pc EXCEPT ![a] = l], l \notin Aborts,
             l = "take" => a # GoalCaller,
             UNCHANGED <<cancelled, victims, aborted, killed, completed, permit>>
      PROVE  OwedInv'
  <2>1. permit # a \/ permit = NoActor
    BY <1>1, <1>3 DEF PermitInv, HasPermit, Reservers, Starters
  <2> QED BY <2>1, <1>1, <1>2, <1>3, OwedMove
<1>4. ASSUME NEW u \in Prompt, Steer(u) \/ SteerRefused(u) PROVE OwedInv'
  BY <1>4, OwedStays DEF Steer, SteerRefused
<1>5. CASE (\E u \in Prompt : UserTurn(u)) \/ Compact \/ Interrupt
  <2>1. UNCHANGED <<cancelled, victims, aborted, killed, completed, permit>>
    BY <1>5 DEF UserTurn, Compact, Interrupt, SpawnTask
  <2>2. pc[Loop] = "idle" /\ pc' = [pc EXCEPT ![Loop] = "take"]
    BY <1>5 DEF UserTurn, Compact, Interrupt, SpawnTask, LoopIdle
  <2> QED BY <2>1, <2>2, <1>3, ConstantsAssumption DEF Aborts
<1>6. ASSUME NEW m \in Mail, SendMail(m) PROVE OwedInv'
  BY <1>6, <1>3, OwedStays DEF SendMail, LoopIdle, Aborts
<1>7. ASSUME NEW j \in Denied, ApproveDenied(j) PROVE OwedInv'
  BY <1>7, <1>3, OwedStays DEF ApproveDenied, LoopIdle, Aborts
<1>8. ASSUME NEW j \in Injected, Inject(j) PROVE OwedInv'
  BY <1>8, OwedStays DEF Inject
<1>9. ASSUME NEW t \in Turn, GuardianTrips(t) PROVE OwedInv'
  BY <1>9, <1>3, ConstantsAssumption DEF GuardianTrips, Aborts
<1>10. CASE GoalCall
  BY <1>10, <1>3 DEF GoalCall, Aborts
<1>11. CASE GoalChange
  BY <1>11, OwedStays DEF GoalChange
<1>12. CASE QueueDenied
  BY <1>12, <1>3 DEF QueueDenied, Aborts
<1>13. ASSUME NEW t \in Turn, Approve(t) PROVE OwedInv'
  <2>1. t \in Actor /\ UNCHANGED <<cancelled, victims, aborted, killed, completed, permit>>
    BY <1>13 DEF Approve, Actor
  <2>2. CASE pc[t] = "approval"
    <3>1. permit # t \/ permit = NoActor
      BY <2>2, <1>1 DEF PermitInv, HasPermit, Reservers, Starters
    <3>2. "sample" \in Owes BY DEF Owes, Running
    <3> QED BY <2>1, <2>2, <3>1, <3>2, <1>13, OwedPlaces, OwedMove DEF Approve
  <2>3. CASE pc[t] # "approval" BY <2>1, <2>3, <1>13, OwedStays DEF Approve
  <2> QED BY <2>2, <2>3
<1> QED
  BY <1>4, <1>5, <1>6, <1>7, <1>8, <1>9, <1>10, <1>11, <1>12, <1>13 DEF UserOp

LEMMA InitOwed == Init => OwedInv
<1> SUFFICES ASSUME Init PROVE OwedInv
  OBVIOUS
<1>1. \A a \in Actor : pc[a] \in {"idle", "unused"} BY DEF Init
<1>2. \A t \in Turn : pc[t] = "unused"
  BY ConstantsAssumption DEF Init, Actor
<1> QED BY <1>1, <1>2 DEF Init, OwedInv, EndInv, PermitInv, Aborts

LEMMA NextOwed == Inv /\ OwedInv /\ [Next]_vars => OwedInv'
<1> SUFFICES ASSUME Inv, OwedInv, [Next]_vars PROVE OwedInv'
  OBVIOUS
<1>1. Inv' BY NextInv
<1>2. CASE UNCHANGED vars
  BY <1>2, OwedStays DEF vars, abortVars, eventVars, goalVars
<1> QED
  BY <1>1, <1>2, OwedRun, OwedFinish, OwedStart, OwedContinue, OwedAbort, OwedUser
  DEF Next, Step

LEMMA OwedInvariant == Spec => [](Inv /\ OwedInv)
  BY InitOwed, NextOwed, Inductive, PTL DEF Spec

(* A launched turn has had its end event, or its task is on its way to       *)
(* TurnComplete and not cancelled, or an abort under way is going to send    *)
(* TurnAborted: no interleaving leaves a client waiting for an end that      *)
(* nobody is going to announce.                                              *)
THEOREM EndCorrect == Spec => []EndIsOwed
<1>1. Inv /\ OwedInv => EndIsOwed
  <2> SUFFICES ASSUME Inv, OwedInv, NEW t \in Turn, pc[t] # "unused"
               PROVE  \/ t \in completed \union aborted
                      \/ t \notin cancelled /\ pc[t] \in Owes
                      \/ \E a \in {Loop, Guardian} : t \in victims[a] /\ pc[a] \in Aborts
    BY DEF EndIsOwed
  <2>1. ASSUME Drained(t)
        PROVE  \E a \in {Loop, Guardian} : t \in victims[a] /\ pc[a] \in Aborts
    BY <2>1 DEF Drained, Inv, AbortInv, OwedInv, EndInv, Aborts
  <2> QED BY <2>1 DEF OwedInv, EndInv
<1> QED BY <1>1, OwedInvariant, PTL

(* goal_runtime.continuation_lock is held by an actor between its check and  *)
(* the launch or the return that gives it back, never by a task that is      *)
(* aborted halfway: the next continuation gets the lock in the end.          *)
THEOREM PermitCorrect == Spec => []PermitIsOwned
<1>1. Inv /\ OwedInv => PermitIsOwned
  <2> SUFFICES ASSUME Inv, OwedInv, permit # NoActor
               PROVE  pc[permit] \in HasPermit /\ permit \notin killed
    BY DEF PermitIsOwned
  <2>1. pc[permit] \in HasPermit BY DEF OwedInv, PermitInv
  <2>2. ASSUME permit \in killed PROVE FALSE
    <3>1. permit \in Turn /\ pc[permit] \in Busy
      BY <2>2 DEF Inv, TypeOK, ListInv, Listed
    <3> QED BY <2>1, <3>1 DEF Busy, Running, HasPermit, Reservers, Starters
  <2> QED BY <2>1, <2>2
<1> QED BY <1>1, OwedInvariant, PTL
-----------------------------------------------------------------------------
(* The safety half of TriggerMailIsRead.  In a session without interrupts    *)
(* and goals, mail that asks for a turn is never left behind: a turn is      *)
(* active, which looks at the mailbox when it ends, or an actor that was not *)
(* aborted is going to look or to start a turn.  With interrupts or goals it *)
(* is not so.                                                                *)

NoGoals == GoalPrompt = {}
NoInterrupts == MaxInterrupts = 0

Notices == Starters \union Aborts \union {"ms_check", "ms_reserve", "clear_pending"}
MailIsNoticed ==
  mailbox \intersect TriggerMail # {} =>
    \/ IsActive \/ pc[Loop] = "take"
    \/ \E a \in Actor \ killed : pc[a] \in Notices

\* An abort by the loop replaces a turn, and no continuation gets to reserve.
MailInv ==
  /\ MailIsNoticed
  /\ pc[Loop] = "take" => Replacing(Loop)
  /\ ~goalActive
  /\ \A a \in Actor : pc[a] \notin {"gc_reserve", "gc_reread", "gc_still"}

LEMMA NotKilled == Inv => StarterNeverKilled
  BY Disjoint DEF Inv, ListInv, Listed, StarterNeverKilled, TypeOK

LEMMA NoticePlaces ==
  /\ \A l \in Notices : l \notin Running \union Busy \union {"take", "idle", "queue", "gone",
       "unused", "gc_lock", "gc_check", "gc_reserve", "gc_reread", "gc_still", "clear"}
  /\ \A l \in Running : l \notin {"take", "gc_reserve", "gc_reread", "gc_still"}
  BY DEF Notices, Running, Busy, Starters, Aborts

\* A step that moves one actor and drops no notice.
LEMMA MailMove ==
  ASSUME Inv, MailInv, NEW a \in Actor, NEW l, pc' = [pc EXCEPT ![a] = l],
         mailbox' \subseteq mailbox, goalActive' = goalActive,
         IsActive => IsActive' \/ (l \in Notices /\ a \notin killed'),
         pc[a] \in Notices \/ pc[a] = "take" =>
           IsActive' \/ (l \in Notices /\ a \notin killed')
             \/ mailbox \intersect TriggerMail = {} \/ (pc[a] = "take" /\ a # Loop),
         \A b \in Actor : pc[b] \in Notices /\ b \notin killed => b \notin killed',
         l \notin {"gc_reserve", "gc_reread", "gc_still"},
         l = "take" => a # Loop,
         a # Loop => starting'[Loop] = starting[Loop]
  PROVE  MailInv'
<1>1. \A b \in Actor : pc'[b] = IF b = a THEN l ELSE pc[b] BY DEF Inv, TypeOK
<1>2. Loop \in Actor BY DEF Actor
<1>3. MailIsNoticed'
  <2> SUFFICES ASSUME (mailbox \intersect TriggerMail)' # {}, ~IsActive'
               PROVE  pc'[Loop] = "take" \/ \E b \in Actor \ killed' : pc'[b] \in Notices
    BY DEF MailIsNoticed
  <2>1. mailbox \intersect TriggerMail # {} OBVIOUS
  <2>2. CASE l \in Notices /\ a \notin killed' BY <2>2, <1>1
  <2>3. CASE ~(l \in Notices /\ a \notin killed')
    <3>1. pc[Loop] = "take" \/ \E b \in Actor \ killed : pc[b] \in Notices
      BY <2>1, <2>3 DEF MailInv, MailIsNoticed
    <3>2. CASE pc[Loop] = "take" BY <3>2, <2>1, <2>3, <1>1, <1>2, NoticePlaces
    <3>3. ASSUME NEW b \in Actor \ killed, pc[b] \in Notices
          PROVE  \E d \in Actor \ killed' : pc'[d] \in Notices
      <4>1. b # a BY <3>3, <2>1, <2>3, NoticePlaces
      <4> QED BY <4>1, <3>3, <1>1
    <3> QED BY <3>1, <3>2, <3>3
  <2> QED BY <2>2, <2>3
<1>4. pc'[Loop] = "take" => Replacing(Loop)'
  BY <1>1, <1>2 DEF MailInv, Replacing
<1> QED BY <1>1, <1>3, <1>4 DEF MailInv

LEMMA MailStays ==
  ASSUME MailInv, mailbox' \subseteq mailbox, UNCHANGED <<pc, killed, starting>>, ~goalActive',
         IsActive => IsActive'
  PROVE  MailInv'
  BY DEF MailInv, MailIsNoticed, Replacing

LEMMA MailRun ==
  ASSUME Inv, MailInv, NEW t \in Turn, Run(t)
  PROVE  MailInv'
<1>1. TypeOK /\ t \in Actor /\ t # Loop BY ConstantsAssumption DEF Inv, Actor
<1>2. PICK l \in Running : pc' = [pc EXCEPT ![t] = l] BY <1>1, RunMoves
<1>3. pc[t] \in Running /\ UNCHANGED <<active, killed, starting>>
  BY <1>1, RunMoves DEF reachVars
<1>4. goalActive' = goalActive /\ mailbox' \subseteq mailbox
  BY DEF Run, Prewarm, RunCompact, Begin, EarlyReturn, DrainPending, DrainMail, TakeMail, Record,
     ToolRuns, ToolAsks, Answer, SampleEnd, Check, Recheck, queueVars, goalVars
<1>5. IsActive' = IsActive BY <1>3 DEF IsActive
<1> QED BY <1>1, <1>2, <1>3, <1>4, <1>5, NoticePlaces, MailMove

\* A task that clears the active turn looks for work itself.
LEMMA MailFinish ==
  ASSUME Inv, MailInv, NEW t \in Turn, FinishTask(t) \/ Die(t)
  PROVE  MailInv'
<1> USE DEF Goto, goalVars, queueVars, abortVars, startVars
<1>1. TypeOK /\ t \in Actor /\ t # Loop BY ConstantsAssumption DEF Inv, Actor
<1>2. UNCHANGED <<mailbox, goalActive, killed, starting>>
  BY DEF FinishTask, Finish, Remove, Leftover, Complete, Clear, Die
<1>3. CASE Clear(t)
  <2>1. t \notin killed /\ pc[t] \notin Notices \union {"take"}
    BY <1>3, <1>1, NotKilled, NoticePlaces DEF Clear, StarterNeverKilled, Tail
  <2>2. CASE StillReserved(t)
    <3>1. pc' = [pc EXCEPT ![t] = "ms_check"]
      BY <1>3, <2>2 DEF Clear, LooksForWork
    <3>2. "ms_check" \in Notices BY DEF Notices
    <3> QED BY <3>1, <3>2, <2>1, <1>1, <1>2, MailMove
  <2>3. CASE ~StillReserved(t)
    <3>1. pc' = [pc EXCEPT ![t] = "gone"] /\ IsActive' = IsActive
      BY <1>3, <2>3 DEF Clear, IsActive
    <3> QED BY <3>1, <2>1, <1>1, <1>2, MailMove
  <2> QED BY <2>2, <2>3
<1>4. CASE ~Clear(t)
  <2>1. /\ active' = active
        /\ \E l \in {"gone", "remove", "leftover", "complete", "clear"} :
             pc' = [pc EXCEPT ![t] = l]
    BY <1>4 DEF FinishTask, Finish, Remove, Leftover, Complete, Die, turnVars
  <2>2. IsActive' = IsActive BY <2>1 DEF IsActive
  <2>3. pc[t] \notin Notices \union {"take"}
    <3>1. CASE Die(t)
      BY <3>1, Disjoint, NoticePlaces DEF Die, Inv, ListInv, Listed
    <3>2. CASE FinishTask(t)
      BY <3>2, <1>4 DEF FinishTask, Finish, Remove, Leftover, Complete, Notices, Starters, Aborts
    <3> QED BY <3>1, <3>2
  <2> QED BY <2>1, <2>2, <2>3, <1>1, <1>2, MailMove
<1> QED BY <1>3, <1>4

\* Once its turn is bound, or launched, a turn is active.
LEMMA MailStart ==
  ASSUME Inv, OwedInv, MailInv, NEW a \in Actor, Start(a)
  PROVE  MailInv'
<1> USE DEF Goto, goalVars, queueVars, abortVars, startVars
<1>1. TypeOK /\ Loop \in Actor BY DEF Inv, Actor
<1>2. pc[a] \in Starters /\ pc[a] # "take"
  BY DEF Start, StartQueued, StartPending, StartMail, StartBind, StartExtend, StartLaunch, Starters
<1>3. a \notin killed
  BY <1>2, NotKilled DEF StarterNeverKilled, Tail, Reservers
<1>4. UNCHANGED <<goalActive, killed>> /\ mailbox' \subseteq mailbox
  BY DEF Start, StartQueued, StartPending, StartMail, StartBind, StartExtend, StartLaunch, TakeMail
<1>5. CASE StartLaunch(a)
  <2> DEFINE t == starting[a]
  <2>1. t \in Turn /\ pc[t] = "unused" /\ t \in Actor
    BY <1>5, <1>1 DEF StartLaunch, TypeOK, HoldsTurn, Starters, Inv, FreshInv, Actor
  <2>2. active' # NoShell
    BY <1>5, <2>1, ShellFacts DEF StartLaunch, GetOrInsert, IsActive
  <2> HIDE DEF t
  <2>3. PICK l \in {"idle", "gone", "gc_lock"}, m \in {"compact", "prewarm"} :
          pc' = [pc EXCEPT ![t] = m, ![a] = l]
    BY <1>5, RestPlace DEF StartLaunch, t
  <2>4. \A b \in Actor : pc'[b] = pc[b] \/ pc'[b] \in {"idle", "gone", "gc_lock", "compact", "prewarm"}
    BY <2>1, <2>3, <1>1 DEF TypeOK
  <2>5. starting' = [starting EXCEPT ![a] = NoTurn] BY <1>5 DEF StartLaunch
  <2>6. pc'[Loop] = "take" => Replacing(Loop)'
    BY <2>4, <2>5, <1>1, <1>2 DEF MailInv, Replacing, TypeOK
  <2> QED BY <2>2, <2>4, <2>6, <1>1, <1>4 DEF MailInv, MailIsNoticed, IsActive
<1>6. CASE ~StartLaunch(a)
  <2>1. PICK l \in Starters : pc' = [pc EXCEPT ![a] = l]
    BY <1>6 DEF Start, StartQueued, StartPending, StartMail, StartBind, StartExtend, Starters
  <2>2. starting' = starting /\ (IsActive => IsActive')
    BY <1>6 DEF Start, StartQueued, StartPending, TakePending, StartMail, StartBind, StartExtend,
       GetOrInsert, IsActive, turnVars
  <2>3. l \in Notices /\ l \notin {"take", "gc_reserve", "gc_reread", "gc_still"}
    BY DEF Notices, Starters
  <2> QED BY <2>1, <2>2, <2>3, <1>3, <1>4, MailMove
<1> QED BY <1>5, <1>6

\* The check sees the mail; the reservation is a turn, or meets one.
LEMMA MailContinue ==
  ASSUME Inv, MailInv, NEW a \in Actor, Continue(a)
  PROVE  MailInv'
<1> USE DEF Goto, goalVars, queueVars, abortVars, startVars
<1>1. TypeOK /\ Loop \in Actor BY DEF Inv, Actor
<1>2. ~GoalReserve(a) /\ ~GoalStale(a) /\ ~GoalCurrent(a) /\ ~GoalStill(a)
  BY DEF MailInv, GoalReserve, GoalStale, GoalCurrent, GoalStill
<1>3. CASE WorkCheck(a)
  <2>1. /\ pc[a] = "ms_check" /\ IsActive' = IsActive
        /\ UNCHANGED <<mailbox, goalActive, killed, starting>>
    BY <1>3 DEF WorkCheck, IsActive, turnVars
  <2>2. a \notin killed BY <2>1, NotKilled DEF StarterNeverKilled, Tail
  <2>3. CASE PendingWork
    <3>1. pc' = [pc EXCEPT ![a] = "ms_reserve"] BY <1>3, <2>3 DEF WorkCheck
    <3>2. "ms_reserve" \in Notices BY DEF Notices
    <3> QED BY <3>1, <3>2, <2>1, <2>2, MailMove
  <2>4. CASE ~PendingWork
    <3>1. mailbox \intersect TriggerMail = {} BY <2>4 DEF PendingWork
    <3>2. PICK l \in {"gc_lock", "idle", "gone"} : pc' = [pc EXCEPT ![a] = l]
      BY <1>3, <2>4, RestPlace DEF WorkCheck
    <3> QED BY <3>1, <3>2, <2>1, MailMove
  <2> QED BY <2>3, <2>4
<1>4. CASE WorkReserve(a)
  <2>1. pc[a] = "ms_reserve" /\ UNCHANGED <<mailbox, goalActive, killed>>
    BY <1>4 DEF WorkReserve
  <2>2. IsActive'
    BY <1>4, <1>1, NextTurnFresh, ShellFacts DEF WorkReserve, Reserve, IsActive, TypeOK
  <2>3. \E l \in {"st_queued", "gc_lock", "idle", "gone"} : pc' = [pc EXCEPT ![a] = l]
    BY <1>4, RestPlace DEF WorkReserve, Reserve
  <2>4. a # Loop => starting'[Loop] = starting[Loop]
    BY <1>4, <1>1 DEF WorkReserve, Reserve, TypeOK
  <2> QED BY <2>1, <2>2, <2>3, <2>4, MailMove
<1>5. CASE GoalLock(a) \/ GoalCheck(a)
  <2>1. /\ pc[a] \in {"gc_lock", "gc_check"} /\ IsActive' = IsActive
        /\ UNCHANGED <<mailbox, goalActive, killed, starting>>
    BY <1>5 DEF GoalLock, GoalCheck, IsActive, turnVars
  <2>2. ~Candidate BY DEF Candidate, MailInv
  <2>3. PICK l \in {"gc_check", "idle", "gone"} : pc' = [pc EXCEPT ![a] = l]
    BY <1>5, <2>2, RestPlace DEF GoalLock, GoalCheck, GiveUp
  <2>4. pc[a] \notin Notices \union {"take"} BY <2>1, NoticePlaces
  <2> QED BY <2>1, <2>3, <2>4, MailMove
<1> QED BY <1>2, <1>3, <1>4, <1>5 DEF Continue

\* An abort goes on to start a turn or to look for work.
LEMMA MailAbort ==
  ASSUME Inv, OwedInv, MailInv, NEW a \in Actor, Abort(a)
  PROVE  MailInv'
<1> USE DEF Goto, goalVars, queueVars, abortVars, startVars
<1>1. TypeOK /\ EndInv /\ Loop \in Actor BY DEF Inv, OwedInv, Actor
<1>2. UNCHANGED <<mailbox, goalActive, starting>>
  BY DEF Abort, AbortTake, AbortMiss, AbortCancel, AbortKill, AbortEmit, AbortClear
<1>3. ASSUME a \in {Loop, Guardian} PROVE a \notin killed
  BY <1>1, <1>3, ConstantsAssumption DEF TypeOK
<1>4. CASE AbortTake(a)
  <2>1. a \in {Loop, Guardian} /\ killed' = killed
    BY <1>4, <1>1 DEF AbortTake, EndInv
  <2>2. TasksNow # {} \/ Replacing(a)
    BY <1>4, <2>1 DEF AbortTake, MayTake, MailInv
  <2>3. PICK l \in {"cancel", "st_queued"} : pc' = [pc EXCEPT ![a] = l]
    BY <1>4, <2>2 DEF AbortTake
  <2>4. l \in Notices BY DEF Notices, Starters, Aborts
  <2> QED BY <2>1, <2>3, <2>4, <1>2, <1>3, MailMove
<1>5. CASE AbortMiss(a)
  <2>1. a # Loop /\ IsActive' = IsActive /\ killed' = killed /\ pc[a] = "take"
    BY <1>5, ConstantsAssumption DEF AbortMiss, MayTake, IsActive, turnVars
  <2>2. PICK l \in {"idle", "gone"} : pc' = [pc EXCEPT ![a] = l]
    BY <1>5, RestPlace DEF AbortMiss
  <2> QED BY <2>1, <2>2, <1>2, NoticePlaces, MailMove
<1>6. CASE AbortCancel(a) \/ AbortKill(a) \/ AbortEmit(a)
  <2>1. a \in {Loop, Guardian}
    BY <1>6, <1>1 DEF AbortCancel, AbortKill, AbortEmit, EndInv, Aborts
  <2>2. \E l \in {"kill", "emit", "clear_pending", "cancel"} : pc' = [pc EXCEPT ![a] = l]
    BY <1>6 DEF AbortCancel, AbortKill, AbortEmit
  <2>3. {"kill", "emit", "clear_pending", "cancel"} \subseteq Notices BY DEF Notices, Aborts
  <2>4. IsActive' = IsActive
    BY <1>6 DEF AbortCancel, AbortKill, AbortEmit, IsActive, turnVars
  <2>5. killed' = killed \/ (killed' = killed \union {target[a]} /\ pc[target[a]] \in Busy
                             /\ target[a] \in Turn)
    <3>1. CASE AbortKill(a)
      <4>1. target[a] \in victims[a] /\ target[a] \in Turn
        BY <3>1, <1>1 DEF AbortKill, TypeOK
      <4>2. pc[target[a]] \in Busy BY <4>1 DEF Inv, ListInv, Listed
      <4> QED BY <3>1, <4>1, <4>2 DEF AbortKill
    <3> QED BY <3>1, <1>6 DEF AbortCancel, AbortEmit
  <2>6. a \notin killed' BY <2>1, <2>5, <1>3, ConstantsAssumption
  <2>7. \A b \in Actor : pc[b] \in Notices /\ b \notin killed => b \notin killed'
    BY <2>5, NoticePlaces
  <2> QED BY <2>1, <2>2, <2>3, <2>4, <2>6, <2>7, <1>2, MailMove
<1>7. CASE AbortClear(a)
  <2>1. /\ pc'[a] \in {"st_queued", "ms_check"}
        /\ \A b \in Actor : b # a =>
             pc'[b] = pc[b] \/ (pc[b] = "approval" /\ pc'[b] = "sample")
    BY <1>7, <1>1 DEF AbortClear, Waiting
  <2>2. UNCHANGED <<active, killed>> BY <1>7 DEF AbortClear
  <2>3. /\ {"st_queued", "ms_check"} \subseteq Notices /\ "approval" \notin Notices
        /\ "sample" \notin Notices
    BY DEF Notices, Starters, Aborts
  <2>4. \A b \in Actor : pc[b] \in Notices => pc'[b] \in Notices BY <2>1, <2>3
  <2>5. IsActive' = IsActive /\ pc[a] # "take"
    BY <2>2, <1>7 DEF IsActive, AbortClear
  <2>6. pc[Loop] = "take" => pc'[Loop] = "take" BY <2>1, <2>5, <1>1
  <2>7. MailIsNoticed'
    BY <2>2, <2>4, <2>5, <2>6, <1>2 DEF MailInv, MailIsNoticed
  <2> QED BY <2>1, <2>7, <1>1, <1>2 DEF MailInv, Replacing
<1> QED BY <1>4, <1>5, <1>6, <1>7 DEF Abort

LEMMA MailUser ==
  ASSUME NoGoals, NoInterrupts, Inv, MailInv, UserOp \/ QueueDenied \/ \E t \in Turn : Approve(t)
  PROVE  MailInv'
<1> USE DEF Goto, goalVars, queueVars, abortVars, startVars, IsActive
<1>1. TypeOK /\ Loop \in Actor /\ Guardian \in Actor /\ Loop # Guardian
  BY ConstantsAssumption DEF Inv, Actor
<1>2. Loop \notin killed BY <1>1, ConstantsAssumption DEF TypeOK
<1>3. {"idle", "queue"} \intersect (Notices \union {"take"}) = {} BY NoticePlaces
<1>4. ASSUME NEW a \in {Loop, Guardian}, pc[a] \in {"idle", "queue"}, NEW l,
             l \in {"idle", "queue"} \/ (l = "take" /\ a = Guardian),
             pc' = [pc EXCEPT ![a] = l],
             UNCHANGED <<active, mailbox, goalActive, killed, starting>>
      PROVE  MailInv'
  BY <1>1, <1>3, <1>4, MailMove
<1>5. ASSUME NEW u \in Prompt, Steer(u) \/ SteerRefused(u) PROVE MailInv'
  BY <1>5, MailStays DEF Steer, SteerRefused, turnVars, MailInv
<1>6. CASE (\E u \in Prompt : UserTurn(u)) \/ Compact
  <2>1. /\ pc' = [pc EXCEPT ![Loop] = "take"] /\ pc[Loop] = "idle"
        /\ UNCHANGED <<active, mailbox, goalActive, killed>>
    BY <1>6 DEF UserTurn, Compact, SpawnTask, LoopIdle, turnVars
  <2>2. starting'[Loop] \in Turn
    BY <1>6, <1>1, NextTurnFresh DEF UserTurn, Compact, SpawnTask, TypeOK
  <2>3. MailIsNoticed' BY <2>1, <1>1 DEF MailIsNoticed, TypeOK
  <2>4. Replacing(Loop)' BY <2>2, ConstantsAssumption DEF Replacing
  <2> QED BY <2>1, <2>3, <2>4, <1>1 DEF MailInv, TypeOK
<1>7. ~Interrupt /\ ~GoalCall
  BY <1>1 DEF Interrupt, GoalCall, NoInterrupts, NoGoals, TypeOK
<1>8. ASSUME NEW m \in Mail, SendMail(m) PROVE MailInv'
  <2>1. UNCHANGED <<active, goalActive, killed, starting>> /\ pc[Loop] = "idle"
    BY <1>8 DEF SendMail, LoopIdle, turnVars
  <2>2. CASE m \in TriggerMail
    <3>1. pc' = [pc EXCEPT ![Loop] = "ms_check"] BY <1>8, <2>2 DEF SendMail
    <3>2. "ms_check" \in Notices BY DEF Notices
    <3>3. pc'[Loop] = "ms_check" BY <3>1, <1>1 DEF TypeOK
    <3>4. MailIsNoticed' BY <3>2, <3>3, <2>1, <1>1, <1>2 DEF MailIsNoticed
    <3> QED BY <3>1, <3>3, <3>4, <2>1, <1>1 DEF MailInv, TypeOK
  <2>3. CASE m \notin TriggerMail
    <3>1. pc' = pc /\ mailbox' = mailbox \union {m} BY <1>8, <2>3 DEF SendMail
    <3>2. mailbox' \intersect TriggerMail = mailbox \intersect TriggerMail BY <3>1, <2>3
    <3> QED BY <3>1, <3>2, <2>1 DEF MailInv, MailIsNoticed, Replacing
  <2> QED BY <2>2, <2>3
<1>9. ASSUME NEW j \in Denied, ApproveDenied(j) PROVE MailInv'
  <2>1. UNCHANGED <<active, mailbox, goalActive, killed, starting>> /\ pc[Loop] = "idle"
    BY <1>9 DEF ApproveDenied, LoopIdle
  <2>2. UNCHANGED pc \/ pc' = [pc EXCEPT ![Loop] = "queue"] BY <1>9 DEF ApproveDenied
  <2> QED BY <2>1, <2>2, <1>4, MailStays DEF MailInv
<1>10. ASSUME NEW j \in Injected, Inject(j) PROVE MailInv'
  BY <1>10, MailStays DEF Inject, MailInv
<1>11. ASSUME NEW t \in Turn, GuardianTrips(t) PROVE MailInv'
  BY <1>11, <1>4 DEF GuardianTrips, turnVars
<1>12. CASE GoalChange BY <1>12, MailStays DEF GoalChange, turnVars
<1>13. CASE QueueDenied BY <1>13, <1>4 DEF QueueDenied, turnVars
<1>14. ASSUME NEW t \in Turn, Approve(t) PROVE MailInv'
  <2>1. t \in Actor /\ t # Loop /\ UNCHANGED <<active, mailbox, goalActive, killed, starting>>
    BY <1>14, ConstantsAssumption DEF Approve, Actor
  <2>2. CASE pc[t] = "approval"
    <3>1. pc' = [pc EXCEPT ![t] = "sample"] BY <2>2, <1>14 DEF Approve
    <3>2. "approval" \notin Notices BY DEF Notices, Starters, Aborts
    <3> QED BY <2>1, <2>2, <3>1, <3>2, MailMove
  <2>3. CASE pc[t] # "approval" BY <2>1, <2>3, <1>14, MailStays DEF Approve, MailInv
  <2> QED BY <2>2, <2>3
<1> QED
  BY <1>5, <1>6, <1>7, <1>8, <1>9, <1>10, <1>11, <1>12, <1>13, <1>14 DEF UserOp

(* Trigger mail of a session without interrupts and goals is never           *)
(* forgotten, whichever turns end, are replaced or aborted meanwhile: the    *)
(* next turn that looks is active, about to start or about to be looked for. *)
THEOREM MailCorrect ==
  ASSUME NoGoals, NoInterrupts PROVE Spec => []MailIsNoticed
<1>1. Init => MailInv
  <2> SUFFICES ASSUME Init PROVE MailInv
    OBVIOUS
  <2>1. \A a \in Actor : pc[a] \in {"idle", "unused"} BY DEF Init
  <2>2. Loop \in Actor /\ ~goalActive /\ mailbox = {} BY DEF Init, Actor, NoGoals
  <2> QED BY <2>1, <2>2 DEF MailInv, MailIsNoticed
<1>2. Inv /\ OwedInv /\ MailInv /\ [Next]_vars => MailInv'
  <2> SUFFICES ASSUME Inv, OwedInv, MailInv, [Next]_vars PROVE MailInv'
    OBVIOUS
  <2>1. CASE UNCHANGED vars
    BY <2>1, MailStays
    DEF vars, turnVars, queueVars, startVars, goalVars, abortVars, MailInv, IsActive
  <2> QED
    BY <2>1, MailRun, MailFinish, MailStart, MailContinue, MailAbort, MailUser DEF Next, Step
<1>3. MailInv => MailIsNoticed BY DEF MailInv
<1> QED BY <1>1, <1>2, <1>3, OwedInvariant, PTL DEF Spec
=============================================================================
