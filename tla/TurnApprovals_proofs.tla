------------------------ MODULE TurnApprovals_proofs -------------------------
(***************************************************************************)
(* A theorem about the approvals of TurnLifecycle.  A task puts its sender  *)
(* into whatever ActiveTurn it finds, and clear_pending drops all senders   *)
(* of the one it took: the senders it drops are those of tasks that are     *)
(* aborted, and nobody else's.                                              *)
(***************************************************************************)
EXTENDS TurnLifecycle_proofs

\* How long a prover may take for a step, in seconds.
USE SMTT(20), ZenonT(20)

Aborting == {"cancel", "kill", "emit", "clear_pending"}
Bound    == {"st_extend", "st_launch"}

\* Cancelled, or about to be.
Doomed(t) == t \in cancelled \/ \E a \in Actor : t \in victims[a]

\* An ActiveTurn that can still be reached, and what its name says of the
\* actor that is starting its turn: a name that is yet to be given is not in
\* use, so that no ActiveTurn comes back.
InUse(s) == s = active \/ \E a \in Actor : shell[a] = s
WellNamed(s) ==
  /\ s.turn \in used
  /\ \A b \in Actor : starting[b] = s.turn =>
       s.at = "reserve" \/ (s.at = "bind" /\ pc[b] \in Bound)
NameInv == \A s \in Shell : InUse(s) => WellNamed(s)

\* What an actor aborts is not the active turn any more.
TakenInv == \A a \in Actor : pc[a] \in Aborting => shell[a] # active

\* A task that runs on has its senders in the active turn.
WaitInv ==
  \A s \in Shell : \A t \in waiters[s] :
    pc[t] # "unused" /\ (pc[t] \in Running => s = active \/ Doomed(t))

ApprovalInv == Inv /\ NameInv /\ TakenInv /\ WaitInv /\ DroppedOnlyWhenAborted

(* What a step may do to them.                                              *)
ShellsKept ==
  /\ \/ active' \in {active, NoShell}
     \/ \E s \in Shell : active' = s /\ ~InUse(s) /\ WellNamed(s)'
  /\ \A b \in Actor : shell'[b] \in {shell[b], NoShell, active, active'}
StartsKept ==
  /\ used \subseteq used'
  /\ \A b \in Actor :
       \/ starting'[b] = NoTurn \/ starting'[b] \in Turn \ used
       \/ starting'[b] = starting[b] /\ (pc[b] \in Bound => pc'[b] \in Bound)
AbortsKept ==
  \A a \in Actor : pc'[a] \in Aborting =>
    active' = NoShell \/ (pc[a] \in Aborting /\ shell'[a] = shell[a])
RunsKept ==
  \A t \in Turn : /\ pc[t] # "unused" => pc'[t] # "unused"
                  /\ pc'[t] \in Running => pc[t] \in Running \union {"unused"}
DoomKept ==
  /\ \A t \in Turn : Doomed(t) => Doomed(t)'
  /\ active' = active \/ \A t \in TasksNow : Doomed(t)'
WaitsKept ==
  /\ \A s \in Shell : \A t \in waiters'[s] :
       t \in waiters[s] \/ (s = active' /\ pc'[t] # "unused")
  /\ \A t \in rejected' : t \in rejected \/ Doomed(t)'

LEMMA Kept ==
  ASSUME ApprovalInv, Inv', ShellsKept, StartsKept, AbortsKept, RunsKept, DoomKept,
         WaitsKept
  PROVE  ApprovalInv'
<1> USE DEF ApprovalInv
<1>0. TypeOK /\ TypeOK' /\ NoShell \notin Shell /\ NoTurn \notin Turn
  BY ShellFacts, ConstantsAssumption DEF Inv
<1>1. NameInv'
  <2> SUFFICES ASSUME NEW s \in Shell, InUse(s)' PROVE WellNamed(s)'
    BY DEF NameInv
  <2>1. CASE InUse(s)
    <3>1. s.turn \in used /\ s.turn \in used' /\ s.turn \in Turn
      BY <2>1 DEF NameInv, WellNamed, StartsKept, Shell
    <3>2. ASSUME NEW b \in Actor, starting'[b] = s.turn
          PROVE  s.at = "reserve" \/ (s.at = "bind" /\ pc'[b] \in Bound)
      <4>1. starting'[b] = starting[b] /\ (pc[b] \in Bound => pc'[b] \in Bound)
        BY <1>0, <3>1, <3>2 DEF StartsKept
      <4> QED BY <2>1, <3>2, <4>1 DEF NameInv, WellNamed
    <3> QED BY <3>1, <3>2 DEF WellNamed
  <2>2. CASE ~InUse(s)
    <3>1. s = active' /\ active' # active
      BY <1>0, <2>2 DEF InUse, ShellsKept
    <3> QED BY <1>0, <3>1 DEF ShellsKept
  <2> QED BY <2>1, <2>2
<1>2. TakenInv'
  <2> SUFFICES ASSUME NEW a \in Actor, pc'[a] \in Aborting PROVE shell'[a] # active'
    BY DEF TakenInv
  <2>1. shell'[a] \in Shell
    BY <1>0 DEF TypeOK, HoldsShell, Aborting
  <2>2. CASE active' = NoShell
    BY <1>0, <2>1, <2>2
  <2>3. CASE active' # NoShell
    <3>1. pc[a] \in Aborting /\ shell'[a] = shell[a] /\ shell[a] # active
      BY <2>3 DEF AbortsKept, TakenInv
    <3>2. InUse(shell[a])
      BY DEF InUse
    <3>3. active' = active \/ ~InUse(active')
      BY <2>3 DEF ShellsKept
    <3> QED BY <3>1, <3>2, <3>3
  <2> QED BY <2>2, <2>3
<1>3. WaitInv'
  <2> SUFFICES ASSUME NEW s \in Shell, NEW t \in waiters'[s]
               PROVE  /\ pc'[t] # "unused"
                      /\ pc'[t] \in Running => s = active' \/ Doomed(t)'
    BY DEF WaitInv
  <2>1. t \in Turn
    BY <1>0 DEF TypeOK
  <2>2. CASE t \in waiters[s]
    <3>1. pc[t] # "unused" /\ pc'[t] # "unused" /\ (pc'[t] \in Running => pc[t] \in Running)
      BY <2>1, <2>2 DEF WaitInv, RunsKept
    <3>2. pc[t] \in Running => s = active \/ Doomed(t)
      BY <2>2 DEF WaitInv
    <3>3. pc[t] \in Running => t \in TasksNow \/ Doomed(t)
      BY <2>1 DEF Inv, EveryRunningTurnCanBeAborted, Doomed
    <3> QED BY <2>1, <3>1, <3>2, <3>3 DEF DoomKept
  <2>3. CASE t \notin waiters[s]
    BY <2>3 DEF WaitsKept
  <2> QED BY <2>2, <2>3
<1>4. DroppedOnlyWhenAborted'
  <2> SUFFICES ASSUME NEW t \in rejected' PROVE Doomed(t)'
    BY DEF DroppedOnlyWhenAborted, Doomed
  <2>1. CASE t \in rejected
    <3>1. t \in Turn /\ Doomed(t)
      BY <1>0, <2>1 DEF DroppedOnlyWhenAborted, Doomed, TypeOK
    <3> QED BY <3>1 DEF DoomKept
  <2>2. CASE t \notin rejected
    BY <2>2 DEF WaitsKept
  <2> QED BY <2>1, <2>2
<1> QED BY <1>1, <1>2, <1>3, <1>4

\* The senders and the tasks that were aborted stay as they are.
Quiet == UNCHANGED <<victims, cancelled, waiters, rejected>>

LEMMA QuietKept ==
  ASSUME Inv, Inv', Quiet, RunsKept,
         active' = active \/ TasksNow = {}
  PROVE  DoomKept /\ WaitsKept
  BY DEF Quiet, DoomKept, WaitsKept, Doomed, RunsKept, Inv, TypeOK

\* A step that moves one actor along.
LEMMA MoveKept ==
  ASSUME ApprovalInv, Inv', NEW a \in Actor, NEW l, pc' = [pc EXCEPT ![a] = l],
         UNCHANGED <<reachVars, waiters, rejected>>,
         pc[a] # "unused", l # "unused",
         l \in Running => pc[a] \in Running,
         l \in Aborting => pc[a] \in Aborting,
         pc[a] \in Bound => l \in Bound
  PROVE  ApprovalInv'
<1> USE DEF reachVars
<1>1. /\ Inv /\ Quiet /\ \A t \in Turn : t \in Actor
      /\ \A b \in Actor : pc'[b] = IF b = a THEN l ELSE pc[b]
  BY DEF ApprovalInv, Inv, TypeOK, Quiet, Actor
<1>2. ShellsKept
  BY DEF ShellsKept
<1>3. StartsKept
  BY <1>1 DEF StartsKept
<1>4. AbortsKept
  BY <1>1 DEF AbortsKept
<1>5. RunsKept
  BY <1>1 DEF RunsKept
<1> QED BY <1>1, <1>2, <1>3, <1>4, <1>5, QuietKept, Kept

LEMMA StaysKept ==
  ASSUME ApprovalInv, Inv', UNCHANGED <<reachVars, pc, waiters, rejected>>
  PROVE  ApprovalInv'
<1> USE DEF reachVars
<1>1. Inv /\ Quiet
  BY DEF ApprovalInv, Quiet
<1>2. ShellsKept /\ StartsKept /\ AbortsKept /\ RunsKept
  BY DEF ShellsKept, StartsKept, AbortsKept, RunsKept
<1> QED BY <1>1, <1>2, QuietKept, Kept

\* No place where an actor starts, runs or rests is one of an abort, and only
\* a starter is bound to its ActiveTurn.
LEMMA Apart ==
  /\ \A l \in Free \union {"gone"} : l \notin Aborting \union Running \union {"unused"}
  /\ \A l \in Running : l \notin Aborting \union Bound \union {"unused"}
  /\ Bound \subseteq Free
  BY DEF Free, Aborting, Bound, Running, Tail, Reservers, Starters

LEMMA FreeKept ==
  ASSUME ApprovalInv, Inv', NEW a \in Actor, NEW l \in Free \union {"gone"},
         pc' = [pc EXCEPT ![a] = l], UNCHANGED <<reachVars, waiters, rejected>>,
         pc[a] \in Free, pc[a] \in Bound => l \in Bound
  PROVE  ApprovalInv'
  BY Apart, MoveKept

-----------------------------------------------------------------------------
(* Starting a turn. *)

LEMMA BindKept ==
  ASSUME ApprovalInv, Inv', NEW a \in Actor, StartBind(a)
  PROVE  ApprovalInv'
<1>0. PICK t \in Turn, s \in Shell :
        t = starting[a] /\ s = NewShell(t, "bind") /\ s.turn = t /\ s.at = "bind"
  <2>1. starting[a] \in Turn
    BY DEF ApprovalInv, Inv, TypeOK, HoldsTurn, Starters, StartBind
  <2>2. NewShell(starting[a], "bind") \in Shell
    BY <2>1, ShellFacts
  <2> QED BY <2>1, <2>2 DEF NewShell
<1>1. /\ Inv /\ t \in used
      /\ pc[a] = "st_bind" /\ pc[a] \notin Bound
      /\ \A b \in Actor : starting[b] = t => b = a
  BY <1>0 DEF ApprovalInv, Inv, FreshInv, StartBind, Bound
<1>2. /\ UNCHANGED <<starting, used>> /\ Quiet
      /\ active' = IF IsActive THEN active ELSE s
  BY <1>0 DEF StartBind, GetOrInsert, Quiet, abortVars, userVars, eventVars
<1>3. /\ \A b \in Actor : pc'[b] = IF b = a THEN "st_extend" ELSE pc[b]
      /\ \A b \in Actor : shell'[b] = IF b = a THEN active' ELSE shell[b]
      /\ \A u \in Turn : u \in Actor
  BY <1>1 DEF StartBind, Goto, Inv, TypeOK, Actor
<1>4. ~InUse(s)
  BY <1>0, <1>1 DEF ApprovalInv, NameInv, WellNamed
<1>5. WellNamed(s)'
  BY <1>0, <1>1, <1>2, <1>3 DEF WellNamed, Bound
<1>6. ShellsKept
  BY <1>1, <1>2, <1>3, <1>4, <1>5 DEF ShellsKept
<1>7. StartsKept
  BY <1>1, <1>2, <1>3 DEF StartsKept
<1>8. AbortsKept
  BY <1>3 DEF AbortsKept, Aborting
<1>9. RunsKept
  BY <1>3 DEF RunsKept, Running
<1>10. active' = active \/ TasksNow = {}
  BY <1>2 DEF TasksNow
<1> QED BY <1>1, <1>2, <1>6, <1>7, <1>8, <1>9, <1>10, QuietKept, Kept

LEMMA LaunchKept ==
  ASSUME ApprovalInv, Inv', NEW a \in Actor, StartLaunch(a)
  PROVE  ApprovalInv'
<1>0. PICK t \in Turn, s \in Shell :
        t = starting[a] /\ s = NewShell(t, "launch") /\ s.turn = t /\ s.at = "launch"
  <2>1. starting[a] \in Turn
    BY DEF ApprovalInv, Inv, TypeOK, HoldsTurn, Starters, StartLaunch
  <2>2. NewShell(starting[a], "launch") \in Shell
    BY <2>1, ShellFacts
  <2> QED BY <2>1, <2>2 DEF NewShell
<1>1. /\ Inv /\ t = starting[a] /\ t \in used /\ pc[a] = "st_launch"
      /\ pc[t] = "unused" /\ NoTurn \notin Turn
      /\ \A b \in Actor : starting[b] = t => b = a
  BY <1>0, ConstantsAssumption DEF ApprovalInv, Inv, FreshInv, StartLaunch
<1>2. /\ UNCHANGED used /\ Quiet
      /\ active' = IF IsActive THEN active ELSE s
  BY <1>0 DEF StartLaunch, GetOrInsert, Quiet, abortVars, userVars, eventVars
<1>3. PICK l \in {"idle", "gone", "gc_lock"}, m \in {"compact", "prewarm"} :
        pc' = [pc EXCEPT ![t] = m, ![a] = l]
  BY <1>1, RestPlace DEF StartLaunch
<1>4. /\ \A b \in Actor : pc'[b] = IF b = a THEN l ELSE IF b = t THEN m ELSE pc[b]
      /\ \A b \in Actor : shell'[b] = IF b = a THEN NoShell ELSE shell[b]
      /\ \A b \in Actor : starting'[b] = IF b = a THEN NoTurn ELSE starting[b]
      /\ \A u \in Turn : u \in Actor
  BY <1>1, <1>3 DEF StartLaunch, Inv, TypeOK, Actor
<1>6. ~InUse(s) /\ WellNamed(s)'
  <2>1. ~InUse(s)
    BY <1>1, <1>0 DEF ApprovalInv, NameInv, WellNamed
  <2>2. \A b \in Actor : starting'[b] # t
    BY <1>1, <1>4
  <2> QED BY <1>1, <1>2, <1>0, <2>1, <2>2 DEF WellNamed
<1>7. ShellsKept
  BY <1>1, <1>2, <1>4, <1>6 DEF ShellsKept
<1>8. StartsKept
  <2>1. \A b \in Actor : pc[b] \in Bound /\ b # a => pc'[b] = pc[b]
    BY <1>1, <1>4 DEF Bound
  <2> QED BY <1>2, <1>4, <2>1 DEF StartsKept
<1>9. AbortsKept
  <2>1. \A b \in Actor : pc'[b] \in Aborting => b # a /\ pc'[b] = pc[b]
    BY <1>4 DEF Aborting
  <2> QED BY <1>4, <2>1 DEF AbortsKept
<1>10. RunsKept
  <2>1. l \notin Running /\ l # "unused" /\ m # "unused"
    BY DEF Running
  <2> QED BY <1>1, <1>4, <2>1 DEF RunsKept
<1>11. active' = active \/ TasksNow = {}
  BY <1>2 DEF TasksNow
<1> QED BY <1>1, <1>2, <1>7, <1>8, <1>9, <1>10, <1>11, QuietKept, Kept

LEMMA StartKept ==
  ASSUME ApprovalInv, Inv', NEW a \in Actor, Start(a)
  PROVE  ApprovalInv'
<1> USE DEF reachVars, Goto, turnVars, queueVars, startVars, goalVars, taskVars,
            abortVars, eventVars, userVars
<1>1. /\ {"st_queued", "st_pending", "st_mail", "st_bind", "st_extend", "st_launch"}
           \subseteq Free
      /\ \A l \in {"st_queued", "st_pending", "st_mail"} : l \notin Bound
      /\ "st_extend" \in Bound /\ "st_launch" \in Bound
  BY DEF Free, Tail, Reservers, Starters, Bound
<1>2. CASE StartQueued(a)
  BY <1>1, <1>2, FreeKept DEF StartQueued
<1>3. CASE StartPending(a)
  <2>1. PICK l \in {"st_mail", "st_bind"} : pc' = [pc EXCEPT ![a] = l]
    BY <1>3 DEF StartPending
  <2> QED BY <1>1, <1>3, <2>1, FreeKept DEF StartPending, TakePending
<1>4. CASE StartMail(a)
  BY <1>1, <1>4, FreeKept DEF StartMail
<1>5. CASE StartExtend(a)
  BY <1>1, <1>5, FreeKept DEF StartExtend
<1> QED BY <1>2, <1>3, <1>4, <1>5, BindKept, LaunchKept DEF Start

-----------------------------------------------------------------------------
(* Reserving a turn, and giving it back. *)

LEMMA ReserveKept ==
  ASSUME ApprovalInv, Inv', NEW a \in Actor, NEW l \in Reservers \ Bound, Reserve(a, l),
         pc[a] \in Free, Quiet
  PROVE  ApprovalInv'
<1>0. PICK t \in Turn, s \in Shell :
        t = NextTurn /\ t \notin used /\ s = NewShell(t, "reserve") /\ s.turn = t /\ s.at = "reserve"
  <2>1. NextTurn \in Turn /\ NextTurn \notin used
    BY NextTurnFresh DEF ApprovalInv, Inv, TypeOK, Reserve
  <2>2. NewShell(NextTurn, "reserve") \in Shell
    BY <2>1, ShellFacts
  <2> QED BY <2>1, <2>2 DEF NewShell
<1>1. Inv /\ TypeOK /\ ~IsActive /\ active' = s /\ used' = used \union {t}
  BY <1>0 DEF ApprovalInv, Inv, Reserve
<1>2. /\ \A b \in Actor : pc'[b] = IF b = a THEN l ELSE pc[b]
      /\ \A b \in Actor : shell'[b] = IF b = a THEN active' ELSE shell[b]
      /\ \A b \in Actor : starting'[b] = IF b = a THEN t ELSE starting[b]
      /\ \A u \in Turn : u \in Actor
  BY <1>0, <1>1 DEF Reserve, Goto, TypeOK, Actor
<1>3. ~InUse(s) /\ WellNamed(s)'
  BY <1>0, <1>1 DEF ApprovalInv, NameInv, WellNamed
<1>4. ShellsKept
  BY <1>1, <1>2, <1>3 DEF ShellsKept
<1>5. l \notin Aborting \union Running \union Bound \union {"unused"} /\ pc[a] # "unused"
  BY Apart DEF Reservers, Starters, Bound, Free, Tail
<1>6. StartsKept
  <2>1. t \in Turn \ used
    BY <1>0
  <2> QED BY <1>1, <1>2, <2>1 DEF StartsKept
<1>7. AbortsKept
  BY <1>2, <1>5 DEF AbortsKept
<1>8. RunsKept
  BY <1>2, <1>5 DEF RunsKept
<1>9. TasksNow = {}
  BY <1>1 DEF TasksNow
<1> QED BY <1>1, <1>4, <1>6, <1>7, <1>8, <1>9, QuietKept, Kept

LEMMA LetGoKept ==
  ASSUME ApprovalInv, Inv', NEW a \in Actor, NEW l \in {"gone", "idle", "ms_check"},
         pc[a] \in {"gc_reread", "gc_still", "clear"},
         active' = IF StillReserved(a) THEN NoShell ELSE active,
         shell' = [shell EXCEPT ![a] = NoShell], pc' = [pc EXCEPT ![a] = l],
         starting' \in {starting, [starting EXCEPT ![a] = NoTurn]},
         UNCHANGED used, Quiet
  PROVE  ApprovalInv'
<1>1. /\ Inv /\ \A u \in Turn : u \in Actor
      /\ \A b \in Actor : pc'[b] = IF b = a THEN l ELSE pc[b]
      /\ \A b \in Actor : shell'[b] = IF b = a THEN NoShell ELSE shell[b]
      /\ \A b \in Actor : starting'[b] \in {starting[b], NoTurn}
  BY DEF ApprovalInv, Inv, TypeOK, Actor
<1>2. l \notin Aborting \union Running \union {"unused"} /\ pc[a] \notin Bound \union {"unused"}
  BY DEF Aborting, Running, Bound
<1>3. ShellsKept
  BY <1>1 DEF ShellsKept
<1>4. StartsKept
  BY <1>1, <1>2 DEF StartsKept
<1>5. AbortsKept
  BY <1>1, <1>2 DEF AbortsKept
<1>6. RunsKept
  BY <1>1, <1>2 DEF RunsKept
<1>7. active' = active \/ TasksNow = {}
  BY DEF StillReserved, TasksNow
<1> QED BY <1>1, <1>3, <1>4, <1>5, <1>6, <1>7, QuietKept, Kept

LEMMA ContinueKept ==
  ASSUME ApprovalInv, Inv', NEW a \in Actor, Continue(a)
  PROVE  ApprovalInv'
<1> USE DEF reachVars, Quiet, Goto, turnVars, queueVars, startVars, goalVars, taskVars,
            abortVars, eventVars, userVars
<1>1. /\ {"ms_check", "ms_reserve", "gc_lock", "gc_check", "gc_reserve", "gc_reread",
          "gc_still", "st_queued", "idle"} \subseteq Free
      /\ {"gc_reread", "gc_still", "st_queued"} \subseteq Reservers \ Bound
      /\ \A l \in {"ms_check", "ms_reserve", "gc_lock", "gc_check", "gc_reserve"} :
           l \notin Bound
  BY DEF Free, Tail, Bound, Reservers, Starters
<1>2. /\ Rest(a) \in {"idle", "gone"} /\ AfterPendingWork(a) \in {"idle", "gone", "gc_lock"}
  BY RestPlace
<1>3. CASE WorkCheck(a)
  <2>1. PICK l \in {"idle", "gone", "gc_lock", "ms_reserve"} : pc' = [pc EXCEPT ![a] = l]
    BY <1>2, <1>3 DEF WorkCheck
  <2> QED BY <1>1, <1>3, <2>1, FreeKept DEF WorkCheck
<1>4. CASE WorkReserve(a)
  <2>1. CASE Reserve(a, "st_queued")
    BY <1>1, <1>4, <2>1, ReserveKept DEF WorkReserve
  <2>2. CASE Goto(a, AfterPendingWork(a)) /\ UNCHANGED <<active, used, starting, shell>>
    BY <1>1, <1>2, <1>4, <2>2, FreeKept DEF WorkReserve
  <2> QED BY <1>4, <2>1, <2>2 DEF WorkReserve
<1>5. CASE GoalLock(a)
  BY <1>1, <1>5, FreeKept DEF GoalLock
<1>6. CASE GoalCheck(a)
  <2>1. PICK l \in {"idle", "gone", "gc_reserve"} : pc' = [pc EXCEPT ![a] = l]
    BY <1>2, <1>6 DEF GoalCheck, GiveUp
  <2> QED BY <1>1, <1>6, <2>1, FreeKept DEF GoalCheck
<1>7. CASE GoalReserve(a)
  <2>1. CASE Reserve(a, "gc_reread")
    BY <1>1, <1>7, <2>1, ReserveKept DEF GoalReserve
  <2>2. CASE GiveUp(a) /\ UNCHANGED <<active, used, starting, shell>>
    BY <1>1, <1>2, <1>7, <2>2, FreeKept DEF GoalReserve, GiveUp
  <2> QED BY <1>7, <2>1, <2>2 DEF GoalReserve
<1>8. CASE GoalStale(a)
  BY <1>2, <1>8, LetGoKept DEF GoalStale, GiveBack, GiveUp
<1>9. CASE GoalCurrent(a)
  BY <1>1, <1>9, FreeKept DEF GoalCurrent
<1>10. CASE GoalStill(a) /\ StillReserved(a)
  BY <1>1, <1>10, FreeKept DEF GoalStill
<1>11. CASE GoalStill(a) /\ ~StillReserved(a)
  BY <1>2, <1>11, LetGoKept DEF GoalStill, GiveUp
<1> QED
  BY <1>3, <1>4, <1>5, <1>6, <1>7, <1>8, <1>9, <1>10, <1>11 DEF Continue

-----------------------------------------------------------------------------
(* A task that runs and finishes. *)

LEMMA AskKept ==
  ASSUME ApprovalInv, Inv', NEW t \in Turn, ToolAsks(t), IsActive
  PROVE  ApprovalInv'
<1>1. /\ Inv /\ t \in Actor /\ pc[t] = "sample" /\ \A u \in Turn : u \in Actor
      /\ \A b \in Actor : pc'[b] = IF b = t THEN "approval" ELSE pc[b]
      /\ UNCHANGED <<active, shell, starting, used, victims, cancelled, rejected>>
  BY DEF ApprovalInv, Inv, TypeOK, ToolAsks, CallsTool, Goto, Actor, startVars, abortVars,
         eventVars, userVars
<1>2. \A s \in Shell : \A u \in waiters'[s] : u \in waiters[s] \/ (s = active /\ u = t)
  BY DEF ToolAsks, ApprovalInv, Inv, TypeOK
<1>3. ShellsKept
  BY <1>1 DEF ShellsKept
<1>4. StartsKept
  BY <1>1 DEF StartsKept, Bound
<1>5. AbortsKept
  BY <1>1 DEF AbortsKept, Aborting
<1>6. RunsKept
  BY <1>1 DEF RunsKept, Running
<1>7. DoomKept /\ WaitsKept
  BY <1>1, <1>2 DEF DoomKept, WaitsKept, Doomed
<1> QED BY <1>1, <1>3, <1>4, <1>5, <1>6, <1>7, Kept

LEMMA RunKept ==
  ASSUME ApprovalInv, Inv', NEW t \in Turn, Run(t)
  PROVE  ApprovalInv'
<1>1. CASE ToolAsks(t) /\ IsActive
  BY <1>1, AskKept
<1>2. CASE ~(ToolAsks(t) /\ IsActive)
  <2>1. TypeOK /\ t \in Actor
    BY DEF ApprovalInv, Inv, Actor
  <2>2. PICK l \in Running : pc' = [pc EXCEPT ![t] = l]
    BY <2>1, RunMoves
  <2>3. pc[t] \in Running /\ UNCHANGED reachVars
    BY <2>1, RunMoves
  <2>4. UNCHANGED <<waiters, rejected>>
    BY <1>2 DEF Run, Prewarm, RunCompact, Begin, EarlyReturn, DrainPending, DrainMail,
                TakePending, TakeMail, Record, ToolRuns, ToolAsks, Answer, SampleEnd,
                Check, Recheck, turnVars, eventVars
  <2> QED BY <2>1, <2>2, <2>3, <2>4, Apart, MoveKept
<1> QED BY <1>1, <1>2

LEMMA RemoveKept ==
  ASSUME ApprovalInv, Inv', NEW t \in Turn, Remove(t)
  PROVE  ApprovalInv'
<1>1. /\ Inv /\ TypeOK /\ t \in Actor /\ pc[t] = "remove" /\ Quiet
      /\ UNCHANGED <<active, starting, used>> /\ \A u \in Turn : u \in Actor
  BY DEF ApprovalInv, Inv, Remove, Quiet, Actor, abortVars, eventVars, userVars
<1>2. PICK l \in {"leftover", "complete"} : pc' = [pc EXCEPT ![t] = l]
  BY DEF Remove, Goto
<1>3. \A b \in Actor : pc'[b] = IF b = t THEN l ELSE pc[b]
  BY <1>1, <1>2 DEF TypeOK
<1>4. \A b \in Actor : shell'[b] = shell[b] \/ (b = t /\ shell'[b] = active)
  BY <1>1 DEF Remove, TypeOK
<1>5. ShellsKept
  BY <1>1, <1>4 DEF ShellsKept
<1>6. StartsKept
  BY <1>1, <1>3 DEF StartsKept, Bound
<1>7. AbortsKept
  BY <1>1, <1>3, <1>4 DEF AbortsKept, Aborting
<1>8. RunsKept
  BY <1>1, <1>3 DEF RunsKept, Running
<1> QED BY <1>1, <1>5, <1>6, <1>7, <1>8, QuietKept, Kept

LEMMA FinishKept ==
  ASSUME ApprovalInv, Inv', NEW t \in Turn, FinishTask(t) \/ Die(t)
  PROVE  ApprovalInv'
<1> USE DEF reachVars, Quiet, Goto, turnVars, queueVars, startVars, goalVars, taskVars,
            abortVars, eventVars, userVars
<1>0. /\ Inv /\ t \in Actor
      /\ \A l \in {"gone", "remove", "complete", "clear"} :
           l \notin Running \union Aborting \union {"unused"}
      /\ \A l \in {"finish", "leftover", "complete"} : l \notin Bound
  BY DEF ApprovalInv, Actor, Running, Aborting, Bound
<1>1. CASE Finish(t)
  <2>1. PICK l \in {"gone", "remove"} : pc' = [pc EXCEPT ![t] = l]
    BY <1>1 DEF Finish
  <2> QED BY <1>0, <1>1, <2>1, MoveKept DEF Finish
<1>2. CASE Remove(t)
  BY <1>2, RemoveKept
<1>3. CASE Leftover(t)
  BY <1>0, <1>3, MoveKept DEF Leftover
<1>4. CASE Complete(t)
  <2>1. PICK l \in {"gone", "clear"} : pc' = [pc EXCEPT ![t] = l]
    BY <1>4 DEF Complete
  <2> QED BY <1>0, <1>4, <2>1, MoveKept DEF Complete
<1>5. CASE Clear(t)
  <2>1. PICK l \in {"gone", "ms_check"} : pc' = [pc EXCEPT ![t] = l]
    BY <1>5 DEF Clear, LooksForWork
  <2> QED BY <1>0, <1>5, <2>1, LetGoKept DEF Clear
<1>6. CASE Die(t)
  <2>1. pc[t] \in Busy
    BY <1>0, <1>6 DEF Die, Inv, ListInv, Listed
  <2>2. pc[t] \notin Bound \union {"unused"}
    BY <2>1 DEF Busy, Running, Bound
  <2> QED BY <1>0, <1>6, <2>2, MoveKept DEF Die
<1> QED
  BY <1>1, <1>2, <1>3, <1>4, <1>5, <1>6 DEF FinishTask

-----------------------------------------------------------------------------
(* Aborting. *)

\* The tasks of the active turn are doomed as soon as it is taken.
LEMMA TakeKept ==
  ASSUME ApprovalInv, Inv', NEW a \in Actor, AbortTake(a)
  PROVE  ApprovalInv'
<1>1. /\ Inv /\ TypeOK /\ active' = NoShell /\ pc[a] \in Free \ Bound
      /\ UNCHANGED <<starting, used, cancelled, waiters, rejected>>
  BY DEF ApprovalInv, Inv, AbortTake, Free, Bound, eventVars, userVars
<1>2. PICK l \in {"cancel", "st_queued", "idle", "gone"} : pc' = [pc EXCEPT ![a] = l]
  BY RestPlace DEF AbortTake, Goto
<1>3. /\ \A b \in Actor : pc'[b] = IF b = a THEN l ELSE pc[b]
      /\ \A b \in Actor : shell'[b] = shell[b] \/ shell'[b] = active
      /\ \A b \in Actor : victims'[b] = IF b = a THEN TasksNow ELSE victims[b]
      /\ \A u \in Turn : u \in Actor
  BY <1>1, <1>2 DEF AbortTake, TypeOK, Actor
<1>4. victims[a] = {} /\ pc[a] # "unused"
  BY <1>1, FreeActor
<1>5. ShellsKept
  BY <1>1, <1>3 DEF ShellsKept
<1>6. StartsKept
  BY <1>1, <1>3 DEF StartsKept
<1>7. AbortsKept
  BY <1>1 DEF AbortsKept
<1>8. RunsKept
  BY <1>3, <1>4 DEF RunsKept, Running
<1>9. DoomKept /\ WaitsKept
  BY <1>1, <1>3, <1>4 DEF DoomKept, WaitsKept, Doomed
<1> QED BY <1>1, <1>5, <1>6, <1>7, <1>8, <1>9, Kept

\* While it aborts, an actor keeps its ActiveTurn.
LEMMA AbortingKept ==
  ASSUME ApprovalInv, Inv', NEW a \in Actor, NEW l \in Aborting,
         pc' = [pc EXCEPT ![a] = l], pc[a] \in Aborting, DoomKept,
         UNCHANGED <<active, shell, starting, used, waiters, rejected>>
  PROVE  ApprovalInv'
<1>1. /\ Inv /\ \A u \in Turn : u \in Actor
      /\ \A b \in Actor : pc'[b] = IF b = a THEN l ELSE pc[b]
      /\ l \notin Running /\ l # "unused" /\ pc[a] \notin Bound
  BY DEF ApprovalInv, Inv, TypeOK, Actor, Aborting, Running, Bound
<1>2. ShellsKept /\ AbortsKept
  BY <1>1 DEF ShellsKept, AbortsKept
<1>3. StartsKept /\ RunsKept
  BY <1>1 DEF StartsKept, RunsKept
<1>4. WaitsKept
  BY DEF WaitsKept
<1> QED BY <1>2, <1>3, <1>4, Kept

\* The senders that clear_pending drops wait for tasks that are doomed: the
\* ActiveTurn is not the active one.
LEMMA ClearPendingKept ==
  ASSUME ApprovalInv, Inv', NEW a \in Actor, AbortClear(a)
  PROVE  ApprovalInv'
<1>1. /\ Inv /\ TypeOK /\ pc[a] = "clear_pending" /\ \A u \in Turn : u \in Actor
      /\ UNCHANGED <<active, starting, used, victims, cancelled>>
      /\ waiters' = [waiters EXCEPT ![shell[a]] = {}]
      /\ rejected' = rejected \union Waiting(shell[a])
  BY DEF ApprovalInv, Inv, AbortClear, Actor, abortVars, userVars
<1>2. PICK l \in {"st_queued", "ms_check"} : \A b \in Actor : pc'[b] =
        IF b = a THEN l ELSE IF b \in Waiting(shell[a]) THEN "sample" ELSE pc[b]
  BY DEF AbortClear
<1>3. \A b \in Actor : b # a =>
        \/ pc'[b] = pc[b]
        \/ pc[b] = "approval" /\ pc'[b] = "sample"
  BY <1>2 DEF Waiting
<1>4. /\ \A b \in Actor : shell'[b] = IF b = a THEN NoShell ELSE shell[b]
      /\ pc'[a] \in {"st_queued", "ms_check"}
  BY <1>1, <1>2 DEF AbortClear, TypeOK
<1>5. shell[a] \in Shell /\ shell[a] # active
  BY <1>1 DEF TypeOK, HoldsShell, ApprovalInv, TakenInv, Aborting
<1>6. \A t \in Waiting(shell[a]) : t \in Turn /\ Doomed(t)
  BY <1>1, <1>5 DEF Waiting, ApprovalInv, WaitInv, TypeOK, Running
<1>7. ShellsKept
  BY <1>1, <1>4 DEF ShellsKept
<1>8. StartsKept
  BY <1>1, <1>3 DEF StartsKept, Bound
<1>9. AbortsKept
  BY <1>3, <1>4 DEF AbortsKept, Aborting
<1>10. RunsKept
  BY <1>1, <1>3, <1>4 DEF RunsKept, Running
<1>11. DoomKept /\ WaitsKept
  BY <1>1, <1>5, <1>6 DEF DoomKept, WaitsKept, Doomed, TypeOK
<1> QED BY <1>7, <1>8, <1>9, <1>10, <1>11, Kept

LEMMA AbortKept ==
  ASSUME ApprovalInv, Inv', NEW a \in Actor, Abort(a)
  PROVE  ApprovalInv'
<1> USE DEF reachVars, Goto, turnVars, queueVars, startVars, goalVars, taskVars,
            abortVars, eventVars, userVars
<1>0. Inv /\ TypeOK
  BY DEF ApprovalInv, Inv
<1>1. CASE AbortMiss(a)
  <2>1. /\ Rest(a) \in {"idle", "gone"} /\ {"idle", "take"} \subseteq Free /\ "take" \notin Bound
    BY RestPlace DEF Free, Bound
  <2> QED BY <1>1, <2>1, FreeKept DEF AbortMiss
<1>2. CASE AbortCancel(a)
  <2>1. cancelled \subseteq cancelled' /\ UNCHANGED <<victims, active>>
    BY <1>2 DEF AbortCancel, CancelToken
  <2>2. DoomKept
    BY <2>1 DEF DoomKept, Doomed
  <2>3. "cancel" \in Aborting /\ "kill" \in Aborting
    BY DEF Aborting
  <2> QED BY <1>2, <2>2, <2>3, AbortingKept DEF AbortCancel
<1>3. CASE AbortKill(a)
  <2>1. DoomKept
    BY <1>3 DEF AbortKill, DoomKept, Doomed
  <2>2. "emit" \in Aborting /\ "kill" \in Aborting
    BY DEF Aborting
  <2> QED BY <1>3, <2>1, <2>2, AbortingKept DEF AbortKill
<1>4. CASE AbortEmit(a)
  <2>1. target[a] \in cancelled
    BY <1>0, <1>4 DEF AbortEmit, Inv, AbortInv
  <2>2. \A b \in Actor : \A t \in victims[b] : t \in victims'[b] \/ t = target[a]
    BY <1>0, <1>4 DEF AbortEmit, NextVictims, TypeOK
  <2>3. UNCHANGED <<active, cancelled>>
    BY <1>4 DEF AbortEmit
  <2>4. DoomKept
    BY <2>1, <2>2, <2>3 DEF DoomKept, Doomed
  <2>5. PICK l \in {"clear_pending", "cancel"} : pc' = [pc EXCEPT ![a] = l]
    BY <1>4 DEF AbortEmit
  <2>6. "emit" \in Aborting /\ l \in Aborting
    BY DEF Aborting
  <2> QED BY <1>4, <2>4, <2>5, <2>6, AbortingKept DEF AbortEmit
<1> QED
  BY <1>1, <1>2, <1>3, <1>4, TakeKept, ClearPendingKept DEF Abort

-----------------------------------------------------------------------------
(* Operations of the user and of other threads. *)

LEMMA SpawnKept ==
  ASSUME ApprovalInv, Inv', NEW k, NEW in, SpawnTask(k, in), pc[Loop] = "idle",
         UNCHANGED <<active, shell>>, Quiet
  PROVE  ApprovalInv'
<1>1. PICK t \in Turn : t = NextTurn /\ t \notin used
  BY NextTurnFresh DEF ApprovalInv, Inv, TypeOK, SpawnTask
<1>2. /\ Inv /\ TypeOK /\ Loop \in Actor /\ \A u \in Turn : u \in Actor
      /\ used \subseteq used'
  BY DEF ApprovalInv, Inv, SpawnTask, Actor
<1>3. /\ \A b \in Actor : pc'[b] = IF b = Loop THEN "take" ELSE pc[b]
      /\ \A b \in Actor : starting'[b] = IF b = Loop THEN t ELSE starting[b]
  BY <1>1, <1>2 DEF SpawnTask, Goto, TypeOK
<1>4. ShellsKept
  BY DEF ShellsKept
<1>5. StartsKept
  BY <1>1, <1>2, <1>3 DEF StartsKept
<1>6. AbortsKept
  BY <1>3 DEF AbortsKept, Aborting
<1>7. RunsKept
  BY <1>2, <1>3 DEF RunsKept, Running
<1> QED BY <1>2, <1>4, <1>5, <1>6, <1>7, QuietKept, Kept

LEMMA ApproveKept ==
  ASSUME ApprovalInv, Inv', NEW t \in Turn, Approve(t)
  PROVE  ApprovalInv'
<1>1. /\ Inv /\ t \in Actor /\ \A u \in Turn : u \in Actor
      /\ \A b \in Actor : pc'[b] = IF b = t /\ pc[t] = "approval" THEN "sample" ELSE pc[b]
      /\ UNCHANGED <<active, shell, starting, used, victims, cancelled, rejected>>
  BY DEF ApprovalInv, Inv, TypeOK, Approve, Goto, Actor, startVars, abortVars, eventVars,
         userVars
<1>2. \A s \in Shell : waiters'[s] \subseteq waiters[s]
  BY DEF Approve, ApprovalInv, Inv, TypeOK
<1>3. ShellsKept
  BY <1>1 DEF ShellsKept
<1>4. StartsKept
  BY <1>1 DEF StartsKept, Bound
<1>5. AbortsKept
  BY <1>1 DEF AbortsKept, Aborting
<1>6. RunsKept
  BY <1>1 DEF RunsKept, Running
<1>7. DoomKept /\ WaitsKept
  BY <1>1, <1>2 DEF DoomKept, WaitsKept, Doomed
<1> QED BY <1>1, <1>3, <1>4, <1>5, <1>6, <1>7, Kept

LEMMA UserKept ==
  ASSUME ApprovalInv, Inv', UserOp \/ QueueDenied
  PROVE  ApprovalInv'
<1> USE DEF reachVars, Quiet, Goto, turnVars, queueVars, startVars, goalVars, taskVars,
            abortVars, eventVars, userVars, LoopIdle
<1>1. /\ Loop \in Actor /\ GoalCaller \in Actor /\ Guardian \in Actor
      /\ {"idle", "take", "queue", "ms_check"} \subseteq Free
      /\ "idle" \notin Bound /\ "queue" \notin Bound
  BY DEF Actor, Free, Tail, Bound
<1>2. ASSUME NEW u \in Prompt, Steer(u) \/ SteerRefused(u) PROVE ApprovalInv'
  BY <1>2, StaysKept DEF Steer, SteerRefused
<1>3. ASSUME NEW u \in Prompt, UserTurn(u) PROVE ApprovalInv'
  BY <1>3, SpawnKept DEF UserTurn
<1>4. CASE Compact
  BY <1>4, SpawnKept DEF Compact
<1>5. CASE Interrupt
  BY <1>1, <1>5, FreeKept DEF Interrupt
<1>6. ASSUME NEW m \in Mail, SendMail(m) PROVE ApprovalInv'
  <2>1. CASE m \in TriggerMail
    BY <1>1, <1>6, <2>1, FreeKept DEF SendMail
  <2>2. CASE m \notin TriggerMail
    BY <1>6, <2>2, StaysKept DEF SendMail
  <2> QED BY <2>1, <2>2
<1>7. ASSUME NEW j \in Denied, ApproveDenied(j) PROVE ApprovalInv'
  <2>1. CASE UNCHANGED pc
    BY <1>7, <2>1, StaysKept DEF ApproveDenied
  <2>2. CASE pc' = [pc EXCEPT ![Loop] = "queue"]
    BY <1>1, <1>7, <2>2, FreeKept DEF ApproveDenied
  <2> QED BY <1>7, <2>1, <2>2 DEF ApproveDenied
<1>8. ASSUME NEW j \in Injected, Inject(j) PROVE ApprovalInv'
  BY <1>8, StaysKept DEF Inject, InjectInto
<1>9. ASSUME NEW t \in Turn, GuardianTrips(t) PROVE ApprovalInv'
  BY <1>1, <1>9, FreeKept DEF GuardianTrips
<1>10. CASE GoalCall
  BY <1>1, <1>10, FreeKept DEF GoalCall
<1>11. CASE GoalChange
  BY <1>11, StaysKept DEF GoalChange
<1>12. CASE QueueDenied
  BY <1>1, <1>12, FreeKept DEF QueueDenied
<1> QED
  BY <1>2, <1>3, <1>4, <1>5, <1>6, <1>7, <1>8, <1>9, <1>10, <1>11, <1>12 DEF UserOp

-----------------------------------------------------------------------------
(* The theorem. *)

LEMMA InitApproval == Init => ApprovalInv
<1> SUFFICES ASSUME Init PROVE ApprovalInv
  OBVIOUS
<1>1. /\ active = NoShell /\ rejected = {}
      /\ \A s \in Shell : waiters[s] = {}
      /\ \A a \in Actor : shell[a] = NoShell /\ pc[a] \in {"idle", "unused"}
  BY DEF Init
<1>2. NameInv
  BY <1>1, ShellFacts DEF NameInv, InUse
<1>3. TakenInv /\ WaitInv /\ DroppedOnlyWhenAborted
  BY <1>1 DEF TakenInv, WaitInv, DroppedOnlyWhenAborted, Aborting
<1> QED BY <1>2, <1>3, InitInv DEF ApprovalInv

LEMMA NextApproval == ApprovalInv /\ [Next]_vars => ApprovalInv'
<1> SUFFICES ASSUME ApprovalInv, [Next]_vars PROVE ApprovalInv'
  OBVIOUS
<1>1. Inv'
  BY NextInv DEF ApprovalInv
<1>2. CASE UserOp \/ QueueDenied
  BY <1>1, <1>2, UserKept
<1>3. ASSUME NEW a \in Actor, Step(a) PROVE ApprovalInv'
  BY <1>1, <1>3, StartKept, ContinueKept, AbortKept DEF Step
<1>4. ASSUME NEW t \in Turn, Run(t) \/ FinishTask(t) \/ Die(t) \/ Approve(t)
      PROVE  ApprovalInv'
  BY <1>1, <1>4, RunKept, FinishKept, ApproveKept
<1>5. CASE UNCHANGED vars
  BY <1>1, <1>5, StaysKept
  DEF vars, turnVars, startVars, abortVars, eventVars, userVars, reachVars
<1> QED BY <1>2, <1>3, <1>4, <1>5 DEF Next

(* Whatever turns overlap and whichever ActiveTurn a sender was put into, a  *)
(* pending approval is dropped without an answer only for a task that was    *)
(* cancelled or is in the hands of the actor that is about to cancel it:     *)
(* clear_pending never rejects on behalf of a task that lives on.            *)
THEOREM DroppedCorrect == Spec => []DroppedOnlyWhenAborted
<1>1. ApprovalInv => DroppedOnlyWhenAborted
  BY DEF ApprovalInv
<1> QED BY <1>1, InitApproval, NextApproval, PTL DEF Spec
=============================================================================
