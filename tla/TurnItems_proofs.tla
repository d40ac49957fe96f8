-------------------------- MODULE TurnItems_proofs ---------------------------
(***************************************************************************)
(* The items of TurnLifecycle: however many turns drain, hand over and     *)
(* record them, each is in one place.  ItemInOnePlace counts places; the   *)
(* inductive invariant says the same of each pair of places, and that an   *)
(* item that was not sent is in none, so that one that is sent is not      *)
(* added to a place it is already in.  Then the items the user steered     *)
(* into a running turn: what the turn has not taken when its last task     *)
(* goes is looked at by somebody who is still there.                       *)
(***************************************************************************)
EXTENDS TurnApprovals_proofs, FiniteSetTheorems

\* How long a prover may take for a step, in seconds.
USE SMTT(20), ZenonT(20)

InPending(i) == \E s \in Shell : i \in pending[s]
InCarried(i) == \E a \in Actor : i \in carried[a]
InInput(i)   == \E t \in Turn : i \in input[t]

\* The places that there is one of.
InQueue(i) == i \in mailbox \union idleInput \union history

Nowhere(i) == ~InPending(i) /\ ~InCarried(i) /\ ~InInput(i) /\ ~InQueue(i)

OneEach(i) ==
  /\ \A s, r \in Shell : i \in pending[s] /\ i \in pending[r] => s = r
  /\ \A a, b \in Actor : i \in carried[a] /\ i \in carried[b] => a = b
  /\ \A t, u \in Turn : i \in input[t] /\ i \in input[u] => t = u

OneKind(i) ==
  /\ InPending(i) => ~InCarried(i) /\ ~InInput(i) /\ ~InQueue(i)
  /\ InCarried(i) => ~InInput(i) /\ ~InQueue(i)
  /\ InInput(i) => ~InQueue(i)
  /\ i \in mailbox => i \notin idleInput \union history
  /\ i \in idleInput => i \notin history

ItemInv ==
  \A i \in Item : OneEach(i) /\ OneKind(i) /\ (i \notin sent => Nowhere(i))

LEMMA InitItem == Init => ItemInv
  BY DEF Init, ItemInv, OneEach, OneKind, Nowhere, InPending, InCarried, InInput, InQueue

\* A step that adds no item to any place.
LEMMA Loses ==
  ASSUME ItemInv, sent \subseteq sent',
         \A s \in Shell : pending'[s] \subseteq pending[s],
         \A a \in Actor : carried'[a] \subseteq carried[a],
         \A t \in Turn : input'[t] \subseteq input[t],
         mailbox' \subseteq mailbox, idleInput' \subseteq idleInput,
         history' \subseteq history
  PROVE  ItemInv'
<1> SUFFICES ASSUME NEW i \in Item
             PROVE  OneEach(i)' /\ OneKind(i)' /\ (i \notin sent' => Nowhere(i)')
  BY DEF ItemInv
<1>1. /\ InPending(i)' => InPending(i)
      /\ InCarried(i)' => InCarried(i)
      /\ InInput(i)' => InInput(i)
      /\ InQueue(i)' => InQueue(i)
      /\ i \notin sent' => i \notin sent
  BY DEF InPending, InCarried, InInput, InQueue
<1>2. OneEach(i) /\ OneKind(i) /\ (i \notin sent => Nowhere(i))
  BY DEF ItemInv
<1>3. OneEach(i)' BY <1>2 DEF OneEach
<1>4. OneKind(i)' BY <1>1, <1>2 DEF OneKind
<1>5. i \notin sent' => Nowhere(i)' BY <1>1, <1>2 DEF Nowhere
<1> QED BY <1>3, <1>4, <1>5

USE DEF ItemInv, OneEach, OneKind, Nowhere, InPending, InCarried, InInput, InQueue

-----------------------------------------------------------------------------
(* What a step moves from one place to another. *)

\* The pending input of the active turn, or the mailbox, goes to an actor.
LEMMA ItemTakePending ==
  ASSUME TypeOK, ItemInv, NEW a \in Actor, TakePending(a),
         UNCHANGED <<input, mailbox, idleInput, history, sent>>
  PROVE  ItemInv'
<1>1. \A i \in Item : i \in carried'[a] => i \in carried[a] \/ (IsActive /\ i \in pending[active])
  BY DEF TakePending, TypeOK
<1>2. \A b \in Actor : b # a => carried'[b] = carried[b]
  BY DEF TakePending, TypeOK
<1>3. \A s \in Shell : pending'[s] = IF s = active THEN {} ELSE pending[s]
  BY DEF TakePending
<1>4. IsActive => active \in Shell
  BY DEF TypeOK, IsActive
<1> QED BY <1>1, <1>2, <1>3, <1>4

LEMMA ItemTakeMail ==
  ASSUME TypeOK, ItemInv, NEW a \in Actor, TakeMail(a),
         UNCHANGED <<pending, input, history, sent>>
  PROVE  ItemInv'
<1>1. \A b \in Actor : carried'[b] = IF b = a THEN carried[a] \union mailbox ELSE carried[b]
  BY DEF TakeMail, TypeOK
<1> QED BY <1>1 DEF TakeMail

LEMMA ItemStart ==
  ASSUME TypeOK, ItemInv, NEW a \in Actor, Start(a)
  PROVE  ItemInv'
<1> USE DEF turnVars, queueVars, taskVars, eventVars, userVars
<1>1. CASE StartQueued(a)
  <2>1. \A b \in Actor : carried'[b] = IF b = a THEN idleInput ELSE carried[b]
    BY <1>1 DEF StartQueued, TypeOK
  <2> QED BY <1>1, <2>1 DEF StartQueued
<1>2. CASE StartPending(a)
  BY <1>2, ItemTakePending DEF StartPending
<1>3. CASE StartMail(a)
  BY <1>3, ItemTakeMail DEF StartMail
<1>4. CASE StartBind(a)
  BY <1>4, Loses DEF StartBind
<1>5. CASE StartExtend(a)
  <2>1. /\ shell[a] \in Shell
        /\ \A b \in Actor : carried'[b] = IF b = a THEN {} ELSE carried[b]
        /\ \A s \in Shell : pending'[s] = IF s = shell[a] THEN pending[s] \union carried[a]
                                          ELSE pending[s]
    BY <1>5 DEF StartExtend, TypeOK, HoldsShell
  <2> QED BY <1>5, <2>1 DEF StartExtend
<1>6. CASE StartLaunch(a)
  BY <1>6, Loses DEF StartLaunch
<1> QED BY <1>1, <1>2, <1>3, <1>4, <1>5, <1>6 DEF Start

\* An item that is sent into the pending input of an ActiveTurn.
LEMMA ItemSentPending ==
  ASSUME TypeOK, ItemInv, NEW s \in Shell, NEW j \in Item \ sent,
         pending' = [pending EXCEPT ![s] = @ \union {j}], sent' = sent \union {j},
         UNCHANGED <<carried, input, mailbox, idleInput, history>>
  PROVE  ItemInv'
<1>1. \A r \in Shell : pending'[r] = IF r = s THEN pending[r] \union {j} ELSE pending[r]
  BY DEF TypeOK
<1> QED BY <1>1

LEMMA ItemContinue ==
  ASSUME TypeOK, ItemInv, NEW a \in Actor, Continue(a)
  PROVE  ItemInv'
<1> USE DEF turnVars, queueVars, startVars, taskVars, eventVars, userVars
<1>1. CASE WorkCheck(a) \/ WorkReserve(a) \/ GoalLock(a) \/ GoalCheck(a)
           \/ GoalReserve(a) \/ GoalStale(a) \/ GoalStill(a)
  <2>1. UNCHANGED <<pending, carried, input, mailbox, idleInput, history, sent>>
    BY <1>1 DEF WorkCheck, WorkReserve, GoalLock, GoalCheck, GoalReserve, GoalStale,
                GoalStill
  <2> QED BY <2>1, Loses
<1>2. CASE GoalCurrent(a)
  <2>1. shell[a] \in Shell
    BY <1>2 DEF GoalCurrent, TypeOK, HoldsShell
  <2>2. PICK g \in GoalPrompt \ sent :
          pending' = [pending EXCEPT ![shell[a]] = @ \union {g}] /\ sent' = sent \union {g}
    BY <1>2 DEF GoalCurrent
  <2>3. g \in Item \ sent
    BY <2>2 DEF Item
  <2>4. UNCHANGED <<carried, input, mailbox, idleInput, history>>
    BY <1>2 DEF GoalCurrent
  <2> QED BY <2>1, <2>2, <2>3, <2>4, ItemSentPending
<1> QED BY <1>1, <1>2 DEF Continue

LEMMA ItemAbort ==
  ASSUME TypeOK, ItemInv, NEW a \in Actor, Abort(a)
  PROVE  ItemInv'
<1> USE DEF turnVars, queueVars, startVars, taskVars, eventVars, userVars
<1>1. CASE AbortTake(a) \/ AbortMiss(a) \/ AbortCancel(a) \/ AbortKill(a) \/ AbortEmit(a)
  <2>1. UNCHANGED <<pending, carried, input, mailbox, idleInput, history, sent>>
    BY <1>1 DEF AbortTake, AbortMiss, AbortCancel, AbortKill, AbortEmit
  <2> QED BY <2>1, Loses
<1>2. CASE AbortClear(a)
  <2>1. \A s \in Shell : pending'[s] \subseteq pending[s]
    BY <1>2 DEF AbortClear, TypeOK
  <2> QED BY <1>2, <2>1, Loses DEF AbortClear
<1> QED BY <1>1, <1>2 DEF Abort

LEMMA ItemRun ==
  ASSUME TypeOK, ItemInv, NEW t \in Turn, Run(t)
  PROVE  ItemInv'
<1> USE DEF turnVars, queueVars, startVars, taskVars, eventVars, userVars
<1>0. t \in Actor
  BY DEF Actor
<1>1. CASE Prewarm(t) \/ RunCompact(t) \/ ToolRuns(t) \/ ToolAsks(t) \/ Answer(t)
           \/ SampleEnd(t) \/ Check(t) \/ Recheck(t)
  <2>1. UNCHANGED <<pending, carried, input, mailbox, idleInput, history, sent>>
    BY <1>1 DEF Prewarm, RunCompact, ToolRuns, ToolAsks, Answer, SampleEnd, Check, Recheck
  <2> QED BY <2>1, Loses
<1>2. CASE Begin(t)
  <2>1. \A u \in Turn : input'[u] = IF u = t THEN {} ELSE input[u]
    BY <1>2 DEF Begin, TypeOK
  <2> QED BY <1>2, <2>1 DEF Begin
<1>3. CASE EarlyReturn(t)
  <2>1. \A u \in Turn : input'[u] \subseteq input[u]
    BY <1>3 DEF EarlyReturn, TypeOK
  <2> QED BY <1>3, <2>1, Loses DEF EarlyReturn
<1>4. CASE DrainPending(t)
  BY <1>0, <1>4, ItemTakePending DEF DrainPending
<1>5. CASE DrainMail(t)
  BY <1>0, <1>5, ItemTakeMail DEF DrainMail
<1>6. CASE Record(t)
  <2>1. \A b \in Actor : carried'[b] = IF b = t THEN {} ELSE carried[b]
    BY <1>6 DEF Record, TypeOK
  <2> QED BY <1>0, <1>6, <2>1 DEF Record
<1> QED BY <1>1, <1>2, <1>3, <1>4, <1>5, <1>6 DEF Run

LEMMA ItemFinish ==
  ASSUME TypeOK, ItemInv, NEW t \in Turn, FinishTask(t) \/ Die(t)
  PROVE  ItemInv'
<1> USE DEF turnVars, queueVars, startVars, taskVars, eventVars, userVars
<1>1. CASE Finish(t) \/ Remove(t) \/ Complete(t) \/ Clear(t)
  <2>1. UNCHANGED <<pending, carried, input, mailbox, idleInput, history, sent>>
    BY <1>1 DEF Finish, Remove, Complete, Clear
  <2> QED BY <2>1, Loses
<1>2. CASE Leftover(t)
  <2>1. shell[t] \in Shell
    BY <1>2 DEF Leftover, TypeOK, HoldsShell, Actor
  <2>2. \A s \in Shell : pending'[s] = IF s = shell[t] THEN {} ELSE pending[s]
    BY <1>2 DEF Leftover, TypeOK
  <2> QED BY <1>2, <2>1, <2>2 DEF Leftover
<1>3. CASE Die(t)
  <2>1. \A a \in Actor : carried'[a] \subseteq carried[a]
    BY <1>3 DEF Die, TypeOK
  <2> QED BY <1>3, <2>1, Loses DEF Die
<1> QED BY <1>1, <1>2, <1>3 DEF FinishTask

-----------------------------------------------------------------------------
(* What the user and other threads send. *)

LEMMA ItemUser ==
  ASSUME TypeOK, ItemInv, UserOp \/ QueueDenied \/ \E t \in Turn : Approve(t)
  PROVE  ItemInv'
<1> USE DEF turnVars, queueVars, startVars, taskVars, eventVars, userVars
<1>1. ASSUME NEW u \in Prompt, Steer(u) PROVE ItemInv'
  <2>1. active \in Shell
    BY <1>1 DEF Steer, TasksNow, IsActive, TypeOK
  <2>2. u \in Item \ sent
    BY <1>1 DEF Steer, Item
  <2> QED BY <1>1, <2>1, <2>2, ItemSentPending DEF Steer
<1>2. ASSUME NEW u \in Prompt, SteerRefused(u) PROVE ItemInv'
  BY <1>2, Loses DEF SteerRefused
<1>3. ASSUME NEW u \in Prompt, UserTurn(u) PROVE ItemInv'
  <2>1. NextTurn \in Turn
    BY <1>3, NextTurnFresh DEF UserTurn, SpawnTask, TypeOK
  <2>2. \A t \in Turn : input'[t] = IF t = NextTurn THEN {u} ELSE input[t]
    BY <1>3, <2>1 DEF UserTurn, SpawnTask, TypeOK
  <2>3. u \in Item \ sent
    BY <1>3 DEF UserTurn, Item
  <2> QED BY <1>3, <2>1, <2>2, <2>3 DEF UserTurn
<1>4. CASE Compact
  <2>1. NextTurn \in Turn
    BY <1>4, NextTurnFresh DEF Compact, SpawnTask, TypeOK
  <2>2. \A t \in Turn : input'[t] \subseteq input[t]
    BY <1>4, <2>1 DEF Compact, SpawnTask, TypeOK
  <2> QED BY <1>4, <2>2, Loses DEF Compact
<1>5. ASSUME NEW m \in Mail, SendMail(m) PROVE ItemInv'
  <2>1. m \in Item \ sent
    BY <1>5 DEF SendMail, Item
  <2> QED BY <1>5, <2>1 DEF SendMail
<1>6. ASSUME NEW j \in Denied, ApproveDenied(j) PROVE ItemInv'
  <2>1. j \in Item \ sent
    BY <1>6 DEF ApproveDenied, Item
  <2>2. CASE InjectInto(j) /\ UNCHANGED carried
    <3>1. active \in Shell
      BY <2>2 DEF InjectInto, IsActive, TypeOK
    <3> QED BY <1>6, <2>1, <2>2, <3>1, ItemSentPending DEF ApproveDenied, InjectInto
  <2>3. CASE carried' = [carried EXCEPT ![Loop] = {j}] /\ UNCHANGED pending
    <3>1. \A a \in Actor : carried'[a] = IF a = Loop THEN {j} ELSE carried[a]
      BY <2>3 DEF TypeOK
    <3> QED BY <1>6, <2>1, <2>3, <3>1 DEF ApproveDenied
  <2> QED BY <1>6, <2>2, <2>3 DEF ApproveDenied
<1>7. CASE QueueDenied
  <2>1. \A a \in Actor : carried'[a] = IF a = Loop THEN {} ELSE carried[a]
    BY <1>7 DEF QueueDenied, TypeOK
  <2>2. Loop \in Actor
    BY DEF Actor
  <2> QED BY <1>7, <2>1, <2>2 DEF QueueDenied
<1>8. ASSUME NEW j \in Injected, Inject(j) PROVE ItemInv'
  <2>1. j \in Item \ sent
    BY <1>8 DEF Inject, Item
  <2>2. CASE InjectInto(j) /\ UNCHANGED history
    <3>1. active \in Shell
      BY <2>2 DEF InjectInto, IsActive, TypeOK
    <3> QED BY <1>8, <2>1, <2>2, <3>1, ItemSentPending DEF Inject, InjectInto
  <2>3. CASE history' = history \union {j} /\ UNCHANGED pending
    BY <1>8, <2>1, <2>3 DEF Inject
  <2> QED BY <1>8, <2>2, <2>3 DEF Inject
<1>9. CASE Interrupt \/ GoalCall \/ GoalChange \/ \E t \in Turn : GuardianTrips(t) \/ Approve(t)
  <2>1. UNCHANGED <<pending, carried, input, mailbox, idleInput, history, sent>>
    BY <1>9 DEF Interrupt, GoalCall, GoalChange, GuardianTrips, Approve
  <2> QED BY <2>1, Loses
<1> QED BY <1>1, <1>2, <1>3, <1>4, <1>5, <1>6, <1>7, <1>8, <1>9 DEF UserOp

LEMMA NextItem == TypeOK /\ ItemInv /\ [Next]_vars => ItemInv'
<1> SUFFICES ASSUME TypeOK, ItemInv, [Next]_vars PROVE ItemInv'
  OBVIOUS
<1>1. CASE \E a \in Actor : Step(a)
  BY <1>1, ItemStart, ItemContinue, ItemAbort DEF Step
<1>2. CASE \E t \in Turn : Run(t) \/ FinishTask(t) \/ Die(t)
  BY <1>2, ItemRun, ItemFinish
<1>3. CASE UserOp \/ QueueDenied \/ \E t \in Turn : Approve(t)
  BY <1>3, ItemUser
<1>4. CASE UNCHANGED vars
  BY <1>4, Loses DEF vars, turnVars, queueVars, startVars, taskVars, eventVars, userVars
<1> QED BY <1>1, <1>2, <1>3, <1>4 DEF Next

-----------------------------------------------------------------------------
(* Counting the places. *)

LEMMA AtMostOne ==
  ASSUME NEW S, \A x, y \in S : x = y
  PROVE  Cardinality(S) = IF S = {} THEN 0 ELSE 1
<1>1. CASE S = {}
  BY <1>1, FS_EmptySet
<1>2. ASSUME NEW x \in S PROVE Cardinality(S) = 1
  <2>1. S = {x}
    OBVIOUS
  <2> QED BY <2>1, FS_Singleton
<1> QED BY <1>1, <1>2

LEMMA Counted == ItemInv => ItemInOnePlace
<1> SUFFICES ASSUME ItemInv, NEW i \in Item PROVE Places(i) <= 1
  BY DEF ItemInOnePlace
<1> DEFINE P == {s \in Shell : i \in pending[s]}
           C == {a \in Actor : i \in carried[a]}
           N == {t \in Turn : i \in input[t]}
<1>1. /\ \A x, y \in P : x = y
      /\ \A x, y \in C : x = y
      /\ \A x, y \in N : x = y
  OBVIOUS
<1>2. /\ Cardinality(P) = IF P = {} THEN 0 ELSE 1
      /\ Cardinality(C) = IF C = {} THEN 0 ELSE 1
      /\ Cardinality(N) = IF N = {} THEN 0 ELSE 1
  BY <1>1, AtMostOne
<1>3. /\ P # {} <=> InPending(i)
      /\ C # {} <=> InCarried(i)
      /\ N # {} <=> InInput(i)
  OBVIOUS
<1>4. OneKind(i)
  OBVIOUS
<1> HIDE DEF P, C, N, InPending, InCarried, InInput, ItemInv, OneEach, Nowhere
<1>5. Cardinality(P) + Cardinality(C) + Cardinality(N)
      + (IF i \in mailbox THEN 1 ELSE 0) + (IF i \in idleInput THEN 1 ELSE 0)
      + (IF i \in history THEN 1 ELSE 0) <= 1
  BY <1>2, <1>3, <1>4
<1> QED BY <1>5 DEF Places, P, C, N

\* However many turns, items and aborts there are, no input reaches the model
\* twice: the queues of a session, what its actors carry and its history are
\* disjoint at any time.
THEOREM ItemCorrect == Spec => []ItemInOnePlace
  BY InitItem, NextItem, Counted, TypeCorrect, PTL DEF Spec

HIDE DEF ItemInv, OneEach, OneKind, Nowhere, InPending, InCarried, InInput, InQueue

-----------------------------------------------------------------------------
(* Steered messages. *)

\* An actor will look at what is pending in an ActiveTurn, or has just added
\* to it and will launch a task there.
Guarded(s) == \E a \in Actor : shell[a] = s /\ pc[a] \in Keepers

\* Nothing is pending under a name that is still to be given, so that a new
\* ActiveTurn is empty; and what was steered into an active turn that has no
\* task any more is guarded.
SteerInv ==
  /\ steered \subseteq sent
  /\ \A s \in Shell : pending[s] # {} => WellNamed(s)
  /\ IsActive /\ tasks[active] = {} /\ pending[active] \intersect steered # {} =>
       Guarded(active)

(* What a step may do to it.                                                *)
AddsKept ==
  /\ steered' \subseteq sent'
  /\ \A s \in Shell : pending'[s] # {} => pending[s] # {} \/ InUse(s)
  /\ \A s \in Shell : tasks[s] = {} =>
       pending'[s] \intersect steered' \subseteq pending[s] \intersect steered
       \/ Guarded(s)'
GuardKept ==
  active' \in Shell /\ tasks'[active'] = {} =>
    \/ pending'[active'] = {} \/ Guarded(active)'
    \/ active' = active /\ tasks[active] = {} /\ (Guarded(active) => Guarded(active)')

LEMMA SteerKept ==
  ASSUME ApprovalInv, SteerInv, TypeOK', StartsKept, AddsKept, GuardKept
  PROVE  SteerInv'
<1>0. TypeOK /\ NameInv /\ NoTurn \notin Turn /\ NoShell \notin Shell
  BY ShellFacts, ConstantsAssumption DEF ApprovalInv, Inv
<1>1. ASSUME NEW s \in Shell, pending'[s] # {} PROVE WellNamed(s)'
  <2>1. WellNamed(s) /\ s.turn \in Turn
    BY <1>0, <1>1 DEF AddsKept, SteerInv, NameInv, Shell
  <2>2. ASSUME NEW b \in Actor, starting'[b] = s.turn
        PROVE  starting[b] = s.turn /\ (pc[b] \in Bound => pc'[b] \in Bound)
    BY <1>0, <2>1, <2>2 DEF StartsKept, WellNamed
  <2> QED BY <2>1, <2>2 DEF WellNamed, StartsKept
<1>2. ASSUME IsActive', tasks'[active'] = {}, pending'[active'] \intersect steered' # {}
      PROVE  Guarded(active)'
  <2>1. active' \in Shell
    BY <1>2 DEF TypeOK, IsActive
  <2>2. CASE active' = active /\ tasks[active] = {} /\ (Guarded(active) => Guarded(active)')
    BY <1>0, <1>2, <2>1, <2>2 DEF SteerInv, AddsKept, IsActive
  <2> QED BY <1>2, <2>1, <2>2 DEF GuardKept
<1> QED BY <1>1, <1>2 DEF SteerInv, AddsKept

\* A step of one actor that leaves the ActiveTurns as they are.
LEMMA SteerMoves ==
  ASSUME ApprovalInv, SteerInv, TypeOK', AddsKept, NEW a \in Actor,
         \A b \in Actor : b # a => pc'[b] = pc[b],
         pc[a] \in Bound => pc'[a] \in Bound,
         pc[a] \in Keepers /\ shell[a] = active =>
           pc'[a] \in Keepers \/ pending'[active] = {},
         UNCHANGED <<active, tasks, shell, starting, used>>
  PROVE  SteerInv'
<1>1. StartsKept
  BY DEF StartsKept
<1>2. GuardKept
  BY DEF GuardKept, Guarded
<1> QED BY <1>1, <1>2, SteerKept

\* A step that adds no input, and one that adds input that was not steered.
LEMMA NothingAdded ==
  ASSUME SteerInv, sent \subseteq sent', UNCHANGED steered,
         \A s \in Shell : pending'[s] \subseteq pending[s]
  PROVE  AddsKept
  BY DEF AddsKept, SteerInv

LEMMA NewAdded ==
  ASSUME SteerInv, TypeOK, NEW s \in Shell, InUse(s), NEW j \in Item \ sent,
         pending' = [pending EXCEPT ![s] = @ \union {j}], sent' = sent \union {j},
         UNCHANGED steered
  PROVE  AddsKept
<1>1. \A r \in Shell : pending'[r] = IF r = s THEN pending[r] \union {j} ELSE pending[r]
  BY DEF TypeOK
<1> QED BY <1>1 DEF AddsKept, SteerInv

LEMMA SteerStart ==
  ASSUME ApprovalInv, SteerInv, TypeOK', NEW a \in Actor, Start(a)
  PROVE  SteerInv'
<1> USE DEF Goto, turnVars, queueVars, startVars, taskVars, abortVars, eventVars, userVars
<1>0. TypeOK /\ (\A t \in Turn : t \in Actor)
  BY DEF ApprovalInv, Inv, Actor
<1>1. CASE StartQueued(a) \/ StartMail(a)
  <2>1. /\ pc[a] \notin Bound \union Keepers
        /\ UNCHANGED <<active, tasks, pending, shell, starting, used, sent, steered>>
    BY <1>1 DEF StartQueued, StartMail, Bound, Keepers
  <2>2. \A b \in Actor : b # a => pc'[b] = pc[b]
    BY <1>0, <1>1 DEF StartQueued, StartMail, TypeOK
  <2> QED BY <2>1, <2>2, NothingAdded, SteerMoves
<1>2. CASE StartPending(a)
  <2>1. /\ pc[a] \notin Bound \union Keepers
        /\ UNCHANGED <<active, tasks, shell, starting, used, sent, steered>>
        /\ \A s \in Shell : pending'[s] \subseteq pending[s]
    BY <1>2 DEF StartPending, TakePending, Bound, Keepers
  <2>2. \A b \in Actor : b # a => pc'[b] = pc[b]
    BY <1>0, <1>2 DEF StartPending, TypeOK
  <2> QED BY <2>1, <2>2, NothingAdded, SteerMoves
<1>3. CASE StartBind(a)
  <2>1. /\ pc[a] = "st_bind" /\ starting[a] \in Turn
        /\ UNCHANGED <<tasks, pending, starting, used, sent, steered>>
        /\ active' = IF IsActive THEN active ELSE NewShell(starting[a], "bind")
    BY <1>0, <1>3 DEF StartBind, GetOrInsert, TypeOK, HoldsTurn, Starters
  <2>2. /\ \A b \in Actor : pc'[b] = IF b = a THEN "st_extend" ELSE pc[b]
        /\ \A b \in Actor : b # a => shell'[b] = shell[b]
    BY <1>0, <1>3 DEF StartBind, TypeOK
  <2>3. StartsKept
    BY <2>1, <2>2 DEF StartsKept, Bound
  <2>4. CASE IsActive
    <3>1. GuardKept
      BY <2>1, <2>2, <2>4 DEF GuardKept, Guarded, Keepers
    <3> QED BY <2>1, <2>3, <3>1, NothingAdded, SteerKept
  <2>5. CASE ~IsActive
    <3>1. active' \in Shell /\ ~WellNamed(active')
      BY <2>1, <2>5, ShellFacts DEF WellNamed, NewShell, Bound
    <3>2. pending'[active'] = {}
      BY <2>1, <3>1 DEF SteerInv
    <3> QED BY <2>1, <2>3, <3>2, NothingAdded, SteerKept DEF GuardKept
  <2> QED BY <2>4, <2>5
<1>4. CASE StartExtend(a)
  <2>1. /\ pc[a] = "st_extend" /\ shell[a] \in Shell
        /\ UNCHANGED <<active, tasks, shell, starting, used, sent, steered>>
    BY <1>0, <1>4 DEF StartExtend, TypeOK, HoldsShell
  <2>2. /\ \A b \in Actor : pc'[b] = IF b = a THEN "st_launch" ELSE pc[b]
        /\ \A s \in Shell : s # shell[a] => pending'[s] = pending[s]
    BY <1>0, <1>4 DEF StartExtend, TypeOK
  <2>3. Guarded(shell[a])' /\ InUse(shell[a])
    BY <2>1, <2>2 DEF Guarded, Keepers, InUse
  <2>4. AddsKept
    BY <2>1, <2>2, <2>3 DEF AddsKept, SteerInv
  <2> QED BY <2>1, <2>2, <2>4, SteerMoves DEF Bound, Keepers
<1>5. CASE StartLaunch(a)
  <2>1. /\ pc[a] = "st_launch" /\ starting[a] \in Turn /\ pc[starting[a]] = "unused"
        /\ UNCHANGED <<pending, used, sent, steered>>
        /\ active' = IF IsActive THEN active ELSE NewShell(starting[a], "launch")
        /\ tasks' = [tasks EXCEPT ![active'] = @ \union {starting[a]}]
    BY <1>0, <1>5 DEF StartLaunch, GetOrInsert, TypeOK, HoldsTurn, Starters, ApprovalInv,
                      Inv, FreshInv
  <2>2. active' \in Shell
    BY <1>0, <2>1, ShellFacts DEF TypeOK, IsActive
  <2>3. tasks'[active'] # {}
    BY <1>0, <2>1, <2>2 DEF TypeOK
  <2>4. /\ \A b \in Actor : b \notin {a, starting[a]} => pc'[b] = pc[b]
        /\ \A b \in Actor : starting'[b] = IF b = a THEN NoTurn ELSE starting[b]
    BY <1>0, <1>5 DEF StartLaunch, TypeOK
  <2>5. StartsKept
    BY <2>1, <2>4 DEF StartsKept, Bound
  <2> QED BY <2>1, <2>3, <2>5, NothingAdded, SteerKept DEF GuardKept
<1> QED BY <1>1, <1>2, <1>3, <1>4, <1>5 DEF Start

LEMMA SteerContinue ==
  ASSUME ApprovalInv, SteerInv, TypeOK', NEW a \in Actor, Continue(a)
  PROVE  SteerInv'
<1> USE DEF Goto, turnVars, queueVars, startVars, taskVars, abortVars, eventVars, userVars
<1>0. TypeOK /\ NoTurn \notin Turn /\ NoShell \notin Shell
  BY ShellFacts, ConstantsAssumption DEF ApprovalInv, Inv
<1>1. CASE WorkCheck(a) \/ GoalLock(a) \/ GoalCheck(a)
  <2>1. /\ pc[a] \notin Bound \union Keepers
        /\ UNCHANGED <<active, tasks, pending, shell, starting, used, sent, steered>>
    BY <1>1 DEF WorkCheck, GoalLock, GoalCheck, Bound, Keepers
  <2>2. \A b \in Actor : b # a => pc'[b] = pc[b]
    BY <1>0, <1>1 DEF WorkCheck, GoalLock, GoalCheck, GiveUp, TypeOK
  <2> QED BY <2>1, <2>2, NothingAdded, SteerMoves
<1>2. CASE GoalCurrent(a)
  <2>1. /\ pc[a] = "gc_reread" /\ shell[a] \in Shell
        /\ UNCHANGED <<active, tasks, shell, starting, used, steered>>
        /\ \A b \in Actor : b # a => pc'[b] = pc[b]
    BY <1>0, <1>2 DEF GoalCurrent, TypeOK, HoldsShell
  <2>2. PICK g \in GoalPrompt \ sent :
          pending' = [pending EXCEPT ![shell[a]] = @ \union {g}] /\ sent' = sent \union {g}
    BY <1>2 DEF GoalCurrent
  <2>3. AddsKept
    <3>1. InUse(shell[a]) /\ g \in Item \ sent
      BY <2>1, <2>2 DEF InUse, Item
    <3> QED BY <1>0, <2>1, <2>2, <3>1, NewAdded
  <2> QED BY <2>1, <2>3, SteerMoves DEF Bound, Keepers
<1>3. CASE (WorkReserve(a) \/ GoalReserve(a)) /\ ~IsActive
  <2>1. PICK l \in {"st_queued", "gc_reread"} : Reserve(a, l)
    BY <1>3 DEF WorkReserve, GoalReserve
  <2>2. PICK t \in Turn : /\ t \notin used /\ active' = NewShell(t, "reserve")
                          /\ used' = used \union {t}
                          /\ starting' = [starting EXCEPT ![a] = t]
    BY <1>0, <2>1, NextTurnFresh DEF Reserve, TypeOK
  <2>3. /\ pc[a] \notin Bound
        /\ UNCHANGED <<pending, sent, steered>>
        /\ \A b \in Actor : b # a => pc'[b] = pc[b] /\ starting'[b] = starting[b]
        /\ starting'[a] = t
    BY <1>0, <1>3, <2>1, <2>2 DEF WorkReserve, GoalReserve, Reserve, Bound, TypeOK
  <2>4. active' \in Shell /\ ~WellNamed(active')
    BY <2>2, ShellFacts DEF WellNamed, NewShell
  <2>5. pending'[active'] = {}
    BY <2>3, <2>4 DEF SteerInv
  <2>6. StartsKept
    BY <2>2, <2>3 DEF StartsKept
  <2> QED BY <2>3, <2>5, <2>6, NothingAdded, SteerKept DEF GuardKept
<1>4. CASE (WorkReserve(a) \/ GoalReserve(a)) /\ IsActive
  <2>1. /\ pc[a] \notin Bound \union Keepers
        /\ UNCHANGED <<active, tasks, pending, shell, starting, used, sent, steered>>
    BY <1>4 DEF WorkReserve, GoalReserve, Reserve, Bound, Keepers
  <2>2. \A b \in Actor : b # a => pc'[b] = pc[b]
    BY <1>0, <1>4 DEF WorkReserve, GoalReserve, Reserve, GiveUp, TypeOK
  <2> QED BY <2>1, <2>2, NothingAdded, SteerMoves
<1>5. CASE GoalStale(a) \/ GoalStill(a)
  <2>1. /\ pc[a] \in {"gc_reread", "gc_still"}
        /\ UNCHANGED <<tasks, pending, used, sent, steered>>
        /\ active' \in {active, NoShell}
    BY <1>5 DEF GoalStale, GoalStill, GiveBack
  <2>2. \A b \in Actor : b # a => /\ pc'[b] = pc[b] /\ starting'[b] = starting[b]
                                  /\ shell'[b] = shell[b]
    BY <1>0, <1>5 DEF GoalStale, GoalStill, GiveUp, TypeOK
  <2>3. starting'[a] \in {NoTurn, starting[a]}
    BY <1>0, <1>5 DEF GoalStale, GoalStill, GiveUp, TypeOK
  <2>4. StartsKept
    BY <2>1, <2>2, <2>3 DEF StartsKept, Bound
  <2>5. GuardKept
    BY <1>0, <2>1, <2>2 DEF GuardKept, Guarded, Keepers
  <2> QED BY <2>1, <2>4, <2>5, NothingAdded, SteerKept
<1> QED BY <1>1, <1>2, <1>3, <1>4, <1>5 DEF Continue

LEMMA SteerAbort ==
  ASSUME ApprovalInv, SteerInv, TypeOK', NEW a \in Actor, Abort(a)
  PROVE  SteerInv'
<1> USE DEF Goto, turnVars, queueVars, startVars, taskVars, abortVars, eventVars, userVars
<1>0. TypeOK /\ NoTurn \notin Turn /\ NoShell \notin Shell
  BY ShellFacts, ConstantsAssumption DEF ApprovalInv, Inv
<1>1. CASE AbortTake(a)
  <2>1. /\ active' = NoShell /\ pc[a] = "take"
        /\ UNCHANGED <<pending, starting, used, sent, steered>>
    BY <1>1 DEF AbortTake
  <2>2. \A b \in Actor : b # a => pc'[b] = pc[b]
    BY <1>0, <1>1 DEF AbortTake, TypeOK
  <2>3. StartsKept
    BY <2>1, <2>2 DEF StartsKept, Bound
  <2> QED BY <1>0, <2>1, <2>3, NothingAdded, SteerKept DEF GuardKept
<1>2. CASE AbortMiss(a) \/ AbortCancel(a) \/ AbortKill(a) \/ AbortEmit(a)
  <2>1. /\ pc[a] \in {"take", "cancel", "kill", "emit"}
        /\ UNCHANGED <<active, tasks, pending, shell, starting, used, sent, steered>>
    BY <1>2 DEF AbortMiss, AbortCancel, AbortKill, AbortEmit
  <2>2. \A b \in Actor : b # a => pc'[b] = pc[b]
    BY <1>0, <1>2 DEF AbortMiss, AbortCancel, AbortKill, AbortEmit, TypeOK
  <2>3. pc[a] \in Keepers => shell[a] # active
    BY <2>1 DEF ApprovalInv, TakenInv, Aborting, Keepers
  <2> QED BY <2>1, <2>2, <2>3, NothingAdded, SteerMoves DEF Bound
<1>3. CASE AbortClear(a)
  <2>1. /\ pc[a] = "clear_pending"
        /\ UNCHANGED <<active, tasks, starting, used, sent, steered>>
        /\ \A s \in Shell : pending'[s] \subseteq pending[s]
    BY <1>0, <1>3 DEF AbortClear, TypeOK
  <2>2. \A b \in Actor : /\ b # a => shell'[b] = shell[b]
                         /\ b # a => pc'[b] = pc[b] \/ pc[b] = "approval"
    BY <1>0, <1>3 DEF AbortClear, Waiting, TypeOK
  <2>3. StartsKept
    BY <2>1, <2>2 DEF StartsKept, Bound
  <2>4. GuardKept
    BY <2>1, <2>2 DEF GuardKept, Guarded, Keepers
  <2> QED BY <2>1, <2>3, <2>4, NothingAdded, SteerKept
<1> QED BY <1>1, <1>2, <1>3 DEF Abort

LEMMA SteerRun ==
  ASSUME ApprovalInv, SteerInv, TypeOK', NEW t \in Turn, Run(t)
  PROVE  SteerInv'
<1>0. TypeOK /\ t \in Actor
  BY DEF ApprovalInv, Inv, Actor
<1>1. pc[t] \in Running /\ UNCHANGED reachVars
  BY <1>0, RunMoves
<1>2. \A b \in Actor : b # t => pc'[b] = pc[b]
  BY <1>0, RunMoves DEF TypeOK
<1>3. UNCHANGED <<sent, steered>> /\ \A s \in Shell : pending'[s] \subseteq pending[s]
  BY DEF Run, Prewarm, RunCompact, Begin, EarlyReturn, DrainPending, DrainMail, TakePending,
         Record, ToolRuns, ToolAsks, Answer, SampleEnd, Check, Recheck, turnVars, userVars
<1> QED BY <1>0, <1>1, <1>2, <1>3, NothingAdded, SteerMoves
        DEF reachVars, Running, Bound, Keepers

LEMMA SteerFinish ==
  ASSUME ApprovalInv, SteerInv, TypeOK', NEW t \in Turn, FinishTask(t) \/ Die(t)
  PROVE  SteerInv'
<1> USE DEF Goto, turnVars, queueVars, startVars, taskVars, abortVars, eventVars, userVars
<1>0. TypeOK /\ t \in Actor /\ NoShell \notin Shell
  BY ShellFacts DEF ApprovalInv, Inv, Actor
<1>1. CASE Finish(t) \/ Complete(t)
  <2>1. /\ pc[t] \in {"finish", "complete"}
        /\ UNCHANGED <<active, tasks, pending, shell, starting, used, sent, steered>>
    BY <1>1 DEF Finish, Complete
  <2>2. \A b \in Actor : b # t => pc'[b] = pc[b]
    BY <1>0, <1>1 DEF Finish, Complete, TypeOK
  <2> QED BY <1>0, <2>1, <2>2, NothingAdded, SteerMoves DEF Bound, Keepers
<1>2. CASE Remove(t)
  <2>1. /\ pc[t] = "remove"
        /\ UNCHANGED <<active, pending, starting, used, sent, steered>>
        /\ tasks' = [s \in Shell |-> IF s = active THEN tasks[s] \ {t} ELSE tasks[s]]
    BY <1>2 DEF Remove, Removed
  <2>2. \A b \in Actor : b # t => pc'[b] = pc[b] /\ shell'[b] = shell[b]
    BY <1>0, <1>2 DEF Remove, TypeOK
  <2>3. StartsKept
    BY <2>1, <2>2 DEF StartsKept, Bound
  <2>4. CASE LastTask(t)
    <3>1. shell'[t] = active /\ pc'[t] = "leftover"
      BY <1>0, <1>2, <2>4 DEF Remove, TypeOK
    <3>2. GuardKept
      BY <1>0, <2>1, <3>1 DEF GuardKept, Guarded, Keepers
    <3> QED BY <2>1, <2>3, <3>2, NothingAdded, SteerKept
  <2>5. CASE ~LastTask(t)
    <3>1. shell' = shell
      BY <1>2, <2>5 DEF Remove
    <3>2. active \in Shell /\ tasks'[active] = {} => tasks[active] = {}
      BY <1>0, <2>1, <2>5 DEF LastTask, TasksNow, IsActive
    <3>3. GuardKept
      BY <2>1, <2>2, <3>1, <3>2 DEF GuardKept, Guarded, Keepers
    <3> QED BY <2>1, <2>3, <3>3, NothingAdded, SteerKept
  <2> QED BY <2>4, <2>5
<1>3. CASE Leftover(t)
  <2>1. /\ pc[t] = "leftover" /\ shell[t] \in Shell
        /\ UNCHANGED <<active, tasks, shell, starting, used, sent, steered>>
        /\ pending' = [pending EXCEPT ![shell[t]] = {}]
        /\ \A b \in Actor : b # t => pc'[b] = pc[b]
    BY <1>0, <1>3 DEF Leftover, TypeOK, HoldsShell
  <2>2. /\ \A s \in Shell : pending'[s] \subseteq pending[s]
        /\ pending'[shell[t]] = {}
    BY <1>0, <2>1 DEF TypeOK
  <2> QED BY <1>0, <2>1, <2>2, NothingAdded, SteerMoves DEF Bound
<1>4. CASE Clear(t)
  <2>1. /\ pc[t] = "clear" /\ active' \in {active, NoShell}
        /\ UNCHANGED <<tasks, pending, starting, used, sent, steered>>
    BY <1>4 DEF Clear
  <2>2. \A b \in Actor : b # t => pc'[b] = pc[b] /\ shell'[b] = shell[b]
    BY <1>0, <1>4 DEF Clear, TypeOK
  <2>3. StartsKept
    BY <2>1, <2>2 DEF StartsKept, Bound
  <2>4. GuardKept
    BY <1>0, <2>1, <2>2 DEF GuardKept, Guarded, Keepers
  <2> QED BY <2>1, <2>3, <2>4, NothingAdded, SteerKept
<1>5. CASE Die(t)
  <2>1. pc[t] \in Busy
    BY <1>5 DEF Die, ApprovalInv, Inv, ListInv, Listed
  <2>2. /\ UNCHANGED <<active, tasks, pending, shell, starting, used, sent, steered>>
        /\ \A b \in Actor : b # t => pc'[b] = pc[b]
    BY <1>0, <1>5 DEF Die, TypeOK
  <2> QED BY <1>0, <2>1, <2>2, NothingAdded, SteerMoves DEF Busy, Running, Bound, Keepers
<1> QED BY <1>1, <1>2, <1>3, <1>4, <1>5 DEF FinishTask

LEMMA SteerUser ==
  ASSUME ApprovalInv, SteerInv, TypeOK', UserOp \/ QueueDenied
  PROVE  SteerInv'
<1> USE DEF Goto, LoopIdle, turnVars, queueVars, startVars, taskVars, abortVars, eventVars,
            userVars
<1>0. /\ TypeOK /\ NoShell \notin Shell
      /\ Loop \in Actor /\ GoalCaller \in Actor /\ Guardian \in Actor
  BY ShellFacts DEF ApprovalInv, Inv, Actor
<1>1. IsActive => active \in Shell /\ InUse(active)
  BY <1>0 DEF IsActive, InUse, TypeOK
<1>2. ASSUME NEW u \in Prompt, Steer(u) PROVE SteerInv'
  <2>1. /\ active \in Shell /\ tasks[active] # {} /\ InUse(active)
        /\ UNCHANGED <<active, tasks, pc, shell, starting, used>>
        /\ pending' = [pending EXCEPT ![active] = @ \union {u}]
        /\ sent' = sent \union {u} /\ steered' = steered \union {u} /\ u \notin sent
    BY <1>1, <1>2 DEF Steer, TasksNow
  <2>2. \A s \in Shell : pending'[s] = IF s = active THEN pending[s] \union {u} ELSE pending[s]
    BY <1>0, <2>1 DEF TypeOK
  <2>3. \A s \in Shell : pending'[s] # {} => WellNamed(s)
    BY <2>1, <2>2 DEF SteerInv, ApprovalInv, NameInv
  <2>4. \A s \in Shell : pending'[s] # {} => WellNamed(s)'
    BY <2>1, <2>3 DEF WellNamed
  <2> QED BY <2>1, <2>4 DEF SteerInv
<1>3. ASSUME NEW u \in Prompt, SteerRefused(u) PROVE SteerInv'
  BY <1>0, <1>3, NothingAdded, SteerMoves DEF SteerRefused
<1>4. ASSUME NEW k, NEW in, SpawnTask(k, in), pc[Loop] = "idle",
             UNCHANGED <<active, tasks, pending, shell, steered>>, sent \subseteq sent'
      PROVE  SteerInv'
  <2>1. PICK t \in Turn : t = NextTurn /\ t \notin used
    BY <1>0, <1>4, NextTurnFresh DEF SpawnTask, TypeOK
  <2>2. /\ used' = used \union {t}
        /\ \A b \in Actor : pc'[b] = IF b = Loop THEN "take" ELSE pc[b]
        /\ \A b \in Actor : starting'[b] = IF b = Loop THEN t ELSE starting[b]
    BY <1>0, <1>4, <2>1 DEF SpawnTask, TypeOK
  <2>3. StartsKept
    BY <2>1, <2>2 DEF StartsKept
  <2>4. GuardKept
    BY <1>0, <1>4, <2>2 DEF GuardKept, Guarded, Keepers
  <2> QED BY <1>4, <2>3, <2>4, NothingAdded, SteerKept
<1>5. ASSUME NEW u \in Prompt, UserTurn(u) PROVE SteerInv'
  BY <1>4, <1>5 DEF UserTurn
<1>6. CASE Compact
  BY <1>4, <1>6 DEF Compact
<1>7. ASSUME NEW b \in Actor, pc[b] = "idle" \/ pc' = pc, \A c \in Actor : c # b => pc'[c] = pc[c],
             UNCHANGED <<active, tasks, pending, shell, starting, used, steered>>,
             sent \subseteq sent'
      PROVE  SteerInv'
  BY <1>7, NothingAdded, SteerMoves DEF Bound, Keepers
<1>8. CASE Interrupt \/ GoalCall \/ GoalChange \/ \E m \in Mail : SendMail(m)
  <2>1. CASE Interrupt \/ \E m \in Mail : SendMail(m)
    BY <1>0, <1>7, <2>1 DEF Interrupt, SendMail, TypeOK
  <2>2. CASE GoalCall \/ GoalChange
    BY <1>0, <1>7, <2>2 DEF GoalCall, GoalChange, TypeOK
  <2> QED BY <1>8, <2>1, <2>2
<1>9. ASSUME NEW t \in Turn, GuardianTrips(t) PROVE SteerInv'
  BY <1>0, <1>7, <1>9 DEF GuardianTrips, TypeOK
<1>10. ASSUME NEW j \in Item \ sent, InjectInto(j), sent' = sent \union {j},
              pc[Loop] = "idle" \/ pc' = pc, \A c \in Actor : c # Loop => pc'[c] = pc[c],
              UNCHANGED <<active, tasks, shell, starting, used, steered>>
       PROVE  SteerInv'
  <2>1. AddsKept
    BY <1>0, <1>1, <1>10, NewAdded DEF InjectInto
  <2> QED BY <1>0, <1>10, <2>1, SteerMoves DEF Bound, Keepers
<1>11. ASSUME NEW j \in Denied, ApproveDenied(j) PROVE SteerInv'
  <2>1. j \in Item \ sent
    BY <1>11 DEF ApproveDenied, Item
  <2>2. CASE InjectInto(j) /\ UNCHANGED pc
    BY <1>10, <1>11, <2>1, <2>2 DEF ApproveDenied
  <2>3. CASE pc' = [pc EXCEPT ![Loop] = "queue"] /\ UNCHANGED pending
    BY <1>0, <1>7, <1>11, <2>3 DEF ApproveDenied, TypeOK
  <2> QED BY <1>11, <2>2, <2>3 DEF ApproveDenied
<1>12. ASSUME NEW j \in Injected, Inject(j) PROVE SteerInv'
  <2>1. j \in Item \ sent
    BY <1>12 DEF Inject, Item
  <2>2. CASE InjectInto(j)
    BY <1>10, <1>12, <2>1, <2>2 DEF Inject
  <2>3. CASE UNCHANGED pending
    BY <1>0, <1>7, <1>12, <2>3 DEF Inject
  <2> QED BY <1>12, <2>2, <2>3 DEF Inject
<1>13. CASE QueueDenied
  <2>1. \A c \in Actor : c # Loop => pc'[c] = pc[c]
    BY <1>0, <1>13 DEF QueueDenied, TypeOK
  <2> QED BY <1>0, <1>13, <2>1, NothingAdded, SteerMoves DEF QueueDenied, Bound, Keepers
<1> QED
  BY <1>2, <1>3, <1>5, <1>6, <1>8, <1>9, <1>11, <1>12, <1>13 DEF UserOp

LEMMA SteerApprove ==
  ASSUME ApprovalInv, SteerInv, TypeOK', NEW t \in Turn, Approve(t)
  PROVE  SteerInv'
<1>1. /\ t \in Actor
      /\ UNCHANGED <<active, tasks, pending, shell, starting, used, sent, steered>>
      /\ \A b \in Actor : b # t => pc'[b] = pc[b]
      /\ pc[t] = "approval" \/ pc' = pc
  BY DEF Approve, Goto, Actor, ApprovalInv, Inv, TypeOK, startVars, userVars
<1> QED BY <1>1, NothingAdded, SteerMoves DEF Bound, Keepers

LEMMA InitSteer == Init => SteerInv
  BY DEF Init, SteerInv, IsActive

LEMMA NextSteer == ApprovalInv /\ SteerInv /\ [Next]_vars => SteerInv'
<1> SUFFICES ASSUME ApprovalInv, SteerInv, [Next]_vars PROVE SteerInv'
  OBVIOUS
<1>1. TypeOK'
  BY NextTypeOK DEF ApprovalInv, Inv
<1>2. CASE UserOp \/ QueueDenied
  BY <1>1, <1>2, SteerUser
<1>3. ASSUME NEW a \in Actor, Step(a) PROVE SteerInv'
  BY <1>1, <1>3, SteerStart, SteerContinue, SteerAbort DEF Step
<1>4. ASSUME NEW t \in Turn, Run(t) \/ FinishTask(t) \/ Die(t) \/ Approve(t)
      PROVE  SteerInv'
  BY <1>1, <1>4, SteerRun, SteerFinish, SteerApprove
<1>5. CASE UNCHANGED vars
  BY <1>5 DEF vars, turnVars, startVars, userVars, SteerInv, WellNamed, Guarded, IsActive
<1> QED BY <1>2, <1>3, <1>4, <1>5 DEF Next

LEMMA SteerInvariant == Spec => [](ApprovalInv /\ SteerInv)
  BY InitApproval, NextApproval, InitSteer, NextSteer, PTL DEF Spec

\* A step of a task that moves items only into its hands or out of them into
\* the history, and forgets no ActiveTurn.
LEMMA HeldOn ==
  ASSUME NEW u, Held(u),
         history \subseteq history',
         mailbox \subseteq mailbox' \/ Held(u)',
         \A b \in Actor : u \in carried[b] => u \in carried'[b] \/ u \in history',
         \A s \in Shell : u \in pending[s] => u \in pending'[s] \/ Held(u)',
         \A s \in Shell : active = s \/ Guarded(s) => active' = s \/ Guarded(s)' \/ Held(u)'
  PROVE  Held(u)'
  BY DEF Held, Guarded

LEMMA HeldByRun ==
  ASSUME ApprovalInv, NEW t \in Turn, Run(t), NEW u \in steered, Held(u)
  PROVE  Held(u)'
<1>0. TypeOK /\ t \in Actor
  BY DEF ApprovalInv, Inv, Actor
<1>1. pc[t] \in Running /\ UNCHANGED reachVars
  BY <1>0, RunMoves
<1>2. \A b \in Actor : b # t => pc'[b] = pc[b]
  BY <1>0, RunMoves DEF TypeOK
<1>3. \A s \in Shell : active = s \/ Guarded(s) => active' = s \/ Guarded(s)'
  BY <1>1, <1>2 DEF reachVars, Guarded, Keepers, Running
<1> USE DEF turnVars, queueVars, startVars, taskVars, eventVars
<1>4. CASE DrainPending(t)
  <2>1. /\ UNCHANGED <<history, mailbox>>
        /\ \A b \in Actor : carried[b] \subseteq carried'[b]
        /\ carried'[t] = carried[t] \union (IF IsActive THEN pending[active] ELSE {})
        /\ \A s \in Shell : pending'[s] = IF s = active THEN {} ELSE pending[s]
    BY <1>0, <1>4 DEF DrainPending, TakePending, TypeOK
  <2>2. ASSUME NEW s \in Shell, u \in pending[s] PROVE u \in pending'[s] \/ Held(u)'
    <3>1. s = active => u \in carried'[t]
      BY <2>1, <2>2, ShellFacts DEF IsActive
    <3> QED BY <1>0, <2>1, <2>2, <3>1 DEF Held
  <2> QED BY <1>3, <2>1, <2>2, HeldOn
<1>5. CASE DrainMail(t)
  <2>1. /\ UNCHANGED <<history, pending>>
        /\ \A b \in Actor : carried[b] \subseteq carried'[b]
        /\ mailbox \subseteq carried'[t]
    BY <1>0, <1>5 DEF DrainMail, TakeMail, TypeOK
  <2>2. u \in mailbox => Held(u)'
    BY <1>0, <2>1 DEF Held
  <2>3. CASE u \in mailbox
    BY <2>2, <2>3
  <2>4. CASE u \notin mailbox
    BY <1>3, <2>1, <2>4 DEF Held, Guarded
  <2> QED BY <2>3, <2>4
<1>6. CASE Record(t)
  <2>1. /\ UNCHANGED <<mailbox, pending>> /\ history' = history \union carried[t]
        /\ \A b \in Actor : b # t => carried'[b] = carried[b]
    BY <1>0, <1>6 DEF Record, TypeOK
  <2> QED BY <1>3, <2>1, HeldOn
<1>7. CASE Begin(t)
  <2>1. UNCHANGED <<mailbox, pending, carried>> /\ history \subseteq history'
    BY <1>7 DEF Begin
  <2> QED BY <1>3, <2>1, HeldOn
<1>8. CASE Prewarm(t) \/ RunCompact(t) \/ EarlyReturn(t) \/ ToolRuns(t) \/ ToolAsks(t)
           \/ Answer(t) \/ SampleEnd(t) \/ Check(t) \/ Recheck(t)
  <2>1. UNCHANGED <<mailbox, pending, carried, history>>
    BY <1>8 DEF Prewarm, RunCompact, EarlyReturn, ToolRuns, ToolAsks, Answer, SampleEnd,
                Check, Recheck
  <2> QED BY <1>3, <2>1, HeldOn
<1> QED BY <1>4, <1>5, <1>6, <1>7, <1>8 DEF Run

LEMMA HeldByFinish ==
  ASSUME ApprovalInv, SteerInv, NEW t \in Turn, FinishTask(t), NEW u \in steered, Held(u)
  PROVE  Held(u)'
<1> USE DEF Goto, turnVars, queueVars, startVars, eventVars
<1>0. TypeOK /\ t \in Actor
  BY DEF ApprovalInv, Inv, Actor
<1>1. CASE Finish(t) \/ Complete(t) \/ Remove(t)
  <2>1. /\ UNCHANGED <<active, mailbox, pending, carried, history>>
        /\ pc[t] \notin Keepers
    BY <1>1 DEF Finish, Complete, Remove, Keepers
  <2>2. \A b \in Actor : b # t => pc'[b] = pc[b] /\ shell'[b] = shell[b]
    BY <1>0, <1>1 DEF Finish, Complete, Remove, TypeOK
  <2> QED BY <2>1, <2>2, HeldOn DEF Guarded
<1>2. CASE Leftover(t)
  <2>1. /\ shell[t] \in Shell /\ UNCHANGED <<active, mailbox, carried, shell>>
        /\ history' = history \union pending[shell[t]]
    BY <1>0, <1>2 DEF Leftover, TypeOK, HoldsShell
  <2>2. /\ \A s \in Shell : s # shell[t] => pending'[s] = pending[s]
        /\ \A b \in Actor : b # t => pc'[b] = pc[b]
    BY <1>0, <1>2 DEF Leftover, TypeOK
  <2>3. CASE u \in pending[shell[t]]
    BY <2>1, <2>3 DEF Held
  <2>4. CASE u \notin pending[shell[t]]
    BY <2>1, <2>2, <2>4 DEF Held
  <2> QED BY <2>3, <2>4
<1>3. CASE Clear(t)
  <2>1. /\ UNCHANGED <<mailbox, pending, carried, history>> /\ pc[t] = "clear"
    BY <1>3 DEF Clear
  <2>2. \A b \in Actor : b # t => pc'[b] = pc[b] /\ shell'[b] = shell[b]
    BY <1>0, <1>3 DEF Clear, TypeOK
  <2>3. \A s \in Shell : Guarded(s) => Guarded(s)'
    BY <2>1, <2>2 DEF Guarded, Keepers
  <2>4. ASSUME active # active', u \in pending[active], IsActive PROVE Guarded(active)
    BY <1>3, <2>4 DEF Clear, StillReserved, SteerInv
  <2>5. ASSUME NEW s \in Shell, u \in pending[s], active = s \/ Guarded(s)
        PROVE  active' = s \/ Guarded(s)'
    BY <2>3, <2>4, <2>5, ShellFacts DEF IsActive
  <2> QED BY <2>1, <2>5 DEF Held, Guarded
<1> QED BY <1>1, <1>2, <1>3 DEF FinishTask

(* However many turns overlap, and whoever starts, reserves or aborts turns  *)
(* meanwhile, no step of a running or finishing task loses a message that    *)
(* steer_input accepted: a turn that is cleared leaves nothing steered       *)
(* behind unless a starter or another finishing task still has it.           *)
THEOREM SteerCorrect == Spec => TaskKeepsSteered
<1>1. ApprovalInv /\ SteerInv =>
        [(\E t \in Turn : Run(t) \/ FinishTask(t)) =>
           \A u \in steered : Held(u) => Held(u)']_vars
  BY HeldByRun, HeldByFinish
<1> QED BY <1>1, SteerInvariant, PTL DEF TaskKeepsSteered
=============================================================================
