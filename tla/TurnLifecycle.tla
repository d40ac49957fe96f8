--------------------------- MODULE TurnLifecycle ----------------------------
(***************************************************************************)
(* The turns of one session: codex-rs/core/src/tasks/mod.rs (starting,     *)
(* finishing and aborting tasks), session/input_queue.rs (pending input    *)
(* and the mailbox), state/turn.rs (ActiveTurn and TurnState), goals.rs    *)
(* (idle continuation) and the submission loop's handlers.                 *)
(*                                                                         *)
(* Session.active_turn is a lock around Option<ActiveTurn>.  Many actors   *)
(* take it for one short section at a time and await in between:           *)
(*   - the submission loop, one operation after the other;                 *)
(*   - every task, first while it runs and then while it finishes, when it *)
(*     may start the next turn itself;                                     *)
(*   - a caller of continue_active_goal_if_idle;                           *)
(*   - the task the guardian spawns to abort a turn.                       *)
(* An action is the code between two awaits that can be interleaved.  The  *)
(* order of items inside one queue is abstracted: a queue is a set.  The   *)
(* build is a release build, where debug_assert! checks nothing.           *)
(***************************************************************************)
EXTENDS Naturals, FiniteSets

CONSTANTS
  Turn,            \* turn ids (sub_id), each used once: bounds the turns
  Loop, GoalCaller, Guardian,   \* the actors that are not tasks
  NoTurn, NoActor,
  Mail, TriggerMail,   \* inter-agent mails, those with trigger_turn
  Prompt,          \* user messages
  Denied,          \* approved guardian denials, sent through the loop
  Injected,        \* messages injected from other threads
  GoalPrompt,      \* goal continuation prompts: bounds the continuations;
                   \* none when Feature::Goals is off
  Reviewed,        \* turns whose approvals the guardian reviews
  CompactTurns,    \* how many compact tasks the user may start
  MaxInterrupts,   \* how many interrupts the user may send
  MaxTools         \* tool calls that the model makes in one turn

Item  == Mail \union Prompt \union Denied \union Injected \union GoalPrompt
Actor == Turn \union {Loop, GoalCaller, Guardian}

ASSUME ConstantsAssumption ==
  /\ Loop \notin Turn /\ GoalCaller \notin Turn /\ Guardian \notin Turn
  /\ Loop # GoalCaller /\ Loop # Guardian /\ GoalCaller # Guardian
  /\ NoTurn \notin Turn /\ NoActor \notin Actor
  /\ TriggerMail \subseteq Mail /\ Reviewed \subseteq Turn
  /\ CompactTurns \in Nat /\ MaxInterrupts \in Nat /\ MaxTools \in Nat

(* An ActiveTurn is named by the turn whose start created it and by the     *)
(* section that did: the reservation, or one of start_task's two            *)
(* get_or_insert_with.                                                      *)
Shell   == [turn : Turn, at : {"reserve", "bind", "launch"}]
NoShell == [turn |-> NoTurn, at |-> "none"]
NewShell(t, at) == [turn |-> t, at |-> at]

VARIABLES
  active,        \* Session.active_turn
  tasks,         \* ActiveTurn.tasks
  pending,       \* TurnState.pending_input
  phase,         \* TurnState.mailbox_delivery_phase
  waiters,       \* turns with a sender in TurnState.pending_approvals
  mailbox,       \* InputQueue.mailbox_pending_mails
  idleInput,     \* InputQueue.idle_pending_input
  pc,            \* where each actor is
  starting,      \* the turn an actor is about to start
  shell,         \* the ActiveTurn an actor holds on to
  carried,       \* the items an actor has taken out of a queue
  victims,       \* the tasks an aborting actor has drained
  target,        \* the turn it aborts now; the guardian's before it takes
  permit,        \* holder of goal_runtime.continuation_lock
  goalActive,    \* whether the thread goal is active
  kind,          \* TaskKind of a launched turn
  input,         \* the user input a task was spawned with
  followUp,      \* the model asked for a follow-up request
  tools,         \* tool calls made so far by a turn
  cancelled,     \* turns whose cancellation token fired
  killed,        \* turns whose task handle was aborted
  history,       \* items recorded in the conversation history
  completed,     \* turns with a TurnComplete event
  aborted,       \* turns with a TurnAborted event
  rejected,      \* turns that saw a pending approval dropped without an answer
  used,          \* turn ids given out
  sent,          \* items sent so far
  steered,       \* user messages accepted by steer_input
  interrupts     \* interrupts sent so far

turnVars  == <<active, tasks, pending, phase, waiters>>
queueVars == <<mailbox, idleInput>>
startVars == <<starting, shell, carried>>
goalVars  == <<permit, goalActive>>
taskVars  == <<kind, input, followUp, tools>>
abortVars == <<victims, target, cancelled, killed>>
eventVars == <<history, completed, aborted, rejected>>
userVars  == <<used, sent, steered, interrupts>>
vars == <<turnVars, queueVars, pc, startVars, goalVars, taskVars, abortVars,
          eventVars, userVars>>

Init ==
  /\ active = NoShell
  /\ tasks = [s \in Shell |-> {}] /\ pending = [s \in Shell |-> {}]
  /\ phase = [s \in Shell |-> "CurrentTurn"] /\ waiters = [s \in Shell |-> {}]
  /\ mailbox = {} /\ idleInput = {}
  /\ pc = [a \in Actor |-> IF a \in {Loop, GoalCaller, Guardian} THEN "idle"
                                                                ELSE "unused"]
  /\ starting = [a \in Actor |-> NoTurn] /\ shell = [a \in Actor |-> NoShell]
  /\ carried = [a \in Actor |-> {}] /\ victims = [a \in Actor |-> {}]
  /\ target = [a \in Actor |-> NoTurn]
  /\ permit = NoActor
  /\ goalActive \in {GoalPrompt # {}, FALSE}
  /\ kind = [t \in Turn |-> "Regular"] /\ input = [t \in Turn |-> {}]
  /\ followUp = [t \in Turn |-> FALSE] /\ tools = [t \in Turn |-> 0]
  /\ cancelled = {} /\ killed = {}
  /\ history = {} /\ completed = {} /\ aborted = {} /\ rejected = {}
  /\ used = {} /\ sent = {} /\ steered = {}
  /\ interrupts = 0

-----------------------------------------------------------------------------
Goto(a, l) == pc' = [pc EXCEPT ![a] = l]
IsActive   == active # NoShell
TasksNow   == IF IsActive THEN tasks[active] ELSE {}

\* A fresh sub_id.  The bound on turns is the size of Turn.
NextTurn  == CHOOSE t \in Turn : t \notin used
CanStart  == used # Turn

\* Where an actor goes when it has nothing left to do.
Rest(a) == IF a = Loop THEN "idle" ELSE "gone"

\* MaybeContinueIfIdle runs the pending-work check and then the goal
\* continuation; the other callers of the check are done after it.
AfterPendingWork(a) == IF a \in Turn \union {GoalCaller} THEN "gc_lock" ELSE Rest(a)

-----------------------------------------------------------------------------
(* Session::start_task. *)

StartQueued(a) ==
  /\ pc[a] = "st_queued"
  /\ carried' = [carried EXCEPT ![a] = idleInput]
  /\ idleInput' = {}
  /\ Goto(a, "st_pending")
  /\ UNCHANGED <<turnVars, mailbox, starting, shell, goalVars, taskVars,
                 abortVars, eventVars, userVars>>

\* get_pending_input under the active_turn lock.
AcceptsMail == IsActive => phase[active] = "CurrentTurn"

\* A clone in place of split_off.
TakePendingCopy(a) ==
  /\ carried' = [carried EXCEPT ![a] =
                   @ \union (IF IsActive THEN pending[active] ELSE {})]
  /\ UNCHANGED turnVars

TakePending(a) ==
  /\ carried' = [carried EXCEPT ![a] =
                   @ \union (IF IsActive THEN pending[active] ELSE {})]
  /\ pending' = [s \in Shell |-> IF s = active THEN {} ELSE pending[s]]
  /\ UNCHANGED <<active, tasks, phase, waiters>>

\* get_pending_input, draining the mailbox.
TakeMail(a) ==
  /\ carried' = [carried EXCEPT ![a] = @ \union mailbox]
  /\ mailbox' = {}
  /\ UNCHANGED idleInput

StartPending(a) ==
  /\ pc[a] = "st_pending"
  /\ TakePending(a)
  /\ Goto(a, IF AcceptsMail THEN "st_mail" ELSE "st_bind")
  /\ UNCHANGED <<queueVars, starting, shell, goalVars, taskVars, abortVars,
                 eventVars, userVars>>

StartMail(a) ==
  /\ pc[a] = "st_mail"
  /\ TakeMail(a)
  /\ Goto(a, "st_bind")
  /\ UNCHANGED <<turnVars, starting, shell, goalVars, taskVars, abortVars,
                 eventVars, userVars>>

GetOrInsert(t, at) == active' = IF IsActive THEN active ELSE NewShell(t, at)

StartBind(a) ==
  /\ pc[a] = "st_bind"
  /\ GetOrInsert(starting[a], "bind")
  /\ shell' = [shell EXCEPT ![a] = active']
  /\ Goto(a, "st_extend")
  /\ UNCHANGED <<tasks, pending, phase, waiters, queueVars, starting, carried,
                 goalVars, taskVars, abortVars, eventVars, userVars>>

StartExtend(a) ==
  /\ pc[a] = "st_extend"
  /\ pending' = [pending EXCEPT ![shell[a]] = @ \union carried[a]]
  /\ carried' = [carried EXCEPT ![a] = {}]
  /\ Goto(a, "st_launch")
  /\ UNCHANGED <<active, tasks, phase, waiters, queueVars, starting, shell,
                 goalVars, taskVars, abortVars, eventVars, userVars>>

\* The task is spawned and added under one acquisition of the lock.
StartLaunch(a) ==
  LET t == starting[a] IN
  /\ pc[a] = "st_launch"
  /\ GetOrInsert(t, "launch")
  /\ tasks' = [tasks EXCEPT ![active'] = @ \union {t}]
  /\ pc' = [pc EXCEPT ![t] = IF kind[t] = "Compact" THEN "compact" ELSE "prewarm",
                      ![a] = IF permit = a THEN Rest(a) ELSE AfterPendingWork(a)]
  /\ permit' = IF permit = a THEN NoActor ELSE permit
  /\ starting' = [starting EXCEPT ![a] = NoTurn]
  /\ shell' = [shell EXCEPT ![a] = NoShell]
  /\ UNCHANGED <<pending, phase, waiters, queueVars, carried, goalActive, taskVars,
                 abortVars, eventVars, userVars>>

Start(a) == \/ StartQueued(a) \/ StartPending(a) \/ StartMail(a)
            \/ StartBind(a) \/ StartExtend(a) \/ StartLaunch(a)

-----------------------------------------------------------------------------
(* maybe_start_turn_for_pending_work_with_sub_id. *)

PendingWork == idleInput # {} \/ mailbox \intersect TriggerMail # {}

WorkCheck(a) ==
  /\ pc[a] = "ms_check"
  /\ Goto(a, IF PendingWork THEN "ms_reserve" ELSE AfterPendingWork(a))
  /\ UNCHANGED <<turnVars, queueVars, startVars, goalVars, taskVars, abortVars,
                 eventVars, userVars>>

\* Reserving the session for turn t; false leaves everything alone.
Reserve(a, l) ==
  /\ ~IsActive /\ CanStart
  /\ active' = NewShell(NextTurn, "reserve")
  /\ used' = used \union {NextTurn}
  /\ starting' = [starting EXCEPT ![a] = NextTurn]
  /\ shell' = [shell EXCEPT ![a] = active']
  /\ Goto(a, l)

WorkReserve(a) ==
  /\ pc[a] = "ms_reserve"
  /\ \/ /\ Reserve(a, "st_queued")
     \/ /\ IsActive /\ Goto(a, AfterPendingWork(a))
        /\ UNCHANGED <<active, used, starting, shell>>
  /\ UNCHANGED <<tasks, pending, phase, waiters, queueVars, carried, goalVars,
                 taskVars, abortVars, eventVars, sent, steered,
                 interrupts>>

-----------------------------------------------------------------------------
(* maybe_start_goal_continuation_turn. *)

GoalLock(a) ==
  /\ pc[a] = "gc_lock" /\ permit = NoActor
  /\ permit' = a
  /\ Goto(a, "gc_check")
  /\ UNCHANGED <<turnVars, queueVars, startVars, goalActive, taskVars, abortVars,
                 eventVars, userVars>>

GiveUp(a) == permit' = NoActor /\ Goto(a, Rest(a))

\* goal_continuation_candidate_if_active.
Candidate == goalActive /\ ~IsActive /\ ~PendingWork /\ GoalPrompt \ sent # {}

GoalCheck(a) ==
  /\ pc[a] = "gc_check"
  /\ IF Candidate THEN Goto(a, "gc_reserve") /\ UNCHANGED permit ELSE GiveUp(a)
  /\ UNCHANGED <<turnVars, queueVars, startVars, goalActive, taskVars, abortVars,
                 eventVars, userVars>>

GoalReserve(a) ==
  /\ pc[a] = "gc_reserve"
  /\ \/ Reserve(a, "gc_reread") /\ UNCHANGED permit
     \/ IsActive /\ GiveUp(a) /\ UNCHANGED <<active, used, starting, shell>>
  /\ UNCHANGED <<tasks, pending, phase, waiters, queueVars, carried, goalActive,
                 taskVars, abortVars, eventVars, sent, steered,
                 interrupts>>

\* clear_reserved without its check that no task was added.
StillMine(a) == active = shell[a]

StillReserved(a) == active = shell[a] /\ tasks[shell[a]] = {}

\* clear_reserved_goal_continuation_turn, and a return that forgets it.
KeepReservation(a) == UNCHANGED active
GiveBack(a) == active' = IF StillReserved(a) THEN NoShell ELSE active

\* The goal is read again after the reservation; a goal that changed gives
\* the reservation back.
GoalStale(a) ==
  /\ pc[a] = "gc_reread" /\ ~goalActive
  /\ GiveBack(a)
  /\ GiveUp(a)
  /\ starting' = [starting EXCEPT ![a] = NoTurn]
  /\ shell' = [shell EXCEPT ![a] = NoShell]
  /\ UNCHANGED <<tasks, pending, phase, waiters, queueVars, carried, goalActive,
                 taskVars, abortVars, eventVars, userVars>>

GoalCurrent(a) ==
  /\ pc[a] = "gc_reread" /\ goalActive
  /\ \E g \in GoalPrompt \ sent :
       /\ pending' = [pending EXCEPT ![shell[a]] = @ \union {g}]
       /\ sent' = sent \union {g}
  /\ Goto(a, "gc_still")
  /\ UNCHANGED <<active, tasks, phase, waiters, queueVars, startVars, goalVars,
                 taskVars, abortVars, eventVars, used, steered,
                 interrupts>>

GoalStill(a) ==
  /\ pc[a] = "gc_still"
  /\ IF StillReserved(a)
       THEN Goto(a, "st_queued") /\ UNCHANGED <<permit, starting, shell>>
       ELSE /\ GiveUp(a)
            /\ starting' = [starting EXCEPT ![a] = NoTurn]
            /\ shell' = [shell EXCEPT ![a] = NoShell]
  /\ UNCHANGED <<turnVars, queueVars, carried, goalActive, taskVars, abortVars,
                 eventVars, userVars>>

Continue(a) == \/ WorkCheck(a) \/ WorkReserve(a)
               \/ GoalLock(a) \/ GoalCheck(a) \/ GoalReserve(a)
               \/ GoalStale(a) \/ GoalCurrent(a) \/ GoalStill(a)

\* CodexThread::continue_active_goal_if_idle, called from another thread.
GoalCall ==
  /\ pc[GoalCaller] = "idle" /\ GoalPrompt # {}
  /\ Goto(GoalCaller, "ms_check")
  /\ UNCHANGED <<turnVars, queueVars, startVars, goalVars, taskVars, abortVars,
                 eventVars, userVars>>

\* The goal is paused, completed or replaced.
GoalChange ==
  /\ goalActive /\ goalActive' = FALSE
  /\ UNCHANGED <<turnVars, queueVars, pc, startVars, permit, taskVars, abortVars,
                 eventVars, userVars>>

-----------------------------------------------------------------------------
(* A task while it runs: RegularTask::run, run_turn and the sampling of one *)
(* model request.  Hooks are taken never to block an input.                 *)

\* Waiting for the startup prewarm, which a cancellation ends.
Prewarm(t) ==
  /\ pc[t] = "prewarm"
  /\ \/ Goto(t, "begin")
     \/ t \in cancelled /\ Goto(t, "finish")
  /\ UNCHANGED <<turnVars, queueVars, startVars, goalVars, taskVars, abortVars,
                 eventVars, userVars>>

\* CompactTask::run.
RunCompact(t) ==
  /\ pc[t] = "compact"
  /\ Goto(t, "finish")
  /\ UNCHANGED <<turnVars, queueVars, startVars, goalVars, taskVars, abortVars,
                 eventVars, userVars>>

\* run_turn up to its loop: fresh input is sampled before anything pending.
Begin(t) ==
  /\ pc[t] = "begin"
  /\ history' = history \union input[t]
  /\ input' = [input EXCEPT ![t] = {}]
  /\ followUp' = [followUp EXCEPT ![t] = FALSE]
  /\ Goto(t, IF input[t] = {} THEN "drain" ELSE "sample")
  /\ UNCHANGED <<turnVars, queueVars, startVars, goalVars, kind, tools,
                 abortVars, completed, aborted, rejected, userVars>>

\* run_turn returns before it records anything (the compaction before the
\* first request fails, or the turn is cancelled): the input is dropped.
EarlyReturn(t) ==
  /\ pc[t] = "begin"
  /\ input' = [input EXCEPT ![t] = {}]
  /\ Goto(t, "recheck")
  /\ UNCHANGED <<turnVars, queueVars, startVars, goalVars, kind, followUp, tools,
                 abortVars, eventVars, userVars>>

DrainPending(t) ==
  /\ pc[t] = "drain"
  /\ TakePending(t)
  /\ Goto(t, IF AcceptsMail THEN "drainMail" ELSE "record")
  /\ UNCHANGED <<queueVars, starting, shell, goalVars, taskVars, abortVars,
                 eventVars, userVars>>

DrainMail(t) ==
  /\ pc[t] = "drainMail"
  /\ TakeMail(t)
  /\ Goto(t, "record")
  /\ UNCHANGED <<turnVars, starting, shell, goalVars, taskVars, abortVars,
                 eventVars, userVars>>

Record(t) ==
  /\ pc[t] = "record"
  /\ history' = history \union carried[t]
  /\ carried' = [carried EXCEPT ![t] = {}]
  /\ Goto(t, "sample")
  /\ UNCHANGED <<turnVars, queueVars, starting, shell, goalVars, taskVars,
                 abortVars, completed, aborted, rejected, userVars>>

SetPhase(t, p) ==
  phase' = [phase EXCEPT ![active] = IF t \in tasks[active] THEN p ELSE @]

\* A tool call reopens the mailbox for this turn and asks for a follow-up.
CallsTool(t) ==
  /\ pc[t] = "sample" /\ tools[t] < MaxTools
  /\ tools' = [tools EXCEPT ![t] = @ + 1]
  /\ followUp' = [followUp EXCEPT ![t] = TRUE]
  /\ IF IsActive THEN SetPhase(t, "CurrentTurn") ELSE UNCHANGED phase

ToolRuns(t) ==
  /\ CallsTool(t)
  /\ UNCHANGED <<active, tasks, pending, waiters, queueVars, pc, startVars,
                 goalVars, kind, input, abortVars, eventVars, userVars>>

\* request_command_approval: the sender goes into the turn that is active
\* now; without one it is dropped and the wait ends at once with Abort.
ToolAsks(t) ==
  /\ CallsTool(t)
  /\ IF IsActive
       THEN /\ waiters' = [waiters EXCEPT ![active] = @ \union {t}]
            /\ Goto(t, "approval")
       ELSE UNCHANGED <<waiters, pc>>
  /\ UNCHANGED <<active, tasks, pending, queueVars, startVars, goalVars, kind,
                 input, abortVars, eventVars, userVars>>

\* A final answer leaves later mail to the next turn, unless input waits.
Answer(t) ==
  /\ pc[t] = "sample" /\ t \in TasksNow /\ pending[active] = {}
  /\ phase' = [phase EXCEPT ![active] = "NextTurn"]
  /\ UNCHANGED <<active, tasks, pending, waiters, queueVars, pc, startVars,
                 goalVars, taskVars, abortVars, eventVars, userVars>>

\* The request ends, or fails, or is cut short by the cancellation.
SampleEnd(t) ==
  /\ \/ pc[t] = "sample" /\ \E l \in {"check", "recheck"} : Goto(t, l)
     \/ pc[t] = "approval" /\ t \in cancelled /\ Goto(t, "recheck")
  /\ UNCHANGED <<turnVars, queueVars, startVars, goalVars, taskVars, abortVars,
                 eventVars, userVars>>

\* has_pending_input: the active turn under its lock, then the mailbox.
\* A check that looks at the mailbox whatever the delivery phase.
LooksPastPhase(t, mail, yes, no) ==
  IF IsActive /\ pending[active] # {} THEN yes ELSE mail

LooksAtTurn(t, mail, yes, no) ==
  IF IsActive /\ pending[active] # {} THEN yes
  ELSE IF AcceptsMail THEN mail ELSE no

\* After a request, the turn goes round again if the model or an input asks
\* for it.  A full context is compacted first; that may fail, and with a
\* follow-up due the next request is sampled before pending input is drained.
Rounds(t) ==
  {"drain", "recheck"} \union (IF followUp[t] THEN {"sample"} ELSE {})
AfterRequest(t) == IF followUp[t] THEN Rounds(t) ELSE {"recheck"}

Check(t) ==
  /\ \/ /\ pc[t] = "check"
        /\ \E l \in LooksAtTurn(t, {"checkMail"}, Rounds(t), AfterRequest(t)) :
             Goto(t, l)
     \/ /\ pc[t] = "checkMail"
        /\ \E l \in (IF mailbox # {} THEN Rounds(t) ELSE AfterRequest(t)) :
             Goto(t, l)
  /\ followUp' = [followUp EXCEPT ![t] = @ /\ pc'[t] = "checkMail"]
  /\ UNCHANGED <<turnVars, queueVars, startVars, goalVars, kind, input, tools,
                 abortVars, eventVars, userVars>>

\* RegularTask::run loops while something is pending.
Recheck(t) ==
  /\ \/ /\ pc[t] = "recheck"
        /\ Goto(t, LooksAtTurn(t, "recheckMail", "begin", "finish"))
     \/ /\ pc[t] = "recheckMail"
        /\ Goto(t, IF mailbox # {} THEN "begin" ELSE "finish")
  /\ UNCHANGED <<turnVars, queueVars, startVars, goalVars, taskVars, abortVars,
                 eventVars, userVars>>

Run(t) == \/ Prewarm(t) \/ RunCompact(t) \/ Begin(t) \/ EarlyReturn(t)
          \/ DrainPending(t) \/ DrainMail(t) \/ Record(t) \/ ToolRuns(t)
          \/ ToolAsks(t) \/ Answer(t) \/ SampleEnd(t) \/ Check(t) \/ Recheck(t)

-----------------------------------------------------------------------------
(* The task after run returned: on_task_finished unless it was cancelled.   *)

Finish(t) ==
  /\ pc[t] = "finish"
  /\ Goto(t, IF t \in cancelled THEN "gone" ELSE "remove")
  /\ UNCHANGED <<turnVars, queueVars, startVars, goalVars, taskVars, abortVars,
                 eventVars, userVars>>

\* remove_task; the first form looks the task up and leaves it there.
OnlyLookedUp(t) == tasks
Removed(t) == [s \in Shell |-> IF s = active THEN tasks[s] \ {t} ELSE tasks[s]]
\* active_turn_is_empty.
LastTask(t) == TasksNow = {t}

\* The last task of the active turn keeps its turn_state to empty and clear.
Remove(t) ==
  /\ pc[t] = "remove"
  /\ tasks' = Removed(t)
  /\ IF LastTask(t)
       THEN shell' = [shell EXCEPT ![t] = active] /\ Goto(t, "leftover")
       ELSE UNCHANGED shell /\ Goto(t, "complete")
  /\ UNCHANGED <<active, pending, phase, waiters, queueVars, starting, carried,
                 goalVars, taskVars, abortVars, eventVars, userVars>>

\* Input that is still pending is taken; the first form forgets to record it.
LeftoverDropped(t) ==
  /\ pc[t] = "leftover"
  /\ pending' = [pending EXCEPT ![shell[t]] = {}]
  /\ Goto(t, "complete")
  /\ UNCHANGED <<active, tasks, phase, waiters, queueVars, startVars, goalVars,
                 taskVars, abortVars, eventVars, userVars>>

Leftover(t) ==
  /\ pc[t] = "leftover"
  /\ history' = history \union pending[shell[t]]
  /\ pending' = [pending EXCEPT ![shell[t]] = {}]
  /\ Goto(t, "complete")
  /\ UNCHANGED <<active, tasks, phase, waiters, queueVars, startVars, goalVars,
                 taskVars, abortVars, completed, aborted, rejected, userVars>>

Complete(t) ==
  /\ pc[t] = "complete"
  /\ completed' = completed \union {t}
  /\ Goto(t, IF shell[t] = NoShell THEN "gone" ELSE "clear")
  /\ UNCHANGED <<turnVars, queueVars, startVars, goalVars, taskVars, abortVars,
                 history, aborted, rejected, userVars>>

\* After the active turn is cleared the session looks for more to do; the
\* first form forgets to.
NothingNext == "gone"
LooksForWork == "ms_check"

Clear(t) ==
  /\ pc[t] = "clear"
  /\ IF StillReserved(t) THEN active' = NoShell /\ Goto(t, LooksForWork)
                          ELSE UNCHANGED active /\ Goto(t, "gone")
  /\ shell' = [shell EXCEPT ![t] = NoShell]
  /\ UNCHANGED <<tasks, pending, phase, waiters, queueVars, starting, carried,
                 goalVars, taskVars, abortVars, eventVars, userVars>>

FinishTask(t) == \/ Finish(t) \/ Remove(t) \/ Leftover(t) \/ Complete(t) \/ Clear(t)

\* An aborted task handle: the task is dropped at an await it has to wait at.
Die(t) ==
  /\ t \in killed /\ pc[t] # "gone"
  /\ Goto(t, "gone")
  /\ carried' = [carried EXCEPT ![t] = {}]
  /\ UNCHANGED <<turnVars, queueVars, starting, shell, goalVars, taskVars,
                 abortVars, eventVars, userVars>>

-----------------------------------------------------------------------------
(* abort_all_tasks by the loop: Replaced when it is about to start a turn,  *)
(* Interrupted otherwise.  abort_turn_if_active by the guardian.            *)

Replacing(a) == starting[a] # NoTurn

\* The guardian only takes the active turn that runs its target.
MayTake(a) == a = Guardian => target[a] \in TasksNow

AbortTake(a) ==
  /\ pc[a] = "take" /\ MayTake(a)
  /\ active' = NoShell
  /\ victims' = [victims EXCEPT ![a] = TasksNow]
  /\ tasks' = [s \in Shell |-> IF s = active THEN {} ELSE tasks[s]]
  /\ IF TasksNow # {}
       THEN shell' = [shell EXCEPT ![a] = active] /\ Goto(a, "cancel")
       ELSE UNCHANGED shell /\ Goto(a, IF Replacing(a) THEN "st_queued" ELSE Rest(a))
  /\ UNCHANGED <<pending, phase, waiters, queueVars, starting, carried, goalVars,
                 taskVars, target, cancelled, killed, eventVars, userVars>>

AbortMiss(a) ==
  /\ pc[a] = "take" /\ ~MayTake(a)
  /\ Goto(a, Rest(a))
  /\ UNCHANGED <<turnVars, queueVars, startVars, goalVars, taskVars, abortVars,
                 eventVars, userVars>>

\* cancellation_token.cancel, and an abort that leaves it out.
NoCancel(v)    == UNCHANGED cancelled
CancelToken(v) == cancelled' = cancelled \union {v}

\* handle_task_abort, one task after the other.
AbortCancel(a) ==
  /\ pc[a] = "cancel"
  /\ \E v \in victims[a] :
       /\ CancelToken(v)
       /\ target' = [target EXCEPT ![a] = v]
  /\ Goto(a, "kill")
  /\ UNCHANGED <<turnVars, queueVars, startVars, goalVars, taskVars, victims,
                 killed, eventVars, userVars>>

\* The task has notified done, or GRACEFULL_INTERRUPTION_TIMEOUT_MS are over:
\* the wait is bounded by the clock, so here it is only the time in which the
\* others run between AbortCancel and this step.
AbortKill(a) ==
  /\ pc[a] = "kill"
  /\ killed' = killed \union {target[a]}
  /\ Goto(a, "emit")
  /\ UNCHANGED <<turnVars, queueVars, startVars, goalVars, taskVars, victims, target,
                 cancelled, eventVars, userVars>>

\* The tasks left to abort.
NextVictims(a) == victims[a] \ {target[a]}

AbortEmit(a) ==
  /\ pc[a] = "emit"
  /\ aborted' = aborted \union {target[a]}
  /\ victims' = [victims EXCEPT ![a] = NextVictims(a)]
  /\ target' = [target EXCEPT ![a] = NoTurn]
  /\ Goto(a, IF victims'[a] = {} THEN "clear_pending" ELSE "cancel")
  /\ UNCHANGED <<turnVars, queueVars, startVars, goalVars, taskVars, cancelled,
                 killed, history, completed, rejected, userVars>>

\* clear_pending: the input is dropped, and with it the approval senders, so
\* that a task still waiting for an answer sees a rejection.
Waiting(s) == {t \in waiters[s] : pc[t] = "approval"}

AbortClear(a) ==
  LET s == shell[a] IN
  /\ pc[a] = "clear_pending"
  /\ pending' = [pending EXCEPT ![s] = {}]
  /\ waiters' = [waiters EXCEPT ![s] = {}]
  /\ rejected' = rejected \union Waiting(s)
  /\ pc' = [b \in Actor |->
              IF b = a THEN IF Replacing(a) THEN "st_queued" ELSE "ms_check"
              ELSE IF b \in Waiting(s) THEN "sample" ELSE pc[b]]
  /\ shell' = [shell EXCEPT ![a] = NoShell]
  /\ UNCHANGED <<active, tasks, phase, queueVars, starting, carried, goalVars,
                 taskVars, abortVars, history, completed, aborted, userVars>>

Abort(a) == \/ AbortTake(a) \/ AbortMiss(a) \/ AbortCancel(a) \/ AbortKill(a)
            \/ AbortEmit(a) \/ AbortClear(a)

\* record_guardian_denial: too many denials while turn t runs.
GuardianTrips(t) ==
  /\ pc[Guardian] = "idle"
  /\ t \in Reviewed /\ t \in TasksNow /\ pc[t] = "sample"
  /\ target' = [target EXCEPT ![Guardian] = t]
  /\ Goto(Guardian, "take")
  /\ UNCHANGED <<turnVars, queueVars, startVars, goalVars, taskVars, victims,
                 cancelled, killed, eventVars, userVars>>

-----------------------------------------------------------------------------
(* The submission loop: one operation after the other.                      *)

LoopIdle == pc[Loop] = "idle"

\* user_input_or_turn_inner, when steer_input accepts the message.
Steer(u) ==
  /\ LoopIdle /\ u \in Prompt \ sent
  /\ \E first \in TasksNow : kind[first] = "Regular"
  /\ pending' = [pending EXCEPT ![active] = @ \union {u}]
  /\ phase' = [phase EXCEPT ![active] = "CurrentTurn"]
  /\ sent' = sent \union {u}
  /\ steered' = steered \union {u}
  /\ UNCHANGED <<active, tasks, waiters, queueVars, pc, startVars, goalVars,
                 taskVars, abortVars, eventVars, used, interrupts>>

\* ... when a compact task is active: the user gets an error.
SteerRefused(u) ==
  /\ LoopIdle /\ u \in Prompt \ sent
  /\ \E first \in TasksNow : kind[first] = "Compact"
  /\ sent' = sent \union {u}
  /\ UNCHANGED <<turnVars, queueVars, pc, startVars, goalVars, taskVars, abortVars,
                 eventVars, used, steered, interrupts>>

\* spawn_task for a fresh turn id.
SpawnTask(k, in) ==
  /\ CanStart
  /\ used' = used \union {NextTurn}
  /\ starting' = [starting EXCEPT ![Loop] = NextTurn]
  /\ kind' = [kind EXCEPT ![NextTurn] = k]
  /\ input' = [input EXCEPT ![NextTurn] = in]
  /\ Goto(Loop, "take")

\* ... when no task runs: a new turn replaces whatever is active by then.
UserTurn(u) ==
  /\ LoopIdle /\ u \in Prompt \ sent /\ TasksNow = {}
  /\ SpawnTask("Regular", {u})
  /\ sent' = sent \union {u}
  /\ UNCHANGED <<turnVars, queueVars, shell, carried, goalVars, followUp, tools,
                 abortVars, eventVars, steered, interrupts>>

Compact ==
  /\ LoopIdle /\ Cardinality({t \in Turn : kind[t] = "Compact"}) < CompactTurns
  /\ SpawnTask("Compact", {})
  /\ UNCHANGED <<turnVars, queueVars, shell, carried, goalVars, followUp, tools,
                 abortVars, eventVars, sent, steered, interrupts>>

\* Op::Interrupt, or an approval answered with Abort.
Interrupt ==
  /\ LoopIdle /\ interrupts < MaxInterrupts
  /\ interrupts' = interrupts + 1
  /\ Goto(Loop, "take")
  /\ UNCHANGED <<turnVars, queueVars, startVars, goalVars, taskVars, abortVars,
                 eventVars, used, sent, steered>>

\* exec_approval: notify_approval looks in the turn that is active now.
Approve(t) ==
  /\ LoopIdle /\ IsActive /\ t \in waiters[active]
  /\ waiters' = [waiters EXCEPT ![active] = @ \ {t}]
  /\ IF pc[t] = "approval" THEN Goto(t, "sample") ELSE UNCHANGED pc
  /\ UNCHANGED <<active, tasks, pending, phase, queueVars, startVars, goalVars,
                 taskVars, abortVars, eventVars, userVars>>

\* inter_agent_communication.
SendMail(m) ==
  /\ LoopIdle /\ m \in Mail \ sent
  /\ mailbox' = mailbox \union {m}
  /\ sent' = sent \union {m}
  /\ IF m \in TriggerMail THEN Goto(Loop, "ms_check") ELSE UNCHANGED pc
  /\ UNCHANGED <<turnVars, idleInput, startVars, goalVars, taskVars, abortVars,
                 eventVars, used, steered, interrupts>>

\* inject_response_items: any active turn will do, even one without a task.
InjectInto(j) ==
  /\ IsActive
  /\ pending' = [pending EXCEPT ![active] = @ \union {j}]

\* approve_guardian_denied_action.
ApproveDenied(j) ==
  /\ LoopIdle /\ j \in Denied \ sent
  /\ sent' = sent \union {j}
  /\ \/ InjectInto(j) /\ UNCHANGED <<carried, pc>>
     \/ /\ ~IsActive
        /\ carried' = [carried EXCEPT ![Loop] = {j}]
        /\ Goto(Loop, "queue")
        /\ UNCHANGED pending
  /\ UNCHANGED <<active, tasks, phase, waiters, queueVars, starting, shell, goalVars,
                 taskVars, abortVars, eventVars, used, steered, interrupts>>

QueueDenied ==
  /\ pc[Loop] = "queue"
  /\ idleInput' = idleInput \union carried[Loop]
  /\ carried' = [carried EXCEPT ![Loop] = {}]
  /\ Goto(Loop, "idle")
  /\ UNCHANGED <<turnVars, mailbox, starting, shell, goalVars, taskVars, abortVars,
                 eventVars, userVars>>

\* CodexThread::inject_user_message_without_turn, from another thread.
Inject(j) ==
  /\ j \in Injected \ sent
  /\ sent' = sent \union {j}
  /\ \/ InjectInto(j) /\ UNCHANGED history
     \/ /\ ~IsActive /\ history' = history \union {j}
        /\ UNCHANGED pending
  /\ UNCHANGED <<active, tasks, phase, waiters, queueVars, pc, startVars, goalVars,
                 taskVars, abortVars, completed, aborted, rejected, used, steered,
                 interrupts>>

UserOp ==
  \/ \E u \in Prompt : Steer(u) \/ SteerRefused(u) \/ UserTurn(u)
  \/ Compact \/ Interrupt
  \/ \E m \in Mail : SendMail(m)
  \/ \E j \in Denied : ApproveDenied(j)
  \/ \E j \in Injected : Inject(j)
  \/ \E t \in Turn : GuardianTrips(t)
  \/ GoalCall \/ GoalChange

-----------------------------------------------------------------------------
Step(a) == Start(a) \/ Continue(a) \/ Abort(a)

Next ==
  \/ UserOp \/ QueueDenied
  \/ \E a \in Actor : Step(a)
  \/ \E t \in Turn : Run(t) \/ FinishTask(t) \/ Die(t) \/ Approve(t)

Spec == Init /\ [][Next]_vars

(* Every actor that is not waiting for the user goes on; an aborted handle  *)
(* stops its task; a request does not go on calling tools forever (MaxTools)*)
(* and ends, one way or the other; a prologue that can succeed again and    *)
(* again eventually does; the user answers approvals.                       *)
Fairness ==
  /\ \A a \in Actor : WF_vars(Step(a))
  /\ \A t \in Turn : /\ WF_vars(FinishTask(t)) /\ WF_vars(Die(t))
                     /\ WF_vars(Prewarm(t)) /\ WF_vars(RunCompact(t))
                     /\ WF_vars(DrainPending(t)) /\ WF_vars(DrainMail(t))
                     /\ WF_vars(Record(t)) /\ WF_vars(SampleEnd(t))
                     /\ WF_vars(Check(t)) /\ WF_vars(Recheck(t))
                     /\ SF_vars(Begin(t)) /\ WF_vars(Approve(t))
  /\ WF_vars(QueueDenied)
LiveSpec == Spec /\ Fairness

-----------------------------------------------------------------------------
(* Properties. *)

Starters == {"st_queued", "st_pending", "st_mail", "st_bind", "st_extend", "st_launch"}
Reservers == Starters \union {"gc_reread", "gc_still"}
Closers   == {"leftover", "complete", "clear"}
Tail      == Reservers \union {"clear", "ms_check", "ms_reserve", "gc_lock", "gc_check",
                               "gc_reserve"}
Running == {"prewarm", "compact", "begin", "drain", "drainMail", "record", "sample",
            "approval", "check", "checkMail", "recheck", "recheckMail", "finish"}
Locations == Running \union Closers \union Tail \union
             {"unused", "idle", "gone", "remove", "take", "cancel", "kill", "emit",
              "clear_pending", "queue"}

\* Every variable keeps its type, and an actor that is going to use a turn, an
\* ActiveTurn or a victim has one.
HoldsTurn   == Starters \union {"gc_reread", "gc_still"}
HoldsShell  == {"st_extend", "st_launch", "gc_reread", "gc_still", "leftover", "clear",
                "cancel", "kill", "emit", "clear_pending"}
TypeOK ==
  /\ active \in Shell \union {NoShell}
  /\ tasks \in [Shell -> SUBSET Turn] /\ pending \in [Shell -> SUBSET Item]
  /\ phase \in [Shell -> {"CurrentTurn", "NextTurn"}]
  /\ waiters \in [Shell -> SUBSET Turn]
  /\ mailbox \subseteq Mail /\ idleInput \subseteq Item
  /\ pc \in [Actor -> Locations]
  /\ \A a \in Actor :
       /\ pc[a] \in HoldsTurn => starting[a] \in Turn
       /\ pc[a] \in HoldsShell => shell[a] \in Shell
       /\ pc[a] \in {"kill", "emit"} => target[a] \in victims[a]
  /\ starting \in [Actor -> Turn \union {NoTurn}]
  /\ shell \in [Actor -> Shell \union {NoShell}]
  /\ carried \in [Actor -> SUBSET Item] /\ victims \in [Actor -> SUBSET Turn]
  /\ target \in [Actor -> Turn \union {NoTurn}]
  /\ permit \in Actor \union {NoActor} /\ goalActive \in BOOLEAN
  /\ kind \in [Turn -> {"Regular", "Compact"}] /\ input \in [Turn -> SUBSET Item]
  /\ followUp \in [Turn -> BOOLEAN] /\ tools \in [Turn -> 0..MaxTools]
  /\ cancelled \subseteq Turn /\ killed \subseteq Turn
  /\ history \subseteq Item /\ completed \subseteq Turn /\ aborted \subseteq Turn
  /\ rejected \subseteq Turn
  /\ used \subseteq Turn /\ sent \subseteq Item
  /\ steered \subseteq Prompt
  /\ interrupts \in 0..MaxInterrupts

(* An input is in one place: it is never delivered to the model twice,      *)
(* though queues are drained, handed over between ActiveTurns and recorded  *)
(* by tasks that overlap (get_pending_input, extend_pending_input,          *)
(* on_task_finished's leftover).                                            *)
Places(i) ==
  Cardinality({s \in Shell : i \in pending[s]})
  + Cardinality({a \in Actor : i \in carried[a]})
  + Cardinality({t \in Turn : i \in input[t]})
  + (IF i \in mailbox THEN 1 ELSE 0) + (IF i \in idleInput THEN 1 ELSE 0)
  + (IF i \in history THEN 1 ELSE 0)
ItemInOnePlace == \A i \in Item : Places(i) <= 1

(* A task that runs and was not cancelled is in the active turn or in the   *)
(* hands of an actor that aborts it: no turn runs on where an interrupt     *)
(* cannot find it (abort_all_tasks).                                        *)
EveryRunningTurnCanBeAborted ==
  \A t \in Turn : pc[t] \in Running /\ t \notin cancelled =>
    t \in TasksNow \/ \E a \in Actor : t \in victims[a]

(* An active turn without a task is someone's reservation: it is going to   *)
(* get a task or to be cleared.  One that nobody owns would keep every      *)
(* maybe_start_turn_for_pending_work from starting a turn.                  *)
ReservationIsOwned ==
  IsActive /\ tasks[active] = {} =>
    \E a \in Actor \ killed : shell[a] = active /\ pc[a] \in Reservers \union Closers

(* A task that has left the active turn, and may be starting the next one,  *)
(* is not aborted halfway (remove_task against drain_tasks).                *)
StarterNeverKilled == \A t \in killed : pc[t] \notin Tail

(* A pending approval is dropped without an answer only for a task that is  *)
(* cancelled or about to be: a task that lives on never sees a rejection    *)
(* that nobody gave, whichever ActiveTurn its sender was put into           *)
(* (request_command_approval, clear_pending).                               *)
DroppedOnlyWhenAborted ==
  \A t \in rejected : t \in cancelled \/ \E a \in Actor : t \in victims[a]

(* A steered message is in reach: recorded, carried, or pending where the   *)
(* next round, the end of a turn, an aborter or a starter will find it.     *)
Keepers == {"st_launch", "leftover", "cancel"}
Held(i) ==
  \/ i \in history \union mailbox
  \/ \E a \in Actor : i \in carried[a]
  \/ \E s \in Shell : /\ i \in pending[s]
                      /\ active = s \/ \E a \in Actor : shell[a] = s /\ pc[a] \in Keepers

(* No task loses a message that steer_input accepted, neither in a round of *)
(* its turn nor at its end, whoever starts, reserves, takes or aborts turns *)
(* meanwhile: a turn that is cleared leaves nothing pending behind unless   *)
(* a starter or a finishing task still has it.                              *)
TaskKeepsSteered ==
  [][(\E t \in Turn : Run(t) \/ FinishTask(t)) =>
       \A u \in steered : Held(u) => Held(u)']_vars

(* While no turn is aborted, a message that steer_input accepted stays in   *)
(* reach.  It does not: a starter that met a turn which ended meanwhile     *)
(* hands the message to an ActiveTurn that is gone.                         *)
SteeredInputKept == cancelled = {} => \A u \in steered : Held(u)

(* Every turn that is given an id and launched ends, and its end is told.   *)
Launched(t) == pc[t] \in Running
EveryTurnEnds == \A t \in Turn : Launched(t) ~> t \in completed \union aborted

(* Mail that asks for a turn does not stay in the mailbox of a session.     *)
TriggerMailIsRead == \A m \in TriggerMail : m \in mailbox ~> m \notin mailbox
=============================================================================
