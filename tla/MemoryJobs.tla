----------------------------- MODULE MemoryJobs -----------------------------
(* The memory pipeline that every root session starts in the background:    *)
(* phase 1 extracts a memory from each stale thread, phase 2 consolidates   *)
(* them into files under one global lock (memories/write/src/phase1.rs,     *)
(* phase2.rs).  What the sessions share is a table of leased jobs in SQLite *)
(* (state/src/runtime/memories.rs), where every method is one transaction,  *)
(* and the files, which no transaction protects.                            *)
(* A session claims a job at most once, so its id stands for the ownership  *)
(* token.  Only the lease of the global job has a clock; for the rest it    *)
(* matters just whether a deadline is over, and each ends by a step.        *)
EXTENDS Integers, FiniteSets

CONSTANTS
  Worker,      \* the sessions there will be, each a run of the pipeline
  Thread,      \* the threads (rollouts) of the state database
  MaxSource,   \* bound: how often a thread is updated
  MaxRunning,  \* max_rollouts_per_startup: claims of a session, leased jobs
  Retries,     \* DEFAULT_RETRY_REMAINING
  Lease,       \* ticks a lease of the global job lasts
  MayReset,    \* whether memory/reset is called
  NoOwner, NoOutput, NoBaseline

ASSUME ConstantsAssumption ==
  /\ IsFiniteSet(Worker) /\ IsFiniteSet(Thread)
  /\ MaxSource \in Nat /\ MaxRunning \in Nat /\ Retries \in Nat
  /\ Lease \in Nat \ {0, 1} /\ MayReset \in BOOLEAN
  /\ NoOwner \notin Worker

Sources == 1..MaxSource
Snapshot == [thread : Thread, source : Sources]

ASSUME NoBaselineAssumption == \A s \in SUBSET Snapshot : s # NoBaseline
ASSUME NoOutputAssumption == NoOutput \notin [source : Sources, selected : 0..MaxSource]

VARIABLES
  source,     \* threads.updated_at
  mode,       \* threads.memory_mode
  job,        \* the memory_stage1 job of each thread
  global,     \* the memory_consolidate_global job
  output,     \* stage1_outputs
  tree,       \* inputs and agent edits in the memory root
  baseline,   \* inputs committed as the git baseline of the memory root
  resetting,  \* memory/reset has cleared the database and not yet the files
  pc,         \* where each session's pipeline is
  found,      \* candidates a session has read and not yet tried to claim
  claims,     \* stage-1 claims a session still has to finish
  inputs,     \* snapshots a session loaded for phase 2
  agent,      \* sessions whose consolidation agent runs
  beaten,     \* sessions whose heartbeat came since the last tick
  extracted,     \* history: newest source of a thread an extraction finished
  consolidated   \* history: snapshots a completed agent has seen

dbVars == <<source, mode, job, global, output>>
fileVars == <<tree, baseline, resetting>>
historyVars == <<extracted, consolidated>>
workerVars == <<pc, found, claims, inputs, agent, beaten>>
vars == <<dbVars, fileVars, workerVars, historyVars>>

NoJob == [status |-> "none", owner |-> NoOwner, leased |-> FALSE,
          waiting |-> FALSE, left |-> 0, input |-> 0, success |-> 0]
NoGlobalJob == [status |-> "none", owner |-> NoOwner, lease |-> 0,
                waiting |-> FALSE, cooling |-> FALSE]

Init ==
  /\ source \in [Thread -> Sources]
  /\ mode = [t \in Thread |-> "enabled"]
  /\ job = [t \in Thread |-> NoJob] /\ global = NoGlobalJob
  /\ output = [t \in Thread |-> NoOutput]
  /\ tree = [inputs |-> {}, edited |-> FALSE] /\ baseline = NoBaseline
  /\ resetting = FALSE
  /\ pc = [w \in Worker |-> "idle"]
  /\ found = [w \in Worker |-> {}] /\ claims = [w \in Worker |-> {}]
  /\ inputs = [w \in Worker |-> {}] /\ agent = {} /\ beaten = {}
  /\ extracted = [t \in Thread |-> 0] /\ consolidated = {}

Goto(w, place) == pc' = [pc EXCEPT ![w] = place]

(***************************************************************************)
(* Phase 1.  Candidates are read outside the transactions that claim them, *)
(* so a claim compares the source it read with what has happened since.    *)
(***************************************************************************)

OutputSource(t) == IF output[t] = NoOutput THEN 0 ELSE output[t].source

Prune(w) ==
  /\ pc[w] = "idle"
  /\ \E stale \in SUBSET {t \in Thread : output[t] # NoOutput
                                         /\ output[t].selected = 0} :
       output' = [t \in Thread |-> IF t \in stale THEN NoOutput ELSE output[t]]
  /\ Goto(w, "pruned")
  /\ UNCHANGED <<source, mode, job, global, fileVars, historyVars,
                 found, claims, inputs, agent, beaten>>

RateLimited(w) ==
  /\ pc[w] = "pruned"
  /\ Goto(w, "ended")
  /\ UNCHANGED <<dbVars, fileVars, historyVars, found, claims, inputs, agent,
                 beaten>>

Stale(t) ==
  mode[t] = "enabled" /\ source[t] > OutputSource(t) /\ source[t] > job[t].success

\* Age, idleness and the scan limit leave any of the stale threads.
Scan(w) ==
  /\ pc[w] = "pruned"
  /\ \E seen \in SUBSET {t \in Thread : Stale(t)} :
       found' = [found EXCEPT ![w] =
                   {[thread |-> t, source |-> source[t]] : t \in seen}]
  /\ Goto(w, "claiming")
  /\ UNCHANGED <<dbVars, fileVars, historyVars, claims, inputs, agent, beaten>>

Running(t) == job[t].status = "running" /\ job[t].leased
HasSomeCapacity(t) == Cardinality({u \in Thread \ {t} : Running(u)}) <= MaxRunning
HasCapacity(t) == Cardinality({u \in Thread \ {t} : Running(u)}) < MaxRunning

OutputUpToDate(t, s) == OutputSource(t) >= s
UpToDate(t, s) == OutputSource(t) >= s \/ job[t].success >= s

\* An advanced source overrides the backoff and the exhausted retries.
Claimable(t, s) ==
  /\ ~Running(t)
  /\ job[t].waiting => s > job[t].input
  /\ job[t].status = "none" \/ job[t].left > 0 \/ s > job[t].input
  /\ HasCapacity(t)

Claimed(w, t, s) ==
  [status |-> "running", owner |-> w, leased |-> TRUE, waiting |-> FALSE,
   left |-> IF s > job[t].input THEN Retries ELSE job[t].left,
   input |-> s, success |-> job[t].success]

Claim(w) ==
  /\ pc[w] = "claiming" /\ Cardinality(claims[w]) < MaxRunning
  /\ \E f \in found[w] :
       /\ found' = [found EXCEPT ![w] = @ \ {f}]
       /\ IF ~UpToDate(f.thread, f.source) /\ Claimable(f.thread, f.source)
          THEN /\ job' = [job EXCEPT ![f.thread] = Claimed(w, f.thread, f.source)]
               /\ claims' = [claims EXCEPT ![w] = @ \union {f}]
          ELSE UNCHANGED <<job, claims>>
  /\ UNCHANGED <<source, mode, global, output, fileVars, historyVars,
                 pc, inputs, agent, beaten>>

ClaimsMade(w) ==
  /\ pc[w] = "claiming"
  /\ found[w] = {} \/ Cardinality(claims[w]) >= MaxRunning
  /\ found' = [found EXCEPT ![w] = {}]
  /\ Goto(w, "extracting")
  /\ UNCHANGED <<dbVars, fileVars, historyVars, claims, inputs, agent, beaten>>

\* An error of one claim drops the claims made before it: their rows stay
\* running until the leases are over.
ClaimErrs(w) ==
  /\ pc[w] = "claiming" /\ found[w] # {}
  /\ found' = [found EXCEPT ![w] = {}] /\ claims' = [claims EXCEPT ![w] = {}]
  /\ Goto(w, "consolidate")
  /\ UNCHANGED <<dbVars, fileVars, historyVars, inputs, agent, beaten>>

RunsAtAll(w, t) == job[t].status = "running"
Owns(w, t) == job[t].status = "running" /\ job[t].owner = w

Done(t) == [job[t] EXCEPT !.status = "done", !.leased = FALSE, !.success = job[t].input]
FailedJob(t) == [job[t] EXCEPT !.status = "error", !.leased = FALSE,
                               !.waiting = TRUE, !.left = @ - 1]

Enqueued ==
  IF global.status = "running" THEN global
  ELSE [global EXCEPT !.status = "pending", !.waiting = FALSE]

MaxOf(m, n) == IF m > n THEN m ELSE n

Upserted(c) ==
  IF OutputSource(c.thread) > c.source THEN output[c.thread]
  ELSE [source |-> c.source,
        selected |-> IF output[c.thread] = NoOutput THEN 0
                     ELSE output[c.thread].selected]

Extracted(w, c) ==
  /\ pc[w] = "extracting" /\ c \in claims[w]
  /\ claims' = [claims EXCEPT ![w] = @ \ {c}]
  /\ UNCHANGED <<source, mode, fileVars, consolidated, pc, found, inputs, agent,
                 beaten>>

ExtractionSucceeds(w, c) ==
  /\ Extracted(w, c)
  /\ extracted' = [extracted EXCEPT ![c.thread] = MaxOf(@, c.source)]
  /\ IF Owns(w, c.thread)
     THEN /\ job' = [job EXCEPT ![c.thread] = Done(c.thread)]
          /\ output' = [output EXCEPT ![c.thread] = Upserted(c)]
          /\ global' = Enqueued
     ELSE UNCHANGED <<job, output, global>>

ExtractionIsEmpty(w, c) ==
  /\ Extracted(w, c)
  /\ extracted' = [extracted EXCEPT ![c.thread] = MaxOf(@, c.source)]
  /\ IF Owns(w, c.thread)
     THEN /\ job' = [job EXCEPT ![c.thread] = Done(c.thread)]
          /\ output' = [output EXCEPT ![c.thread] = NoOutput]
          /\ global' = IF output[c.thread] = NoOutput THEN global ELSE Enqueued
     ELSE UNCHANGED <<job, output, global>>

ExtractionFails(w, c) ==
  /\ Extracted(w, c)
  /\ job' = IF Owns(w, c.thread) THEN [job EXCEPT ![c.thread] = FailedJob(c.thread)] ELSE job
  /\ UNCHANGED <<output, global, extracted>>

\* The database refuses the result: the job stays running.
ResultLost(w, c) ==
  /\ Extracted(w, c)
  /\ UNCHANGED <<job, output, global, extracted>>

ExtractionsEnd(w) ==
  /\ pc[w] = "extracting" /\ claims[w] = {}
  /\ Goto(w, "consolidate")
  /\ UNCHANGED <<dbVars, fileVars, historyVars, found, claims, inputs, agent, beaten>>

(***************************************************************************)
(* Phase 2.  The global job is a lock: a session owns it from its claim to *)
(* its mark, and heartbeats renew the lease while the agent runs.          *)
(***************************************************************************)

GlobalRunning == global.status = "running" /\ global.lease > 0
GlobalClaimable == ~global.waiting /\ ~GlobalRunning /\ ~global.cooling

ClaimGlobal(w) ==
  /\ pc[w] = "consolidate"
  /\ IF GlobalClaimable
     THEN /\ global' = [status |-> "running", owner |-> w, lease |-> Lease,
                        waiting |-> FALSE, cooling |-> FALSE]
          /\ Goto(w, "claimed")
     ELSE Goto(w, "ended") /\ UNCHANGED global
  /\ UNCHANGED <<source, mode, job, output, fileVars, historyVars, found, claims,
                 inputs, agent, beaten>>

ClaimGlobalErrs(w) ==
  /\ pc[w] = "consolidate"
  /\ Goto(w, "ended")
  /\ UNCHANGED <<dbVars, fileVars, historyVars, found, claims, inputs, agent, beaten>>

OwnsGlobal(w) == global.status = "running" /\ global.owner = w

\* The second attempt, for a job without an owner, matches the same rows: a
\* running job always has one.
FailGlobal(w) ==
  IF OwnsGlobal(w)
  THEN global' = [global EXCEPT !.status = "error", !.lease = 0,
                                !.waiting = TRUE, !.cooling = FALSE]
  ELSE UNCHANGED global

FailOrErr(w) == FailGlobal(w) \/ UNCHANGED global

\* A memory root without a usable repository gets one, of what is there.
Prepare(w) ==
  /\ pc[w] = "claimed"
  /\ IF baseline = NoBaseline
     THEN baseline' = tree.inputs /\ tree' = [tree EXCEPT !.edited = FALSE]
     ELSE UNCHANGED <<tree, baseline>>
  /\ Goto(w, "prepared")
  /\ UNCHANGED <<dbVars, resetting, historyVars, found, claims, inputs, agent,
                 beaten>>

Eligible == {t \in Thread : output[t] # NoOutput /\ mode[t] = "enabled"}

\* The window of recent use and the limit leave any of the eligible outputs.
LoadInputs(w) ==
  /\ pc[w] = "prepared"
  /\ \E chosen \in SUBSET Eligible :
       inputs' = [inputs EXCEPT ![w] =
                    {[thread |-> t, source |-> output[t].source] : t \in chosen}]
  /\ Goto(w, "loaded")
  /\ UNCHANGED <<dbVars, fileVars, historyVars, found, claims, agent, beaten>>

SyncInputs(w) ==
  /\ pc[w] = "loaded"
  /\ tree' = [tree EXCEPT !.inputs = inputs[w]]
  /\ Goto(w, "synced")
  /\ UNCHANGED <<dbVars, baseline, resetting, historyVars, found, claims, inputs,
                 agent, beaten>>

\* The files are written one by one, and any of them may be the last.
SyncPartly(w) ==
  /\ pc[w] = "loaded"
  /\ \E mixed \in SUBSET (tree.inputs \union inputs[w]) :
       tree' = [tree EXCEPT !.inputs = mixed]
  /\ UNCHANGED <<dbVars, baseline, resetting, workerVars, historyVars>>

HasChanges == tree.inputs # baseline \/ tree.edited

Diff(w) ==
  /\ pc[w] = "synced" /\ baseline # NoBaseline
  /\ Goto(w, IF HasChanges THEN "changed" ELSE "finishing")
  /\ UNCHANGED <<dbVars, fileVars, historyVars, found, claims, inputs, agent,
                 beaten>>

SpawnAgent(w) ==
  /\ pc[w] = "changed"
  /\ agent' = agent \union {w}
  /\ Goto(w, "watching")
  /\ UNCHANGED <<dbVars, fileVars, historyVars, found, claims, inputs, beaten>>

\* Files, the repository, the database or the spawn fail.
StepFails(w) ==
  /\ pc[w] \in {"claimed", "prepared", "loaded", "synced", "changed"}
  /\ FailOrErr(w)
  /\ Goto(w, "ended")
  /\ UNCHANGED <<source, mode, job, output, fileVars, historyVars, found, claims,
                 inputs, agent, beaten>>

AgentEdits(w) ==
  /\ w \in agent
  /\ tree' = [tree EXCEPT !.edited = TRUE]
  /\ UNCHANGED <<dbVars, baseline, resetting, workerVars, historyVars>>

NotRenewed == global
Renewed == [global EXCEPT !.lease = Lease]

Heartbeat(w) ==
  /\ pc[w] = "watching" /\ (OwnsGlobal(w) => w \notin beaten)
  /\ IF OwnsGlobal(w)
     THEN global' = Renewed /\ beaten' = beaten \union {w} /\ UNCHANGED pc
     ELSE Goto(w, "closing") /\ UNCHANGED <<global, beaten>>
  /\ UNCHANGED <<source, mode, job, output, fileVars, historyVars, found, claims,
                 inputs, agent>>

\* The watcher gives the job back and leaves the agent to its cleanup.
HeartbeatErrs(w) ==
  /\ pc[w] = "watching"
  /\ FailOrErr(w)
  /\ Goto(w, "closing")
  /\ UNCHANGED <<source, mode, job, output, fileVars, historyVars, found, claims,
                 inputs, agent, beaten>>

AgentCompletes(w) ==
  /\ pc[w] = "watching" /\ w \in agent
  /\ agent' = agent \ {w}
  /\ consolidated' = consolidated \union inputs[w]
  /\ Goto(w, "completed")
  /\ UNCHANGED <<dbVars, fileVars, extracted, found, claims, inputs, beaten>>

AfterCompletion == "confirmed"
AfterFailure == "closing"

AgentFails(w) ==
  /\ pc[w] = "watching" /\ w \in agent
  /\ agent' = agent \ {w}
  /\ FailOrErr(w)
  /\ Goto(w, AfterFailure)
  /\ UNCHANGED <<source, mode, job, output, fileVars, historyVars, found, claims,
                 inputs, beaten>>

ConfirmOwnership(w) ==
  /\ pc[w] = "completed"
  /\ IF OwnsGlobal(w)
     THEN global' = Renewed /\ Goto(w, "confirmed")
     ELSE UNCHANGED global /\ Goto(w, "closing")
  /\ UNCHANGED <<source, mode, job, output, fileVars, historyVars, found, claims,
                 inputs, agent, beaten>>

\* The repository is removed, and then made anew from the files.
RemoveBaseline(w) ==
  /\ pc[w] = "confirmed"
  /\ baseline' = NoBaseline
  /\ Goto(w, "committing")
  /\ UNCHANGED <<dbVars, tree, resetting, historyVars, found, claims, inputs,
                 agent, beaten>>

CommitBaseline(w) ==
  /\ pc[w] = "committing"
  /\ baseline' = tree.inputs
  /\ tree' = [tree EXCEPT !.edited = FALSE]
  /\ Goto(w, "finishing")
  /\ UNCHANGED <<dbVars, resetting, historyVars, found, claims, inputs, agent,
                 beaten>>

ConfirmOrResetFails(w) ==
  /\ pc[w] \in {"completed", "confirmed", "committing"}
  /\ FailOrErr(w)
  /\ Goto(w, "closing")
  /\ UNCHANGED <<source, mode, job, output, fileVars, historyVars, found, claims,
                 inputs, agent, beaten>>

ThreadIsInput(w, t) == output[t] # NoOutput /\ \E i \in inputs[w] : i.thread = t
IsInput(w, t) ==
  output[t] # NoOutput /\ [thread |-> t, source |-> output[t].source] \in inputs[w]

Reselected(w) ==
  [t \in Thread |->
     IF output[t] = NoOutput THEN NoOutput
     ELSE [output[t] EXCEPT !.selected = IF IsInput(w, t) THEN output[t].source ELSE 0]]

SucceedGlobal(w) ==
  /\ pc[w] = "finishing"
  /\ IF OwnsGlobal(w)
     THEN /\ global' = [global EXCEPT !.status = "done", !.lease = 0, !.cooling = TRUE]
          /\ output' = Reselected(w)
     ELSE UNCHANGED <<global, output>>
  /\ Goto(w, "closing")
  /\ UNCHANGED <<source, mode, job, fileVars, historyVars, found, claims, inputs,
                 agent, beaten>>

SucceedErrs(w) ==
  /\ pc[w] = "finishing"
  /\ Goto(w, "closing")
  /\ UNCHANGED <<dbVars, fileVars, historyVars, found, claims, inputs, agent,
                 beaten>>

ShutdownAgent(w) ==
  /\ pc[w] = "closing"
  /\ agent' = agent \ {w}
  /\ Goto(w, "ended")
  /\ UNCHANGED <<dbVars, fileVars, historyVars, found, claims, inputs, beaten>>

(***************************************************************************)
(* Around the pipelines: threads go on and are polluted, memory is reset,  *)
(* sessions die, deadlines pass.                                           *)
(***************************************************************************)

UpdateThread(t) ==
  /\ source[t] < MaxSource
  /\ source' = [source EXCEPT ![t] = @ + 1]
  /\ UNCHANGED <<mode, job, global, output, fileVars, workerVars, historyVars>>

Pollute(t) ==
  /\ mode[t] = "enabled"
  /\ mode' = [mode EXCEPT ![t] = "polluted"]
  /\ global' = IF output[t] # NoOutput /\ output[t].selected # 0 THEN Enqueued ELSE global
  /\ UNCHANGED <<source, job, output, fileVars, workerVars, historyVars>>

ResetJobsOnly ==
  /\ MayReset /\ ~resetting
  /\ resetting' = TRUE
  /\ job' = [t \in Thread |-> NoJob] /\ global' = NoGlobalJob
  /\ UNCHANGED <<source, mode, output, tree, baseline, workerVars, historyVars>>

\* memory/reset: one transaction, then the files.  It asks no lock.
ResetDatabase ==
  /\ MayReset /\ ~resetting
  /\ resetting' = TRUE
  /\ job' = [t \in Thread |-> NoJob] /\ global' = NoGlobalJob
  /\ output' = [t \in Thread |-> NoOutput]
  /\ UNCHANGED <<source, mode, tree, baseline, workerVars, historyVars>>

ResetFiles ==
  /\ resetting /\ resetting' = FALSE
  /\ tree' = [inputs |-> {}, edited |-> FALSE] /\ baseline' = NoBaseline
  /\ UNCHANGED <<dbVars, workerVars, historyVars>>

\* The process of a session ends, its agent with it.
Crash(w) ==
  /\ pc[w] # "ended"
  /\ agent' = agent \ {w}
  /\ found' = [found EXCEPT ![w] = {}] /\ claims' = [claims EXCEPT ![w] = {}]
  /\ Goto(w, "ended")
  /\ UNCHANGED <<dbVars, fileVars, historyVars, inputs, beaten>>

\* Nothing renews the lease of a stage-1 job: it may run out under its owner.
LeaseEnds(t) ==
  /\ job[t].leased
  /\ job' = [job EXCEPT ![t].leased = FALSE]
  /\ UNCHANGED <<source, mode, global, output, fileVars, workerVars, historyVars>>

BackoffEnds(t) ==
  /\ job[t].waiting
  /\ job' = [job EXCEPT ![t].waiting = FALSE]
  /\ UNCHANGED <<source, mode, global, output, fileVars, workerVars, historyVars>>

GlobalBackoffEnds ==
  /\ global.waiting \/ global.cooling
  /\ global' = [global EXCEPT !.waiting = FALSE, !.cooling = FALSE]
  /\ UNCHANGED <<source, mode, job, output, fileVars, workerVars, historyVars>>

Consolidating(w) ==
  pc[w] \in {"claimed", "prepared", "loaded", "synced", "changed", "watching",
             "completed", "confirmed", "committing", "finishing"}

\* A living owner is in time: heartbeats come every 90 of the 3600 seconds of
\* a lease, and the steps without heartbeats take less than a lease.
InTime(w) == IF pc[w] = "watching" THEN w \in beaten ELSE global.lease > 1

Tick ==
  /\ GlobalRunning
  /\ \A w \in Worker : Consolidating(w) /\ OwnsGlobal(w) => InTime(w)
  /\ global' = [global EXCEPT !.lease = @ - 1]
  /\ beaten' = {}
  /\ UNCHANGED <<source, mode, job, output, fileVars, historyVars,
                 pc, found, claims, inputs, agent>>

Phase1(w) ==
  \/ Prune(w) \/ RateLimited(w) \/ Scan(w)
  \/ Claim(w) \/ ClaimsMade(w) \/ ClaimErrs(w)
  \/ \E c \in claims[w] : \/ ExtractionSucceeds(w, c) \/ ExtractionIsEmpty(w, c)
                          \/ ExtractionFails(w, c) \/ ResultLost(w, c)
  \/ ExtractionsEnd(w)

Phase2(w) ==
  \/ ClaimGlobal(w) \/ ClaimGlobalErrs(w)
  \/ Prepare(w) \/ LoadInputs(w) \/ SyncInputs(w) \/ SyncPartly(w) \/ Diff(w)
  \/ SpawnAgent(w)
  \/ StepFails(w) \/ AgentEdits(w) \/ Heartbeat(w) \/ HeartbeatErrs(w)
  \/ AgentCompletes(w) \/ AgentFails(w) \/ ConfirmOwnership(w)
  \/ RemoveBaseline(w) \/ CommitBaseline(w) \/ ConfirmOrResetFails(w)
  \/ SucceedGlobal(w) \/ SucceedErrs(w) \/ ShutdownAgent(w)

Next ==
  \/ \E w \in Worker : Phase1(w) \/ Phase2(w) \/ Crash(w)
  \/ \E t \in Thread : UpdateThread(t) \/ Pollute(t) \/ LeaseEnds(t) \/ BackoffEnds(t)
  \/ ResetDatabase \/ ResetFiles \/ GlobalBackoffEnds \/ Tick

Spec == Init /\ [][Next]_vars

(***************************************************************************)
(* Properties.                                                             *)
(***************************************************************************)

Places == {"idle", "pruned", "claiming", "extracting", "consolidate", "claimed",
           "prepared", "loaded", "synced", "changed", "watching", "completed",
           "confirmed", "committing", "finishing", "closing", "ended"}

\* Every variable has its type, and a running job has an owner, without which
\* nobody could finish it.
TypeOK ==
  /\ source \in [Thread -> Sources]
  /\ mode \in [Thread -> {"enabled", "polluted"}]
  /\ job \in [Thread -> [status : {"none", "running", "done", "error"},
                         owner : Worker \union {NoOwner}, leased : BOOLEAN,
                         waiting : BOOLEAN, left : Int,
                         input : 0..MaxSource, success : 0..MaxSource]]
  /\ global \in [status : {"none", "pending", "running", "done", "error"},
                 owner : Worker \union {NoOwner}, lease : 0..Lease,
                 waiting : BOOLEAN, cooling : BOOLEAN]
  /\ output \in [Thread -> [source : Sources, selected : 0..MaxSource]
                           \union {NoOutput}]
  /\ tree \in [inputs : SUBSET Snapshot, edited : BOOLEAN]
  /\ baseline = NoBaseline \/ baseline \subseteq Snapshot
  /\ resetting \in BOOLEAN
  /\ pc \in [Worker -> Places]
  /\ found \in [Worker -> SUBSET Snapshot] /\ claims \in [Worker -> SUBSET Snapshot]
  /\ inputs \in [Worker -> SUBSET Snapshot]
  /\ agent \subseteq Worker /\ beaten \subseteq Worker
  /\ extracted \in [Thread -> 0..MaxSource] /\ consolidated \subseteq Snapshot
  /\ \A t \in Thread : job[t].status = "running" => job[t].owner \in Worker
  /\ global.status = "running" => global.owner \in Worker

\* No version of a thread is recorded as extracted unless an extraction of it
\* (or of a newer one) has finished: a session whose lease was lost and whose
\* job was claimed again for a newer version must not finish that claim.
WatermarkIsExtracted == \A t \in Thread : job[t].success <= extracted[t]

\* The stored memory of a thread is of the version its job records: it is not
\* overwritten by an older extraction nor by one that recorded nothing.
OutputMatchesWatermark ==
  \A t \in Thread : output[t] # NoOutput => output[t].source = job[t].success

\* The sessions that claim at the same time stay below the limit on leased
\* jobs together.
RunningJobsBounded == Cardinality({t \in Thread : Running(t)}) <= MaxRunning

\* Two sessions are never between the claim of the global job and its mark.
\* Through memory/reset, which deletes the job, they can be.
OneConsolidation ==
  \A v, w \in Worker : Consolidating(v) /\ Consolidating(w) => v = w

\* What the baseline holds has been seen by an agent that completed, whatever
\* agent failed, process died or repository was rebuilt in between: changes are
\* never committed unread.
BaselineWasConsolidated ==
  baseline # NoBaseline => baseline \subseteq consolidated

\* A claim of an older version, read before another session finished a newer
\* one, never takes the record of the thread back.
NeverOlder == [][\A t \in Thread : job'[t].success >= job[t].success]_vars

\* A consolidation that succeeds selects exactly snapshots that the baseline
\* holds: not a memory that was extracted anew while the agent ran.
SelectionIsConsolidated ==
  [][global'.status = "done" /\ global.status # "done" =>
       \A t \in Thread : output'[t] # NoOutput /\ output'[t].selected # 0 =>
         [thread |-> t, source |-> output'[t].source] \in baseline]_vars

(***************************************************************************)
(* What it promises, as long as memory is not reset (MemoryPipeline).      *)
(***************************************************************************)

Recorded == [t \in Thread |-> job[t].success]
Stored == [t \in Thread |-> OutputSource(t)]
Consolidators == {w \in Worker : Consolidating(w)}
Holder == IF Consolidators = {} THEN NoOwner ELSE CHOOSE w \in Consolidators : TRUE
Chosen == [t \in Thread |-> IF output[t] = NoOutput THEN 0 ELSE output[t].selected]

Pipeline == INSTANCE MemoryPipeline WITH
  newest <- extracted, recorded <- Recorded, stored <- Stored, holder <- Holder,
  seen <- consolidated, chosen <- Chosen, Nobody <- NoOwner, Version <- Sources

\* Records only move on, to versions that were extracted; sessions consolidate
\* one after another; only what was recorded is seen by their agents, only what
\* was seen is committed, and only what is committed and stored is selected.
ImplementsMemoryPipeline == Pipeline!Spec
=============================================================================
