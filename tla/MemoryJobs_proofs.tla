-------------------------- MODULE MemoryJobs_proofs --------------------------
(* For any sessions and threads: what the jobs record was really done, and  *)
(* while memory is not reset, one session at a time consolidates and never  *)
(* commits what no agent has seen.                                          *)
(*                                                                          *)
(* Three inductive invariants stand on top of the types.  ClaimInv ties the *)
(* claim in a session's hands to the row it owns, so that finishing a row   *)
(* records the version that was extracted.  LockInv says that a session     *)
(* inside phase 2 owns the global job with time left on its lease.  FileInv *)
(* follows the files through the steps of the one session that LockInv      *)
(* leaves, across failed agents and half-made repositories.                 *)
EXTENDS MemoryJobs, FiniteSetTheorems, TLAPS

\* How long a prover may take for a step, in seconds.
USE SMTT(20), ZenonT(20)

USE ConstantsAssumption

Jobs == [status : {"none", "running", "done", "error"},
         owner : Worker \union {NoOwner}, leased : BOOLEAN, waiting : BOOLEAN,
         left : Int, input : 0..MaxSource, success : 0..MaxSource]
GlobalJobs == [status : {"none", "pending", "running", "done", "error"},
               owner : Worker \union {NoOwner}, lease : 0..Lease,
               waiting : BOOLEAN, cooling : BOOLEAN]
Outputs == [source : Sources, selected : 0..MaxSource]

\* A row that a session owns was claimed for the version in its hands, and
\* for a version newer than the last one recorded.
ClaimInv ==
  /\ \A w \in Worker :
       /\ pc[w] \in {"idle", "pruned"} =>
            /\ found[w] = {} /\ claims[w] = {}
            /\ \A t \in Thread : job[t].owner # w
       /\ \A f \in found[w] :
            /\ job[f.thread].owner # w
            /\ \A g \in found[w] : g.thread = f.thread => g = f
            /\ \A c \in claims[w] : c.thread # f.thread
       /\ \A c \in claims[w] : Owns(w, c.thread) => c.source = job[c.thread].input
  /\ \A t \in Thread : job[t].status = "running" => job[t].success < job[t].input

RecordInv == TypeOK /\ ClaimInv /\ WatermarkIsExtracted /\ OutputMatchesWatermark

LEMMA InitRecord == Init => RecordInv
<1> SUFFICES ASSUME Init PROVE RecordInv
  OBVIOUS
<1>1. TypeOK
  <2>1. NoJob \in Jobs BY DEF NoJob, Jobs
  <2>2. NoGlobalJob \in GlobalJobs BY DEF NoGlobalJob, GlobalJobs
  <2> QED BY <2>1, <2>2 DEF Init, TypeOK, NoJob, NoGlobalJob, Jobs, GlobalJobs, Places
<1>2. ClaimInv /\ WatermarkIsExtracted /\ OutputMatchesWatermark
  BY DEF Init, ClaimInv, WatermarkIsExtracted, OutputMatchesWatermark, NoJob, Owns
<1> QED BY <1>1, <1>2 DEF RecordInv

-----------------------------------------------------------------------------
\* Types.

LEMMA RowTypes ==
  ASSUME TypeOK
  PROVE  /\ global \in GlobalJobs
         /\ \A t \in Thread : job[t] \in Jobs
         /\ \A t \in Thread : Done(t) \in Jobs /\ Done(t).status = "done"
         /\ \A t \in Thread : FailedJob(t) \in Jobs /\ FailedJob(t).status = "error"
<1>1. global \in GlobalJobs BY DEF TypeOK, GlobalJobs
<1>2. \A t \in Thread : job[t] \in Jobs BY DEF TypeOK, Jobs
<1>3. ASSUME NEW t \in Thread PROVE Done(t) \in Jobs /\ Done(t).status = "done"
  BY <1>2 DEF Done, Jobs
<1>4. ASSUME NEW t \in Thread PROVE FailedJob(t) \in Jobs /\ FailedJob(t).status = "error"
  <2>1. job[t] \in Jobs /\ job[t].left - 1 \in Int BY <1>2 DEF Jobs
  <2> QED BY <2>1 DEF FailedJob, Jobs
<1> QED BY <1>1, <1>2, <1>3, <1>4

LEMMA TypeEnqueued == ASSUME TypeOK PROVE Enqueued \in GlobalJobs
                                          /\ (Enqueued.status = "running" => Enqueued.owner \in Worker)
  BY DEF TypeOK, Enqueued, GlobalJobs

LEMMA TypeFail ==
  ASSUME TypeOK, NEW w \in Worker, FailOrErr(w)
  PROVE  global' \in GlobalJobs /\ (global'.status = "running" => global'.owner \in Worker)
<1>1. CASE UNCHANGED global BY <1>1, RowTypes DEF TypeOK
<1>2. CASE global' = [global EXCEPT !.status = "error", !.lease = 0,
                                    !.waiting = TRUE, !.cooling = FALSE]
  <2>1. global \in GlobalJobs /\ 0 \in 0..Lease BY RowTypes
  <2> QED BY <1>2, <2>1 DEF GlobalJobs
<1> QED BY <1>1, <1>2 DEF FailOrErr, FailGlobal

LEMMA TypePhase1 ==
  ASSUME TypeOK, NEW w \in Worker, Phase1(w)
  PROVE  TypeOK'
<1> USE DEF fileVars, historyVars, Goto, Places
<1>1. CASE Prune(w) BY <1>1 DEF Prune, TypeOK
<1>2. CASE RateLimited(w) BY <1>2 DEF RateLimited, dbVars, TypeOK
<1>3. CASE Scan(w)
  <2>1. found' \in [Worker -> SUBSET Snapshot] BY <1>3 DEF Scan, TypeOK, Snapshot
  <2> QED BY <1>3, <2>1 DEF Scan, dbVars, TypeOK
<1>4. CASE Claim(w)
  <2>1. PICK f \in found[w] :
          /\ found' = [found EXCEPT ![w] = @ \ {f}]
          /\ \/ UNCHANGED <<job, claims>>
             \/ /\ job' = [job EXCEPT ![f.thread] = Claimed(w, f.thread, f.source)]
                /\ claims' = [claims EXCEPT ![w] = @ \union {f}]
    BY <1>4 DEF Claim
  <2>2. f \in Snapshot /\ f.thread \in Thread /\ f.source \in 0..MaxSource
    BY DEF TypeOK, Snapshot, Sources
  <2>3. Claimed(w, f.thread, f.source) \in Jobs BY <2>2 DEF Claimed, Jobs, TypeOK
  <2>4. job' \in [Thread -> Jobs] BY <2>1, <2>2, <2>3 DEF TypeOK, Jobs
  <2>5. found' \in [Worker -> SUBSET Snapshot] /\ claims' \in [Worker -> SUBSET Snapshot]
    BY <2>1, <2>2 DEF TypeOK
  <2>6. \A t \in Thread : job'[t].status = "running" => job'[t].owner \in Worker
    BY <2>1, <2>2 DEF TypeOK, Claimed
  <2> QED BY <1>4, <2>4, <2>5, <2>6 DEF Claim, Jobs, TypeOK
<1>5. CASE ClaimsMade(w) BY <1>5 DEF ClaimsMade, dbVars, TypeOK
<1>6. CASE ClaimErrs(w) BY <1>6 DEF ClaimErrs, dbVars, TypeOK
<1>7. ASSUME NEW c \in claims[w], ExtractionSucceeds(w, c) PROVE TypeOK'
  <2>1. c \in Snapshot /\ c.thread \in Thread /\ c.source \in Sources
    BY DEF TypeOK, Snapshot
  <2>2. Done(c.thread) \in Jobs /\ Done(c.thread).status = "done"
    BY <2>1, RowTypes
  <2>3. Upserted(c) \in Outputs
    BY <2>1 DEF Upserted, OutputSource, Outputs, TypeOK, Sources
  <2>4. extracted' \in [Thread -> 0..MaxSource]
    BY <1>7, <2>1 DEF ExtractionSucceeds, MaxOf, TypeOK, Sources
  <2>5. claims' \in [Worker -> SUBSET Snapshot]
    BY <1>7 DEF ExtractionSucceeds, Extracted, TypeOK
  <2>6. CASE Owns(w, c.thread)
    <3>1. job' = [job EXCEPT ![c.thread] = Done(c.thread)] /\ global' = Enqueued
          /\ output' = [output EXCEPT ![c.thread] = Upserted(c)]
      BY <1>7, <2>6 DEF ExtractionSucceeds
    <3>2. job' \in [Thread -> Jobs] BY <3>1, <2>1, <2>2 DEF TypeOK, Jobs
    <3>3. \A t \in Thread : job'[t].status = "running" => job'[t].owner \in Worker
      BY <3>1, <2>1, <2>2 DEF TypeOK
    <3>4. output' \in [Thread -> Outputs \union {NoOutput}]
      BY <3>1, <2>1, <2>3 DEF TypeOK, Outputs
    <3> QED BY <1>7, <2>4, <2>5, <3>1, <3>2, <3>3, <3>4, TypeEnqueued
            DEF ExtractionSucceeds, Extracted, TypeOK, Jobs, GlobalJobs, Outputs
  <2>7. CASE ~Owns(w, c.thread)
    BY <1>7, <2>4, <2>5, <2>7 DEF ExtractionSucceeds, Extracted, TypeOK
  <2> QED BY <2>6, <2>7
<1>8. ASSUME NEW c \in claims[w], ExtractionIsEmpty(w, c) PROVE TypeOK'
  <2>1. c \in Snapshot /\ c.thread \in Thread /\ c.source \in Sources
    BY DEF TypeOK, Snapshot
  <2>2. Done(c.thread) \in Jobs /\ Done(c.thread).status = "done"
    BY <2>1, RowTypes
  <2>4. extracted' \in [Thread -> 0..MaxSource]
    BY <1>8, <2>1 DEF ExtractionIsEmpty, MaxOf, TypeOK, Sources
  <2>5. claims' \in [Worker -> SUBSET Snapshot]
    BY <1>8 DEF ExtractionIsEmpty, Extracted, TypeOK
  <2>6. CASE Owns(w, c.thread)
    <3>1. job' = [job EXCEPT ![c.thread] = Done(c.thread)] /\ global' \in {global, Enqueued}
          /\ output' = [output EXCEPT ![c.thread] = NoOutput]
      BY <1>8, <2>6 DEF ExtractionIsEmpty
    <3>2. job' \in [Thread -> Jobs] BY <3>1, <2>1, <2>2 DEF TypeOK, Jobs
    <3>3. \A t \in Thread : job'[t].status = "running" => job'[t].owner \in Worker
      BY <3>1, <2>1, <2>2 DEF TypeOK
    <3>4. output' \in [Thread -> Outputs \union {NoOutput}]
      BY <3>1, <2>1 DEF TypeOK, Outputs
    <3> QED BY <1>8, <2>4, <2>5, <3>1, <3>2, <3>3, <3>4, TypeEnqueued
            DEF ExtractionIsEmpty, Extracted, TypeOK, Jobs, GlobalJobs, Outputs
  <2>7. CASE ~Owns(w, c.thread)
    BY <1>8, <2>4, <2>5, <2>7 DEF ExtractionIsEmpty, Extracted, TypeOK
  <2> QED BY <2>6, <2>7
<1>9. ASSUME NEW c \in claims[w], ExtractionFails(w, c) PROVE TypeOK'
  <2>1. c.thread \in Thread BY DEF TypeOK, Snapshot
  <2>2. FailedJob(c.thread) \in Jobs /\ FailedJob(c.thread).status = "error"
    BY <2>1, RowTypes
  <2>3. job' \in [Thread -> Jobs]
    BY <1>9, <2>1, <2>2 DEF ExtractionFails, TypeOK, Jobs
  <2>4. \A t \in Thread : job'[t].status = "running" => job'[t].owner \in Worker
    BY <1>9, <2>1, <2>2 DEF ExtractionFails, TypeOK
  <2> QED BY <1>9, <2>3, <2>4 DEF ExtractionFails, Extracted, TypeOK, Jobs
<1>10. ASSUME NEW c \in claims[w], ResultLost(w, c) PROVE TypeOK'
  BY <1>10 DEF ResultLost, Extracted, TypeOK
<1>11. CASE ExtractionsEnd(w) BY <1>11 DEF ExtractionsEnd, dbVars, TypeOK
<1> QED BY <1>1, <1>2, <1>3, <1>4, <1>5, <1>6, <1>7, <1>8, <1>9, <1>10, <1>11 DEF Phase1

LEMMA TypePhase2 ==
  ASSUME TypeOK, NEW w \in Worker, Phase2(w)
  PROVE  TypeOK'
<1> USE DEF historyVars, Goto, Places
<1>1. CASE ClaimGlobal(w)
  <2>1. global' \in GlobalJobs /\ (global'.status = "running" => global'.owner \in Worker)
    <3>1. CASE UNCHANGED global BY <3>1, RowTypes DEF TypeOK
    <3>2. CASE global' = [status |-> "running", owner |-> w, lease |-> Lease,
                          waiting |-> FALSE, cooling |-> FALSE]
      <4>1. Lease \in 0..Lease OBVIOUS
      <4> QED BY <3>2, <4>1 DEF GlobalJobs
    <3> QED BY <1>1, <3>1, <3>2 DEF ClaimGlobal
  <2>2. pc' \in [Worker -> Places] BY <1>1 DEF ClaimGlobal, TypeOK
  <2> QED BY <1>1, <2>1, <2>2 DEF ClaimGlobal, fileVars, TypeOK, GlobalJobs
<1>2. CASE ClaimGlobalErrs(w) BY <1>2 DEF ClaimGlobalErrs, dbVars, fileVars, TypeOK
<1>3. CASE Prepare(w) BY <1>3 DEF Prepare, dbVars, TypeOK
<1>4. CASE LoadInputs(w)
  <2>1. \A t \in Eligible : [thread |-> t, source |-> output[t].source] \in Snapshot
    BY DEF Eligible, Snapshot, TypeOK
  <2>2. inputs' \in [Worker -> SUBSET Snapshot] BY <1>4, <2>1 DEF LoadInputs, TypeOK
  <2> QED BY <1>4, <2>2 DEF LoadInputs, dbVars, fileVars, TypeOK
<1>5. CASE SyncInputs(w) \/ SyncPartly(w)
  BY <1>5 DEF SyncInputs, SyncPartly, dbVars, workerVars, TypeOK
<1>6. CASE Diff(w) BY <1>6 DEF Diff, dbVars, fileVars, TypeOK
<1>7. CASE SpawnAgent(w) BY <1>7 DEF SpawnAgent, dbVars, fileVars, TypeOK
<1>8. CASE StepFails(w) BY <1>8, TypeFail DEF StepFails, fileVars, TypeOK, GlobalJobs
<1>9. CASE AgentEdits(w) BY <1>9 DEF AgentEdits, dbVars, workerVars, TypeOK
<1>10. CASE Heartbeat(w) BY <1>10 DEF Heartbeat, Renewed, fileVars, TypeOK
<1>11. CASE HeartbeatErrs(w) BY <1>11, TypeFail DEF HeartbeatErrs, fileVars, TypeOK, GlobalJobs
<1>12. CASE AgentCompletes(w) BY <1>12 DEF AgentCompletes, dbVars, fileVars, TypeOK
<1>13. CASE AgentFails(w)
  BY <1>13, TypeFail DEF AgentFails, AfterFailure, fileVars, TypeOK, GlobalJobs
<1>14. CASE ConfirmOwnership(w) BY <1>14 DEF ConfirmOwnership, Renewed, fileVars, TypeOK
<1>15. CASE RemoveBaseline(w) BY <1>15 DEF RemoveBaseline, dbVars, TypeOK
<1>16. CASE CommitBaseline(w) BY <1>16 DEF CommitBaseline, dbVars, TypeOK
<1>17. CASE ConfirmOrResetFails(w)
  BY <1>17, TypeFail DEF ConfirmOrResetFails, fileVars, TypeOK, GlobalJobs
<1>18. CASE SucceedGlobal(w)
  <2>1. Reselected(w) \in [Thread -> Outputs \union {NoOutput}]
    BY DEF Reselected, Outputs, TypeOK, Sources
  <2>2. output' \in [Thread -> Outputs \union {NoOutput}]
    BY <1>18, <2>1 DEF SucceedGlobal, TypeOK, Outputs
  <2>3. global' \in GlobalJobs /\ (global'.status = "running" => global'.owner \in Worker)
    <3>1. CASE UNCHANGED global BY <3>1, RowTypes DEF TypeOK
    <3>2. CASE global' = [global EXCEPT !.status = "done", !.lease = 0, !.cooling = TRUE]
      <4>1. global \in GlobalJobs /\ 0 \in 0..Lease BY RowTypes
      <4> QED BY <3>2, <4>1 DEF GlobalJobs
    <3> QED BY <1>18, <3>1, <3>2 DEF SucceedGlobal
  <2> QED BY <1>18, <2>2, <2>3 DEF SucceedGlobal, fileVars, TypeOK, Outputs, GlobalJobs
<1>19. CASE SucceedErrs(w) BY <1>19 DEF SucceedErrs, dbVars, fileVars, TypeOK
<1>20. CASE ShutdownAgent(w) BY <1>20 DEF ShutdownAgent, dbVars, fileVars, TypeOK
<1> QED BY <1>1, <1>2, <1>3, <1>4, <1>5, <1>6, <1>7, <1>8, <1>9, <1>10, <1>11, <1>12,
           <1>13, <1>14, <1>15, <1>16, <1>17, <1>18, <1>19, <1>20 DEF Phase2

Around == \/ \E w \in Worker : Crash(w)
          \/ \E t \in Thread : UpdateThread(t) \/ Pollute(t) \/ LeaseEnds(t) \/ BackoffEnds(t)
          \/ ResetDatabase \/ ResetFiles \/ GlobalBackoffEnds \/ Tick

LEMMA TypeAround ==
  ASSUME TypeOK, Around
  PROVE  TypeOK'
<1> USE DEF historyVars, Goto, Places
<1>1. ASSUME NEW w \in Worker, Crash(w) PROVE TypeOK'
  BY <1>1 DEF Crash, dbVars, fileVars, TypeOK
<1>2. ASSUME NEW t \in Thread, UpdateThread(t) PROVE TypeOK'
  BY <1>2 DEF UpdateThread, fileVars, workerVars, TypeOK, Sources
<1>3. ASSUME NEW t \in Thread, Pollute(t) PROVE TypeOK'
  BY <1>3, TypeEnqueued DEF Pollute, fileVars, workerVars, TypeOK, GlobalJobs
<1>4. ASSUME NEW t \in Thread, LeaseEnds(t) \/ BackoffEnds(t) PROVE TypeOK'
  <2>1. /\ \A u \in Thread : job'[u] \in Jobs
        /\ \A u \in Thread : job'[u].owner = job[u].owner /\ job'[u].status = job[u].status
        /\ job' \in [Thread -> Jobs]
    <3>1. job[t] \in Jobs /\ job \in [Thread -> Jobs] BY RowTypes DEF TypeOK, Jobs
    <3>2. [job[t] EXCEPT !.leased = FALSE] \in Jobs /\ [job[t] EXCEPT !.waiting = FALSE] \in Jobs
      BY <3>1 DEF Jobs
    <3>3. \/ job' = [job EXCEPT ![t] = [job[t] EXCEPT !.leased = FALSE]]
          \/ job' = [job EXCEPT ![t] = [job[t] EXCEPT !.waiting = FALSE]]
      BY <1>4 DEF LeaseEnds, BackoffEnds
    <3>4. job' \in [Thread -> Jobs] BY <3>1, <3>2, <3>3
    <3>5. ASSUME NEW u \in Thread
          PROVE  job'[u].owner = job[u].owner /\ job'[u].status = job[u].status
      BY <3>1, <3>3 DEF Jobs
    <3> QED BY <3>4, <3>5
  <2> QED BY <1>4, <2>1 DEF LeaseEnds, BackoffEnds, fileVars, workerVars, TypeOK, Jobs
<1>5. CASE ResetDatabase BY <1>5 DEF ResetDatabase, NoJob, NoGlobalJob, workerVars, TypeOK
<1>6. CASE ResetFiles BY <1>6 DEF ResetFiles, dbVars, workerVars, TypeOK
<1>7. CASE GlobalBackoffEnds BY <1>7 DEF GlobalBackoffEnds, fileVars, workerVars, TypeOK
<1>8. CASE Tick BY <1>8 DEF Tick, GlobalRunning, fileVars, TypeOK
<1> QED BY <1>1, <1>2, <1>3, <1>4, <1>5, <1>6, <1>7, <1>8 DEF Around

LEMMA NextCases == Next <=> (\E w \in Worker : Phase1(w) \/ Phase2(w)) \/ Around
  BY DEF Next, Around

LEMMA TypeStep == TypeOK /\ [Next]_vars => TypeOK'
<1> SUFFICES ASSUME TypeOK, [Next]_vars PROVE TypeOK'
  OBVIOUS
<1>1. CASE UNCHANGED vars
  BY <1>1 DEF vars, dbVars, fileVars, workerVars, historyVars, TypeOK
<1> QED BY <1>1, TypePhase1, TypePhase2, TypeAround, NextCases

-----------------------------------------------------------------------------
\* What the jobs record.

Fresh(w) == pc[w] \in {"idle", "pruned"}

RecordsHold == ClaimInv /\ WatermarkIsExtracted /\ OutputMatchesWatermark

\* Steps that touch no claim and keep or lose what is stored.
LEMMA RecordSame ==
  ASSUME RecordsHold, UNCHANGED <<job, found, claims, extracted>>,
         \A w \in Worker : Fresh(w)' => Fresh(w),
         \A t \in Thread : output'[t] # NoOutput =>
           output[t] # NoOutput /\ output'[t].source = output[t].source
  PROVE  RecordsHold'
<1>1. ClaimInv' BY DEF RecordsHold, ClaimInv, Fresh, Owns
<1>2. WatermarkIsExtracted' BY DEF RecordsHold, WatermarkIsExtracted
<1>3. OutputMatchesWatermark' BY DEF RecordsHold, OutputMatchesWatermark
<1> QED BY <1>1, <1>2, <1>3 DEF RecordsHold

\* Rows keep what matters when only a deadline passes.
LEMMA RecordDeadline ==
  ASSUME TypeOK, RecordsHold, NEW t \in Thread, LeaseEnds(t) \/ BackoffEnds(t)
  PROVE  RecordsHold'
<1>1. ASSUME NEW u \in Thread
      PROVE  /\ job'[u].owner = job[u].owner /\ job'[u].status = job[u].status
             /\ job'[u].input = job[u].input /\ job'[u].success = job[u].success
  <2>1. job \in [Thread -> Jobs] BY DEF TypeOK, Jobs
  <2>2. \/ job' = [job EXCEPT ![t] = [job[t] EXCEPT !.leased = FALSE]]
        \/ job' = [job EXCEPT ![t] = [job[t] EXCEPT !.waiting = FALSE]]
    BY DEF LeaseEnds, BackoffEnds
  <2> QED BY <2>1, <2>2 DEF Jobs
<1>2. UNCHANGED <<pc, found, claims, output, extracted>>
  BY DEF LeaseEnds, BackoffEnds, workerVars, historyVars
<1>3. ASSUME NEW w \in Worker, NEW s \in Snapshot
      PROVE  s.thread \in Thread
  BY DEF Snapshot
<1>4. ClaimInv'
  BY <1>1, <1>2, <1>3 DEF RecordsHold, ClaimInv, Owns, TypeOK
<1>5. WatermarkIsExtracted' BY <1>1, <1>2 DEF RecordsHold, WatermarkIsExtracted
<1>6. OutputMatchesWatermark' BY <1>1, <1>2 DEF RecordsHold, OutputMatchesWatermark
<1> QED BY <1>4, <1>5, <1>6 DEF RecordsHold

LEMMA RecordClaim ==
  ASSUME TypeOK, RecordsHold, NEW w \in Worker, Claim(w)
  PROVE  RecordsHold'
<1>1. PICK f \in found[w] :
        /\ found' = [found EXCEPT ![w] = @ \ {f}]
        /\ IF ~UpToDate(f.thread, f.source) /\ Claimable(f.thread, f.source)
           THEN /\ job' = [job EXCEPT ![f.thread] = Claimed(w, f.thread, f.source)]
                /\ claims' = [claims EXCEPT ![w] = @ \union {f}]
           ELSE UNCHANGED <<job, claims>>
  BY DEF Claim
<1>2. f \in Snapshot /\ f.thread \in Thread /\ f.source \in Nat
  BY DEF TypeOK, Snapshot, Sources
<1>3. UNCHANGED <<pc, output, extracted>> /\ pc[w] = "claiming"
  BY DEF Claim, historyVars
<1>4. CASE UNCHANGED <<job, claims>>
  <2>1. ClaimInv' BY <1>1, <1>2, <1>3, <1>4 DEF RecordsHold, ClaimInv, Owns, TypeOK
  <2> QED BY <2>1, <1>3, <1>4 DEF RecordsHold, WatermarkIsExtracted, OutputMatchesWatermark
<1>5. CASE /\ ~UpToDate(f.thread, f.source)
           /\ job' = [job EXCEPT ![f.thread] = Claimed(w, f.thread, f.source)]
           /\ claims' = [claims EXCEPT ![w] = @ \union {f}]
  <2>1. /\ job'[f.thread].owner = w /\ job'[f.thread].input = f.source
        /\ job'[f.thread].success = job[f.thread].success
        /\ \A t \in Thread : t # f.thread => job'[t] = job[t]
    BY <1>2, <1>5 DEF Claimed, TypeOK
  <2>2. job[f.thread].success < f.source
    BY <1>2, <1>5 DEF UpToDate, TypeOK
  <2>3. \A t \in Thread : job'[t].success = job[t].success BY <2>1
  <2>4. \A t \in Thread : job'[t].status = "running" => job'[t].success < job'[t].input
    BY <2>1, <2>2 DEF RecordsHold, ClaimInv
  <2>5. ASSUME NEW v \in Worker
        PROVE  /\ Fresh(v)' => /\ found'[v] = {} /\ claims'[v] = {}
                               /\ \A t \in Thread : job'[t].owner # v
               /\ \A g \in found'[v] :
                    /\ job'[g.thread].owner # v
                    /\ \A h \in found'[v] : h.thread = g.thread => h = g
                    /\ \A c \in claims'[v] : c.thread # g.thread
               /\ \A c \in claims'[v] : Owns(v, c.thread)' => c.source = job'[c.thread].input
    <3>1. \A s \in found[v] \union claims[v] : s.thread \in Thread
      BY DEF TypeOK, Snapshot
    <3>2. found'[v] = (IF v = w THEN found[w] \ {f} ELSE found[v])
          /\ claims'[v] = (IF v = w THEN claims[w] \union {f} ELSE claims[v])
      BY <1>1, <1>5 DEF TypeOK
    <3>3. CASE v = w
      <4>1. ~Fresh(v)' BY <3>3, <1>3 DEF Fresh
      <4>2. ASSUME NEW g \in found'[v]
            PROVE  /\ g \in found[w] /\ g.thread # f.thread /\ g.thread \in Thread
                   /\ job'[g.thread] = job[g.thread]
        BY <3>1, <3>2, <3>3, <2>1 DEF RecordsHold, ClaimInv
      <4>3. ASSUME NEW g \in found'[v], NEW c \in claims'[v] PROVE c.thread # g.thread
        BY <3>2, <3>3, <4>2 DEF RecordsHold, ClaimInv
      <4>4. ASSUME NEW c \in claims'[v], Owns(v, c.thread)' PROVE c.source = job'[c.thread].input
        <5>1. CASE c = f BY <5>1, <2>1
        <5>2. CASE c # f
          <6>1. c \in claims[w] /\ c.thread # f.thread /\ c.thread \in Thread
            BY <5>2, <3>1, <3>2, <3>3 DEF RecordsHold, ClaimInv
          <6> QED BY <6>1, <4>4, <3>3, <2>1 DEF RecordsHold, ClaimInv, Owns
        <5> QED BY <5>1, <5>2
      <4> QED BY <4>1, <4>2, <4>3, <4>4, <3>3 DEF RecordsHold, ClaimInv
    <3>4. CASE v # w
      <4>1. \A t \in Thread : job'[t].owner = v => job'[t] = job[t]
        BY <3>4, <2>1
      <4> QED BY <3>1, <3>2, <3>4, <4>1, <1>3 DEF RecordsHold, ClaimInv, Owns, Fresh
    <3> QED BY <3>3, <3>4
  <2>6. ClaimInv' BY <2>4, <2>5 DEF ClaimInv, Fresh
  <2> QED BY <2>3, <2>6, <1>3 DEF RecordsHold, WatermarkIsExtracted, OutputMatchesWatermark
<1> QED BY <1>1, <1>4, <1>5

LEMMA RecordFinish ==
  ASSUME TypeOK, RecordsHold, NEW w \in Worker, NEW c \in claims[w],
         \/ ExtractionSucceeds(w, c) \/ ExtractionIsEmpty(w, c)
         \/ ExtractionFails(w, c) \/ ResultLost(w, c)
  PROVE  RecordsHold'
<1>1. /\ c.thread \in Thread /\ c.source \in 1..MaxSource
      /\ \A v \in Worker : \A s \in found[v] \union claims[v] : s.thread \in Thread
  BY DEF TypeOK, Snapshot, Sources
<1>2. /\ UNCHANGED <<pc, found>> /\ pc[w] = "extracting"
      /\ claims' = [claims EXCEPT ![w] = @ \ {c}]
  BY DEF ExtractionSucceeds, ExtractionIsEmpty, ExtractionFails, ResultLost, Extracted
<1>3. \A v \in Worker : claims'[v] \subseteq claims[v]
  BY <1>2 DEF TypeOK
<1>4. job' \in {job, [job EXCEPT ![c.thread] = Done(c.thread)],
                     [job EXCEPT ![c.thread] = FailedJob(c.thread)]}
  BY DEF ExtractionSucceeds, ExtractionIsEmpty, ExtractionFails, ResultLost
<1>5. ASSUME NEW t \in Thread
      PROVE  /\ job'[t].owner = job[t].owner /\ job'[t].input = job[t].input
             /\ job'[t].status = "running" =>
                  job[t].status = "running" /\ job'[t].success = job[t].success
  <2>1. job \in [Thread -> Jobs] BY DEF TypeOK, Jobs
  <2>2. CASE UNCHANGED job BY <2>2
  <2>3. CASE job' = [job EXCEPT ![c.thread] = Done(c.thread)]
    <3>1. \/ t # c.thread /\ job'[t] = job[t]
          \/ t = c.thread /\ job'[t] = Done(t)
      BY <2>1, <2>3, <1>1
    <3> QED BY <2>1, <3>1 DEF Done, Jobs
  <2>4. CASE job' = [job EXCEPT ![c.thread] = FailedJob(c.thread)]
    <3>1. \/ t # c.thread /\ job'[t] = job[t]
          \/ t = c.thread /\ job'[t] = FailedJob(t)
      BY <2>1, <2>4, <1>1
    <3> QED BY <2>1, <3>1 DEF FailedJob, Jobs
  <2> QED BY <1>4, <2>2, <2>3, <2>4
<1>6. ClaimInv'
  <2>1. \A t \in Thread : job'[t].status = "running" => job'[t].success < job'[t].input
    BY <1>5 DEF RecordsHold, ClaimInv
  <2>2. ASSUME NEW v \in Worker
        PROVE  /\ Fresh(v)' => /\ found'[v] = {} /\ claims'[v] = {}
                               /\ \A t \in Thread : job'[t].owner # v
               /\ \A g \in found'[v] :
                    /\ job'[g.thread].owner # v
                    /\ \A h \in found'[v] : h.thread = g.thread => h = g
                    /\ \A d \in claims'[v] : d.thread # g.thread
               /\ \A d \in claims'[v] : Owns(v, d.thread)' => d.source = job'[d.thread].input
    BY <1>1, <1>2, <1>3, <1>5 DEF RecordsHold, ClaimInv, Owns, Fresh
  <2> QED BY <2>1, <2>2 DEF ClaimInv, Fresh
<1>7. CASE UNCHANGED <<job, output, global>> \/ ExtractionFails(w, c) \/ ResultLost(w, c)
  <2>1. UNCHANGED output BY <1>7 DEF ExtractionFails, ResultLost
  <2>2. job' \in {job, [job EXCEPT ![c.thread] = FailedJob(c.thread)]}
    BY <1>7 DEF ExtractionFails, ResultLost
  <2>3. ASSUME NEW t \in Thread PROVE job'[t].success = job[t].success
    <3>1. job \in [Thread -> Jobs] BY DEF TypeOK, Jobs
    <3>2. CASE job' = [job EXCEPT ![c.thread] = FailedJob(c.thread)]
      <4>1. \/ job'[t] = job[t]
            \/ t = c.thread /\ job'[t] = FailedJob(t)
        BY <3>1, <3>2, <1>1
      <4> QED BY <3>1, <4>1 DEF FailedJob, Jobs
    <3> QED BY <2>2, <3>2
  <2>4. extracted' \in {extracted, [extracted EXCEPT ![c.thread] = MaxOf(@, c.source)]}
    BY DEF ExtractionSucceeds, ExtractionIsEmpty, ExtractionFails, ResultLost
  <2>5. \A t \in Thread : extracted'[t] >= extracted[t] /\ extracted'[t] \in Nat
    BY <2>4, <1>1 DEF MaxOf, TypeOK
  <2>6. \A t \in Thread : job[t].success \in Nat /\ extracted[t] \in Nat BY DEF TypeOK
  <2>7. WatermarkIsExtracted' BY <2>3, <2>5, <2>6 DEF RecordsHold, WatermarkIsExtracted
  <2>8. OutputMatchesWatermark' BY <2>1, <2>3 DEF RecordsHold, OutputMatchesWatermark
  <2> QED BY <2>7, <2>8, <1>6 DEF RecordsHold
<1>8. CASE /\ Owns(w, c.thread)
           /\ job' = [job EXCEPT ![c.thread] = Done(c.thread)]
           /\ extracted' = [extracted EXCEPT ![c.thread] = MaxOf(@, c.source)]
           /\ output' \in {[output EXCEPT ![c.thread] = Upserted(c)],
                           [output EXCEPT ![c.thread] = NoOutput]}
  <2>1. c.source = job[c.thread].input /\ job[c.thread].success < c.source
    BY <1>8, <1>1 DEF RecordsHold, ClaimInv, Owns
  <2>2. job'[c.thread].success = c.source /\ \A t \in Thread \ {c.thread} : job'[t] = job[t]
    BY <2>1, <1>1, <1>8 DEF Done, TypeOK
  <2>3. extracted'[c.thread] >= c.source
        /\ \A t \in Thread \ {c.thread} : extracted'[t] = extracted[t]
    BY <1>1, <1>8 DEF MaxOf, TypeOK
  <2>4. WatermarkIsExtracted' BY <2>2, <2>3 DEF RecordsHold, WatermarkIsExtracted
  <2>5. OutputSource(c.thread) < c.source
    BY <2>1, <1>1 DEF OutputSource, RecordsHold, OutputMatchesWatermark, TypeOK
  <2>6. Upserted(c).source = c.source
    BY <2>5, <1>1 DEF Upserted, OutputSource, TypeOK, Sources
  <2>7. ASSUME NEW t \in Thread, output'[t] # NoOutput PROVE output'[t].source = job'[t].success
    <3>1. CASE t = c.thread
      BY <3>1, <2>2, <2>6, <2>7, <1>1, <1>8 DEF TypeOK
    <3>2. CASE t # c.thread
      BY <3>2, <2>2, <2>7, <1>1, <1>8 DEF TypeOK, RecordsHold, OutputMatchesWatermark
    <3> QED BY <3>1, <3>2
  <2> QED BY <2>4, <2>7, <1>6 DEF RecordsHold, OutputMatchesWatermark
<1> QED BY <1>7, <1>8 DEF ExtractionSucceeds, ExtractionIsEmpty

LEMMA RecordPhase1 ==
  ASSUME TypeOK, RecordsHold, NEW w \in Worker, Phase1(w)
  PROVE  RecordsHold'
<1> USE DEF historyVars, Goto
<1>1. CASE Prune(w)
  BY <1>1, RecordSame DEF Prune, Fresh, TypeOK
<1>2. CASE RateLimited(w) \/ ExtractionsEnd(w)
  BY <1>2, RecordSame DEF RateLimited, ExtractionsEnd, dbVars, Fresh, TypeOK
<1>3. CASE Scan(w)
  <2>1. \A v \in Worker \ {w} : found'[v] = found[v] /\ pc'[v] = pc[v]
    BY <1>3 DEF Scan, TypeOK
  <2>2. /\ Fresh(w) /\ ~Fresh(w)' /\ claims[w] = {} /\ \A t \in Thread : job[t].owner # w
        /\ \A f \in found'[w] : f.thread \in Thread /\ f.source = source[f.thread]
                                /\ f = [thread |-> f.thread, source |-> f.source]
    BY <1>3 DEF Scan, Fresh, RecordsHold, ClaimInv, TypeOK
  <2>3. \A f, g \in found'[w] : g.thread = f.thread => g = f BY <2>2
  <2>4. UNCHANGED <<job, claims, output, extracted>> BY <1>3 DEF Scan, dbVars
  <2>5. ClaimInv' BY <2>1, <2>2, <2>3, <2>4 DEF RecordsHold, ClaimInv, Fresh, Owns
  <2> QED BY <2>4, <2>5 DEF RecordsHold, WatermarkIsExtracted, OutputMatchesWatermark
<1>4. CASE Claim(w) BY <1>4, RecordClaim
<1>5. CASE ClaimsMade(w) \/ ClaimErrs(w)
  <2>1. UNCHANGED <<job, output, extracted>> /\ ~Fresh(w)'
    BY <1>5 DEF ClaimsMade, ClaimErrs, dbVars, Fresh, TypeOK
  <2>2. \A v \in Worker : found'[v] \subseteq found[v] /\ claims'[v] \subseteq claims[v]
    BY <1>5 DEF ClaimsMade, ClaimErrs, TypeOK
  <2>3. \A v \in Worker \ {w} : pc'[v] = pc[v]
    BY <1>5 DEF ClaimsMade, ClaimErrs, TypeOK
  <2>4. ClaimInv' BY <2>1, <2>2, <2>3 DEF RecordsHold, ClaimInv, Fresh, Owns
  <2> QED BY <2>1, <2>4 DEF RecordsHold, WatermarkIsExtracted, OutputMatchesWatermark
<1>6. ASSUME NEW c \in claims[w],
             \/ ExtractionSucceeds(w, c) \/ ExtractionIsEmpty(w, c)
             \/ ExtractionFails(w, c) \/ ResultLost(w, c)
      PROVE  RecordsHold'
  BY <1>6, RecordFinish
<1> QED BY <1>1, <1>2, <1>3, <1>4, <1>5, <1>6 DEF Phase1

\* Phase 2 leaves the claims alone, and its end rewrites only the selection.
LEMMA Phase2Frame ==
  ASSUME TypeOK, NEW w \in Worker, Phase2(w)
  PROVE  /\ UNCHANGED <<job, found, claims, extracted>>
         /\ \A v \in Worker : Fresh(v)' => Fresh(v)
<1> USE DEF historyVars, Goto, TypeOK, Fresh
<1>1. CASE \/ ClaimGlobal(w) \/ ClaimGlobalErrs(w) \/ Prepare(w) \/ LoadInputs(w)
           \/ SyncInputs(w) \/ SyncPartly(w) \/ Diff(w) \/ SpawnAgent(w)
  BY <1>1 DEF ClaimGlobal, ClaimGlobalErrs, Prepare, LoadInputs, SyncInputs, SyncPartly,
     Diff, SpawnAgent, dbVars, workerVars
<1>2. CASE StepFails(w) \/ AgentEdits(w) \/ Heartbeat(w) \/ HeartbeatErrs(w)
  BY <1>2 DEF StepFails, AgentEdits, Heartbeat, HeartbeatErrs, dbVars, workerVars
<1>3. CASE AgentCompletes(w) \/ AgentFails(w) \/ ConfirmOwnership(w) \/ RemoveBaseline(w)
  BY <1>3 DEF AgentCompletes, AgentFails, AfterFailure, ConfirmOwnership, RemoveBaseline, dbVars
<1>4. CASE CommitBaseline(w) \/ ConfirmOrResetFails(w) \/ SucceedGlobal(w)
           \/ SucceedErrs(w) \/ ShutdownAgent(w)
  BY <1>4 DEF CommitBaseline, ConfirmOrResetFails, SucceedGlobal, SucceedErrs,
     ShutdownAgent, dbVars
<1> QED BY <1>1, <1>2, <1>3, <1>4 DEF Phase2

LEMMA OutputsKept ==
  ASSUME TypeOK, NEW w \in Worker, Phase2(w), NEW t \in Thread
  PROVE  /\ output'[t] # NoOutput =>
              output[t] # NoOutput /\ output'[t].source = output[t].source
         /\ ~SucceedGlobal(w) => UNCHANGED output
<1>1. CASE SucceedGlobal(w)
  <2>1. CASE UNCHANGED output BY <2>1, <1>1
  <2>2. CASE output' = Reselected(w)
    <3>1. output'[t] = IF output[t] = NoOutput THEN NoOutput
                       ELSE [output[t] EXCEPT !.selected =
                               IF IsInput(w, t) THEN output[t].source ELSE 0]
      BY <2>2 DEF Reselected
    <3>2. output[t] # NoOutput => output[t] \in Outputs BY DEF TypeOK, Outputs
    <3> QED BY <3>1, <3>2, <1>1 DEF Outputs
  <2> QED BY <2>1, <2>2, <1>1 DEF SucceedGlobal
<1>2. CASE ~SucceedGlobal(w)
  BY <1>2 DEF Phase2, ClaimGlobal, ClaimGlobalErrs, Prepare, LoadInputs, SyncInputs,
     SyncPartly, Diff, SpawnAgent, StepFails, AgentEdits, Heartbeat, HeartbeatErrs,
     AgentCompletes, AgentFails, ConfirmOwnership, RemoveBaseline, CommitBaseline,
     ConfirmOrResetFails, SucceedErrs, ShutdownAgent, dbVars
<1> QED BY <1>1, <1>2

LEMMA RecordAround ==
  ASSUME TypeOK, RecordsHold, Around
  PROVE  RecordsHold'
<1> USE DEF historyVars, Goto
<1>1. ASSUME NEW w \in Worker, Crash(w) PROVE RecordsHold'
  <2>1. UNCHANGED <<job, output, extracted>> /\ ~Fresh(w)'
    BY <1>1 DEF Crash, dbVars, Fresh, TypeOK
  <2>2. \A v \in Worker : found'[v] \subseteq found[v] /\ claims'[v] \subseteq claims[v]
    BY <1>1 DEF Crash, TypeOK
  <2>3. \A v \in Worker \ {w} : pc'[v] = pc[v] BY <1>1 DEF Crash, TypeOK
  <2>4. ClaimInv' BY <2>1, <2>2, <2>3 DEF RecordsHold, ClaimInv, Fresh, Owns
  <2> QED BY <2>1, <2>4 DEF RecordsHold, WatermarkIsExtracted, OutputMatchesWatermark
<1>2. ASSUME NEW t \in Thread, UpdateThread(t) \/ Pollute(t) PROVE RecordsHold'
  BY <1>2, RecordSame DEF UpdateThread, Pollute, workerVars, Fresh
<1>3. ASSUME NEW t \in Thread, LeaseEnds(t) \/ BackoffEnds(t) PROVE RecordsHold'
  BY <1>3, RecordDeadline
<1>4. CASE ResetDatabase
  <2>1. /\ UNCHANGED <<pc, found, claims, extracted>>
        /\ \A t \in Thread : job'[t] = NoJob /\ output'[t] = NoOutput
    BY <1>4 DEF ResetDatabase, workerVars
  <2>2. \A w \in Worker : \A s \in found[w] \union claims[w] : s.thread \in Thread
    BY DEF TypeOK, Snapshot
  <2>3. ClaimInv' BY <2>1, <2>2 DEF RecordsHold, ClaimInv, Owns, NoJob
  <2>4. WatermarkIsExtracted' BY <2>1 DEF WatermarkIsExtracted, NoJob, TypeOK
  <2> QED BY <2>1, <2>3, <2>4 DEF RecordsHold, OutputMatchesWatermark
<1>5. CASE ResetFiles \/ GlobalBackoffEnds \/ Tick
  BY <1>5, RecordSame DEF ResetFiles, GlobalBackoffEnds, Tick, dbVars, workerVars, Fresh
<1> QED BY <1>1, <1>2, <1>3, <1>4, <1>5 DEF Around

LEMMA RecordStep == RecordInv /\ [Next]_vars => RecordInv'
<1> SUFFICES ASSUME RecordInv, [Next]_vars PROVE RecordInv'
  OBVIOUS
<1>1. TypeOK /\ RecordsHold /\ TypeOK' BY TypeStep DEF RecordInv, RecordsHold
<1>2. CASE UNCHANGED vars
  BY <1>1, <1>2, RecordSame DEF vars, dbVars, workerVars, historyVars, Fresh, RecordInv, RecordsHold
<1>3. ASSUME NEW w \in Worker, Phase2(w) PROVE RecordsHold'
  <2>1. /\ UNCHANGED <<job, found, claims, extracted>>
        /\ \A v \in Worker : Fresh(v)' => Fresh(v)
    BY <1>1, <1>3, Phase2Frame
  <2>2. \A t \in Thread : output'[t] # NoOutput =>
          output[t] # NoOutput /\ output'[t].source = output[t].source
    BY <1>1, <1>3, OutputsKept
  <2> QED BY <1>1, <2>1, <2>2, RecordSame
<1>4. ASSUME Around PROVE RecordsHold'
  BY <1>1, <1>4, RecordAround
<1>5. ASSUME NEW w \in Worker, Phase1(w) PROVE RecordsHold'
  BY <1>1, <1>5, RecordPhase1
<1>6. ASSUME Next PROVE RecordsHold'
  BY <1>3, <1>4, <1>5, <1>6, NextCases
<1> QED BY <1>1, <1>2, <1>6 DEF RecordInv, RecordsHold

LEMMA RecordInvariance == Spec => []RecordInv
  BY InitRecord, RecordStep, PTL DEF Spec

-----------------------------------------------------------------------------
\* The lock, while nobody deletes its row.

LockInv ==
  /\ ~resetting
  /\ \A w \in Worker : Consolidating(w) =>
       OwnsGlobal(w) /\ global.lease > 0 /\ (w \in beaten => global.lease > 1)

LEMMA LockIsExclusive == LockInv => OneConsolidation
  BY DEF LockInv, OneConsolidation, OwnsGlobal

\* Whoever leaves phase 2, or was never in it, may change the row in any way
\* that keeps the owner's.
LEMMA LockKept ==
  ASSUME LockInv, UNCHANGED resetting,
         \A w \in Worker : Consolidating(w)' => Consolidating(w),
         \A w \in Worker : Consolidating(w)' =>
           /\ global'.status = global.status /\ global'.owner = global.owner
           /\ global'.lease > 0 /\ (w \in beaten' => global'.lease > 1)
  PROVE  LockInv'
  BY DEF LockInv, OwnsGlobal

LEMMA EnqueuedKeeps ==
  ASSUME LockInv, global' \in {global, Enqueued}, UNCHANGED <<resetting, pc, beaten>>
  PROVE  LockInv'
<1>1. ASSUME NEW w \in Worker, Consolidating(w)' PROVE Consolidating(w) /\ global' = global
  BY <1>1 DEF Consolidating, LockInv, OwnsGlobal, Enqueued
<1> QED BY <1>1, LockKept DEF LockInv

LEMMA LockPhase1 ==
  ASSUME TypeOK, LockInv, NEW w \in Worker, Phase1(w)
  PROVE  LockInv'
<1>1. CASE \/ Prune(w) \/ RateLimited(w) \/ Scan(w) \/ ClaimsMade(w) \/ ClaimErrs(w)
           \/ ExtractionsEnd(w)
  <2>1. /\ UNCHANGED <<global, resetting, beaten>>
        /\ \A v \in Worker : Consolidating(v)' => Consolidating(v)
    BY <1>1 DEF Prune, RateLimited, Scan, ClaimsMade, ClaimErrs, ExtractionsEnd, dbVars,
       fileVars, Goto, Consolidating, TypeOK
  <2> QED BY <2>1, LockKept DEF LockInv
<1>2. CASE Claim(w)
  BY <1>2, EnqueuedKeeps DEF Claim, fileVars
<1>3. ASSUME NEW c \in claims[w],
             \/ ExtractionSucceeds(w, c) \/ ExtractionIsEmpty(w, c)
             \/ ExtractionFails(w, c) \/ ResultLost(w, c)
      PROVE  LockInv'
  BY <1>3, EnqueuedKeeps DEF ExtractionSucceeds, ExtractionIsEmpty, ExtractionFails,
     ResultLost, Extracted, fileVars
<1> QED BY <1>1, <1>2, <1>3 DEF Phase1

\* The owner ends its own consolidation.
LEMMA LockLeft ==
  ASSUME TypeOK, LockInv, NEW w \in Worker, Consolidating(w), ~Consolidating(w)',
         UNCHANGED resetting, \A v \in Worker \ {w} : pc'[v] = pc[v]
  PROVE  LockInv'
<1>1. \A v \in Worker : ~Consolidating(v)'
  BY LockIsExclusive DEF OneConsolidation, Consolidating
<1> QED BY <1>1 DEF LockInv

LEMMA LockPhase2 ==
  ASSUME TypeOK, LockInv, NEW w \in Worker, Phase2(w)
  PROVE  LockInv'
<1> USE DEF Goto
<1>1. CASE ClaimGlobal(w)
  <2>1. UNCHANGED resetting /\ pc[w] = "consolidate" /\ \A v \in Worker \ {w} : pc'[v] = pc[v]
    BY <1>1 DEF ClaimGlobal, fileVars, TypeOK
  <2>2. CASE GlobalClaimable
    <3>1. \A v \in Worker : ~Consolidating(v)
      BY <2>2 DEF GlobalClaimable, GlobalRunning, LockInv, OwnsGlobal
    <3>2. \A v \in Worker \ {w} : ~Consolidating(v)' BY <2>1, <3>1 DEF Consolidating
    <3>3. Lease > 1 OBVIOUS
    <3>4. OwnsGlobal(w)' /\ global'.lease > 1 /\ global'.lease > 0
      BY <1>1, <2>2, <3>3 DEF ClaimGlobal, OwnsGlobal
    <3> QED BY <2>1, <3>2, <3>4 DEF LockInv
  <2>3. CASE ~GlobalClaimable
    <3>1. UNCHANGED <<global, beaten>> /\ pc'[w] = "ended" BY <1>1, <2>3 DEF ClaimGlobal, TypeOK
    <3>2. \A v \in Worker : Consolidating(v)' => Consolidating(v)
      BY <2>1, <3>1 DEF Consolidating
    <3> QED BY <2>1, <3>1, <3>2, LockKept DEF LockInv
  <2> QED BY <2>2, <2>3
<1>2. CASE \/ ClaimGlobalErrs(w) \/ Prepare(w) \/ LoadInputs(w) \/ SyncInputs(w) \/ SyncPartly(w)
           \/ Diff(w) \/ SpawnAgent(w) \/ AgentEdits(w) \/ AgentCompletes(w)
           \/ RemoveBaseline(w) \/ CommitBaseline(w) \/ SucceedErrs(w) \/ ShutdownAgent(w)
  <2>1. UNCHANGED <<global, resetting, beaten>>
    BY <1>2 DEF ClaimGlobalErrs, Prepare, LoadInputs, SyncInputs, SyncPartly, Diff, SpawnAgent,
       AgentEdits, AgentCompletes, RemoveBaseline, CommitBaseline, SucceedErrs, ShutdownAgent,
       dbVars, fileVars, workerVars
  <2>2. \A v \in Worker : Consolidating(v)' => Consolidating(v)
    BY <1>2 DEF ClaimGlobalErrs, Prepare, LoadInputs, SyncInputs, SyncPartly, Diff, SpawnAgent,
       AgentEdits, AgentCompletes, RemoveBaseline, CommitBaseline, SucceedErrs, ShutdownAgent,
       workerVars, Consolidating, TypeOK
  <2> QED BY <2>1, <2>2, LockKept DEF LockInv
<1>3. CASE \/ StepFails(w) \/ HeartbeatErrs(w) \/ AgentFails(w) \/ ConfirmOrResetFails(w)
           \/ SucceedGlobal(w)
  <2>1. Consolidating(w) /\ ~Consolidating(w)' /\ UNCHANGED resetting
        /\ \A v \in Worker \ {w} : pc'[v] = pc[v]
    BY <1>3 DEF StepFails, HeartbeatErrs, AgentFails, AfterFailure, ConfirmOrResetFails,
       SucceedGlobal, Consolidating, fileVars, TypeOK
  <2> QED BY <2>1, LockLeft
<1>4. CASE Heartbeat(w) \/ ConfirmOwnership(w)
  <2>1. Consolidating(w) /\ OwnsGlobal(w)
    BY <1>4 DEF Heartbeat, ConfirmOwnership, Consolidating, LockInv
  <2>2. global' = [global EXCEPT !.lease = Lease] /\ UNCHANGED resetting
        /\ \A v \in Worker : Consolidating(v)' => Consolidating(v)
    BY <1>4, <2>1 DEF Heartbeat, ConfirmOwnership, Renewed, Consolidating, fileVars, TypeOK
  <2>3. global \in GlobalJobs BY RowTypes
  <2>4. global'.status = global.status /\ global'.owner = global.owner /\ global'.lease > 1
    BY <2>2, <2>3 DEF GlobalJobs
  <2> QED BY <2>2, <2>4, LockKept
<1> QED BY <1>1, <1>2, <1>3, <1>4 DEF Phase2

LEMMA LockAround ==
  ASSUME TypeOK, LockInv, ~MayReset, Around
  PROVE  LockInv'
<1>1. ASSUME NEW w \in Worker, Crash(w) PROVE LockInv'
  <2>1. /\ UNCHANGED <<global, resetting, beaten>>
        /\ \A v \in Worker : Consolidating(v)' => Consolidating(v)
    BY <1>1 DEF Crash, Goto, dbVars, fileVars, Consolidating, TypeOK
  <2> QED BY <2>1, LockKept DEF LockInv
<1>2. ASSUME NEW t \in Thread, UpdateThread(t) \/ Pollute(t) \/ LeaseEnds(t) \/ BackoffEnds(t)
      PROVE  LockInv'
  BY <1>2, EnqueuedKeeps DEF UpdateThread, Pollute, LeaseEnds, BackoffEnds, fileVars, workerVars
<1>3. CASE GlobalBackoffEnds
  <2>1. global \in GlobalJobs BY RowTypes
  <2>2. UNCHANGED <<resetting, pc, beaten>> /\ global'.status = global.status
        /\ global'.owner = global.owner /\ global'.lease = global.lease
    BY <1>3, <2>1 DEF GlobalBackoffEnds, GlobalJobs, fileVars, workerVars
  <2> QED BY <2>2, LockKept DEF LockInv, Consolidating
<1>4. CASE Tick
  <2>1. global \in GlobalJobs BY RowTypes
  <2>2. UNCHANGED <<resetting, pc>> /\ beaten' = {} /\ global'.status = global.status
        /\ global'.owner = global.owner /\ global'.lease = global.lease - 1
    BY <1>4, <2>1 DEF Tick, GlobalJobs, fileVars
  <2>3. ASSUME NEW w \in Worker, Consolidating(w) PROVE global.lease > 1
    BY <1>4, <2>3 DEF Tick, InTime, LockInv
  <2>4. \A w \in Worker : Consolidating(w)' <=> Consolidating(w) BY <2>2 DEF Consolidating
  <2>5. global.lease > 1 => global'.lease > 0 BY <2>1, <2>2 DEF GlobalJobs
  <2> QED BY <2>2, <2>3, <2>4, <2>5, LockKept
<1> QED BY <1>1, <1>2, <1>3, <1>4 DEF Around, ResetDatabase, ResetFiles, LockInv

LEMMA LockStep == ASSUME ~MayReset PROVE TypeOK /\ LockInv /\ [Next]_vars => LockInv'
<1> SUFFICES ASSUME TypeOK, LockInv, [Next]_vars PROVE LockInv'
  OBVIOUS
<1>1. CASE UNCHANGED vars
  BY <1>1 DEF vars, dbVars, fileVars, workerVars, LockInv, Consolidating, OwnsGlobal
<1> QED BY <1>1, LockPhase1, LockPhase2, LockAround, NextCases

-----------------------------------------------------------------------------
\* The files.

Synced(w) == pc[w] \in {"synced", "changed", "watching", "completed", "confirmed",
                        "committing", "finishing"}
Prepared(w) == pc[w] \in {"prepared", "loaded", "synced", "changed", "watching",
                          "completed", "confirmed", "finishing"}

\* The baseline holds what agents have seen; where it is missing, the files do.
FileInv ==
  /\ BaselineWasConsolidated
  /\ baseline = NoBaseline => tree.inputs \subseteq consolidated
  /\ \A w \in Worker :
       /\ Synced(w) => tree.inputs = inputs[w]
       /\ Prepared(w) => baseline # NoBaseline
       /\ pc[w] \in {"completed", "confirmed", "committing"} => inputs[w] \subseteq consolidated
       /\ pc[w] = "finishing" => baseline = inputs[w]

USE NoBaselineAssumption

\* Steps of sessions that do not consolidate, or end to.
LEMMA FileKept ==
  ASSUME FileInv, UNCHANGED <<baseline, inputs, consolidated>>, tree'.inputs = tree.inputs,
         \A w \in Worker : pc'[w] = pc[w] \/ ~(Synced(w)' \/ Prepared(w)')
  PROVE  FileInv'
  BY DEF FileInv, BaselineWasConsolidated, Synced, Prepared

LEMMA FilePhase1 ==
  ASSUME TypeOK, FileInv, NEW w \in Worker, Phase1(w)
  PROVE  FileInv'
<1>1. UNCHANGED <<baseline, tree, inputs, consolidated>>
  BY DEF Phase1, Prune, RateLimited, Scan, Claim, ClaimsMade, ClaimErrs, ExtractionSucceeds,
     ExtractionIsEmpty, ExtractionFails, ResultLost, Extracted, ExtractionsEnd, fileVars, historyVars
<1>2. \A v \in Worker : pc'[v] = pc[v] \/ ~(Synced(v)' \/ Prepared(v)')
  BY DEF Phase1, Prune, RateLimited, Scan, Claim, ClaimsMade, ClaimErrs, ExtractionSucceeds,
     ExtractionIsEmpty, ExtractionFails, ResultLost, Extracted, ExtractionsEnd, Goto, TypeOK,
     Synced, Prepared
<1> QED BY <1>1, <1>2, FileKept

LEMMA FileAround ==
  ASSUME TypeOK, LockInv, FileInv, ~MayReset, Around
  PROVE  FileInv'
<1>1. UNCHANGED <<baseline, tree, inputs, consolidated>>
  BY DEF Around, Crash, UpdateThread, Pollute, LeaseEnds, BackoffEnds, ResetDatabase, ResetFiles,
     GlobalBackoffEnds, Tick, LockInv, fileVars, workerVars, historyVars
<1>2. \A v \in Worker : pc'[v] = pc[v] \/ ~(Synced(v)' \/ Prepared(v)')
  BY DEF Around, Crash, UpdateThread, Pollute, LeaseEnds, BackoffEnds, ResetDatabase, ResetFiles,
     GlobalBackoffEnds, Tick, LockInv, workerVars, Goto, TypeOK, Synced, Prepared
<1> QED BY <1>1, <1>2, FileKept

LEMMA FilePhase2 ==
  ASSUME TypeOK, LockInv, FileInv, NEW w \in Worker, Phase2(w)
  PROVE  FileInv'
<1> USE DEF Goto
<1>1. \A v \in Worker \ {w} : Consolidating(w) => ~Consolidating(v)
  BY LockIsExclusive DEF OneConsolidation
<1>2. \A v \in Worker : Synced(v) \/ Prepared(v) => Consolidating(v)
  BY DEF Synced, Prepared, Consolidating
<1>3. CASE \/ ClaimGlobal(w) \/ ClaimGlobalErrs(w) \/ AgentEdits(w) \/ SucceedGlobal(w)
           \/ SucceedErrs(w) \/ ShutdownAgent(w)
  <2>1. UNCHANGED <<baseline, inputs, consolidated>> /\ tree'.inputs = tree.inputs
    BY <1>3 DEF ClaimGlobal, ClaimGlobalErrs, AgentEdits, SucceedGlobal, SucceedErrs,
       ShutdownAgent, fileVars, historyVars, workerVars, TypeOK
  <2>2. \A v \in Worker : pc'[v] = pc[v] \/ ~(Synced(v)' \/ Prepared(v)')
    BY <1>3 DEF ClaimGlobal, ClaimGlobalErrs, AgentEdits, SucceedGlobal, SucceedErrs,
       ShutdownAgent, workerVars, Synced, Prepared, TypeOK
  <2> QED BY <2>1, <2>2, FileKept
<1>4. CASE \/ StepFails(w) \/ Heartbeat(w) \/ HeartbeatErrs(w) \/ AgentFails(w)
           \/ ConfirmOrResetFails(w)
  <2>1. UNCHANGED <<baseline, tree, inputs, consolidated>>
    BY <1>4 DEF StepFails, Heartbeat, HeartbeatErrs, AgentFails, ConfirmOrResetFails, fileVars,
       historyVars
  <2>2. \A v \in Worker : pc'[v] = pc[v] \/ ~(Synced(v)' \/ Prepared(v)')
    BY <1>4 DEF StepFails, Heartbeat, HeartbeatErrs, AgentFails, AfterFailure,
       ConfirmOrResetFails, Synced, Prepared, TypeOK
  <2> QED BY <2>1, <2>2, FileKept
<1>5. CASE Prepare(w)
  <2>1. \A v \in Worker \ {w} : pc'[v] = pc[v] /\ ~Synced(v) /\ ~Prepared(v)
    BY <1>1, <1>2, <1>5 DEF Prepare, Consolidating, TypeOK
  <2>2. UNCHANGED <<inputs, consolidated>> /\ tree'.inputs = tree.inputs /\ pc'[w] = "prepared"
        /\ baseline' = (IF baseline = NoBaseline THEN tree.inputs ELSE baseline)
    BY <1>5 DEF Prepare, historyVars, TypeOK
  <2>3. tree.inputs # NoBaseline BY DEF TypeOK
  <2> QED BY <2>1, <2>2, <2>3 DEF FileInv, BaselineWasConsolidated, Synced, Prepared
<1>6. CASE LoadInputs(w)
  <2>1. \A v \in Worker \ {w} : pc'[v] = pc[v] /\ inputs'[v] = inputs[v] /\ ~Consolidating(v)
    BY <1>1, <1>6 DEF LoadInputs, Consolidating, TypeOK
  <2>2. UNCHANGED <<baseline, tree, consolidated>> /\ pc'[w] = "loaded" /\ pc[w] = "prepared"
    BY <1>6 DEF LoadInputs, fileVars, historyVars, TypeOK
  <2> QED BY <2>1, <2>2 DEF FileInv, BaselineWasConsolidated, Synced, Prepared, Consolidating
<1>7. CASE SyncInputs(w) \/ SyncPartly(w)
  <2>1. \A v \in Worker \ {w} : pc'[v] = pc[v] /\ ~Consolidating(v)
    BY <1>1, <1>7 DEF SyncInputs, SyncPartly, workerVars, Consolidating, TypeOK
  <2>2. UNCHANGED <<baseline, inputs, consolidated>> /\ pc[w] = "loaded"
        /\ \/ pc'[w] = "loaded"
           \/ pc'[w] = "synced" /\ tree'.inputs = inputs[w]
    BY <1>7 DEF SyncInputs, SyncPartly, historyVars, workerVars, TypeOK
  <2>3. baseline # NoBaseline BY <2>2 DEF FileInv, Prepared
  <2> QED BY <2>1, <2>2, <2>3 DEF FileInv, BaselineWasConsolidated, Synced, Prepared, Consolidating
<1>8. CASE Diff(w) \/ SpawnAgent(w) \/ ConfirmOwnership(w)
  <2>1. \A v \in Worker \ {w} : pc'[v] = pc[v]
    BY <1>8 DEF Diff, SpawnAgent, ConfirmOwnership, TypeOK
  <2>2. UNCHANGED <<baseline, tree, inputs, consolidated>>
        /\ \/ pc[w] = "synced" /\ pc'[w] = "changed"
           \/ pc[w] = "synced" /\ pc'[w] = "finishing" /\ baseline = tree.inputs
           \/ pc[w] = "changed" /\ pc'[w] = "watching"
           \/ pc[w] = "completed" /\ pc'[w] \in {"confirmed", "closing"}
    BY <1>8 DEF Diff, HasChanges, SpawnAgent, ConfirmOwnership, fileVars, historyVars, TypeOK
  <2> QED BY <2>1, <2>2 DEF FileInv, BaselineWasConsolidated, Synced, Prepared
<1>9. CASE AgentCompletes(w)
  <2>1. \A v \in Worker \ {w} : pc'[v] = pc[v] BY <1>9 DEF AgentCompletes, TypeOK
  <2>2. UNCHANGED <<baseline, tree, inputs>> /\ pc[w] = "watching" /\ pc'[w] = "completed"
        /\ consolidated' = consolidated \union inputs[w]
    BY <1>9 DEF AgentCompletes, fileVars, TypeOK
  <2> QED BY <2>1, <2>2 DEF FileInv, BaselineWasConsolidated, Synced, Prepared
<1>10. CASE RemoveBaseline(w) \/ CommitBaseline(w)
  <2>1. \A v \in Worker \ {w} : pc'[v] = pc[v] /\ ~Consolidating(v)
    BY <1>1, <1>10 DEF RemoveBaseline, CommitBaseline, Consolidating, TypeOK
  <2>2. UNCHANGED <<inputs, consolidated>> /\ tree'.inputs = tree.inputs
        /\ \/ pc[w] = "confirmed" /\ pc'[w] = "committing" /\ baseline' = NoBaseline
           \/ pc[w] = "committing" /\ pc'[w] = "finishing" /\ baseline' = tree.inputs
    BY <1>10 DEF RemoveBaseline, CommitBaseline, historyVars, TypeOK
  <2>3. tree.inputs # NoBaseline BY DEF TypeOK
  <2>4. tree.inputs = inputs[w] /\ inputs[w] \subseteq consolidated
    BY <2>2 DEF FileInv, Synced
  <2> QED BY <2>1, <2>2, <2>3, <2>4
          DEF FileInv, BaselineWasConsolidated, Synced, Prepared, Consolidating
<1> QED BY <1>3, <1>4, <1>5, <1>6, <1>7, <1>8, <1>9, <1>10 DEF Phase2

LEMMA FileStep ==
  ASSUME ~MayReset PROVE TypeOK /\ LockInv /\ FileInv /\ [Next]_vars => FileInv'
<1> SUFFICES ASSUME TypeOK, LockInv, FileInv, [Next]_vars PROVE FileInv'
  OBVIOUS
<1>1. CASE UNCHANGED vars
  BY <1>1, FileKept DEF vars, fileVars, workerVars, historyVars
<1> QED BY <1>1, FilePhase1, FilePhase2, FileAround, NextCases

ExclusiveInv == TypeOK /\ LockInv /\ FileInv

LEMMA InitExclusive == Init => ExclusiveInv
<1> SUFFICES ASSUME Init PROVE ExclusiveInv
  OBVIOUS
<1>1. TypeOK BY InitRecord DEF RecordInv
<1>2. LockInv BY DEF Init, LockInv, Consolidating
<1>3. FileInv BY DEF Init, FileInv, BaselineWasConsolidated, Synced, Prepared
<1> QED BY <1>1, <1>2, <1>3 DEF ExclusiveInv

LEMMA ExclusiveInvariance == ASSUME ~MayReset PROVE Spec => []ExclusiveInv
<1>1. ExclusiveInv /\ [Next]_vars => ExclusiveInv'
  BY TypeStep, LockStep, FileStep DEF ExclusiveInv
<1> QED BY InitExclusive, <1>1, PTL DEF Spec

-----------------------------------------------------------------------------
\* What a step never does.

LEMMA SuccessGrows ==
  ASSUME ~MayReset, RecordInv, Next, NEW t \in Thread
  PROVE  job'[t].success >= job[t].success
<1> USE DEF RecordInv
<1>1. job \in [Thread -> Jobs] /\ job[t].success \in Nat BY DEF TypeOK, Jobs
<1>2. CASE UNCHANGED job BY <1>1, <1>2
<1>3. ASSUME NEW w \in Worker, Claim(w), job' # job PROVE job'[t].success = job[t].success
  <2>1. PICK f \in found[w] : job' = [job EXCEPT ![f.thread] = Claimed(w, f.thread, f.source)]
    BY <1>3 DEF Claim
  <2> QED BY <2>1, <1>1 DEF Claimed
<1>4. ASSUME NEW w \in Worker, NEW c \in claims[w], Owns(w, c.thread),
             job' = [job EXCEPT ![c.thread] = Done(c.thread)]
      PROVE  job'[t].success >= job[t].success
  <2>1. c.thread \in Thread BY DEF TypeOK, Snapshot
  <2>2. CASE t = c.thread
    <3>1. job'[t] = Done(t) BY <2>2, <1>4, <1>1
    <3>2. Done(t).success = job[t].input BY <1>1 DEF Done, Jobs
    <3>3. job[t].input > job[t].success /\ job[t].input \in Nat
      BY <2>2, <1>1, <1>4 DEF Owns, ClaimInv, Jobs
    <3> QED BY <3>1, <3>2, <3>3, <1>1
  <2>3. CASE t # c.thread BY <2>3, <1>1, <1>4
  <2> QED BY <2>2, <2>3
<1>5. ASSUME NEW u \in Thread,
             \/ job' = [job EXCEPT ![u] = FailedJob(u)]
             \/ job' = [job EXCEPT ![u] = [job[u] EXCEPT !.leased = FALSE]]
             \/ job' = [job EXCEPT ![u] = [job[u] EXCEPT !.waiting = FALSE]]
      PROVE  job'[t].success = job[t].success
  <2>1. job'[t] \in {job[t], FailedJob(t), [job[t] EXCEPT !.leased = FALSE],
                     [job[t] EXCEPT !.waiting = FALSE]}
    BY <1>5, <1>1
  <2>2. FailedJob(t).success = job[t].success BY <1>1 DEF FailedJob, Jobs
  <2>3. [job[t] EXCEPT !.leased = FALSE].success = job[t].success BY <1>1 DEF Jobs
  <2>4. [job[t] EXCEPT !.waiting = FALSE].success = job[t].success BY <1>1 DEF Jobs
  <2> QED BY <2>1, <2>2, <2>3, <2>4
<1>6. ASSUME NEW w \in Worker, Phase1(w), job' # job PROVE job'[t].success >= job[t].success
  <2>1. CASE Claim(w) BY <2>1, <1>1, <1>3, <1>6
  <2>2. ASSUME NEW c \in claims[w], ExtractionSucceeds(w, c) \/ ExtractionIsEmpty(w, c)
        PROVE  job'[t].success >= job[t].success
    BY <2>2, <1>4, <1>6 DEF ExtractionSucceeds, ExtractionIsEmpty
  <2>3. ASSUME NEW c \in claims[w], ExtractionFails(w, c)
        PROVE  job'[t].success >= job[t].success
    <3>1. c.thread \in Thread BY DEF TypeOK, Snapshot
    <3>2. job' = [job EXCEPT ![c.thread] = FailedJob(c.thread)]
      BY <2>3, <1>6 DEF ExtractionFails
    <3>3. job'[t].success = job[t].success BY <3>1, <3>2, <1>5
    <3> QED BY <3>3, <1>1
  <2> QED BY <2>1, <2>2, <2>3, <1>6
          DEF Phase1, Prune, RateLimited, Scan, ClaimsMade, ClaimErrs, ExtractionsEnd, ResultLost,
              dbVars
<1>7. ASSUME NEW w \in Worker, Phase2(w) PROVE UNCHANGED job
  BY <1>7, Phase2Frame
<1>8. ASSUME Around, job' # job PROVE job'[t].success >= job[t].success
  <2>1. PICK u \in Thread : LeaseEnds(u) \/ BackoffEnds(u)
    BY <1>8 DEF Around, Crash, UpdateThread, Pollute, ResetDatabase, ResetFiles,
       GlobalBackoffEnds, Tick, dbVars
  <2>2. \/ job' = [job EXCEPT ![u] = [job[u] EXCEPT !.leased = FALSE]]
        \/ job' = [job EXCEPT ![u] = [job[u] EXCEPT !.waiting = FALSE]]
    BY <2>1 DEF LeaseEnds, BackoffEnds
  <2> QED BY <2>2, <1>1, <1>5
<1> QED BY <1>2, <1>6, <1>7, <1>8, NextCases

\* Only a session that ends a consolidation marks the global job as done.
LEMMA OnlySuccessMarks ==
  ASSUME TypeOK, Next, global'.status = "done", global.status # "done"
  PROVE  \E w \in Worker : SucceedGlobal(w) /\ OwnsGlobal(w)
<1>1. global \in GlobalJobs /\ Enqueued.status # "done"
  BY RowTypes DEF Enqueued, GlobalJobs
<1>2. ASSUME NEW w \in Worker, FailOrErr(w) PROVE FALSE
  BY <1>1, <1>2 DEF FailOrErr, FailGlobal, GlobalJobs
<1>3. ASSUME NEW w \in Worker, Phase1(w) PROVE FALSE
  BY <1>1, <1>3 DEF Phase1, Prune, RateLimited, Scan, Claim, ClaimsMade, ClaimErrs,
     ExtractionSucceeds, ExtractionIsEmpty, ExtractionFails, ResultLost, ExtractionsEnd, dbVars
<1>4. ASSUME NEW w \in Worker, Phase2(w), ~(SucceedGlobal(w) /\ OwnsGlobal(w)) PROVE FALSE
  <2>1. CASE StepFails(w) \/ HeartbeatErrs(w) \/ AgentFails(w) \/ ConfirmOrResetFails(w)
    BY <2>1, <1>2 DEF StepFails, HeartbeatErrs, AgentFails, ConfirmOrResetFails
  <2>2. CASE Heartbeat(w) \/ ConfirmOwnership(w) \/ ClaimGlobal(w)
    BY <2>2, <1>1 DEF Heartbeat, ConfirmOwnership, ClaimGlobal, Renewed, GlobalJobs
  <2> QED BY <2>1, <2>2, <1>4
          DEF Phase2, ClaimGlobalErrs, Prepare, LoadInputs, SyncInputs, SyncPartly, Diff,
              SpawnAgent, AgentEdits, AgentCompletes, RemoveBaseline, CommitBaseline,
              SucceedGlobal, SucceedErrs, ShutdownAgent, dbVars
<1>5. ASSUME Around PROVE FALSE
  <2>1. CASE GlobalBackoffEnds
    BY <2>1, <1>1 DEF GlobalBackoffEnds, GlobalJobs
  <2>2. CASE Tick BY <2>2, <1>1 DEF Tick, GlobalJobs
  <2>3. CASE ResetDatabase BY <2>3 DEF ResetDatabase, NoGlobalJob
  <2> QED BY <2>1, <2>2, <2>3, <1>1, <1>5 DEF Around, Crash, UpdateThread, Pollute, LeaseEnds, BackoffEnds,
          ResetFiles, dbVars
<1> QED BY <1>3, <1>4, <1>5, NextCases

LEMMA SelectsBaseline ==
  ASSUME TypeOK, FileInv, NEW w \in Worker, SucceedGlobal(w), OwnsGlobal(w), NEW t \in Thread,
         output'[t] # NoOutput, output'[t].selected # 0
  PROVE  [thread |-> t, source |-> output'[t].source] \in baseline
<1>1. pc[w] = "finishing" /\ output' = Reselected(w) BY DEF SucceedGlobal
<1>2. baseline = inputs[w] BY <1>1 DEF FileInv
<1>3. output[t] # NoOutput /\ output[t] \in Outputs
  BY <1>1 DEF Reselected, TypeOK, Outputs
<1>4. output'[t] = [output[t] EXCEPT !.selected = IF IsInput(w, t) THEN output[t].source ELSE 0]
  BY <1>1, <1>3 DEF Reselected
<1>5. output'[t].source = output[t].source /\ IsInput(w, t)
  BY <1>3, <1>4 DEF Outputs
<1> QED BY <1>2, <1>5 DEF IsInput

-----------------------------------------------------------------------------
\* The limit on leased jobs.

Leased == {t \in Thread : Running(t)}

LEMMA LeasedGrowsByClaims ==
  ASSUME TypeOK, Next
  PROVE  \/ Leased' \subseteq Leased
         \/ \E t \in Thread : HasCapacity(t) /\ Leased' \subseteq (Leased \ {t}) \union {t}
<1>1. job \in [Thread -> Jobs] BY DEF TypeOK, Jobs
<1>2. CASE UNCHANGED job BY <1>2 DEF Leased, Running
<1>3. ASSUME NEW t \in Thread,
             \/ ~job'[t].leased
             \/ job'[t].leased = job[t].leased /\ job'[t].status = job[t].status,
             \A u \in Thread \ {t} : job'[u] = job[u]
      PROVE  Leased' \subseteq Leased
  BY <1>3, <1>1 DEF Leased, Running, Jobs
<1>4. ASSUME NEW w \in Worker, Claim(w), job' # job
      PROVE  \E t \in Thread : HasCapacity(t) /\ Leased' \subseteq (Leased \ {t}) \union {t}
  <2>1. PICK f \in found[w] : Claimable(f.thread, f.source)
                              /\ job' = [job EXCEPT ![f.thread] = Claimed(w, f.thread, f.source)]
    BY <1>4 DEF Claim
  <2>2. f.thread \in Thread BY DEF TypeOK, Snapshot
  <2>3. Leased' \subseteq (Leased \ {f.thread}) \union {f.thread}
    BY <2>1, <2>2, <1>1 DEF Leased, Running
  <2> QED BY <2>1, <2>2, <2>3 DEF Claimable
<1>5. ASSUME NEW w \in Worker, NEW c \in claims[w], job' # job,
             ExtractionSucceeds(w, c) \/ ExtractionIsEmpty(w, c) \/ ExtractionFails(w, c)
      PROVE  Leased' \subseteq Leased
  <2>1. c.thread \in Thread BY DEF TypeOK, Snapshot
  <2>2. job' \in {[job EXCEPT ![c.thread] = Done(c.thread)],
                  [job EXCEPT ![c.thread] = FailedJob(c.thread)]}
    BY <1>5 DEF ExtractionSucceeds, ExtractionIsEmpty, ExtractionFails
  <2>3. /\ job'[c.thread] \in {Done(c.thread), FailedJob(c.thread)}
        /\ \A u \in Thread \ {c.thread} : job'[u] = job[u]
    BY <2>1, <2>2, <1>1
  <2>4. job'[c.thread].status # "running"
    BY <2>1, <2>3, RowTypes
  <2> QED BY <2>1, <2>3, <2>4 DEF Leased, Running
<1>6. ASSUME NEW t \in Thread, LeaseEnds(t) \/ BackoffEnds(t)
      PROVE  Leased' \subseteq Leased
  <2>1. \/ job' = [job EXCEPT ![t] = [job[t] EXCEPT !.leased = FALSE]]
        \/ job' = [job EXCEPT ![t] = [job[t] EXCEPT !.waiting = FALSE]]
    BY <1>6 DEF LeaseEnds, BackoffEnds
  <2>2. /\ ~job'[t].leased \/ (job'[t].leased = job[t].leased /\ job'[t].status = job[t].status)
        /\ \A u \in Thread \ {t} : job'[u] = job[u]
    BY <2>1, <1>1 DEF Jobs
  <2> QED BY <2>2, <1>3
<1>7. CASE ResetDatabase BY <1>7 DEF ResetDatabase, NoJob, Leased, Running
<1>8. ASSUME NEW w \in Worker, Phase1(w), job' # job
      PROVE  Claim(w) \/ \E c \in claims[w] : \/ ExtractionSucceeds(w, c)
                                             \/ ExtractionIsEmpty(w, c)
                                             \/ ExtractionFails(w, c)
  BY <1>8 DEF Phase1, Prune, RateLimited, Scan, ClaimsMade, ClaimErrs, ExtractionsEnd, ResultLost,
     dbVars
<1>9. ASSUME Around, job' # job
      PROVE  ResetDatabase \/ \E t \in Thread : LeaseEnds(t) \/ BackoffEnds(t)
  BY <1>9 DEF Around, Crash, UpdateThread, Pollute, ResetFiles, GlobalBackoffEnds, Tick, dbVars
<1>10. ASSUME NEW w \in Worker, Phase2(w) PROVE UNCHANGED job
  BY <1>10, Phase2Frame
<1> QED BY <1>2, <1>4, <1>5, <1>6, <1>7, <1>8, <1>9, <1>10, NextCases

LEMMA BoundStep ==
  ASSUME TypeOK, RunningJobsBounded, Next
  PROVE  RunningJobsBounded'
<1>1. IsFiniteSet(Leased) /\ Cardinality(Leased) \in Nat
  BY FS_Subset, FS_CardinalityType DEF Leased
<1>2. Cardinality(Leased) <= MaxRunning BY DEF RunningJobsBounded, Leased
<1>3. CASE Leased' \subseteq Leased
  <2>1. Cardinality(Leased') \in Nat /\ Cardinality(Leased') <= Cardinality(Leased)
    BY <1>1, <1>3, FS_Subset, FS_CardinalityType
  <2>2. Cardinality(Leased') <= MaxRunning BY <1>1, <1>2, <2>1
  <2> QED BY <2>2 DEF RunningJobsBounded, Leased
<1>4. ASSUME NEW t \in Thread, HasCapacity(t), Leased' \subseteq (Leased \ {t}) \union {t}
      PROVE  RunningJobsBounded'
  <2> DEFINE Others == Leased \ {t}
  <2>1. Others = {u \in Thread \ {t} : Running(u)} BY DEF Leased
  <2>2. Cardinality(Others) < MaxRunning BY <2>1, <1>4 DEF HasCapacity
  <2>3. IsFiniteSet(Others) /\ Cardinality(Others) \in Nat
    BY <1>1, FS_Subset, FS_CardinalityType
  <2>4. /\ IsFiniteSet(Others \union {t})
        /\ Cardinality(Others \union {t}) = Cardinality(Others) + 1
    BY <2>3, FS_AddElement
  <2>5. Cardinality(Leased') \in Nat /\ Cardinality(Leased') <= Cardinality(Others \union {t})
    BY <2>4, <1>4, FS_Subset, FS_CardinalityType
  <2>6. Cardinality(Leased') <= MaxRunning BY <2>2, <2>3, <2>4, <2>5
  <2> QED BY <2>6 DEF RunningJobsBounded, Leased
<1> QED BY <1>3, <1>4, LeasedGrowsByClaims

-----------------------------------------------------------------------------
\* The promise of MemoryPipeline, while memory is not reset.

\* What a session loads to consolidate was recorded, and records move on.
InputsRecorded ==
  \A w \in Worker : \A s \in inputs[w] : s.source <= job[s.thread].success

PipelineInv == RecordInv /\ ExclusiveInv /\ InputsRecorded

LEMMA InputsFrame ==
  ASSUME Next
  PROVE  UNCHANGED inputs \/ \E w \in Worker : LoadInputs(w)
<1>1. ASSUME NEW w \in Worker, Phase1(w) PROVE UNCHANGED inputs
  BY <1>1 DEF Phase1, Prune, RateLimited, Scan, Claim, ClaimsMade, ClaimErrs, ExtractionSucceeds,
     ExtractionIsEmpty, ExtractionFails, ResultLost, Extracted, ExtractionsEnd
<1>2. ASSUME NEW w \in Worker, Phase2(w), ~LoadInputs(w) PROVE UNCHANGED inputs
  BY <1>2 DEF Phase2, ClaimGlobal, ClaimGlobalErrs, Prepare, SyncInputs, SyncPartly, Diff,
     SpawnAgent, StepFails, AgentEdits, Heartbeat, HeartbeatErrs, AgentCompletes, AgentFails,
     ConfirmOwnership, RemoveBaseline, CommitBaseline, ConfirmOrResetFails, SucceedGlobal,
     SucceedErrs, ShutdownAgent, workerVars
<1>3. ASSUME Around PROVE UNCHANGED inputs
  BY <1>3 DEF Around, Crash, UpdateThread, Pollute, LeaseEnds, BackoffEnds, ResetDatabase,
     ResetFiles, GlobalBackoffEnds, Tick, workerVars
<1> QED BY <1>1, <1>2, <1>3, NextCases

LEMMA InputsStep ==
  ASSUME ~MayReset PROVE PipelineInv /\ [Next]_vars => InputsRecorded'
<1> SUFFICES ASSUME PipelineInv, [Next]_vars PROVE InputsRecorded'
  OBVIOUS
<1>1. TypeOK /\ RecordInv /\ InputsRecorded /\ OutputMatchesWatermark
  BY DEF PipelineInv, RecordInv
<1>2. CASE UNCHANGED vars
  BY <1>1, <1>2 DEF vars, dbVars, workerVars, InputsRecorded
<1>3. CASE Next
  <2>1. \A t \in Thread : job'[t].success >= job[t].success BY <1>1, <1>3, SuccessGrows
  <2>2. \A t \in Thread : job[t].success \in Nat BY <1>1 DEF TypeOK
  <2>3. TypeOK' BY <1>1, TypeStep
  <2>4. \A t \in Thread : job'[t].success \in Nat BY <2>3 DEF TypeOK
  <2>5. \A w \in Worker : \A s \in inputs[w] : s.thread \in Thread /\ s.source \in Nat
    BY <1>1 DEF TypeOK, Snapshot, Sources
  <2>6. CASE UNCHANGED inputs
    BY <1>1, <2>1, <2>2, <2>4, <2>5, <2>6 DEF InputsRecorded
  <2>7. ASSUME NEW w \in Worker, LoadInputs(w) PROVE InputsRecorded'
    <3>1. UNCHANGED <<job, output>> BY <2>7 DEF LoadInputs, dbVars
    <3>2. \A v \in Worker \ {w} : inputs'[v] = inputs[v] BY <1>1, <2>7 DEF LoadInputs, TypeOK
    <3>3. ASSUME NEW s \in inputs'[w] PROVE s.source = job[s.thread].success
      <4>1. PICK t \in Eligible : s = [thread |-> t, source |-> output[t].source]
        BY <1>1, <2>7, <3>3 DEF LoadInputs, TypeOK
      <4>2. t \in Thread /\ output[t] # NoOutput BY DEF Eligible
      <4>3. s.thread = t /\ s.source = output[t].source BY <4>1
      <4> QED BY <1>1, <4>2, <4>3 DEF OutputMatchesWatermark
    <3>4. \A s \in inputs'[w] : s.source <= job'[s.thread].success
      <4> SUFFICES ASSUME NEW s \in inputs'[w] PROVE s.source <= job'[s.thread].success
        OBVIOUS
      <4>1. s.thread \in Thread BY <2>3 DEF TypeOK, Snapshot
      <4> QED BY <3>1, <3>3, <4>1, <2>2
    <3> QED BY <1>1, <3>1, <3>2, <3>4 DEF InputsRecorded
  <2> QED BY <1>3, <2>6, <2>7, InputsFrame
<1> QED BY <1>2, <1>3

LEMMA PipelineInvariance == ASSUME ~MayReset PROVE Spec => []PipelineInv
<1>1. Init => PipelineInv
  BY InitRecord, InitExclusive DEF Init, PipelineInv, InputsRecorded
<1>2. PipelineInv /\ [Next]_vars => PipelineInv'
  <2>1. ExclusiveInv /\ [Next]_vars => ExclusiveInv'
    BY TypeStep, LockStep, FileStep DEF ExclusiveInv
  <2> QED BY <2>1, RecordStep, InputsStep DEF PipelineInv
<1> QED BY <1>1, <1>2, PTL DEF Spec

\* Who holds the consolidation, told by the set of those inside it.
HolderOf(S) == IF S = {} THEN NoOwner ELSE CHOOSE w \in S : TRUE

LEMMA HolderSteps ==
  /\ Holder = HolderOf(Consolidators) /\ Holder' = HolderOf(Consolidators')
  /\ HolderOf({}) = NoOwner /\ \A w \in Worker : HolderOf({w}) = w
<1>1. Holder = HolderOf(Consolidators) BY DEF Holder, HolderOf
<1>2. Holder' = HolderOf(Consolidators') BY DEF Holder, HolderOf
<1>3. HolderOf({}) = NoOwner BY DEF HolderOf
<1>4. ASSUME NEW w \in Worker PROVE HolderOf({w}) = w
  <2>1. {w} # {} /\ \A v \in {w} : v = w OBVIOUS
  <2>2. (CHOOSE v \in {w} : TRUE) \in {w} OBVIOUS
  <2> QED BY <2>1, <2>2 DEF HolderOf
<1> QED BY <1>1, <1>2, <1>3, <1>4

LEMMA HolderIs ==
  ASSUME LockInv, NEW w \in Worker, Consolidating(w)
  PROVE  Consolidators = {w} /\ Holder = w /\ Holder # NoOwner
<1>1. Consolidators = {w}
  BY LockIsExclusive DEF OneConsolidation, Consolidators
<1> QED BY <1>1, HolderSteps

LEMMA HolderKept ==
  ASSUME \A w \in Worker : Consolidating(w)' <=> Consolidating(w)
  PROVE  Holder' = Holder
<1>1. Consolidators' = Consolidators BY DEF Consolidators
<1> QED BY <1>1, HolderSteps

Kept == UNCHANGED <<output, extracted, consolidated>>
        /\ \A t \in Thread : job'[t].success = job[t].success

LEMMA MappedKept ==
  ASSUME Kept
  PROVE  UNCHANGED <<extracted, consolidated>> /\ Recorded' = Recorded /\ Stored' = Stored
         /\ Chosen' = Chosen
<1>1. Recorded' = Recorded BY DEF Kept, Recorded
<1>2. Stored' = Stored BY DEF Kept, Stored, OutputSource
<1>3. Chosen' = Chosen BY DEF Kept, Chosen
<1> QED BY <1>1, <1>2, <1>3 DEF Kept

\* The steps that the promise does not see.
LEMMA StepUnseen ==
  ASSUME Kept, UNCHANGED baseline, \A w \in Worker : Consolidating(w)' <=> Consolidating(w)
  PROVE  UNCHANGED Pipeline!pipelineVars
  BY MappedKept, HolderKept DEF Pipeline!pipelineVars

\* The session that consolidates ends it, for whatever reason.
LEMMA StepLetsGo ==
  ASSUME LockInv, Kept, UNCHANGED baseline, NEW w \in Worker, Consolidating(w), ~Consolidating(w)',
         \A v \in Worker \ {w} : pc'[v] = pc[v]
  PROVE  Pipeline!LetGo
<1>1. Consolidators' = {}
  BY LockIsExclusive DEF OneConsolidation, Consolidators, Consolidating
<1>2. Holder' = NoOwner BY <1>1, HolderSteps
<1> QED BY <1>2, MappedKept DEF Pipeline!LetGo

LEMMA RefineInit == Init => Pipeline!Init
<1> SUFFICES ASSUME Init PROVE Pipeline!Init
  OBVIOUS
<1>1. Recorded = [t \in Thread |-> 0] BY DEF Init, Recorded, NoJob
<1>2. Stored = [t \in Thread |-> 0] BY DEF Init, Stored, OutputSource
<1>3. Chosen = [t \in Thread |-> 0] BY DEF Init, Chosen
<1>4. Consolidators = {} BY DEF Init, Consolidators, Consolidating
<1>5. Holder = NoOwner BY <1>4, HolderSteps
<1> QED BY <1>1, <1>2, <1>3, <1>5 DEF Init, Pipeline!Init

LEMMA RefinePrune ==
  ASSUME PipelineInv, NEW w \in Worker, Prune(w)
  PROVE  Pipeline!Next
<1>1. TypeOK BY DEF PipelineInv, RecordInv
<1>2. PICK stale \in SUBSET {t \in Thread : output[t] # NoOutput /\ output[t].selected = 0} :
        output' = [t \in Thread |-> IF t \in stale THEN NoOutput ELSE output[t]]
  BY DEF Prune
<1>3. stale \in SUBSET Thread /\ \A t \in stale : output[t] # NoOutput /\ output[t].selected = 0
  OBVIOUS
<1>4. UNCHANGED <<job, extracted, consolidated, baseline>> BY DEF Prune, fileVars, historyVars
<1>5. Holder' = Holder
  <2>1. \A v \in Worker : Consolidating(v)' <=> Consolidating(v)
    BY <1>1 DEF Prune, Goto, Consolidating, TypeOK
  <2> QED BY <2>1, HolderKept
<1>6. Recorded' = Recorded BY <1>4 DEF Recorded
<1>7. Stored' = [t \in Thread |-> IF t \in stale THEN 0 ELSE Stored[t]]
  BY <1>2 DEF Stored, OutputSource
<1>8. Chosen' = Chosen BY <1>2, <1>3 DEF Chosen
<1>9. \A t \in stale : Chosen[t] = 0 BY <1>3 DEF Chosen
<1>10. Pipeline!Prune(stale)
  BY <1>4, <1>5, <1>6, <1>7, <1>8, <1>9 DEF Pipeline!Prune
<1> QED BY <1>3, <1>10 DEF Pipeline!Next

LEMMA RefineExtraction ==
  ASSUME PipelineInv, NEW w \in Worker, NEW c \in claims[w],
         ExtractionSucceeds(w, c) \/ ExtractionIsEmpty(w, c)
  PROVE  Pipeline!Next
<1>1. TypeOK /\ ClaimInv /\ OutputMatchesWatermark BY DEF PipelineInv, RecordInv
<1>2. c.thread \in Thread /\ c.source \in Sources BY <1>1 DEF TypeOK, Snapshot
<1>3. UNCHANGED <<pc, consolidated, baseline>>
  BY DEF ExtractionSucceeds, ExtractionIsEmpty, Extracted, fileVars
<1>4. Holder' = Holder BY <1>3, HolderKept DEF Consolidating
<1>5. Pipeline!Extracted(c.thread, c.source)
  <2>1. extracted' = [extracted EXCEPT ![c.thread] = MaxOf(@, c.source)]
    BY DEF ExtractionSucceeds, ExtractionIsEmpty
  <2>2. extracted \in [Thread -> Nat] /\ c.source \in Nat
    BY <1>1, <1>2 DEF TypeOK, Sources
  <2>3. MaxOf(extracted[c.thread], c.source)
          = IF extracted[c.thread] < c.source THEN c.source ELSE extracted[c.thread]
    BY <2>2, <1>2 DEF MaxOf
  <2> QED BY <2>1, <2>3 DEF Pipeline!Extracted
<1>6. CASE ~Owns(w, c.thread)
  <2>1. UNCHANGED <<job, output>> BY <1>6 DEF ExtractionSucceeds, ExtractionIsEmpty
  <2>2. Recorded' = Recorded /\ Stored' = Stored /\ Chosen' = Chosen
    BY <2>1 DEF Recorded, Stored, Chosen, OutputSource
  <2>3. Pipeline!Extract(c.thread, c.source)
    BY <1>3, <1>4, <1>5, <2>2 DEF Pipeline!Extract
  <2> QED BY <1>2, <2>3 DEF Pipeline!Next
<1>7. CASE Owns(w, c.thread)
  <2>1. c.source = job[c.thread].input /\ job[c.thread].success < c.source
    BY <1>1, <1>2, <1>7 DEF ClaimInv, Owns
  <2>2. job' = [job EXCEPT ![c.thread] = Done(c.thread)]
        /\ output' \in {[output EXCEPT ![c.thread] = Upserted(c)],
                        [output EXCEPT ![c.thread] = NoOutput]}
    BY <1>7 DEF ExtractionSucceeds, ExtractionIsEmpty
  <2>3. job'[c.thread].success = c.source /\ \A t \in Thread \ {c.thread} : job'[t] = job[t]
    BY <1>1, <1>2, <2>1, <2>2 DEF Done, TypeOK
  <2>4. Recorded' = [Recorded EXCEPT ![c.thread] = c.source]
    BY <1>2, <2>3 DEF Recorded
  <2>5. Recorded[c.thread] < c.source BY <1>2, <2>1 DEF Recorded
  <2>6. CASE output' = [output EXCEPT ![c.thread] = NoOutput]
    <3>1. output'[c.thread] = NoOutput /\ \A t \in Thread \ {c.thread} : output'[t] = output[t]
      BY <1>1, <1>2, <2>6 DEF TypeOK
    <3>2. Stored' = [Stored EXCEPT ![c.thread] = 0] BY <1>2, <3>1 DEF Stored, OutputSource
    <3>3. Chosen' = [Chosen EXCEPT ![c.thread] = 0] BY <1>2, <3>1 DEF Chosen
    <3>4. Pipeline!Record(c.thread, c.source)
      BY <1>3, <1>4, <1>5, <2>4, <2>5, <3>2, <3>3 DEF Pipeline!Record
    <3> QED BY <1>2, <3>4 DEF Pipeline!Next
  <2>7. CASE output' = [output EXCEPT ![c.thread] = Upserted(c)]
    <3>1. OutputSource(c.thread) <= job[c.thread].success
      BY <1>1, <1>2 DEF OutputSource, OutputMatchesWatermark, TypeOK
    <3>2. ~(OutputSource(c.thread) > c.source)
      BY <1>1, <1>2, <2>1, <3>1 DEF OutputSource, TypeOK, Sources
    <3>3. Upserted(c) = [source |-> c.source,
                         selected |-> IF output[c.thread] = NoOutput THEN 0
                                      ELSE output[c.thread].selected]
      BY <3>2 DEF Upserted
    <3>4. Upserted(c) # NoOutput /\ Upserted(c).source = c.source
      <4>1. Upserted(c) \in Outputs
        BY <1>1, <1>2, <3>3 DEF Outputs, TypeOK
      <4> QED BY <4>1, <3>3, NoOutputAssumption DEF Outputs
    <3>5. output'[c.thread] = Upserted(c) /\ \A t \in Thread \ {c.thread} : output'[t] = output[t]
      BY <1>1, <1>2, <2>7 DEF TypeOK
    <3>6. Stored' = [Stored EXCEPT ![c.thread] = c.source]
      BY <1>2, <3>4, <3>5 DEF Stored, OutputSource
    <3>7. Chosen' = Chosen BY <1>2, <3>3, <3>4, <3>5 DEF Chosen
    <3>8. Pipeline!Record(c.thread, c.source)
      BY <1>3, <1>4, <1>5, <2>4, <2>5, <3>6, <3>7 DEF Pipeline!Record
    <3> QED BY <1>2, <3>8 DEF Pipeline!Next
  <2> QED BY <2>2, <2>6, <2>7
<1> QED BY <1>6, <1>7

\* What phase 1 and the world around the pipelines do beside these.
LEMMA RefinePhase1 ==
  ASSUME PipelineInv, NEW w \in Worker, Phase1(w)
  PROVE  [Pipeline!Next]_(Pipeline!pipelineVars)
<1>1. TypeOK BY DEF PipelineInv, RecordInv
<1>2. CASE Prune(w) BY <1>2, RefinePrune
<1>3. ASSUME NEW c \in claims[w], ExtractionSucceeds(w, c) \/ ExtractionIsEmpty(w, c)
      PROVE  Pipeline!Next
  BY <1>3, RefineExtraction
<1>4. CASE RateLimited(w) \/ Scan(w) \/ ClaimsMade(w) \/ ClaimErrs(w) \/ ExtractionsEnd(w)
  <2>1. Kept /\ UNCHANGED baseline
    BY <1>4 DEF RateLimited, Scan, ClaimsMade, ClaimErrs, ExtractionsEnd, dbVars, fileVars,
       historyVars, Kept
  <2>2. \A v \in Worker : Consolidating(v)' <=> Consolidating(v)
    BY <1>1, <1>4 DEF RateLimited, Scan, ClaimsMade, ClaimErrs, ExtractionsEnd, Goto, Consolidating,
       TypeOK
  <2> QED BY <2>1, <2>2, StepUnseen
<1>5. ASSUME \/ Claim(w)
             \/ \E c \in claims[w] : ExtractionFails(w, c) \/ ResultLost(w, c)
      PROVE  UNCHANGED Pipeline!pipelineVars
  <2>1. UNCHANGED <<pc, output, extracted, consolidated, baseline>>
    BY <1>5 DEF Claim, ExtractionFails, ResultLost, Extracted, fileVars, historyVars
  <2>2. ASSUME NEW t \in Thread PROVE job'[t].success = job[t].success
    <3>1. job \in [Thread -> Jobs] BY <1>1 DEF TypeOK, Jobs
    <3>2. ASSUME NEW f \in found[w],
                 job' = [job EXCEPT ![f.thread] = Claimed(w, f.thread, f.source)]
          PROVE  job'[t].success = job[t].success
      BY <3>1, <3>2 DEF Claimed
    <3>3. ASSUME NEW c \in claims[w], job' = [job EXCEPT ![c.thread] = FailedJob(c.thread)]
          PROVE  job'[t].success = job[t].success
      <4>1. \/ job'[t] = job[t]
            \/ t = c.thread /\ job'[t] = FailedJob(t)
        BY <3>1, <3>3
      <4> QED BY <3>1, <4>1 DEF FailedJob, Jobs
    <3> QED BY <1>5, <3>2, <3>3 DEF Claim, ExtractionFails, ResultLost
  <2>3. Kept BY <2>1, <2>2 DEF Kept
  <2> QED BY <2>1, <2>3, StepUnseen DEF Consolidating
<1> QED BY <1>2, <1>3, <1>4, <1>5 DEF Phase1

LEMMA RefineAround ==
  ASSUME PipelineInv, ~MayReset, Around
  PROVE  [Pipeline!Next]_(Pipeline!pipelineVars)
<1>1. TypeOK /\ LockInv BY DEF PipelineInv, RecordInv, ExclusiveInv
<1>2. ASSUME NEW w \in Worker, Crash(w) PROVE [Pipeline!Next]_(Pipeline!pipelineVars)
  <2>1. Kept /\ UNCHANGED baseline BY <1>2 DEF Crash, dbVars, fileVars, historyVars, Kept
  <2>2. ~Consolidating(w)' /\ \A v \in Worker \ {w} : pc'[v] = pc[v]
    BY <1>1, <1>2 DEF Crash, Goto, Consolidating, TypeOK
  <2>3. CASE Consolidating(w)
    <3>1. Pipeline!LetGo BY <1>1, <2>1, <2>2, <2>3, StepLetsGo
    <3> QED BY <3>1 DEF Pipeline!Next
  <2>4. CASE ~Consolidating(w)
    <3>1. \A v \in Worker : Consolidating(v)' <=> Consolidating(v)
      BY <2>2, <2>4 DEF Consolidating
    <3> QED BY <2>1, <3>1, StepUnseen
  <2> QED BY <2>3, <2>4
<1>3. ASSUME \/ GlobalBackoffEnds \/ Tick
             \/ \E t \in Thread : UpdateThread(t) \/ Pollute(t)
                                 \/ LeaseEnds(t) \/ BackoffEnds(t)
      PROVE  UNCHANGED Pipeline!pipelineVars
  <2>1. UNCHANGED <<pc, output, extracted, consolidated, baseline>>
    BY <1>3 DEF UpdateThread, Pollute, LeaseEnds, BackoffEnds, GlobalBackoffEnds, Tick, fileVars,
       workerVars, historyVars
  <2>2. ASSUME NEW t \in Thread PROVE job'[t].success = job[t].success
    <3>1. job \in [Thread -> Jobs] BY <1>1 DEF TypeOK, Jobs
    <3>2. ASSUME NEW u \in Thread, LeaseEnds(u) \/ BackoffEnds(u)
          PROVE  job'[t].success = job[t].success
      <4>1. \/ job' = [job EXCEPT ![u] = [job[u] EXCEPT !.leased = FALSE]]
            \/ job' = [job EXCEPT ![u] = [job[u] EXCEPT !.waiting = FALSE]]
        BY <3>2 DEF LeaseEnds, BackoffEnds
      <4>2. job'[t] \in {job[t], [job[t] EXCEPT !.leased = FALSE],
                         [job[t] EXCEPT !.waiting = FALSE]}
        BY <3>1, <4>1
      <4>3. job[t] \in Jobs BY <3>1
      <4> QED BY <4>2, <4>3 DEF Jobs
    <3> QED BY <1>3, <3>2 DEF GlobalBackoffEnds, Tick, UpdateThread, Pollute
  <2>3. Kept BY <2>1, <2>2 DEF Kept
  <2> QED BY <2>1, <2>3, StepUnseen DEF Consolidating
<1> QED BY <1>1, <1>2, <1>3 DEF Around, ResetDatabase, ResetFiles, LockInv

\* Phase 2 up to the agent's completion, and after it to the commit.
LEMMA RefineWork ==
  ASSUME PipelineInv, NEW w \in Worker,
         \/ ClaimGlobal(w) \/ Prepare(w) \/ AgentCompletes(w)
         \/ RemoveBaseline(w) \/ CommitBaseline(w)
  PROVE  [Pipeline!Next]_(Pipeline!pipelineVars)
<1> USE DEF Goto
<1>1. TypeOK /\ LockInv /\ FileInv /\ InputsRecorded
  BY DEF PipelineInv, RecordInv, ExclusiveInv
<1>2. UNCHANGED <<job, output, extracted>> /\ \A v \in Worker \ {w} : pc'[v] = pc[v]
  BY <1>1 DEF ClaimGlobal, Prepare, AgentCompletes, RemoveBaseline, CommitBaseline, dbVars,
     historyVars, TypeOK
<1>3. Recorded' = Recorded /\ Stored' = Stored /\ Chosen' = Chosen
  BY <1>2 DEF Recorded, Stored, OutputSource, Chosen
<1>4. CASE ClaimGlobal(w)
  <2>1. UNCHANGED <<consolidated, baseline>> BY <1>4 DEF ClaimGlobal, fileVars, historyVars
  <2>2. CASE GlobalClaimable
    <3>1. \A v \in Worker : ~Consolidating(v)
      BY <1>1, <2>2 DEF GlobalClaimable, GlobalRunning, LockInv, OwnsGlobal
    <3>2. \A v \in Worker : Consolidating(v)' <=> v = w
      BY <1>1, <1>2, <1>4, <2>2, <3>1 DEF ClaimGlobal, Consolidating, TypeOK
    <3>3. Consolidators = {} /\ Consolidators' = {w} BY <3>1, <3>2 DEF Consolidators
    <3>4. Holder = NoOwner /\ Holder' = w BY <3>3, HolderSteps
    <3>5. Pipeline!Take(w) BY <1>2, <1>3, <2>1, <3>4 DEF Pipeline!Take
    <3> QED BY <3>5 DEF Pipeline!Next
  <2>3. CASE ~GlobalClaimable
    <3>1. \A v \in Worker : Consolidating(v)' <=> Consolidating(v)
      BY <1>1, <1>2, <1>4, <2>3 DEF ClaimGlobal, Consolidating, TypeOK
    <3>2. Kept BY <1>2, <2>1 DEF Kept
    <3> QED BY <2>1, <3>1, <3>2, StepUnseen
  <2> QED BY <2>2, <2>3
<1>5. CASE Prepare(w) \/ RemoveBaseline(w) \/ CommitBaseline(w) \/ AgentCompletes(w)
  <2>1. Consolidating(w) /\ Consolidating(w)'
    BY <1>1, <1>5 DEF Prepare, AgentCompletes, RemoveBaseline, CommitBaseline, Consolidating, TypeOK
  <2>2. Holder # NoOwner BY <1>1, <2>1, HolderIs
  <2>3. \A v \in Worker : Consolidating(v)' <=> Consolidating(v)
    BY <1>2, <2>1 DEF Consolidating
  <2>4. Holder' = Holder BY <2>3, HolderKept
  <2>5. CASE AgentCompletes(w)
    <3>1. consolidated' = consolidated \union inputs[w] /\ UNCHANGED baseline
      BY <2>5 DEF AgentCompletes, fileVars
    <3>2. \A s \in inputs[w] : s.source <= Recorded[s.thread]
      BY <1>1 DEF InputsRecorded, Recorded, TypeOK, Snapshot
    <3>3. Pipeline!See BY <1>2, <1>3, <2>2, <2>4, <3>1, <3>2 DEF Pipeline!See
    <3> QED BY <3>3 DEF Pipeline!Next
  <2>6. CASE Prepare(w) \/ RemoveBaseline(w) \/ CommitBaseline(w)
    <3>1. UNCHANGED consolidated
      BY <2>6 DEF Prepare, RemoveBaseline, CommitBaseline, historyVars
    <3>2. UNCHANGED baseline \/ baseline' = NoBaseline \/ baseline' \subseteq consolidated
      <4>1. CASE Prepare(w) BY <1>1, <4>1 DEF Prepare, FileInv
      <4>2. CASE RemoveBaseline(w) BY <4>2 DEF RemoveBaseline
      <4>3. CASE CommitBaseline(w) BY <1>1, <4>3 DEF CommitBaseline, FileInv, Synced
      <4> QED BY <2>6, <4>1, <4>2, <4>3
    <3>3. CASE UNCHANGED baseline
      <4>1. Kept BY <1>2, <3>1 DEF Kept
      <4> QED BY <2>3, <3>3, <4>1, StepUnseen
    <3>4. CASE baseline' = NoBaseline \/ baseline' \subseteq consolidated
      <4>1. Pipeline!Commit BY <1>2, <1>3, <2>2, <2>4, <3>1, <3>4 DEF Pipeline!Commit
      <4> QED BY <4>1 DEF Pipeline!Next
    <3> QED BY <3>2, <3>3, <3>4
  <2> QED BY <1>5, <2>5, <2>6
<1> QED BY <1>4, <1>5

\* The end of a consolidation that succeeds selects what it committed.
LEMMA RefineChoice ==
  ASSUME PipelineInv, NEW w \in Worker, SucceedGlobal(w)
  PROVE  Pipeline!Next
<1>1. TypeOK /\ LockInv /\ FileInv BY DEF PipelineInv, RecordInv, ExclusiveInv
<1>2. pc[w] = "finishing" /\ Consolidating(w) BY DEF SucceedGlobal, Consolidating
<1>3. OwnsGlobal(w) BY <1>1, <1>2 DEF LockInv
<1>4. UNCHANGED <<job, extracted, consolidated, baseline>> /\ output' = Reselected(w)
  BY <1>3 DEF SucceedGlobal, fileVars, historyVars
<1>5. Recorded' = Recorded BY <1>4 DEF Recorded
<1>6. ASSUME NEW t \in Thread
      PROVE  /\ output[t] = NoOutput => output'[t] = NoOutput
             /\ output[t] # NoOutput =>
                  /\ output'[t] # NoOutput /\ output'[t].source = output[t].source
                  /\ output'[t].selected = IF IsInput(w, t) THEN output[t].source ELSE 0
  <2>1. CASE output[t] = NoOutput BY <1>4, <2>1 DEF Reselected
  <2>2. CASE output[t] # NoOutput
    <3>1. output[t] \in Outputs BY <1>1, <2>2 DEF TypeOK, Outputs
    <3> DEFINE sel == IF IsInput(w, t) THEN output[t].source ELSE 0
    <3>2. output'[t] = [output[t] EXCEPT !.selected = sel]
      BY <1>4, <2>2 DEF Reselected
    <3>3. sel \in 0..MaxSource BY <3>1 DEF Outputs, Sources
    <3> HIDE DEF sel
    <3>4. output'[t] \in Outputs /\ output'[t].source = output[t].source
          /\ output'[t].selected = sel
      BY <3>1, <3>2, <3>3 DEF Outputs
    <3>5. output'[t] # NoOutput BY <3>4, NoOutputAssumption DEF Outputs
    <3> QED BY <2>2, <3>4, <3>5 DEF sel
  <2> QED BY <2>1, <2>2
<1>7. Stored' = Stored BY <1>6 DEF Stored, OutputSource
<1> DEFINE picked == {t \in Thread : IsInput(w, t)}
<1>8. Chosen' = [t \in Thread |-> IF t \in picked THEN Stored[t] ELSE 0]
  BY <1>6 DEF Chosen, Stored, OutputSource, IsInput
<1>9. ASSUME NEW t \in picked PROVE [thread |-> t, source |-> Stored[t]] \in baseline
  <2>1. baseline = inputs[w] BY <1>1, <1>2 DEF FileInv
  <2> QED BY <2>1 DEF Stored, OutputSource, IsInput
<1>10. Holder # NoOwner BY <1>1, <1>2, HolderIs
<1>11. Holder' = NoOwner
  <2>1. \A v \in Worker : ~Consolidating(v)'
    BY <1>1, <1>2, LockIsExclusive
    DEF SucceedGlobal, Goto, OneConsolidation, Consolidating, TypeOK
  <2>2. Consolidators' = {} BY <2>1 DEF Consolidators
  <2> QED BY <2>2, HolderSteps
<1>12. Pipeline!Choose(picked)
  BY <1>4, <1>5, <1>7, <1>8, <1>9, <1>10, <1>11 DEF Pipeline!Choose
<1>13. picked \in SUBSET Thread OBVIOUS
<1> QED BY <1>12, <1>13 DEF Pipeline!Next

LEMMA RefinePhase2 ==
  ASSUME PipelineInv, NEW w \in Worker, Phase2(w)
  PROVE  [Pipeline!Next]_(Pipeline!pipelineVars)
<1> USE DEF Goto
<1>1. TypeOK /\ LockInv BY DEF PipelineInv, RecordInv, ExclusiveInv
<1>2. CASE \/ ClaimGlobal(w) \/ Prepare(w) \/ AgentCompletes(w)
           \/ RemoveBaseline(w) \/ CommitBaseline(w)
  BY <1>2, RefineWork
<1>3. CASE SucceedGlobal(w) BY <1>3, RefineChoice
<1>4. CASE \/ StepFails(w) \/ HeartbeatErrs(w) \/ AgentFails(w) \/ ConfirmOrResetFails(w)
           \/ SucceedErrs(w)
  <2>1. Kept /\ UNCHANGED baseline
    BY <1>4 DEF StepFails, HeartbeatErrs, AgentFails, ConfirmOrResetFails, SucceedErrs, dbVars,
       fileVars, historyVars, Kept
  <2>2. Consolidating(w) /\ ~Consolidating(w)' /\ \A v \in Worker \ {w} : pc'[v] = pc[v]
    BY <1>1, <1>4 DEF StepFails, HeartbeatErrs, AgentFails, AfterFailure, ConfirmOrResetFails,
       SucceedErrs, Consolidating, TypeOK
  <2>3. Pipeline!LetGo BY <1>1, <2>1, <2>2, StepLetsGo
  <2> QED BY <2>3 DEF Pipeline!Next
<1>5. CASE \/ ClaimGlobalErrs(w) \/ LoadInputs(w) \/ SyncInputs(w) \/ SyncPartly(w) \/ Diff(w)
           \/ SpawnAgent(w) \/ AgentEdits(w) \/ ShutdownAgent(w)
  <2>1. Kept /\ UNCHANGED baseline
    BY <1>5 DEF ClaimGlobalErrs, LoadInputs, SyncInputs, SyncPartly, Diff, SpawnAgent,
       AgentEdits, ShutdownAgent, dbVars, fileVars, historyVars, Kept
  <2>2. \A v \in Worker : Consolidating(v)' <=> Consolidating(v)
    BY <1>1, <1>5 DEF ClaimGlobalErrs, LoadInputs, SyncInputs, SyncPartly, Diff, SpawnAgent,
       AgentEdits, ShutdownAgent, workerVars, Consolidating, TypeOK
  <2> QED BY <2>1, <2>2, StepUnseen
<1>6. CASE Heartbeat(w) \/ ConfirmOwnership(w)
  <2>1. Kept /\ UNCHANGED baseline
    BY <1>6 DEF Heartbeat, ConfirmOwnership, fileVars, historyVars, Kept
  <2>2. OwnsGlobal(w)
    BY <1>1, <1>6 DEF Heartbeat, ConfirmOwnership, Consolidating, LockInv
  <2>3. \A v \in Worker : Consolidating(v)' <=> Consolidating(v)
    BY <1>1, <1>6, <2>2 DEF Heartbeat, ConfirmOwnership, Consolidating, TypeOK
  <2> QED BY <2>1, <2>3, StepUnseen
<1> QED BY <1>2, <1>3, <1>4, <1>5, <1>6 DEF Phase2

LEMMA RefineStep ==
  ASSUME ~MayReset
  PROVE  PipelineInv /\ [Next]_vars => [Pipeline!Next]_(Pipeline!pipelineVars)
<1> SUFFICES ASSUME PipelineInv, [Next]_vars PROVE [Pipeline!Next]_(Pipeline!pipelineVars)
  OBVIOUS
<1>1. CASE UNCHANGED vars
  <2>1. Kept /\ UNCHANGED <<baseline, pc>>
    BY <1>1 DEF vars, dbVars, fileVars, workerVars, historyVars, Kept
  <2> QED BY <2>1, StepUnseen DEF Consolidating
<1> QED BY <1>1, RefinePhase1, RefinePhase2, RefineAround, NextCases

-----------------------------------------------------------------------------
\* Every reachable state is well typed, and a running job has an owner.
THEOREM TypeCorrect == Spec => []TypeOK
<1>1. RecordInv => TypeOK BY DEF RecordInv
<1> QED BY <1>1, RecordInvariance, PTL

\* A version is recorded only after an extraction of it, or of a newer one, has
\* finished, however many sessions lose and take over the job.
THEOREM WatermarkCorrect == Spec => []WatermarkIsExtracted
<1>1. RecordInv => WatermarkIsExtracted BY DEF RecordInv
<1> QED BY <1>1, RecordInvariance, PTL

\* The stored memory of a thread is of the version that its job records.
THEOREM OutputCorrect == Spec => []OutputMatchesWatermark
<1>1. RecordInv => OutputMatchesWatermark BY DEF RecordInv
<1> QED BY <1>1, RecordInvariance, PTL

\* Two sessions are never inside phase 2, provided that owners are in time
\* (Tick) and that memory is not reset.
THEOREM LockCorrect == ASSUME ~MayReset PROVE Spec => []OneConsolidation
<1>1. ExclusiveInv => OneConsolidation BY LockIsExclusive DEF ExclusiveInv
<1> QED BY <1>1, ExclusiveInvariance, PTL

\* Nothing is committed to the baseline that no completed agent has seen, under
\* the same provisos.
THEOREM BaselineCorrect == ASSUME ~MayReset PROVE Spec => []BaselineWasConsolidated
<1>1. ExclusiveInv => BaselineWasConsolidated BY DEF ExclusiveInv, FileInv
<1> QED BY <1>1, ExclusiveInvariance, PTL

\* While memory is not reset, no step takes the record of a thread back to an
\* older version.
THEOREM NeverOlderCorrect == ASSUME ~MayReset PROVE Spec => NeverOlder
<1>1. RecordInv /\ [Next]_vars => [\A t \in Thread : job'[t].success >= job[t].success]_vars
  <2> SUFFICES ASSUME RecordInv, Next
               PROVE  \A t \in Thread : job'[t].success >= job[t].success
    OBVIOUS
  <2> QED BY SuccessGrows
<1> QED BY <1>1, RecordInvariance, PTL DEF Spec, NeverOlder

\* While memory is not reset, a consolidation that succeeds selects only
\* versions that are in the baseline.
THEOREM SelectionCorrect == ASSUME ~MayReset PROVE Spec => SelectionIsConsolidated
<1> DEFINE Step == global'.status = "done" /\ global.status # "done" =>
                     \A t \in Thread : output'[t] # NoOutput /\ output'[t].selected # 0 =>
                       [thread |-> t, source |-> output'[t].source] \in baseline
<1>1. ExclusiveInv /\ [Next]_vars => [Step]_vars
  <2> SUFFICES ASSUME ExclusiveInv, Next PROVE Step
    OBVIOUS
  <2> QED BY OnlySuccessMarks, SelectsBaseline DEF ExclusiveInv
<1> QED BY <1>1, ExclusiveInvariance, PTL DEF Spec, SelectionIsConsolidated

\* However many sessions claim at the same time, leases are held on no more
\* than MaxRunning stage-1 jobs.
THEOREM BoundCorrect == Spec => []RunningJobsBounded
<1>1. Init => RunningJobsBounded
  <2> SUFFICES ASSUME Init PROVE RunningJobsBounded
    OBVIOUS
  <2>1. {t \in Thread : Running(t)} = {} BY DEF Init, NoJob, Running
  <2> QED BY <2>1, FS_EmptySet DEF RunningJobsBounded
<1>2. TypeOK /\ RunningJobsBounded /\ [Next]_vars => RunningJobsBounded'
  <2> SUFFICES ASSUME TypeOK, RunningJobsBounded, [Next]_vars PROVE RunningJobsBounded'
    OBVIOUS
  <2>1. CASE UNCHANGED vars
    BY <2>1 DEF vars, dbVars, RunningJobsBounded, Running
  <2> QED BY <2>1, BoundStep
<1> QED BY <1>1, <1>2, TypeCorrect, PTL DEF Spec

\* While memory is not reset, the jobs and files keep the promise of
\* MemoryPipeline, for any sessions and threads.
THEOREM Refinement == ASSUME ~MayReset PROVE Spec => ImplementsMemoryPipeline
<1>1. Init => Pipeline!Init BY RefineInit
<1>2. PipelineInv /\ [Next]_vars => [Pipeline!Next]_(Pipeline!pipelineVars) BY RefineStep
<1>3. Spec => Pipeline!Init /\ [][Pipeline!Next]_(Pipeline!pipelineVars)
  BY <1>1, <1>2, PipelineInvariance, PTL DEF Spec
<1> QED BY <1>3 DEF ImplementsMemoryPipeline, Pipeline!Spec
=============================================================================
