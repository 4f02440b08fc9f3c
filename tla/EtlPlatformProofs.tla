------------------------- MODULE EtlPlatformProofs --------------------------
(***************************************************************************)
(* Theorems about EtlPlatform for every set of pipelines, runners and      *)
(* clients, and every value of the bounds.                                 *)
(***************************************************************************)
EXTENDS EtlPlatform, EtlStoreProofs

(***************************************************************************)
(* Type correctness.  Typing alone is not inductive: a job's pid indexes   *)
(* runs, so it has to be known that a runner past its claim holds a        *)
(* pipeline and not NoPipeline.                                            *)
(***************************************************************************)
JobNamed == \A r \in Runners : pc[r] \in ClaimPcs => job[r].pid \in Pipelines

Typed == TypeOK /\ JobNamed

USE DEF ClaimPcs, BodyPcs, Pcs

\* The locals of a fresh claim, and of no claim, are well typed.
LEMMA JobOfTyped ==
  ASSUME NEW p \in Pipelines \cup {NoPipeline}
  PROVE  JobOf(p) \in Job /\ JobOf(p).pid = p
BY RunnerAssumption DEF JobOf, Job

LEMMA NoJobTyped == NoJob \in Job
BY JobOfTyped DEF NoJob

LEMMA TypedInit == Init => Typed
<1> SUFFICES ASSUME Init PROVE Typed
  OBVIOUS
<1> USE RunnerAssumption, MaxCallsAssumption DEF Init
<1>1. StoreTypeOK
  BY EmptySeq DEF StoreInit, StoreTypeOK, PipelineStatus
<1>2. ApiTypeOK
  BY DEF ApiInit, ApiTypeOK, NoCall, Call
<1>3. RunnerTypeOK
  BY NoJobTyped DEF RunnerInit, RunnerTypeOK
<1>4. JobNamed
  BY DEF RunnerInit, JobNamed
<1> QED
  BY <1>1, <1>2, <1>3, <1>4 DEF Typed, TypeOK

\* The handlers.
LEMMA ApiTyped ==
  ASSUME Typed, ApiNext, UNCHANGED runnerVars
  PROVE  StoreTypeOK' /\ ApiTypeOK' /\ RunnerTypeOK' /\ JobNamed'
<1> USE DEF Typed, TypeOK
<1>1. RunnerTypeOK' /\ JobNamed'
  BY DEF runnerVars, RunnerTypeOK, JobNamed, Job, Row
<1>2. PICK c \in Clients :
        \/ \E p \in Pipelines : \/ run_pipeline(c, p)
                                \/ pause_pipeline(c, p)
                                \/ patch_pipeline(c, p)
        \/ RequestRun(c) \/ RequestPause(c) \/ CommitPatch(c) \/ AbandonCall(c)
  BY DEF ApiNext
<1>3. ASSUME NEW op \in {"run", "pause", "enable", "disable"}, NEW p \in Pipelines,
             Begin(c, op, p)
      PROVE  ApiTypeOK'
  BY <1>3, MaxCallsAssumption DEF Begin, ApiTypeOK, Call
<1>4. ASSUME End(c) PROVE ApiTypeOK'
  BY <1>4 DEF End, ApiTypeOK, Call, NoCall
<1>5. ASSUME NEW p \in Pipelines,
             run_pipeline(c, p) \/ pause_pipeline(c, p) \/ patch_pipeline(c, p)
      PROVE  StoreTypeOK' /\ ApiTypeOK'
  BY <1>3, <1>5 DEF run_pipeline, pause_pipeline, patch_pipeline, storeVars, StoreTypeOK
<1>6. CASE RequestRun(c)
  <2>1. status' \in [Pipelines -> PipelineStatus]
    BY <1>6, UpdateStatusType DEF RequestRun, request_run, StoreTypeOK, PipelineStatus
  <2> QED
    BY <1>1, <1>4, <1>6, <2>1 DEF RequestRun, StoreTypeOK
<1>7. CASE RequestPause(c)
  <2>1. status' \in [Pipelines -> PipelineStatus]
    BY <1>7, UpdateStatusType DEF RequestPause, request_pause, StoreTypeOK, PipelineStatus
  <2> QED
    BY <1>1, <1>4, <1>7, <2>1 DEF RequestPause, StoreTypeOK
<1>8. CASE CommitPatch(c)
  <2>1. (call[c].op = "enable") \in BOOLEAN
    OBVIOUS
  <2>2. enabled' \in [Pipelines -> BOOLEAN]
    BY <1>8, <2>1 DEF CommitPatch, update_pipeline, StoreTypeOK
  <2> QED
    BY <1>1, <1>4, <1>8, <2>2 DEF CommitPatch, StoreTypeOK
<1>9. CASE AbandonCall(c)
  BY <1>1, <1>4, <1>9 DEF AbandonCall, StoreTypeOK, storeVars
<1> QED
  BY <1>1, <1>2, <1>5, <1>6, <1>7, <1>8, <1>9

(***************************************************************************)
(* The runners.  LocalTyped is what the local state of the runners must    *)
(* satisfy after a step; the operators that move a runner on establish it. *)
(***************************************************************************)
LocalTyped ==
  /\ pc \in [Runners -> Pcs]
  /\ todo \in [Runners -> SUBSET Row]
  /\ job \in [Runners -> Job]
  /\ JobNamed

LEMMA NextRowTyped ==
  ASSUME LocalTyped, NEW r \in Runners, NEW rows \in SUBSET Row, NextRow(r, rows)
  PROVE  LocalTyped'
<1>2. /\ pc' \in [Runners -> Pcs]
      /\ todo' \in [Runners -> SUBSET Row]
      /\ job' \in [Runners -> Job]
  BY NoJobTyped DEF LocalTyped, NextRow, Goto
<1>3. JobNamed'
  <2> SUFFICES ASSUME NEW s \in Runners, pc'[s] \in ClaimPcs
               PROVE  job'[s].pid \in Pipelines
    BY DEF JobNamed
  <2>1. s # r
    BY DEF NextRow, Goto, LocalTyped
  <2> QED
    BY <2>1 DEF NextRow, Goto, LocalTyped, JobNamed
<1> QED
  BY <1>2, <1>3 DEF LocalTyped

LEMMA ExitTyped ==
  ASSUME LocalTyped, NEW r \in Runners, Exit(r)
  PROVE  LocalTyped'
<1>2. /\ pc' \in [Runners -> Pcs]
      /\ todo' \in [Runners -> SUBSET Row]
      /\ job' \in [Runners -> Job]
  BY NoJobTyped DEF LocalTyped, Exit, Goto
<1>3. JobNamed'
  BY DEF JobNamed, LocalTyped, Exit, Goto
<1> QED
  BY <1>2, <1>3 DEF LocalTyped

LEMMA RetryTyped ==
  ASSUME LocalTyped, NEW r \in Runners, NEW broken \in BOOLEAN,
         pc[r] \in ClaimPcs, RetryOrGiveUp(r, broken), UNCHANGED todo
  PROVE  LocalTyped'
<1>1. job[r] \in Job /\ job[r].pid \in Pipelines
  BY DEF LocalTyped, JobNamed
<1> DEFINE next == NextAttempt(r, broken)
<1>2. next \in Job /\ next.pid = job[r].pid
  BY <1>1, RunnerAssumption DEF Job, NextAttempt, AttemptsLeft
<1>3. job' = [job EXCEPT ![r] = next]
  BY DEF RetryOrGiveUp
<1> HIDE DEF next
<1>4. pc' \in [Runners -> Pcs] /\ job' \in [Runners -> Job]
  BY <1>2, <1>3 DEF LocalTyped, RetryOrGiveUp, Goto
<1>5. JobNamed'
  BY <1>1, <1>2, <1>3 DEF JobNamed, LocalTyped, RetryOrGiveUp, Goto
<1> QED
  BY <1>4, <1>5 DEF LocalTyped

\* A step inside dispatch that keeps the claim, and at most updates its job.
LEMMA AdvanceTyped ==
  ASSUME LocalTyped, NEW r \in Runners, pc[r] \in ClaimPcs,
         NEW label \in ClaimPcs, Goto(r, label), UNCHANGED todo,
         NEW next \in Job, next.pid = job[r].pid, job' = [job EXCEPT ![r] = next]
  PROVE  LocalTyped'
<1>1. pc' \in [Runners -> Pcs] /\ job' \in [Runners -> Job]
  BY DEF LocalTyped, Goto
<1>2. JobNamed'
  BY DEF JobNamed, LocalTyped, Goto
<1> QED
  BY <1>1, <1>2 DEF LocalTyped

LEMMA GotoTyped ==
  ASSUME LocalTyped, NEW r \in Runners, NEW label \in Pcs, Goto(r, label),
         label \in ClaimPcs => pc[r] \in ClaimPcs,
         NEW rows \in SUBSET Row, todo' = [todo EXCEPT ![r] = rows],
         UNCHANGED job
  PROVE  LocalTyped'
<1>1. pc' \in [Runners -> Pcs] /\ todo' \in [Runners -> SUBSET Row]
  BY DEF LocalTyped, Goto
<1>2. JobNamed'
  BY DEF JobNamed, LocalTyped, Goto
<1> QED
  BY <1>1, <1>2 DEF LocalTyped

BodyEnd == {"none", "drained", "stopped"}

RunnerTyped ==
  /\ StoreTypeOK
  /\ LocalTyped
  /\ faults \in 0 .. MaxFaults
  /\ bodyEnd \in [Pipelines -> BodyEnd]

LEMMA TypedParts == Typed <=> RunnerTyped /\ ApiTypeOK /\ preempted \subseteq Runners
BY DEF Typed, TypeOK, RunnerTypeOK, RunnerTyped, LocalTyped, BodyEnd

\* What an action on the local state only, or one that leaves the history
\* of bodies alone, has to show.
LEMMA StoreUnchanged ==
  ASSUME StoreTypeOK, UNCHANGED storeVars
  PROVE  StoreTypeOK'
BY DEF StoreTypeOK, storeVars

LEMMA StatusChanged ==
  ASSUME StoreTypeOK, UNCHANGED <<enabled, runs>>,
         NEW p, NEW from, NEW to \in PipelineStatus, UpdateStatus(p, from, to)
  PROVE  StoreTypeOK'
BY UpdateStatusType DEF StoreTypeOK

LEMMA RunsChanged ==
  ASSUME StoreTypeOK, UNCHANGED <<status, enabled>>,
         NEW p, NEW run,
         \/ p \in Pipelines /\ start_run(p)
         \/ finish_success(p, run)
         \/ finish_failed(p, run)
  PROVE  StoreTypeOK'
BY RunsType DEF StoreTypeOK

LEMMA FetchedRows ==
  ASSUME StoreTypeOK, NEW ids \in SUBSET Pipelines
  PROVE  Fetched(ids) \in SUBSET Row
BY DEF Fetched, Row, StoreTypeOK

LEMMA RequeueStuckTyped ==
  ASSUME StoreTypeOK, NEW r, RequeueStuck(r)
  PROVE  StoreTypeOK' /\ bodyEnd' = bodyEnd
BY RunsType, RequeueType DEF RequeueStuck, StoreTypeOK

LEMMA StepTyped ==
  ASSUME RunnerTyped, NEW r \in Runners, Step(r)
  PROVE  RunnerTyped'
<1> USE DEF RunnerTyped
<1>a. /\ pc[r] \in Pcs /\ todo[r] \in SUBSET Row /\ job[r] \in Job
      /\ todo = [todo EXCEPT ![r] = todo[r]]
      /\ job = [job EXCEPT ![r] = job[r]]
  BY DEF LocalTyped
<1>1. CASE Start(r)
  BY <1>1, <1>a, StoreUnchanged, GotoTyped DEF Start
<1>2. CASE Recover(r)
  <2>1. Fetched(list_stuck_running_ids) \in SUBSET Row
    BY FetchedRows DEF list_stuck_running_ids
  <2> QED
    BY <1>2, <2>1, StoreUnchanged, GotoTyped DEF Recover
<1>3. CASE Requeue(r)
  BY <1>3, RequeueStuckTyped, NextRowTyped DEF Requeue
<1>4. CASE IdleTick(r)
  BY <1>4, StoreUnchanged DEF IdleTick, runnerVars, LocalTyped, JobNamed
<1>5. CASE Poll(r)
  <2>1. Fetched(get_active) \in SUBSET Row
    BY FetchedRows DEF get_active
  <2> QED
    BY <1>5, <2>1, StoreUnchanged, GotoTyped DEF Poll
<1>6. ASSUME NEW row \in todo[r], DispatchPause(r, row)
      PROVE  RunnerTyped'
  <2>1. StoreTypeOK'
    BY <1>6, StatusChanged DEF DispatchPause, apply_pause_requested, PipelineStatus
  <2> QED
    BY <1>6, <1>a, <2>1, NextRowTyped DEF DispatchPause
<1>7. ASSUME NEW row \in todo[r], Claim(r, row)
      PROVE  RunnerTyped'
  <2>1. StoreTypeOK'
    BY <1>7, StatusChanged DEF Claim, claim_run_requested, PipelineStatus
  <2> DEFINE claimed == JobOf(row.pid)
  <2>1a. row.pid \in Pipelines
    BY <1>a DEF Row
  <2>2. row.pid \in Pipelines /\ claimed \in Job /\ claimed.pid = row.pid
    BY <2>1a, JobOfTyped
  <2> HIDE DEF claimed
  <2>3. pc' \in [Runners -> Pcs] /\ todo' \in [Runners -> SUBSET Row]
        /\ job' \in [Runners -> Job]
    BY <1>7, <2>2 DEF Claim, Goto, LocalTyped, claimed
  <2>4. JobNamed'
    BY <1>7, <2>2 DEF Claim, Goto, LocalTyped, JobNamed, claimed
  <2> QED
    BY <1>7, <2>1, <2>3, <2>4 DEF Claim, LocalTyped
<1>8. ASSUME NEW row \in todo[r], ClaimLost(r, row)
      PROVE  RunnerTyped'
  BY <1>8, <1>a, StoreUnchanged, NextRowTyped DEF ClaimLost
<1>9. CASE TakeSnapshot(r)
  <2> DEFINE next == [job[r] EXCEPT !.attempt = 1]
  <2>1. next \in Job /\ next.pid = job[r].pid
    BY <1>a, RunnerAssumption DEF Job
  <2>2. job' = [job EXCEPT ![r] = next]
    BY <1>9 DEF TakeSnapshot
  <2> HIDE DEF next
  <2> QED
    BY <1>9, <2>1, <2>2, StoreUnchanged, AdvanceTyped DEF TakeSnapshot
<1>10. CASE StartRun(r)
  <2> DEFINE p == job[r].pid
             next == [job[r] EXCEPT !.run = NewRunId(p)]
  <2>0. p \in Pipelines
    BY <1>10 DEF StartRun, LocalTyped, JobNamed
  <2>1. NewRunId(p) \in Nat
    BY <2>0, LenProperties DEF NewRunId, StoreTypeOK
  <2>2. next \in Job /\ next.pid = job[r].pid
    BY <1>a, <2>1 DEF Job
  <2>3. job' = [job EXCEPT ![r] = next]
    BY <1>10 DEF StartRun
  <2>4. StoreTypeOK'
    BY <1>10, <2>0, RunsChanged DEF StartRun
  <2>5. bodyEnd' \in [Pipelines -> BodyEnd]
    BY <1>10 DEF StartRun, BodyEnd
  <2> HIDE DEF next
  <2> QED
    BY <1>10, <2>2, <2>3, <2>4, <2>5, AdvanceTyped DEF StartRun
<1>11. CASE ReadRows(r)
  <2> DEFINE next == [job[r] EXCEPT !.batch = @ + 1]
  <2>1. next \in Job /\ next.pid = job[r].pid
    BY <1>11, <1>a, RunnerAssumption DEF Job, ReadRows
  <2>2. job' = [job EXCEPT ![r] = next]
    BY <1>11 DEF ReadRows
  <2> HIDE DEF next
  <2> QED
    BY <1>11, <2>1, <2>2, StoreUnchanged, AdvanceTyped DEF ReadRows
<1>12. CASE ReadEof(r)
  <2>1. bodyEnd' \in [Pipelines -> BodyEnd]
    BY <1>12 DEF ReadEof, BodyEnd
  <2> QED
    BY <1>12, <1>a, <2>1, StoreUnchanged, GotoTyped DEF ReadEof
<1>13. CASE CommitBatch(r)
  BY <1>13, <1>a, StoreUnchanged, GotoTyped DEF CommitBatch
<1>14. CASE CheckPause(r)
  BY <1>14, <1>a, StoreUnchanged, GotoTyped DEF CheckPause
<1>15. CASE ApplyPause(r)
  <2>1. StoreTypeOK'
    BY <1>15, StatusChanged DEF ApplyPause, apply_pause_requested, PipelineStatus
  <2>2. bodyEnd' \in [Pipelines -> BodyEnd]
    BY <1>15 DEF ApplyPause, BodyEnd
  <2> QED
    BY <1>15, <1>a, <2>1, <2>2, GotoTyped DEF ApplyPause
<1>16. CASE FinishSuccess(r)
  BY <1>16, <1>a, RunsChanged, GotoTyped DEF FinishSuccess
<1>17. CASE FinishFailed(r)
  BY <1>17, RunsChanged, RetryTyped DEF FinishFailed
<1>18. CASE GetStatus(r)
  <2>1. LocalTyped'
    BY <1>18, <1>a, NextRowTyped, GotoTyped DEF GetStatus
  <2> QED
    BY <1>18, <2>1, StoreUnchanged DEF GetStatus
<1>19. CASE FinishRunning(r)
  <2>1. StoreTypeOK'
    BY <1>19, StatusChanged DEF FinishRunning, finish_running_to_idle, PipelineStatus
  <2> QED
    BY <1>19, <1>a, <2>1, NextRowTyped DEF FinishRunning
<1>20. CASE GiveUp(r)
  <2>1. StoreTypeOK'
    BY <1>20, StatusChanged DEF GiveUp, fail_if_active, PipelineStatus
  <2> QED
    BY <1>20, <1>a, <2>1, NextRowTyped DEF GiveUp
<1>21. CASE StatementRefused(r)
  <2>1. LocalTyped'
    BY <1>21, <1>a, RetryTyped, NextRowTyped DEF StatementRefused
  <2> QED
    BY <1>21, <2>1, StoreUnchanged DEF StatementRefused
<1> QED
  BY <1>1, <1>2, <1>3, <1>4, <1>5, <1>6, <1>7, <1>8, <1>9, <1>10, <1>11, <1>12,
     <1>13, <1>14, <1>15, <1>16, <1>17, <1>18, <1>19, <1>20, <1>21 DEF Step

LEMMA FaultTyped ==
  ASSUME RunnerTyped, NEW r \in Runners, FaultStep(r)
  PROVE  RunnerTyped'
<1> USE DEF RunnerTyped
<1>a. todo[r] \in SUBSET Row /\ todo = [todo EXCEPT ![r] = todo[r]]
  BY DEF LocalTyped
<1>f. ASSUME NEW kind, Fault(kind) PROVE faults' \in 0 .. MaxFaults
  BY <1>f, RunnerAssumption DEF Fault
<1>1. CASE ExecutionError(r)
  BY <1>1, <1>a, <1>f, StoreUnchanged, GotoTyped DEF ExecutionError
<1>2. CASE BookkeepingError(r)
  <2>1. StoreTypeOK' /\ bodyEnd' = bodyEnd
    BY <1>2, StoreUnchanged DEF BookkeepingError
  <2>2. LocalTyped'
    <3>1. CASE pc[r] \in {"recover", "requeue"} /\ Exit(r)
      BY <3>1, ExitTyped
    <3>2. CASE \E row \in todo[r] : NextRow(r, todo[r] \ {row})
      BY <3>2, <1>a, NextRowTyped
    <3>3. CASE NextRow(r, todo[r])
      BY <3>3, <1>a, NextRowTyped
    <3>4. CASE /\ pc[r] \in {"start", "failed", "status", "finish"}
               /\ \E broken \in BOOLEAN : RetryOrGiveUp(r, broken)
               /\ UNCHANGED todo
      BY <3>4, RetryTyped
    <3> QED
      BY <1>2, <3>1, <3>2, <3>3, <3>4 DEF BookkeepingError
  <2> QED
    BY <1>2, <1>f, <2>1, <2>2 DEF BookkeepingError
<1>3. CASE ConnectionLost(r)
  <2>1. LocalTyped'
    BY <1>3, <1>a, ExitTyped, NextRowTyped DEF ConnectionLost
  <2> QED
    BY <1>3, <1>f, <2>1, StoreUnchanged DEF ConnectionLost
<1>4. CASE RequeueReplyLost(r)
  BY <1>4, <1>f, RequeueStuckTyped, ExitTyped DEF RequeueReplyLost
<1>5. CASE FailedReplyLost(r)
  BY <1>5, <1>a, <1>f, RunsChanged, NextRowTyped DEF FailedReplyLost
<1>6. CASE Crash(r)
  BY <1>6, <1>f, StoreUnchanged, ExitTyped DEF Crash
<1> QED
  BY <1>1, <1>2, <1>3, <1>4, <1>5, <1>6 DEF FaultStep

LEMMA TypedStep == Typed /\ [Next]_vars => Typed'
<1> SUFFICES ASSUME Typed, [Next]_vars PROVE Typed'
  OBVIOUS
<1>1. CASE ApiNext /\ UNCHANGED runnerVars /\ RecordPreemption
  BY <1>1, ApiTyped DEF Typed, TypeOK, RecordPreemption
<1>2. CASE RunnerNext /\ UNCHANGED apiVars /\ RecordPreemption
  <2>1. RunnerTyped'
    BY <1>2, TypedParts, StepTyped, FaultTyped DEF RunnerNext
  <2>2. ApiTypeOK'
    BY <1>2 DEF Typed, TypeOK, ApiTypeOK, apiVars
  <2>3. TypeOK' /\ JobNamed'
    BY <1>2, <2>1, <2>2 DEF RunnerTyped, LocalTyped, TypeOK, RunnerTypeOK,
                            BodyEnd, RecordPreemption
  <2> QED
    BY <2>3 DEF Typed
<1>3. CASE UNCHANGED vars
  BY <1>3 DEF vars, storeVars, apiVars, runnerVars, Typed, TypeOK, StoreTypeOK,
              ApiTypeOK, RunnerTypeOK, JobNamed
<1> QED
  BY <1>1, <1>2, <1>3 DEF Next

(* Type correctness for any pipelines, runners, clients, retry limit and   *)
(* bounds, under every kind of fault: in particular no interleaving lets   *)
(* the retry loop go past max_attempts, and a runner past its claim always *)
(* holds a pipeline.                                                       *)
THEOREM TypeCorrect == Spec => []TypeOK
<1>1. Spec => []Typed
  BY TypedInit, TypedStep, PTL DEF Spec
<1>2. Typed => TypeOK
  BY DEF Typed
<1> QED
  BY <1>1, <1>2, PTL

(***************************************************************************)
(* The platform implements PipelineLifecycle.  First, how the operators    *)
(* that move a runner on change what it holds.                             *)
(***************************************************************************)
LifeStep == [Lifecycle!LifeNext]_(Lifecycle!lifeVars)

LEMMA HeldPipeline ==
  ASSUME LocalTyped, NEW r \in Runners
  PROVE  /\ pc[r] \in ClaimPcs => held[r] = job[r].pid /\ held[r] \in Pipelines
         /\ pc[r] \notin ClaimPcs => held[r] = NoPipeline
         /\ NoPipeline \notin Pipelines
BY PipelinesAssumption DEF held, LocalTyped, JobNamed, NoPipeline

LEMMA HeldKept ==
  ASSUME LocalTyped, NEW r \in Runners, NEW label, Goto(r, label),
         label \in ClaimPcs <=> pc[r] \in ClaimPcs,
         \/ UNCHANGED job
         \/ \E next : next.pid = job[r].pid /\ job' = [job EXCEPT ![r] = next]
  PROVE  held' = held
<1>1. \A s \in Runners : (pc'[s] \in ClaimPcs <=> pc[s] \in ClaimPcs)
                         /\ job'[s].pid = job[s].pid
  BY DEF Goto, LocalTyped
<1> QED
  BY <1>1 DEF held

LEMMA HeldDropped ==
  ASSUME LocalTyped, NEW r \in Runners, NEW rows, NextRow(r, rows) \/ Exit(r)
  PROVE  held' = [held EXCEPT ![r] = NoPipeline]
<1>1. pc'[r] \notin ClaimPcs
      /\ \A s \in Runners \ {r} : pc'[s] = pc[s] /\ job'[s] = job[s]
  BY DEF NextRow, Exit, Goto, LocalTyped
<1> QED
  BY <1>1 DEF held

LEMMA NotHeld ==
  ASSUME LocalTyped, NEW r \in Runners, pc[r] \notin ClaimPcs, NEW rows,
         NextRow(r, rows) \/ Exit(r)
  PROVE  held' = held /\ held[r] = NoPipeline
BY HeldDropped, HeldPipeline DEF held

\* A conditional UPDATE moves a matching row and leaves any other alone.
LEMMA UpdateMoves ==
  ASSUME NEW p, NEW from, NEW to, UpdateStatus(p, from, to)
  PROVE  \/ status[p] \in from /\ status' = [status EXCEPT ![p] = to]
         \/ status' = status
BY DEF UpdateStatus, Matches

LEMMA StutterLife ==
  ASSUME held' = held, status' = status
  PROVE  LifeStep
BY DEF LifeStep, Lifecycle!lifeVars

\* A runner that drops its claim and leaves the status alone.
LEMMA ReleaseLife ==
  ASSUME LocalTyped, NEW r \in Runners, NEW rows, NextRow(r, rows) \/ Exit(r),
         status' = status
  PROVE  LifeStep
<1>1. held' = [held EXCEPT ![r] = NoPipeline]
  BY HeldDropped
<1>2. CASE pc[r] \in ClaimPcs
  <2>1. Lifecycle!Release(r)
    BY <1>1, <1>2, HeldPipeline DEF Lifecycle!Release
  <2> QED
    BY <2>1 DEF LifeStep, Lifecycle!LifeNext
<1>3. CASE pc[r] \notin ClaimPcs
  BY <1>3, NotHeld, StutterLife
<1> QED
  BY <1>2, <1>3

LEMMA RetryLife ==
  ASSUME LocalTyped, NEW r \in Runners, NEW broken, pc[r] \in ClaimPcs,
         RetryOrGiveUp(r, broken), status' = status
  PROVE  LifeStep
<1>1. NextAttempt(r, broken).pid = job[r].pid
  BY DEF NextAttempt
<1>2. held' = held
  <2> DEFINE label == IF AttemptsLeft(r) THEN "start" ELSE "giveup"
  <2>1. Goto(r, label) /\ label \in ClaimPcs
    BY DEF RetryOrGiveUp
  <2> HIDE DEF label
  <2> QED
    BY <1>1, <2>1, HeldKept DEF RetryOrGiveUp
<1> QED
  BY <1>2, StutterLife

LEMMA RequeueLife ==
  ASSUME LocalTyped, NEW r \in Runners, pc[r] = "requeue", RequeueStuck(r),
         NEW rows, NextRow(r, rows) \/ Exit(r), todo[r] \in SUBSET Row
  PROVE  LifeStep
<1> DEFINE ids == {row.pid : row \in todo[r]}
<1>1. ids \in SUBSET Pipelines
  BY DEF Row
<1>2. held' = held /\ held[r] = NoPipeline
  BY NotHeld
<1>3. Lifecycle!Restart(r, ids)
  BY <1>2 DEF Lifecycle!Restart, RequeueStuck, mark_run_requested_bulk
<1> QED
  BY <1>1, <1>3 DEF LifeStep, Lifecycle!LifeNext

LEMMA StepLife ==
  ASSUME RunnerTyped, NEW r \in Runners, Step(r)
  PROVE  LifeStep
<1> USE DEF RunnerTyped
<1>a. LocalTyped /\ todo[r] \in SUBSET Row /\ job[r] \in Job
  BY DEF LocalTyped
<1>b. \A row \in todo[r] : row.pid \in Pipelines
  BY <1>a DEF Row
\* The steps that move on inside or outside a claim and write no status.
<1>1. CASE \/ Start(r) \/ Recover(r) \/ Poll(r)
           \/ ReadEof(r) \/ CommitBatch(r) \/ CheckPause(r) \/ FinishSuccess(r)
  <2>1. status' = status /\ UNCHANGED job
    BY <1>1 DEF Start, Recover, Poll, ReadEof, CommitBatch, CheckPause,
                FinishSuccess, storeVars
  <2>2. PICK label : Goto(r, label) /\ (label \in ClaimPcs <=> pc[r] \in ClaimPcs)
    BY <1>1 DEF Start, Recover, Poll, ReadEof, CommitBatch, CheckPause, FinishSuccess
  <2> QED
    BY <1>a, <2>1, <2>2, HeldKept, StutterLife
<1>2. CASE IdleTick(r)
  BY <1>2, StutterLife DEF IdleTick, storeVars, runnerVars, held
<1>3. CASE TakeSnapshot(r) \/ StartRun(r) \/ ReadRows(r)
  <2>1. status' = status
    BY <1>3 DEF TakeSnapshot, StartRun, ReadRows, storeVars
  <2>2. PICK label : Goto(r, label) /\ (label \in ClaimPcs <=> pc[r] \in ClaimPcs)
    BY <1>3 DEF TakeSnapshot, StartRun, ReadRows
  <2>3. \E next : next.pid = job[r].pid /\ job' = [job EXCEPT ![r] = next]
    <3>1. CASE TakeSnapshot(r)
      <4>1. [job[r] EXCEPT !.attempt = 1].pid = job[r].pid
        BY <1>a DEF Job
      <4> QED
        BY <3>1, <4>1 DEF TakeSnapshot
    <3>2. CASE StartRun(r)
      <4>1. [job[r] EXCEPT !.run = NewRunId(job[r].pid)].pid = job[r].pid
        BY <1>a DEF Job
      <4> QED
        BY <3>2, <4>1 DEF StartRun
    <3>3. CASE ReadRows(r)
      <4>1. [job[r] EXCEPT !.batch = @ + 1].pid = job[r].pid
        BY <1>a DEF Job
      <4> QED
        BY <3>3, <4>1 DEF ReadRows
    <3> QED
      BY <1>3, <3>1, <3>2, <3>3
  <2> QED
    BY <1>a, <2>1, <2>2, <2>3, HeldKept, StutterLife
\* Recovery.
<1>4. CASE Requeue(r)
  BY <1>4, <1>a, RequeueLife DEF Requeue
\* Dispatch of a row.
<1>5. ASSUME NEW row \in todo[r], DispatchPause(r, row)
      PROVE  LifeStep
  <2>1. held' = held /\ held[r] = NoPipeline
    BY <1>5, <1>a, NotHeld DEF DispatchPause
  <2>2. \/ status[row.pid] = "PAUSE_REQUESTED"
           /\ status' = [status EXCEPT ![row.pid] = "PAUSED"]
        \/ status' = status
    BY <1>5, UpdateMoves DEF DispatchPause, apply_pause_requested
  <2>3. CASE status' = status
    BY <2>1, <2>3, StutterLife
  <2>4. CASE status' # status
    <3>1. Lifecycle!ParkIdle(r, row.pid)
      BY <2>1, <2>2, <2>4 DEF Lifecycle!ParkIdle, Lifecycle!Move
    <3> QED
      BY <1>b, <3>1 DEF LifeStep, Lifecycle!LifeNext
  <2> QED
    BY <2>3, <2>4
<1>6. ASSUME NEW row \in todo[r], Claim(r, row)
      PROVE  LifeStep
  <2>1. held[r] = NoPipeline
    BY <1>6, <1>a, HeldPipeline DEF Claim
  <2>2. /\ status[row.pid] = "RUN_REQUESTED"
        /\ status' = [status EXCEPT ![row.pid] = "RUNNING"]
    BY <1>6 DEF Claim, Matches, ClaimFrom, claim_run_requested, UpdateStatus
  <2>3. held' = [held EXCEPT ![r] = row.pid]
    <3>1. JobOf(row.pid).pid = row.pid
      BY <1>b, JobOfTyped
    <3>2. /\ pc'[r] \in ClaimPcs /\ job'[r].pid = row.pid
          /\ \A s \in Runners \ {r} : pc'[s] = pc[s] /\ job'[s] = job[s]
      BY <1>6, <1>a, <3>1 DEF Claim, Goto, LocalTyped
    <3> QED
      BY <3>2 DEF held
  <2>4. Lifecycle!Take(r, row.pid)
    BY <2>1, <2>2, <2>3 DEF Lifecycle!Take, Lifecycle!Move
  <2> QED
    BY <1>b, <2>4 DEF LifeStep, Lifecycle!LifeNext
<1>7. ASSUME NEW row \in todo[r], ClaimLost(r, row)
      PROVE  LifeStep
  BY <1>7, <1>a, ReleaseLife DEF ClaimLost, storeVars
\* Inside a claim.
<1>8. CASE ApplyPause(r)
  <2> DEFINE p == job[r].pid
  <2>1. p \in Pipelines /\ held[r] = p
    BY <1>8, <1>a, HeldPipeline DEF ApplyPause, LocalTyped, JobNamed
  <2>2. held' = held
    BY <1>8, <1>a, HeldKept DEF ApplyPause
  <2>3. \/ status[p] = "PAUSE_REQUESTED" /\ status' = [status EXCEPT ![p] = "PAUSED"]
        \/ status' = status
    BY <1>8, UpdateMoves DEF ApplyPause, apply_pause_requested
  <2>4. CASE status' = status
    BY <2>2, <2>4, StutterLife
  <2>5. CASE status' # status
    <3>1. Lifecycle!ParkHeld(r, p)
      BY <2>1, <2>2, <2>3, <2>5 DEF Lifecycle!ParkHeld, Lifecycle!Move
    <3> QED
      BY <2>1, <3>1 DEF LifeStep, Lifecycle!LifeNext
  <2> QED
    BY <2>4, <2>5
<1>9. CASE FinishFailed(r)
  BY <1>9, <1>a, RetryLife DEF FinishFailed
<1>10. CASE GetStatus(r)
  <2>1. status' = status
    BY <1>10 DEF GetStatus, storeVars
  <2>2. CASE NextRow(r, todo[r])
    BY <1>a, <2>1, <2>2, ReleaseLife
  <2>3. CASE Goto(r, "finish") /\ UNCHANGED <<todo, job>>
    BY <1>10, <1>a, <2>1, <2>3, HeldKept, StutterLife DEF GetStatus
  <2> QED
    BY <1>10, <2>2, <2>3 DEF GetStatus
<1>11. CASE FinishRunning(r)
  <2> DEFINE p == job[r].pid
  <2>1. p \in Pipelines /\ held[r] = p
    BY <1>11, <1>a, HeldPipeline DEF FinishRunning, LocalTyped, JobNamed
  <2>2. held' = [held EXCEPT ![r] = NoPipeline]
    BY <1>11, <1>a, HeldDropped DEF FinishRunning
  <2>3. \/ status[p] = "RUNNING" /\ status' = [status EXCEPT ![p] = "IDLE"]
        \/ status' = status
    BY <1>11, UpdateMoves DEF FinishRunning, finish_running_to_idle, FinishFrom
  <2>4. CASE status' = status
    BY <1>11, <1>a, <2>4, ReleaseLife DEF FinishRunning
  <2>5. CASE status' # status
    <3>1. Lifecycle!Complete(r, p)
      BY <2>1, <2>2, <2>3, <2>5 DEF Lifecycle!Complete, Lifecycle!Move
    <3> QED
      BY <2>1, <3>1 DEF LifeStep, Lifecycle!LifeNext
  <2> QED
    BY <2>4, <2>5
<1>12. CASE GiveUp(r)
  <2> DEFINE p == job[r].pid
  <2>1. p \in Pipelines /\ held[r] = p
    BY <1>12, <1>a, HeldPipeline DEF GiveUp, LocalTyped, JobNamed
  <2>2. held' = [held EXCEPT ![r] = NoPipeline]
    BY <1>12, <1>a, HeldDropped DEF GiveUp
  <2>3. \/ status[p] \in FailFrom /\ status' = [status EXCEPT ![p] = "FAILED"]
        \/ status' = status
    BY <1>12, UpdateMoves DEF GiveUp, fail_if_active
  <2>4. CASE status' = status
    BY <1>12, <1>a, <2>4, ReleaseLife DEF GiveUp
  <2>5. CASE status' # status
    <3>1. Lifecycle!Fail(r, p)
      BY <2>1, <2>2, <2>3, <2>5 DEF Lifecycle!Fail, Lifecycle!Move, FailFrom
    <3> QED
      BY <2>1, <3>1 DEF LifeStep, Lifecycle!LifeNext
  <2> QED
    BY <2>4, <2>5
<1>13. CASE StatementRefused(r)
  BY <1>13, <1>a, RetryLife, ReleaseLife DEF StatementRefused, storeVars
<1> QED
  BY <1>1, <1>2, <1>3, <1>4, <1>5, <1>6, <1>7, <1>8, <1>9, <1>10, <1>11, <1>12,
     <1>13 DEF Step

LEMMA FaultLife ==
  ASSUME RunnerTyped, NEW r \in Runners, FaultStep(r)
  PROVE  LifeStep
<1> USE DEF RunnerTyped
<1>a. LocalTyped /\ todo[r] \in SUBSET Row
  BY DEF LocalTyped
<1>1. CASE ExecutionError(r)
  BY <1>1, <1>a, HeldKept, StutterLife DEF ExecutionError, storeVars
<1>2. CASE BookkeepingError(r)
  <2>1. status' = status
    BY <1>2 DEF BookkeepingError, storeVars
  <2>2. CASE Exit(r) \/ \E rows : NextRow(r, rows)
    BY <1>a, <2>1, <2>2, ReleaseLife
  <2>3. CASE /\ pc[r] \in {"start", "failed", "status", "finish"}
             /\ \E broken \in BOOLEAN : RetryOrGiveUp(r, broken)
    BY <1>a, <2>1, <2>3, RetryLife
  <2> QED
    BY <1>2, <2>2, <2>3 DEF BookkeepingError
<1>3. CASE ConnectionLost(r)
  BY <1>3, <1>a, ReleaseLife DEF ConnectionLost, storeVars
<1>4. CASE RequeueReplyLost(r)
  BY <1>4, <1>a, RequeueLife DEF RequeueReplyLost
<1>5. CASE FailedReplyLost(r)
  BY <1>5, <1>a, ReleaseLife DEF FailedReplyLost
<1>6. CASE Crash(r)
  BY <1>6, <1>a, ReleaseLife DEF Crash, storeVars
<1> QED
  BY <1>1, <1>2, <1>3, <1>4, <1>5, <1>6 DEF FaultStep

LEMMA ApiLife ==
  ASSUME Typed, ApiNext, UNCHANGED runnerVars
  PROVE  LifeStep
<1>1. held' = held
  BY DEF held, runnerVars
<1>2. PICK c \in Clients :
        \/ \E p \in Pipelines : \/ run_pipeline(c, p)
                                \/ pause_pipeline(c, p)
                                \/ patch_pipeline(c, p)
        \/ RequestRun(c) \/ RequestPause(c) \/ CommitPatch(c) \/ AbandonCall(c)
  BY DEF ApiNext
<1> DEFINE p == call[c].pid
<1>3. p \in Pipelines \/ p = NoPipeline
  BY DEF Typed, TypeOK, ApiTypeOK, Call
<1>4. status \in [Pipelines -> PipelineStatus]
  BY DEF Typed, TypeOK, StoreTypeOK
<1>5. CASE RequestRun(c)
  <2>1. \/ status[p] \in RequestRunFrom /\ status' = [status EXCEPT ![p] = "RUN_REQUESTED"]
        \/ status' = status
    BY <1>5, UpdateMoves DEF RequestRun, request_run
  <2>2. CASE status' = status
    BY <1>1, <2>2, StutterLife
  <2>3. CASE status' # status
    <3>1. p \in Pipelines
      BY <1>3, <1>4, <2>1, <2>3, PipelinesAssumption DEF NoPipeline
    <3>2. Lifecycle!AskRun(p)
      BY <1>1, <2>1, <2>3 DEF Lifecycle!AskRun, Lifecycle!Move, RequestRunFrom
    <3> QED
      BY <3>1, <3>2 DEF LifeStep, Lifecycle!LifeNext
  <2> QED
    BY <2>2, <2>3
<1>6. CASE RequestPause(c)
  <2>1. \/ status[p] \in RequestPauseFrom
           /\ status' = [status EXCEPT ![p] = "PAUSE_REQUESTED"]
        \/ status' = status
    BY <1>6, UpdateMoves DEF RequestPause, request_pause
  <2>2. CASE status' = status
    BY <1>1, <2>2, StutterLife
  <2>3. CASE status' # status
    <3>1. p \in Pipelines
      BY <1>3, <1>4, <2>1, <2>3, PipelinesAssumption DEF NoPipeline
    <3>2. Lifecycle!AskPause(p)
      BY <1>1, <2>1, <2>3 DEF Lifecycle!AskPause, Lifecycle!Move, RequestPauseFrom
    <3> QED
      BY <3>1, <3>2 DEF LifeStep, Lifecycle!LifeNext
  <2> QED
    BY <2>2, <2>3
<1>7. CASE \/ \E q \in Pipelines : \/ run_pipeline(c, q)
                                   \/ pause_pipeline(c, q)
                                   \/ patch_pipeline(c, q)
           \/ CommitPatch(c) \/ AbandonCall(c)
  BY <1>1, <1>7, StutterLife DEF run_pipeline, pause_pipeline, patch_pipeline,
                                 CommitPatch, AbandonCall, storeVars
<1> QED
  BY <1>2, <1>5, <1>6, <1>7

LEMMA NextLife == Typed /\ [Next]_vars => LifeStep
<1> SUFFICES ASSUME Typed, [Next]_vars PROVE LifeStep
  OBVIOUS
<1>1. CASE ApiNext /\ UNCHANGED runnerVars
  BY <1>1, ApiLife
<1>2. CASE RunnerNext
  BY <1>2, TypedParts, StepLife, FaultLife DEF RunnerNext
<1>3. CASE UNCHANGED vars
  BY <1>3, StutterLife DEF vars, storeVars, runnerVars, held
<1> QED
  BY <1>1, <1>2, <1>3 DEF Next

LEMMA InitLife == Init => Lifecycle!LifeInit
BY DEF Init, StoreInit, RunnerInit, Lifecycle!LifeInit, held

(* The platform implements PipelineLifecycle for any number of pipelines,  *)
(* clients and runners and under every kind of fault: every change of a    *)
(* status is a request an operator may make, a settlement by the runner    *)
(* that holds the pipeline, or a re-queueing by a runner that starts.      *)
THEOREM ImplementsLifecycle == Spec => LifecycleSpec
<1>1. Spec => []Typed
  BY TypedInit, TypedStep, PTL DEF Spec
<1>2. Typed /\ [Next]_vars => [Lifecycle!LifeNext]_(Lifecycle!lifeVars)
  BY NextLife DEF LifeStep
<1>3. Init => Lifecycle!LifeInit
  BY InitLife
<1> QED
  BY <1>1, <1>2, <1>3, PTL DEF Spec, LifecycleSpec, Lifecycle!LifeSpec

(***************************************************************************)
(* Exclusion.  ExclusiveClaim is not inductive by itself: that a claim on  *)
(* p excludes a second one rests on ClaimHeld, which ties an undisturbed   *)
(* executor to a status from which nobody can claim.                       *)
(***************************************************************************)
ClaimHeld ==
  \A r \in Runners :
    pc[r] \in ClaimPcs /\ r \notin preempted => Claimed(job[r].pid)

Exclusion == ExclusiveClaim /\ ClaimHeld

LEMMA ExecutingHeld ==
  ASSUME Typed, NEW r \in Runners, NEW p \in Pipelines
  PROVE  Executing(r, p) <=> held[r] = p
BY TypedParts, HeldPipeline DEF RunnerTyped, Executing

\* Only a claim puts a pipeline into a runner's hands, one runner at a time,
\* and only from RUN_REQUESTED.
LEMMA HoldsByClaim ==
  ASSUME LifeStep, held \in [Runners -> Pipelines \cup {NoPipeline}],
         NEW r \in Runners, NEW p \in Pipelines, held'[r] = p, held[r] # p
  PROVE  /\ status[p] = "RUN_REQUESTED"
         /\ \A s \in Runners \ {r} : held'[s] = held[s]
<1>0. NoPipeline \notin Pipelines
  BY PipelinesAssumption DEF NoPipeline
<1>1. Lifecycle!LifeNext
  BY DEF LifeStep, Lifecycle!lifeVars
<1>2. held' # held
  OBVIOUS
<1>3. CASE \E w \in Runners, q \in Pipelines : Lifecycle!Take(w, q)
  <2>1. PICK w \in Runners, q \in Pipelines : Lifecycle!Take(w, q)
    BY <1>3
  <2>2. w = r /\ q = p
    BY <2>1 DEF Lifecycle!Take
  <2> QED
    BY <2>1, <2>2 DEF Lifecycle!Take, Lifecycle!Move
<1>4. CASE \E w \in Runners : held' = [held EXCEPT ![w] = NoPipeline]
  BY <1>0, <1>4
<1> QED
  BY <1>1, <1>2, <1>3, <1>4
  DEF Lifecycle!LifeNext, Lifecycle!AskRun, Lifecycle!AskPause, Lifecycle!ParkIdle,
      Lifecycle!ParkHeld, Lifecycle!Complete, Lifecycle!Fail, Lifecycle!Release,
      Lifecycle!Restart

LEMMA ExclusionInit == Init => Exclusion
BY DEF Init, RunnerInit, Exclusion, ExclusiveClaim, ClaimHeld, Executing

LEMMA ExclusionStep == Typed /\ Typed' /\ Exclusion /\ [Next]_vars => Exclusion'
<1> SUFFICES ASSUME Typed, Typed', Exclusion, [Next]_vars PROVE Exclusion'
  OBVIOUS
<1>0. LifeStep
  BY NextLife
<1>1. CASE UNCHANGED vars
  BY <1>1 DEF vars, storeVars, runnerVars, Exclusion, ExclusiveClaim, ClaimHeld,
              Executing, Claimed
<1>2. CASE Next
  <2>1. /\ preempted' \subseteq Runners
        /\ \A r \in Runners :
             r \in preempted' <=> /\ pc'[r] \in ClaimPcs
                                  /\ r \in preempted \/ ~Claimed(job[r].pid)'
    BY <1>2 DEF Next, RecordPreemption
  <2>2. ClaimHeld'
    BY <2>1 DEF ClaimHeld
  <2>3. ASSUME NEW r \in Runners, NEW s \in Runners, NEW p \in Pipelines,
               r # s, Executing(r, p)', Executing(s, p)', r \notin preempted'
        PROVE  s \in preempted'
    <3>1. held'[r] = p /\ held'[s] = p
      BY <2>3 DEF Executing, held
    <3>2. held \in [Runners -> Pipelines \cup {NoPipeline}]
      BY TypedParts, HeldPipeline DEF RunnerTyped, held
    <3>3. r \notin preempted /\ (s \in preempted => s \in preempted')
      BY <2>1, <2>3 DEF Executing
    <3>4. \A t \in Runners : held[t] = p => Executing(t, p)
      BY ExecutingHeld
    <3>5. CASE held[r] = p /\ held[s] = p
      BY <2>3, <3>3, <3>4, <3>5 DEF Exclusion, ExclusiveClaim
    <3>6. CASE held[r] # p
      \* r claims p now: s is the disturbed one.
      <4>1. status[p] = "RUN_REQUESTED" /\ held[s] = p
        BY <1>0, <2>3, <3>1, <3>2, <3>6, HoldsByClaim
      <4>2. s \in preempted
        BY <3>4, <4>1 DEF Executing, Exclusion, ClaimHeld, Claimed
      <4> QED
        BY <3>3, <4>2
    <3>7. CASE held[r] = p /\ held[s] # p
      \* s claims p now, from RUN_REQUESTED: then r was disturbed before.
      <4>1. status[p] = "RUN_REQUESTED"
        BY <1>0, <2>3, <3>1, <3>2, <3>7, HoldsByClaim
      <4>2. r \in preempted
        BY <3>4, <3>7, <4>1 DEF Executing, Exclusion, ClaimHeld, Claimed
      <4> QED
        BY <3>3, <4>2
    <3> QED
      BY <3>5, <3>6, <3>7
  <2>4. ExclusiveClaim'
    BY <2>3 DEF ExclusiveClaim
  <2> QED
    BY <2>2, <2>4 DEF Exclusion
<1> QED
  BY <1>1, <1>2

(* The claim is a lock among any number of runners: of two runners that    *)
(* execute one pipeline, at least one goes on after its claim was ended    *)
(* from outside.  A claim that nobody disturbs is exclusive.               *)
THEOREM ClaimIsExclusive == Spec => []ExclusiveClaim
<1>1. Spec => []Typed
  BY TypedInit, TypedStep, PTL DEF Spec
<1>2. Typed /\ Typed' /\ Exclusion /\ [Next]_vars => Exclusion'
  BY ExclusionStep
<1>3. Spec => []Exclusion
  BY <1>1, <1>2, ExclusionInit, PTL DEF Spec
<1>4. Exclusion => ExclusiveClaim
  BY DEF Exclusion
<1> QED
  BY <1>3, <1>4, PTL

=============================================================================
