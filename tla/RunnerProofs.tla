---------------------------- MODULE RunnerProofs ----------------------------
(***************************************************************************)
(* Theorems about EtlPlatform with one runner, the deployment              *)
(* docker-compose describes: the run row an executor closes is its own, a  *)
(* closed run is history, a startup leaves nothing RUNNING behind, a pause *)
(* falls between two batches, and IDLE means complete, for any pipelines,  *)
(* clients and bounds, under every kind of fault.  Three theorems are      *)
(* about any number of runners: a RUNNING pipeline has an owner, SUCCESS   *)
(* is final, and a tick comes to its end.                                  *)
(***************************************************************************)
EXTENDS EtlPlatformProofs, FiniteSetTheorems

USE DEF ClaimPcs, BodyPcs, Pcs

SingleRunner == \A r, s \in Runners : r = s

(***************************************************************************)
(* The inductive invariant: what is true of the pipeline that r executes.  *)
(***************************************************************************)

\* The run r is about to close is the latest of its pipeline, and open.
OwnsRun(r) ==
  pc[r] \in BodyPcs \cup {"failed"} =>
    /\ job[r].run = Len(runs[job[r].pid])
    /\ runs[job[r].pid] # << >>
    /\ runs[job[r].pid][job[r].run] = "RUNNING"

\* Nobody finishes the pipeline behind r's back, and a pause request that r
\* has seen can be withdrawn but not turned into RUNNING.
Unfinished(r) ==
  /\ pc[r] \in ClaimPcs => status[job[r].pid] # "IDLE"
  /\ pc[r] = "pause" => status[job[r].pid] # "RUNNING"

\* What r is about to finalise is drained and recorded, or no longer RUNNING.
Recorded(r) ==
  /\ pc[r] \in {"success", "status", "finish"} /\ status[job[r].pid] = "RUNNING" =>
       bodyEnd[job[r].pid] = "drained"
  /\ pc[r] \in {"status", "finish"} =>
       /\ runs[job[r].pid] # << >>
       /\ runs[job[r].pid][Len(runs[job[r].pid])] = "SUCCESS"

\* Only the attempt that applies a pause can be followed by PAUSED, and it
\* reads no further batch.
FirstUnpaused(r) ==
  /\ pc[r] = "snapshot" => job[r].attempt = 0
  /\ pc[r] \in ClaimPcs \ {"snapshot"} => job[r].attempt >= 1
  /\ pc[r] \in {"snapshot", "start", "read", "write", "check", "pause"}
       /\ job[r].attempt <= 1 => status[job[r].pid] # "PAUSED"

Solo(r) == OwnsRun(r) /\ Unfinished(r) /\ Recorded(r) /\ FirstUnpaused(r)

SoloInv == IdleMeansComplete /\ \A r \in Runners : Solo(r)

(***************************************************************************)
(* Where a step leads.                                                     *)
(***************************************************************************)

\* After its dispatch a runner is outside any claim.
LEMMA LeavesClaim ==
  ASSUME LocalTyped, NEW r \in Runners, NEW rows, NextRow(r, rows) \/ Exit(r)
  PROVE  pc'[r] \in {"poll", "dispatch", "down"}
BY DEF NextRow, Exit, Goto, LocalTyped

LEMMA RetryLabels ==
  ASSUME LocalTyped, NEW r \in Runners, NEW broken, RetryOrGiveUp(r, broken)
  PROVE  /\ pc'[r] \in {"start", "giveup"}
         /\ job'[r].pid = job[r].pid
         /\ job[r].attempt \in Nat
         /\ job'[r].attempt \in Nat
         /\ job'[r].attempt >= job[r].attempt
         /\ pc'[r] = "start" => job'[r].attempt = job[r].attempt + 1
<1>1. job[r].attempt \in Nat
  BY RunnerAssumption DEF LocalTyped, Job
<1>2. job'[r] = NextAttempt(r, broken)
  BY DEF RetryOrGiveUp, LocalTyped
<1>3. pc'[r] = IF AttemptsLeft(r) THEN "start" ELSE "giveup"
  BY DEF RetryOrGiveUp, Goto, LocalTyped
<1>4. QED BY <1>1, <1>2, <1>3 DEF NextAttempt

\* The history changes by an insertion, by closing the row r holds open, or
\* by recovery.
LEMMA RunsMove ==
  ASSUME NEW r \in Runners, Step(r) \/ FaultStep(r)
  PROVE  \/ runs' = runs
         \/ StartRun(r)
         \/ FinishSuccess(r)
         \/ pc[r] = "failed" /\ finish_failed(job[r].pid, job[r].run)
         \/ \E ids : recover_running_failed_bulk(ids)
<1>1. CASE Step(r)
  BY <1>1 DEF Step, Start, Recover, Requeue, RequeueStuck, IdleTick, Poll, DispatchPause,
              Claim, ClaimLost, TakeSnapshot, ReadRows, ReadEof, CommitBatch, CheckPause,
              ApplyPause, FinishSuccess, FinishFailed, GetStatus, FinishRunning, GiveUp,
              StatementRefused, storeVars
<1>2. CASE FaultStep(r)
  BY <1>2 DEF FaultStep, ExecutionError, BookkeepingError, ConnectionLost,
              RequeueReplyLost, RequeueStuck, FailedReplyLost, Crash, storeVars
<1>3. QED BY <1>1, <1>2

\* Of the steps that end with a run in hand, StartRun opens it and the others
\* keep it.
LEMMA BodyMove ==
  ASSUME LocalTyped, NEW r \in Runners, Step(r) \/ FaultStep(r),
         pc'[r] \in BodyPcs \cup {"failed"}
  PROVE  \/ StartRun(r)
         \/ /\ pc[r] \in BodyPcs \cup {"failed"}
            /\ runs' = runs /\ job'[r].pid = job[r].pid /\ job'[r].run = job[r].run
            /\ job'[r].attempt = job[r].attempt
<1>1. CASE StartRun(r)
  BY <1>1
<1>2. CASE ReadRows(r)
  <2>1. /\ job'[r].pid = job[r].pid /\ job'[r].run = job[r].run
        /\ job'[r].attempt = job[r].attempt
    BY <1>2 DEF ReadRows, LocalTyped, Job
  <2>2. QED BY <1>2, <2>1 DEF ReadRows, storeVars
<1>3. CASE \/ ReadEof(r) \/ CommitBatch(r) \/ CheckPause(r) \/ ApplyPause(r)
           \/ ExecutionError(r)
  BY <1>3 DEF ReadEof, CommitBatch, CheckPause, ApplyPause, ExecutionError, storeVars
<1>4. CASE IdleTick(r)
  BY <1>4 DEF IdleTick, runnerVars
<1>5. CASE \E label \in Pcs \ (BodyPcs \cup {"failed"}) : Goto(r, label)
  BY <1>5 DEF Goto, LocalTyped
<1>6. CASE \/ \E rows : NextRow(r, rows)
           \/ Exit(r)
           \/ \E broken : RetryOrGiveUp(r, broken)
  BY <1>6, LeavesClaim, RetryLabels
<1>7. CASE Step(r)
  BY <1>1, <1>2, <1>3, <1>4, <1>5, <1>6, <1>7
  DEF Step, Start, Recover, Requeue, Poll, DispatchPause, Claim, ClaimLost, TakeSnapshot,
      FinishSuccess, FinishFailed, GetStatus, FinishRunning, GiveUp, StatementRefused
<1>8. CASE FaultStep(r)
  BY <1>3, <1>6, <1>8
  DEF FaultStep, BookkeepingError, ConnectionLost, RequeueReplyLost, FailedReplyLost, Crash
<1>9. QED BY <1>7, <1>8

(***************************************************************************)
(* Run rows.                                                               *)
(***************************************************************************)

LEMMA OwnsRunStep ==
  ASSUME RunnerTyped, NEW r \in Runners, OwnsRun(r), Step(r) \/ FaultStep(r)
  PROVE  OwnsRun(r)'
<1> SUFFICES ASSUME pc'[r] \in BodyPcs \cup {"failed"} PROVE OwnsRun(r)'
  BY DEF OwnsRun
<1>1. CASE StartRun(r)
  <2> DEFINE p == job[r].pid
  <2>1. p \in Pipelines /\ runs[p] \in Seq(RunStatus) /\ Len(runs[p]) \in Nat
    BY <1>1, LenProperties DEF StartRun, RunnerTyped, LocalTyped, JobNamed, StoreTypeOK
  <2>2. runs'[p] = Append(runs[p], "RUNNING")
    BY <1>1, <2>1 DEF StartRun, start_run, RunnerTyped, StoreTypeOK
  <2>3. Len(runs'[p]) = Len(runs[p]) + 1 /\ runs'[p][Len(runs[p]) + 1] = "RUNNING"
    BY <2>1, <2>2, AppendProperties DEF RunStatus
  <2>4. job'[r].pid = p /\ job'[r].run = Len(runs[p]) + 1
    BY <1>1 DEF StartRun, NewRunId, RunnerTyped, LocalTyped, Job
  <2>5. runs'[p] # << >>
    BY <2>1, <2>3
  <2>6. QED BY <2>3, <2>4, <2>5 DEF OwnsRun
<1>2. CASE /\ pc[r] \in BodyPcs \cup {"failed"}
           /\ runs' = runs /\ job'[r].pid = job[r].pid /\ job'[r].run = job[r].run
  BY <1>2 DEF OwnsRun
<1>3. QED BY <1>1, <1>2, BodyMove DEF RunnerTyped

\* No step rewrites a closed run: the rows are inserted at the end, closed by
\* the runner that holds them open, or failed by recovery while open.
LEMMA ClosedStay ==
  ASSUME RunnerTyped, NEW r \in Runners, OwnsRun(r), Step(r) \/ FaultStep(r),
         NEW p \in Pipelines, NEW i \in DOMAIN runs[p], runs[p][i] # "RUNNING"
  PROVE  runs'[p][i] = runs[p][i]
<1>1. runs \in [Pipelines -> Seq(RunStatus)] /\ runs[p] \in Seq(RunStatus)
      /\ DOMAIN runs[p] = 1 .. Len(runs[p]) /\ Len(runs[p]) \in Nat
  BY LenProperties DEF RunnerTyped, StoreTypeOK
<1>2. CASE StartRun(r)
  <2>1. CASE job[r].pid = p
    <3>1. runs'[p] = Append(runs[p], "RUNNING")
      BY <1>1, <1>2, <2>1 DEF StartRun, start_run
    <3>2. QED BY <1>1, <3>1, AppendProperties DEF RunStatus
  <2>2. CASE job[r].pid # p
    BY <1>1, <1>2, <2>2 DEF StartRun, start_run
  <2>3. QED BY <2>1, <2>2
<1>3. CASE \/ FinishSuccess(r)
           \/ pc[r] = "failed" /\ finish_failed(job[r].pid, job[r].run)
  <2>1. job[r].pid = p => job[r].run # i
    BY <1>3 DEF FinishSuccess, OwnsRun
  <2>2. QED BY <1>1, <1>3, <2>1 DEF FinishSuccess, finish_success, finish_failed
<1>4. CASE \E ids : recover_running_failed_bulk(ids)
  BY <1>1, <1>4 DEF recover_running_failed_bulk
<1>5. QED BY <1>2, <1>3, <1>4, RunsMove

\* The handlers change no run, and a status only to a request.
LEMMA ApiMoves ==
  ASSUME ApiNext, status \in [Pipelines -> PipelineStatus]
  PROVE  /\ runs' = runs
         /\ \A p \in Pipelines :
              status'[p] = status[p] \/ status'[p] \in {"RUN_REQUESTED", "PAUSE_REQUESTED"}
<1>1. PICK c \in Clients :
        \/ \E p \in Pipelines : \/ run_pipeline(c, p)
                                \/ pause_pipeline(c, p)
                                \/ patch_pipeline(c, p)
        \/ RequestRun(c) \/ RequestPause(c) \/ CommitPatch(c) \/ AbandonCall(c)
  BY DEF ApiNext
<1>2. CASE RequestRun(c)
  BY <1>2 DEF RequestRun, request_run, UpdateStatus
<1>3. CASE RequestPause(c)
  BY <1>3 DEF RequestPause, request_pause, UpdateStatus
<1>4. CASE \/ \E p \in Pipelines : \/ run_pipeline(c, p)
                                   \/ pause_pipeline(c, p)
                                   \/ patch_pipeline(c, p)
           \/ CommitPatch(c) \/ AbandonCall(c)
  BY <1>4 DEF run_pipeline, pause_pipeline, patch_pipeline, CommitPatch, AbandonCall,
              storeVars
<1>5. QED BY <1>1, <1>2, <1>3, <1>4

LEMMA OwnsInit == Init => \A r \in Runners : OwnsRun(r)
BY DEF Init, RunnerInit, OwnsRun

LEMMA OwnsStep ==
  ASSUME SingleRunner, Typed, \A r \in Runners : OwnsRun(r), [Next]_vars
  PROVE  /\ (\A r \in Runners : OwnsRun(r))'
         /\ \A p \in Pipelines : \A i \in DOMAIN runs[p] :
              runs[p][i] # "RUNNING" => runs'[p][i] = runs[p][i]
<1>1. CASE ApiNext /\ UNCHANGED runnerVars
  <2>1. runs' = runs
    BY <1>1, ApiMoves DEF Typed, TypeOK, StoreTypeOK
  <2>2. QED BY <1>1, <2>1 DEF OwnsRun, runnerVars
<1>2. ASSUME NEW r \in Runners, Step(r) \/ FaultStep(r)
      PROVE  /\ (\A s \in Runners : OwnsRun(s))'
             /\ \A p \in Pipelines : \A i \in DOMAIN runs[p] :
                  runs[p][i] # "RUNNING" => runs'[p][i] = runs[p][i]
  <2>1. RunnerTyped
    BY TypedParts
  <2>2. OwnsRun(r)'
    BY <1>2, <2>1, OwnsRunStep
  <2>3. \A s \in Runners : s = r
    BY DEF SingleRunner
  <2>4. (\A s \in Runners : OwnsRun(s))'
    BY <2>2, <2>3
  <2>5. QED BY <1>2, <2>1, <2>4, ClosedStay
<1>3. CASE UNCHANGED vars
  BY <1>3 DEF vars, storeVars, runnerVars, OwnsRun
<1>4. QED BY <1>1, <1>2, <1>3 DEF Next, RunnerNext

LEMMA OwnsAlways ==
  SingleRunner => (Spec => [](Typed /\ \A r \in Runners : OwnsRun(r)))
<1> SUFFICES ASSUME SingleRunner
             PROVE  Spec => [](Typed /\ \A r \in Runners : OwnsRun(r))
  OBVIOUS
<1> DEFINE Inv == Typed /\ \A r \in Runners : OwnsRun(r)
<1>1. Init => Inv
  BY TypedInit, OwnsInit
<1>2. Inv /\ [Next]_vars => Inv'
  BY TypedStep, OwnsStep
<1>3. QED BY <1>1, <1>2, PTL DEF Spec

(* With one runner, the run an executor is about to close is its own       *)
(* latest row and still RUNNING, whatever retries, recoveries, lost        *)
(* connections and restarts went before.                                   *)
THEOREM RunRowIsOwned == SingleRunner => (Spec => []RunRowOwned)
<1>1. (\A r \in Runners : OwnsRun(r)) => RunRowOwned
  BY DEF OwnsRun, RunRowOwned
<1>2. QED BY <1>1, OwnsAlways, PTL

(* With one runner, SUCCESS and FAILED are final: no late executor, retry  *)
(* or recovery rewrites a closed run.                                      *)
THEOREM ClosedRunsAreFinal == SingleRunner => (Spec => ClosedRunsStay)
<1> SUFFICES ASSUME SingleRunner PROVE Spec => ClosedRunsStay
  OBVIOUS
<1>1. Typed /\ (\A r \in Runners : OwnsRun(r)) /\ [Next]_vars =>
        [\A p \in Pipelines : \A i \in DOMAIN runs[p] :
           runs[p][i] # "RUNNING" => runs'[p][i] = runs[p][i]]_vars
  BY OwnsStep
<1>2. QED BY <1>1, OwnsAlways, PTL DEF Spec, ClosedRunsStay

(***************************************************************************)
(* Statuses.                                                               *)
(***************************************************************************)

\* The steps of a runner that change a status, and what they change.
LEMMA StatusMove ==
  ASSUME RunnerTyped, NEW r \in Runners, Step(r) \/ FaultStep(r),
         NEW p \in Pipelines, status'[p] # status[p]
  PROVE  \/ pc[r] = "dispatch" /\ pc'[r] \notin ClaimPcs /\ status'[p] = "PAUSED"
            /\ status[p] = "PAUSE_REQUESTED"
         \/ pc[r] = "dispatch" /\ pc'[r] = "snapshot" /\ job'[r].pid = p
            /\ status'[p] = "RUNNING"
         \/ ApplyPause(r) /\ job[r].pid = p /\ status'[p] = "PAUSED"
         \/ FinishRunning(r) /\ job[r].pid = p /\ status[p] = "RUNNING"
            /\ status'[p] = "IDLE"
         \/ pc[r] = "giveup" /\ pc'[r] \notin ClaimPcs /\ status'[p] = "FAILED"
         \/ pc[r] = "requeue" /\ pc'[r] \notin ClaimPcs /\ status'[p] = "RUN_REQUESTED"
<1>0. status \in [Pipelines -> PipelineStatus] /\ LocalTyped
  BY DEF RunnerTyped, StoreTypeOK
<1>1. CASE \E row \in todo[r] : DispatchPause(r, row)
  BY <1>0, <1>1, LeavesClaim
  DEF DispatchPause, apply_pause_requested, UpdateStatus, Matches
<1>2. ASSUME NEW row \in todo[r], Claim(r, row)
      PROVE  pc[r] = "dispatch" /\ pc'[r] = "snapshot" /\ job'[r].pid = p
             /\ status'[p] = "RUNNING"
  <2>1. row.pid = p /\ status'[p] = "RUNNING"
    BY <1>0, <1>2 DEF Claim, claim_run_requested, UpdateStatus
  <2>2. pc'[r] = "snapshot" /\ job'[r] = JobOf(p)
    BY <1>0, <1>2, <2>1 DEF Claim, Goto, LocalTyped
  <2>3. QED BY <1>2, <2>1, <2>2, JobOfTyped DEF Claim
<1>3. CASE ApplyPause(r)
  BY <1>0, <1>3 DEF ApplyPause, apply_pause_requested, UpdateStatus
<1>4. CASE FinishRunning(r)
  BY <1>0, <1>4 DEF FinishRunning, finish_running_to_idle, FinishFrom, UpdateStatus, Matches
<1>5. CASE GiveUp(r)
  BY <1>0, <1>5, LeavesClaim DEF GiveUp, fail_if_active, UpdateStatus
<1>6. CASE Requeue(r) \/ RequeueReplyLost(r)
  BY <1>0, <1>6, LeavesClaim
  DEF Requeue, RequeueReplyLost, RequeueStuck, mark_run_requested_bulk
<1>7. CASE status' = status
  BY <1>7
<1>8. CASE Step(r)
  BY <1>1, <1>2, <1>3, <1>4, <1>5, <1>6, <1>7, <1>8
  DEF Step, Start, Recover, IdleTick, Poll, ClaimLost, TakeSnapshot, StartRun, ReadRows,
      ReadEof, CommitBatch, CheckPause, FinishSuccess, FinishFailed, GetStatus,
      StatementRefused, storeVars
<1>9. CASE FaultStep(r)
  BY <1>6, <1>7, <1>9
  DEF FaultStep, ExecutionError, BookkeepingError, ConnectionLost, FailedReplyLost, Crash,
      storeVars
<1>10. QED BY <1>8, <1>9

(* With one runner, a pipeline becomes PAUSED only while none of its       *)
(* batches is between its read and its commit: a request is applied by a   *)
(* runner that is between two batches or executes nothing.                 *)
THEOREM PausesBetweenBatches == SingleRunner => (Spec => PauseBetweenBatches)
<1> SUFFICES ASSUME SingleRunner PROVE Spec => PauseBetweenBatches
  OBVIOUS
<1>1. ASSUME Typed, Next, NEW p \in Pipelines, status[p] # "PAUSED", status'[p] = "PAUSED",
             NEW r \in Runners
      PROVE  pc[r] # "write"
  <2>1. RunnerTyped /\ status \in [Pipelines -> PipelineStatus]
    BY <1>1, TypedParts DEF RunnerTyped, StoreTypeOK
  <2>2. ~ApiNext
    BY <1>1, <2>1, ApiMoves
  <2>3. PICK s \in Runners : Step(s) \/ FaultStep(s)
    BY <1>1, <2>2 DEF Next, RunnerNext
  <2>4. pc[s] \in {"dispatch", "pause"}
    BY <1>1, <2>1, <2>3, StatusMove DEF ApplyPause
  <2>5. QED BY <2>4 DEF SingleRunner
<1>2. Typed /\ [Next]_vars =>
        [\A p \in Pipelines : status[p] # "PAUSED" /\ status'[p] = "PAUSED" =>
           ~\E r \in Runners : Executing(r, p) /\ pc[r] = "write"]_vars
  BY <1>1
<1>3. Spec => []Typed
  BY TypedInit, TypedStep, PTL DEF Spec
<1>4. QED BY <1>2, <1>3, PTL DEF Spec, PauseBetweenBatches

(***************************************************************************)
(* Recovery.                                                               *)
(***************************************************************************)

\* Between the SELECT of the stuck pipelines and their recovery, nothing else
\* becomes RUNNING.
Listed(r) ==
  pc[r] = "requeue" =>
    \A p \in Pipelines : status[p] = "RUNNING" => \E row \in todo[r] : row.pid = p

\* How a runner gets into the recovery of what it has listed.
LEMMA IntoRequeue ==
  ASSUME LocalTyped, NEW r \in Runners, Step(r) \/ FaultStep(r), pc'[r] = "requeue"
  PROVE  Recover(r)
<1>1. CASE \/ \E rows : NextRow(r, rows)
           \/ Exit(r)
           \/ \E broken : RetryOrGiveUp(r, broken)
           \/ \E label \in Pcs \ {"requeue"} : Goto(r, label)
  BY <1>1, LeavesClaim, RetryLabels DEF Goto, LocalTyped
<1>2. CASE IdleTick(r)
  BY <1>2 DEF IdleTick, runnerVars
<1>3. CASE Step(r)
  BY <1>1, <1>2, <1>3
  DEF Step, Start, Requeue, Poll, DispatchPause, Claim, ClaimLost, TakeSnapshot, StartRun,
      ReadRows, ReadEof, CommitBatch, CheckPause, ApplyPause, FinishSuccess, FinishFailed,
      GetStatus, FinishRunning, GiveUp, StatementRefused
<1>4. CASE FaultStep(r)
  BY <1>1, <1>4
  DEF FaultStep, ExecutionError, BookkeepingError, ConnectionLost, RequeueReplyLost,
      FailedReplyLost, Crash
<1>5. QED BY <1>3, <1>4

LEMMA ListedStep ==
  ASSUME SingleRunner, Typed, \A r \in Runners : Listed(r), [Next]_vars
  PROVE  (\A r \in Runners : Listed(r))'
<1>1. CASE ApiNext /\ UNCHANGED runnerVars
  <2>1. \A p \in Pipelines : status'[p] = "RUNNING" => status[p] = "RUNNING"
    BY <1>1, ApiMoves DEF Typed, TypeOK, StoreTypeOK
  <2>2. QED BY <1>1, <2>1 DEF Listed, runnerVars
<1>2. ASSUME NEW r \in Runners, Step(r) \/ FaultStep(r)
      PROVE  (\A s \in Runners : Listed(s))'
  <2>1. ASSUME pc'[r] = "requeue" PROVE Listed(r)'
    <3>1. Recover(r)
      BY <1>2, <2>1, TypedParts, IntoRequeue DEF RunnerTyped
    <3>2. /\ todo'[r] = Fetched(list_stuck_running_ids) /\ status' = status
      BY <3>1, TypedParts DEF Recover, storeVars, RunnerTyped, LocalTyped
    <3>3. \A p \in Pipelines : status[p] = "RUNNING" =>
            \E row \in Fetched(list_stuck_running_ids) : row.pid = p
      <4>1. TAKE p \in Pipelines
      <4>2. HAVE status[p] = "RUNNING"
      <4>3. [pid |-> p, seen |-> status[p]] \in Fetched(list_stuck_running_ids)
        BY <4>2 DEF Fetched, list_stuck_running_ids
      <4>4. QED BY <4>3
    <3>4. QED BY <3>2, <3>3 DEF Listed
  <2>2. Listed(r)'
    BY <2>1 DEF Listed
  <2>3. QED BY <2>2 DEF SingleRunner
<1>3. CASE UNCHANGED vars
  BY <1>3 DEF vars, storeVars, runnerVars, Listed
<1>4. QED BY <1>1, <1>2, <1>3 DEF Next, RunnerNext

\* The step from recovery to the first tick settles what it finds RUNNING.
LEMMA RecoveryStep ==
  ASSUME Typed, NEW r \in Runners, Listed(r), Step(r) \/ FaultStep(r),
         pc[r] \in {"recover", "requeue"}, pc'[r] = "poll",
         NEW p \in Pipelines, status[p] = "RUNNING"
  PROVE  /\ status'[p] = "RUN_REQUESTED"
         /\ \A i \in DOMAIN runs[p] : runs'[p][i] # "RUNNING"
<1>1. LocalTyped
  BY TypedParts DEF RunnerTyped
<1>2. Recover(r) \/ Requeue(r)
  BY <1>1 DEF Step, Start, IdleTick, Poll, DispatchPause, Claim, ClaimLost, TakeSnapshot,
      StartRun, ReadRows, ReadEof, CommitBatch, CheckPause, ApplyPause, FinishSuccess,
      FinishFailed, GetStatus, FinishRunning, GiveUp, StatementRefused, FaultStep,
      ExecutionError, BookkeepingError, ConnectionLost, RequeueReplyLost, FailedReplyLost,
      Crash, Exit, Goto, LocalTyped
<1>3. ~Recover(r)
  BY <1>1 DEF Recover, Goto, LocalTyped, list_stuck_running_ids
<1>4. Requeue(r)
  BY <1>2, <1>3
<1>5. p \in {row.pid : row \in todo[r]}
  BY <1>4 DEF Requeue, Listed
<1>6. QED
  BY <1>4, <1>5
  DEF Requeue, RequeueStuck, mark_run_requested_bulk, recover_running_failed_bulk

(* With one runner, a startup leaves nothing behind that an earlier crash  *)
(* or lost connection left RUNNING: what is RUNNING when recovery ends was *)
(* RUNNING when it was listed, since only the runner itself could claim    *)
(* anything in between.                                                    *)
THEOREM StartupRecovers == SingleRunner => (Spec => RestartRecovers)
<1> SUFFICES ASSUME SingleRunner PROVE Spec => RestartRecovers
  OBVIOUS
<1> DEFINE Inv == Typed /\ \A r \in Runners : Listed(r)
<1>1. Init => Inv
  BY TypedInit DEF Init, RunnerInit, Listed
<1>2. Inv /\ [Next]_vars => Inv'
  BY TypedStep, ListedStep
<1>3. ASSUME Inv, Next, NEW r \in Runners, NEW p \in Pipelines,
             pc[r] \in {"recover", "requeue"}, pc'[r] = "poll", status[p] = "RUNNING"
      PROVE  /\ status'[p] = "RUN_REQUESTED"
             /\ \A i \in DOMAIN runs[p] : runs'[p][i] # "RUNNING"
  <2>1. \E s \in Runners : Step(s) \/ FaultStep(s)
    BY <1>3 DEF Next, RunnerNext, runnerVars
  <2>2. Step(r) \/ FaultStep(r)
    BY <2>1 DEF SingleRunner
  <2>3. QED BY <1>3, <2>2, RecoveryStep
<1>4. Inv /\ [Next]_vars =>
        [\A r \in Runners : \A p \in Pipelines :
           pc[r] \in {"recover", "requeue"} /\ pc'[r] = "poll" /\ status[p] = "RUNNING" =>
             /\ status'[p] = "RUN_REQUESTED"
             /\ \A i \in DOMAIN runs[p] : runs'[p][i] # "RUNNING"]_vars
  BY <1>3
<1>5. QED BY <1>1, <1>2, <1>4, PTL DEF Spec, RestartRecovers

(***************************************************************************)
(* IDLE means complete.                                                    *)
(***************************************************************************)

\* The steps after which r is inside a claim: the claim itself, those that go
\* on with it, and the retries.
Advance(r) ==
  \/ TakeSnapshot(r) \/ StartRun(r) \/ ReadRows(r) \/ ReadEof(r) \/ CommitBatch(r)
  \/ CheckPause(r) \/ ApplyPause(r) \/ FinishSuccess(r) \/ ExecutionError(r)
  \/ GetStatus(r) /\ Goto(r, "finish") /\ UNCHANGED <<todo, job>>

Retries(r) ==
  /\ pc[r] \in {"start", "failed", "status", "finish"}
  /\ status' = status /\ bodyEnd' = bodyEnd
  /\ \E broken \in BOOLEAN : RetryOrGiveUp(r, broken)

LEMMA ClaimGoesOn ==
  ASSUME LocalTyped, NEW r \in Runners, Step(r) \/ FaultStep(r), pc'[r] \in ClaimPcs
  PROVE  (\E row \in todo[r] : Claim(r, row)) \/ Advance(r) \/ Retries(r)
<1>1. CASE Start(r) \/ Recover(r) \/ Poll(r) \/ IdleTick(r)
  BY <1>1 DEF Start, Recover, Poll, IdleTick, runnerVars, Goto, LocalTyped
<1>2. CASE Exit(r) \/ \E rows : NextRow(r, rows)
  BY <1>2, LeavesClaim
<1>3. CASE FinishFailed(r) \/ StatementRefused(r) \/ BookkeepingError(r)
  BY <1>2, <1>3 DEF FinishFailed, StatementRefused, BookkeepingError, Retries, storeVars
<1>4. CASE GetStatus(r)
  BY <1>2, <1>4 DEF GetStatus, Advance
<1>5. CASE Step(r)
  BY <1>1, <1>2, <1>3, <1>4, <1>5
  DEF Step, Requeue, DispatchPause, ClaimLost, FinishRunning, GiveUp, Advance
<1>6. CASE FaultStep(r)
  BY <1>2, <1>3, <1>6
  DEF FaultStep, ConnectionLost, RequeueReplyLost, FailedReplyLost, Crash, Advance
<1>7. QED BY <1>5, <1>6

\* Going on keeps the pipeline and never takes the attempt back.
LEMMA AdvanceKeeps ==
  ASSUME LocalTyped, NEW r \in Runners, Advance(r) \/ Retries(r)
  PROVE  /\ pc[r] \in ClaimPcs
         /\ job'[r].pid = job[r].pid
         /\ job[r].attempt \in Nat /\ job'[r].attempt \in Nat
         /\ TakeSnapshot(r) => job'[r].attempt = 1
         /\ ~TakeSnapshot(r) => job'[r].attempt >= job[r].attempt
<1>1. job[r] \in Job /\ job[r].attempt \in Nat
  BY RunnerAssumption DEF LocalTyped, Job
<1>2. CASE TakeSnapshot(r)
  BY <1>1, <1>2 DEF TakeSnapshot, LocalTyped, Job
<1>3. CASE StartRun(r) \/ ReadRows(r)
  BY <1>1, <1>3 DEF StartRun, ReadRows, TakeSnapshot, LocalTyped, Job
<1>4. CASE \/ ReadEof(r) \/ CommitBatch(r) \/ CheckPause(r) \/ ApplyPause(r)
           \/ FinishSuccess(r) \/ ExecutionError(r)
           \/ GetStatus(r) /\ Goto(r, "finish") /\ UNCHANGED <<todo, job>>
  BY <1>1, <1>4 DEF ReadEof, CommitBatch, CheckPause, ApplyPause, FinishSuccess,
                    ExecutionError, GetStatus, TakeSnapshot
<1>5. CASE Retries(r)
  BY <1>1, <1>5, RetryLabels DEF Retries, TakeSnapshot
<1>6. QED BY <1>2, <1>3, <1>4, <1>5 DEF Advance

\* A claim makes the status RUNNING and starts from attempt 0.
LEMMA ClaimFacts ==
  ASSUME RunnerTyped, NEW r \in Runners, NEW row \in todo[r], Claim(r, row)
  PROVE  pc'[r] = "snapshot" /\ job'[r].attempt = 0 /\ status'[job'[r].pid] = "RUNNING"
<1>1. row.pid \in Pipelines
  BY DEF RunnerTyped, LocalTyped, Row
<1>2. status'[row.pid] = "RUNNING"
  BY <1>1 DEF Claim, claim_run_requested, UpdateStatus, RunnerTyped, StoreTypeOK
<1>3. pc'[r] = "snapshot" /\ job'[r] = JobOf(row.pid)
  BY DEF Claim, Goto, RunnerTyped, LocalTyped
<1>4. JobOf(row.pid).pid = row.pid /\ JobOf(row.pid).attempt = 0
  BY DEF JobOf
<1>5. QED BY <1>2, <1>3, <1>4

LEMMA UnfinishedStep ==
  ASSUME RunnerTyped, NEW r \in Runners, Unfinished(r), Step(r) \/ FaultStep(r)
  PROVE  Unfinished(r)'
<1>0. LocalTyped /\ status \in [Pipelines -> PipelineStatus]
  BY DEF RunnerTyped, StoreTypeOK
<1>1. ASSUME pc'[r] \in ClaimPcs PROVE status'[job'[r].pid] # "IDLE"
  <2>1. CASE \E row \in todo[r] : Claim(r, row)
    BY <2>1, ClaimFacts
  <2>2. CASE Advance(r) \/ Retries(r)
    <3>1. pc[r] \in ClaimPcs /\ job'[r].pid = job[r].pid /\ job[r].pid \in Pipelines
      BY <1>0, <2>2, AdvanceKeeps DEF LocalTyped, JobNamed
    <3>2. ~FinishRunning(r)
      BY <1>0, <1>1, LeavesClaim DEF FinishRunning
    <3>3. status'[job[r].pid] # status[job[r].pid] => status'[job[r].pid] # "IDLE"
      BY <3>1, <3>2, StatusMove
    <3>4. QED BY <3>1, <3>3 DEF Unfinished
  <2>3. QED BY <1>0, <1>1, <2>1, <2>2, ClaimGoesOn
<1>2. ASSUME pc'[r] = "pause" PROVE status'[job'[r].pid] # "RUNNING"
  <2>1. ~\E row \in todo[r] : Claim(r, row)
    BY <1>2, ClaimFacts
  <2>2. ~Retries(r)
    BY <1>0, <1>2, RetryLabels DEF Retries
  <2>3. CheckPause(r)
    BY <1>0, <1>2, <2>1, <2>2, ClaimGoesOn
    DEF Advance, TakeSnapshot, StartRun, ReadRows, ReadEof, CommitBatch, ApplyPause,
        FinishSuccess, ExecutionError, Goto, LocalTyped
  <2>4. status[job[r].pid] = "PAUSE_REQUESTED" /\ status' = status /\ job' = job
    BY <1>0, <1>2, <2>3 DEF CheckPause, Goto, Matches, storeVars, LocalTyped
  <2>5. QED BY <2>4
<1>3. QED BY <1>1, <1>2 DEF Unfinished

LEMMA RecordedStep ==
  ASSUME RunnerTyped, NEW r \in Runners, OwnsRun(r), Unfinished(r), Recorded(r),
         Step(r) \/ FaultStep(r)
  PROVE  Recorded(r)'
<1> DEFINE p == job[r].pid
<1>0. LocalTyped /\ status \in [Pipelines -> PipelineStatus]
  BY DEF RunnerTyped, StoreTypeOK
<1> SUFFICES ASSUME pc'[r] \in {"success", "status", "finish"} PROVE Recorded(r)'
  BY DEF Recorded
<1>1. \/ ReadEof(r) \/ ApplyPause(r) \/ FinishSuccess(r)
      \/ GetStatus(r) /\ Goto(r, "finish") /\ UNCHANGED <<todo, job>>
  <2>1. ~\E row \in todo[r] : Claim(r, row)
    BY ClaimFacts
  <2>2. ~Retries(r)
    BY <1>0, RetryLabels DEF Retries
  <2>3. QED
    BY <1>0, <2>1, <2>2, ClaimGoesOn
    DEF Advance, TakeSnapshot, StartRun, ReadRows, CommitBatch, CheckPause, ExecutionError,
        Goto, LocalTyped
<1>2. p \in Pipelines /\ job' = job
  BY <1>0, <1>1 DEF ReadEof, ApplyPause, FinishSuccess, GetStatus, LocalTyped, JobNamed
<1>3. CASE ReadEof(r)
  BY <1>0, <1>2, <1>3 DEF ReadEof, Recorded, RunnerTyped, Goto, LocalTyped
<1>4. CASE ApplyPause(r)
  <2>1. status[p] # "RUNNING" /\ pc'[r] = "success"
    BY <1>0, <1>4 DEF ApplyPause, Unfinished, Goto, LocalTyped
  <2>2. status'[p] # "RUNNING"
    BY <1>0, <1>2, <1>4, <2>1 DEF ApplyPause, apply_pause_requested, UpdateStatus
  <2>3. QED BY <1>2, <2>1, <2>2 DEF Recorded
<1>5. CASE FinishSuccess(r)
  <2>1. /\ job[r].run = Len(runs[p]) /\ runs[p] # << >> /\ pc[r] = "success"
    BY <1>5 DEF FinishSuccess, OwnsRun
  <2>2. runs[p] \in Seq(RunStatus) /\ Len(runs[p]) \in Nat \ {0}
        /\ DOMAIN runs[p] = 1 .. Len(runs[p])
    BY <1>2, <2>1, EmptySeq, LenProperties DEF RunnerTyped, StoreTypeOK
  <2>3. runs'[p] = [runs[p] EXCEPT ![Len(runs[p])] = "SUCCESS"]
    BY <1>2, <1>5, <2>1 DEF FinishSuccess, finish_success, RunnerTyped, StoreTypeOK
  <2>4. Len(runs'[p]) = Len(runs[p]) /\ runs'[p][Len(runs[p])] = "SUCCESS"
    <3>1. "SUCCESS" \in RunStatus
      BY DEF RunStatus
    <3>2. QED BY <2>2, <2>3, <3>1, OverwriteEntry
  <2>5. runs'[p] # << >>
    BY <2>2, <2>4
  <2>6. status' = status /\ bodyEnd' = bodyEnd
    BY <1>5 DEF FinishSuccess
  <2>7. QED BY <1>2, <2>1, <2>4, <2>5, <2>6 DEF Recorded
<1>6. CASE GetStatus(r) /\ Goto(r, "finish") /\ UNCHANGED <<todo, job>>
  BY <1>2, <1>6 DEF GetStatus, Recorded, storeVars
<1>7. QED BY <1>1, <1>3, <1>4, <1>5, <1>6

LEMMA FirstUnpausedStep ==
  ASSUME RunnerTyped, NEW r \in Runners, FirstUnpaused(r), Step(r) \/ FaultStep(r)
  PROVE  FirstUnpaused(r)'
<1>0. LocalTyped
  BY DEF RunnerTyped
<1> SUFFICES ASSUME pc'[r] \in ClaimPcs PROVE FirstUnpaused(r)'
  BY DEF FirstUnpaused
<1>1. CASE \E row \in todo[r] : Claim(r, row)
  BY <1>1, ClaimFacts DEF FirstUnpaused
<1>2. CASE Retries(r)
  <2>1. job[r].attempt >= 1
    BY <1>2 DEF Retries, FirstUnpaused
  <2>2. /\ pc'[r] \in {"start", "giveup"} /\ job[r].attempt \in Nat /\ job'[r].attempt \in Nat
        /\ job'[r].attempt >= job[r].attempt
        /\ pc'[r] = "start" => job'[r].attempt = job[r].attempt + 1
    BY <1>0, <1>2, RetryLabels DEF Retries
  <2>3. job'[r].attempt >= 1 /\ (pc'[r] = "start" => ~(job'[r].attempt <= 1))
    BY <2>1, <2>2
  <2>4. QED BY <2>2, <2>3 DEF FirstUnpaused
<1>3. CASE Advance(r)
  <2>1. /\ pc[r] \in ClaimPcs /\ job'[r].pid = job[r].pid
        /\ job[r].attempt \in Nat /\ job'[r].attempt \in Nat
        /\ TakeSnapshot(r) => job'[r].attempt = 1
        /\ ~TakeSnapshot(r) => job'[r].attempt >= job[r].attempt
    BY <1>0, <1>3, AdvanceKeeps
  <2>2. CASE TakeSnapshot(r)
    <3>1. /\ pc[r] = "snapshot" /\ job[r].attempt = 0
          /\ pc'[r] = "start" /\ status' = status
      BY <1>0, <2>2 DEF TakeSnapshot, FirstUnpaused, Goto, LocalTyped, storeVars
    <3>2. status'[job'[r].pid] # "PAUSED"
      BY <2>1, <3>1 DEF FirstUnpaused
    <3>3. QED BY <2>1, <2>2, <3>1, <3>2 DEF FirstUnpaused
  <2>3. CASE ~TakeSnapshot(r)
    <3>1. pc[r] # "snapshot"
      BY <1>3, <2>3
      DEF Advance, StartRun, ReadRows, ReadEof, CommitBatch, CheckPause, ApplyPause,
          FinishSuccess, ExecutionError, GetStatus
    <3>2. job'[r].attempt >= 1
      BY <2>1, <2>3, <3>1 DEF FirstUnpaused
    <3>3. ASSUME pc'[r] \in {"snapshot", "start", "read", "write", "check", "pause"}
          PROVE  /\ status' = status /\ pc'[r] # "snapshot"
                 /\ pc[r] \in {"snapshot", "start", "read", "write", "check", "pause"}
      BY <1>0, <1>3, <2>3, <3>3
      DEF Advance, StartRun, ReadRows, ReadEof, CommitBatch, CheckPause, ApplyPause,
          FinishSuccess, ExecutionError, GetStatus, Goto, LocalTyped, storeVars
    <3>4. job'[r].attempt <= 1 => job[r].attempt <= 1
      BY <2>1, <2>3
    <3>5. QED BY <2>1, <3>2, <3>3, <3>4 DEF FirstUnpaused
  <2>4. QED BY <2>2, <2>3
<1>4. QED BY <1>0, <1>1, <1>2, <1>3, ClaimGoesOn

\* How a body ended is recorded for the pipeline in hand only.
LEMMA BodyEndMove ==
  ASSUME NEW r \in Runners, Step(r) \/ FaultStep(r), NEW p \in Pipelines,
         bodyEnd \in [Pipelines -> BodyEnd], bodyEnd'[p] # bodyEnd[p]
  PROVE  pc[r] \in ClaimPcs /\ job[r].pid = p
<1>1. CASE StartRun(r) \/ ReadEof(r) \/ ApplyPause(r)
  BY <1>1 DEF StartRun, ReadEof, ApplyPause
<1>2. CASE bodyEnd' = bodyEnd
  BY <1>2
<1>3. CASE Step(r)
  BY <1>1, <1>2, <1>3
  DEF Step, Start, Recover, Requeue, RequeueStuck, IdleTick, runnerVars, Poll, DispatchPause,
      Claim, ClaimLost, TakeSnapshot, ReadRows, CommitBatch, CheckPause, FinishSuccess,
      FinishFailed, GetStatus, FinishRunning, GiveUp, StatementRefused
<1>4. CASE FaultStep(r)
  BY <1>2, <1>4
  DEF FaultStep, ExecutionError, BookkeepingError, ConnectionLost, RequeueReplyLost,
      RequeueStuck, FailedReplyLost, Crash
<1>5. QED BY <1>3, <1>4

\* A run row changes only for the pipeline in hand, or by recovery.
LEMMA RunsElsewhere ==
  ASSUME RunnerTyped, NEW r \in Runners, Step(r) \/ FaultStep(r), NEW p \in Pipelines,
         ~(pc[r] \in ClaimPcs /\ job[r].pid = p)
  PROVE  runs'[p] = runs[p] \/ runs'[p] = CloseOpen(runs[p])
<1>0. runs \in [Pipelines -> Seq(RunStatus)]
  BY DEF RunnerTyped, StoreTypeOK
<1>1. CASE StartRun(r)
  BY <1>0, <1>1 DEF StartRun, start_run
<1>2. CASE \/ FinishSuccess(r)
           \/ pc[r] = "failed" /\ finish_failed(job[r].pid, job[r].run)
  BY <1>0, <1>2 DEF FinishSuccess, finish_success, finish_failed
<1>3. CASE \E ids : recover_running_failed_bulk(ids)
  BY <1>0, <1>3 DEF recover_running_failed_bulk, CloseOpen
<1>4. QED BY <1>1, <1>2, <1>3, RunsMove

Complete(p) ==
  \/ runs[p] = << >>
  \/ bodyEnd[p] = "drained" /\ runs[p][Len(runs[p])] = "SUCCESS"

\* A pipeline that is IDLE stays complete, and one that becomes IDLE is.
LEMMA IdleStep ==
  ASSUME RunnerTyped, IdleMeansComplete, NEW r \in Runners, Unfinished(r), Recorded(r),
         Step(r) \/ FaultStep(r), NEW p \in Pipelines, status'[p] = "IDLE"
  PROVE  Complete(p)'
<1>0. /\ runs[p] \in Seq(RunStatus) /\ Len(runs[p]) \in Nat
      /\ DOMAIN runs[p] = 1 .. Len(runs[p]) /\ bodyEnd \in [Pipelines -> BodyEnd]
  BY LenProperties DEF RunnerTyped, StoreTypeOK
<1>1. CASE status[p] = "IDLE"
  <2>1. ~(pc[r] \in ClaimPcs /\ job[r].pid = p)
    BY <1>1 DEF Unfinished
  <2>2. bodyEnd'[p] = bodyEnd[p]
    BY <1>0, <2>1, BodyEndMove
  <2>3. Complete(p)
    BY <1>1 DEF IdleMeansComplete, Complete
  <2>4. CASE runs'[p] = runs[p]
    BY <2>2, <2>3, <2>4 DEF Complete
  <2>5. CASE runs'[p] = CloseOpen(runs[p])
    <3>1. Len(CloseOpen(runs[p])) = Len(runs[p])
      BY <1>0, CloseOpenEntries
    <3>2. CASE runs[p] = << >>
      <4>1. Len(runs[p]) = 0 /\ CloseOpen(runs[p]) \in Seq(RunStatus)
        BY <1>0, <3>2, EmptySeq, CloseOpenEntries
      <4>2. runs'[p] = << >>
        BY <2>5, <3>1, <4>1, EmptySeq
      <4>3. QED BY <4>2 DEF Complete
    <3>3. CASE runs[p] # << >>
      <4>1. Len(runs[p]) \in DOMAIN runs[p]
        BY <1>0, <3>3, EmptySeq
      <4>2. CloseOpen(runs[p])[Len(runs[p])] = runs[p][Len(runs[p])]
        BY <2>3, <3>3, <4>1 DEF CloseOpen, Complete
      <4>3. QED BY <2>2, <2>3, <2>5, <3>1, <3>3, <4>2 DEF Complete
    <3>4. QED BY <3>2, <3>3
  <2>6. QED BY <2>1, <2>4, <2>5, RunsElsewhere
<1>2. CASE status[p] # "IDLE"
  <2>1. FinishRunning(r) /\ job[r].pid = p /\ status[p] = "RUNNING"
    BY <1>2, StatusMove
  <2>2. runs' = runs /\ bodyEnd' = bodyEnd /\ pc[r] = "finish"
    BY <2>1 DEF FinishRunning
  <2>3. QED BY <2>1, <2>2 DEF Recorded, Complete
<1>3. QED BY <1>1, <1>2

LEMMA SoloInit == Init => SoloInv
<1> SUFFICES ASSUME Init PROVE SoloInv
  OBVIOUS
<1>1. IdleMeansComplete
  BY DEF Init, StoreInit, IdleMeansComplete
<1>2. \A r \in Runners : Solo(r)
  BY DEF Init, RunnerInit, Solo, OwnsRun, Unfinished, Recorded, FirstUnpaused
<1>3. QED BY <1>1, <1>2 DEF SoloInv

LEMMA SoloStep ==
  ASSUME SingleRunner, Typed, Typed', SoloInv, [Next]_vars
  PROVE  SoloInv'
<1>0. status \in [Pipelines -> PipelineStatus] /\ JobNamed /\ JobNamed'
  BY DEF Typed, TypeOK, StoreTypeOK
<1>1. CASE ApiNext /\ UNCHANGED runnerVars
  <2>1. /\ runs' = runs
        /\ \A p \in Pipelines : status'[p] = status[p]
             \/ status'[p] \in {"RUN_REQUESTED", "PAUSE_REQUESTED"}
    BY <1>0, <1>1, ApiMoves
  <2>2. \A r \in Runners : pc[r] \in ClaimPcs => job[r].pid \in Pipelines
    BY <1>0 DEF JobNamed
  <2>3. IdleMeansComplete'
    BY <1>1, <2>1 DEF SoloInv, IdleMeansComplete, runnerVars
  <2>4. ASSUME NEW r \in Runners PROVE Solo(r)'
    BY <1>1, <2>1, <2>2
    DEF runnerVars, SoloInv, Solo, OwnsRun, Unfinished, Recorded, FirstUnpaused
  <2>5. QED BY <2>3, <2>4 DEF SoloInv
<1>2. ASSUME NEW r \in Runners, Step(r) \/ FaultStep(r)
      PROVE  SoloInv'
  <2>1. RunnerTyped /\ Solo(r) /\ IdleMeansComplete
    BY TypedParts DEF SoloInv
  <2>2. Solo(r)'
    BY <1>2, <2>1, OwnsRunStep, UnfinishedStep, RecordedStep, FirstUnpausedStep DEF Solo
  <2>3. \A s \in Runners : s = r
    BY DEF SingleRunner
  <2>4. \A p \in Pipelines : status'[p] = "IDLE" => Complete(p)'
    BY <1>2, <2>1, IdleStep DEF Solo
  <2>5. IdleMeansComplete'
    BY <2>4 DEF IdleMeansComplete, Complete
  <2>6. QED BY <2>2, <2>3, <2>5 DEF SoloInv
<1>3. CASE UNCHANGED vars
  BY <1>3 DEF vars, storeVars, runnerVars, SoloInv, IdleMeansComplete, Solo, OwnsRun,
              Unfinished, Recorded, FirstUnpaused
<1>4. QED BY <1>1, <1>2, <1>3 DEF Next, RunnerNext

LEMMA SoloAlways == SingleRunner => (Spec => [](Typed /\ SoloInv))
<1> SUFFICES ASSUME SingleRunner PROVE Spec => [](Typed /\ SoloInv)
  OBVIOUS
<1>1. Spec => []Typed
  BY TypedInit, TypedStep, PTL DEF Spec
<1>2. Typed /\ Typed' /\ SoloInv /\ [Next]_vars => SoloInv'
  BY SoloStep
<1>3. QED BY <1>1, <1>2, SoloInit, PTL DEF Spec

(* With one runner, a pipeline that is IDLE after a run was drained by its *)
(* last run, and that run is recorded as SUCCESS: a body cut short by a    *)
(* pause is never finalised to IDLE, because a request that is withdrawn   *)
(* becomes RUN_REQUESTED and only a claim makes RUNNING of that.           *)
THEOREM IdleIsComplete == SingleRunner => (Spec => []IdleMeansComplete)
<1>1. SoloInv => IdleMeansComplete
  BY DEF SoloInv
<1>2. QED BY <1>1, SoloAlways, PTL

(* With one runner, batches of a PAUSED pipeline are processed only by a   *)
(* retry: the first attempt leaves its loop when it applies the pause.     *)
THEOREM PausedWorkIsARetry == SingleRunner => (Spec => []PausedWorkIsRetry)
<1>1. ASSUME Typed, SoloInv PROVE PausedWorkIsRetry
  <2>1. SUFFICES ASSUME NEW r \in Runners, pc[r] \in {"read", "write", "check"},
                        status[job[r].pid] = "PAUSED"
                 PROVE  job[r].attempt > 1
    BY DEF PausedWorkIsRetry, Executing
  <2>2. job[r].attempt \in Nat
    BY <1>1, TypedParts, RunnerAssumption DEF RunnerTyped, LocalTyped, Job
  <2>3. ~(job[r].attempt <= 1)
    BY <1>1, <2>1 DEF SoloInv, Solo, FirstUnpaused
  <2>4. QED BY <2>2, <2>3
<1>2. QED BY <1>1, SoloAlways, PTL

(***************************************************************************)
(* Without errors in the bookkeeping statements no runner works in a       *)
(* transaction that is in error.                                           *)
(***************************************************************************)
Unbroken == \A r \in Runners : ~job[r].aborted

LEMMA UnbrokenStep ==
  ASSUME "bookkeeping" \notin FaultKinds, RunnerTyped, Unbroken,
         NEW r \in Runners, Step(r) \/ FaultStep(r)
  PROVE  Unbroken'
<1>0. LocalTyped
  BY DEF RunnerTyped
<1>1. \A p : JobOf(p).aborted = FALSE
  BY DEF JobOf
<1>2. CASE job' = job
  BY <1>2 DEF Unbroken
<1>3. CASE (\E rows : NextRow(r, rows)) \/ Exit(r)
  BY <1>0, <1>1, <1>3 DEF NextRow, Exit, NoJob, LocalTyped, Unbroken
<1>4. CASE \E row \in todo[r] : Claim(r, row)
  BY <1>0, <1>1, <1>4 DEF Claim, LocalTyped, Unbroken
<1>5. CASE TakeSnapshot(r) \/ StartRun(r) \/ ReadRows(r)
  BY <1>0, <1>5 DEF TakeSnapshot, StartRun, ReadRows, LocalTyped, Job, Unbroken
<1>6. CASE FinishFailed(r)
  BY <1>0, <1>6 DEF FinishFailed, RetryOrGiveUp, NextAttempt, LocalTyped, Unbroken
<1>7. CASE Step(r)
  BY <1>2, <1>3, <1>4, <1>5, <1>6, <1>7
  DEF Step, Start, Recover, Requeue, IdleTick, runnerVars, Poll, DispatchPause, ClaimLost,
      ReadEof, CommitBatch, CheckPause, ApplyPause, FinishSuccess, GetStatus,
      FinishRunning, GiveUp, StatementRefused, Unbroken
<1>8. CASE FaultStep(r)
  BY <1>2, <1>3, <1>8
  DEF FaultStep, ExecutionError, BookkeepingError, Fault, ConnectionLost,
      RequeueReplyLost, FailedReplyLost, Crash
<1>9. QED BY <1>7, <1>8

(***************************************************************************)
(* RUNNING is never an orphan.                                             *)
(***************************************************************************)
ErrorsAndCrashesOnly == FaultKinds \subseteq {"execution", "crash"}

\* Runner s will see to it that p does not stay RUNNING.
Owns(s, p) ==
  \/ Executing(s, p)
  \/ pc[s] \in {"down", "recover"}
  \/ pc[s] = "requeue" /\ \E row \in todo[s] : row.pid = p

\* A runner that acts while p is RUNNING keeps its part, unless it settles p.
LEMMA OwnsStays ==
  ASSUME ErrorsAndCrashesOnly, RunnerTyped, Unbroken,
         NEW r \in Runners, Step(r) \/ FaultStep(r),
         NEW p \in Pipelines, status[p] = "RUNNING", status'[p] = "RUNNING", Owns(r, p)
  PROVE  Owns(r, p)'
<1>0. LocalTyped /\ status \in [Pipelines -> PipelineStatus]
  BY DEF RunnerTyped, StoreTypeOK
<1>1. CASE Exit(r)
  BY <1>0, <1>1 DEF Exit, Goto, LocalTyped, Owns
<1>2. CASE Start(r) \/ Recover(r)
  <2>1. CASE Start(r)
    BY <1>0, <2>1 DEF Start, Goto, LocalTyped, Owns
  <2>2. CASE Recover(r)
    <3>1. p \in list_stuck_running_ids
      BY DEF list_stuck_running_ids
    <3>2. pc'[r] = "requeue" /\ todo'[r] = Fetched(list_stuck_running_ids)
      BY <1>0, <2>2, <3>1 DEF Recover, Goto, LocalTyped
    <3>3. [pid |-> p, seen |-> status[p]] \in todo'[r]
      BY <3>1, <3>2 DEF Fetched
    <3>4. QED BY <3>2, <3>3 DEF Owns
  <2>3. QED BY <1>2, <2>1, <2>2
<1>3. CASE Requeue(r)
  <2>1. \E row \in todo[r] : row.pid = p
    BY <1>3 DEF Requeue, Owns, Executing
  <2>2. status'[p] = "RUN_REQUESTED"
    BY <1>3, <2>1 DEF Requeue, RequeueStuck, mark_run_requested_bulk
  <2>3. QED BY <2>2
<1>4. CASE pc[r] \in ClaimPcs
  <2>1. job[r].pid = p
    BY <1>4 DEF Owns, Executing
  <2>2. CASE Advance(r) \/ Retries(r)
    <3>1. pc'[r] \in ClaimPcs
      BY <1>0, <2>2, RetryLabels
      DEF Advance, Retries, TakeSnapshot, StartRun, ReadRows, ReadEof, CommitBatch,
          CheckPause, ApplyPause, FinishSuccess, ExecutionError, GetStatus, Goto, LocalTyped
    <3>2. QED BY <1>0, <2>1, <2>2, <3>1, AdvanceKeeps DEF Owns, Executing
  <2>3. CASE GetStatus(r)
    BY <2>1, <2>2, <2>3 DEF GetStatus, Matches, Advance
  <2>4. CASE FinishFailed(r)
    BY <2>2, <2>4 DEF FinishFailed, Retries
  <2>5. CASE FinishRunning(r)
    BY <1>0, <2>1, <2>5
    DEF FinishRunning, finish_running_to_idle, FinishFrom, UpdateStatus, Matches
  <2>6. CASE GiveUp(r)
    BY <1>0, <2>1, <2>6 DEF GiveUp, fail_if_active, FailFrom, UpdateStatus, Matches
  <2>7. ~StatementRefused(r)
    BY DEF StatementRefused, Unbroken
  <2>8. CASE Step(r)
    BY <1>4, <2>2, <2>3, <2>4, <2>5, <2>6, <2>7, <2>8
    DEF Step, Start, Recover, Requeue, IdleTick, Poll, DispatchPause, Claim, ClaimLost,
        Advance
  <2>9. CASE FaultStep(r)
    BY <1>1, <2>2, <2>9
    DEF FaultStep, Advance, BookkeepingError, ConnectionLost, RequeueReplyLost,
        FailedReplyLost, Crash, Fault, ErrorsAndCrashesOnly
  <2>10. QED BY <2>8, <2>9
<1>5. CASE pc[r] \in {"down", "recover", "requeue"}
  <2>1. CASE Step(r)
    BY <1>2, <1>3, <1>5, <2>1
    DEF Step, IdleTick, Poll, DispatchPause, Claim, ClaimLost, TakeSnapshot, StartRun,
        ReadRows, ReadEof, CommitBatch, CheckPause, ApplyPause, FinishSuccess,
        FinishFailed, GetStatus, FinishRunning, GiveUp, StatementRefused
  <2>2. CASE FaultStep(r)
    BY <1>1, <1>5, <2>2
    DEF FaultStep, ExecutionError, BookkeepingError, ConnectionLost, RequeueReplyLost,
        FailedReplyLost, Crash, Fault, ErrorsAndCrashesOnly
  <2>3. QED BY <2>1, <2>2
<1>6. QED BY <1>4, <1>5 DEF Owns, Executing

\* A step of one runner is not a step of another.
LEMMA OthersStay ==
  ASSUME LocalTyped, NEW r \in Runners, Step(r) \/ FaultStep(r),
         NEW s \in Runners, s # r
  PROVE  pc'[s] = pc[s] /\ job'[s] = job[s] /\ todo'[s] = todo[s]
<1>1. CASE (\E rows : NextRow(r, rows)) \/ Exit(r)
  BY <1>1 DEF NextRow, Exit, Goto, LocalTyped
<1>2. CASE (\E broken : RetryOrGiveUp(r, broken)) /\ UNCHANGED todo
  BY <1>2 DEF RetryOrGiveUp, Goto, LocalTyped
<1>3. CASE \/ Start(r) \/ Recover(r) \/ IdleTick(r) \/ Poll(r)
           \/ \E row \in todo[r] : Claim(r, row)
  BY <1>3 DEF Start, Recover, IdleTick, runnerVars, Poll, Claim, Goto, LocalTyped
<1>4. CASE Advance(r)
  BY <1>4 DEF Advance, TakeSnapshot, StartRun, ReadRows, ReadEof, CommitBatch, CheckPause,
              ApplyPause, FinishSuccess, ExecutionError, Goto, LocalTyped
<1>5. CASE Step(r)
  BY <1>1, <1>2, <1>3, <1>4, <1>5
  DEF Step, Requeue, DispatchPause, ClaimLost, FinishFailed, GetStatus, FinishRunning,
      GiveUp, StatementRefused, Advance
<1>6. CASE FaultStep(r)
  BY <1>1, <1>2, <1>4, <1>6
  DEF FaultStep, BookkeepingError, ConnectionLost, RequeueReplyLost, FailedReplyLost, Crash,
      Advance
<1>7. QED BY <1>5, <1>6

LEMMA OwnedStep ==
  ASSUME ErrorsAndCrashesOnly, Typed, Unbroken, RunningIsOwned, [Next]_vars
  PROVE  Unbroken' /\ RunningIsOwned'
<1>0. RunnerTyped /\ status \in [Pipelines -> PipelineStatus]
  BY TypedParts DEF RunnerTyped, StoreTypeOK
<1>1. RunningIsOwned <=> \A p \in Pipelines : status[p] = "RUNNING" =>
                           \E s \in Runners : Owns(s, p)
  BY DEF RunningIsOwned, Owns
<1>2. RunningIsOwned' <=> \A p \in Pipelines : status'[p] = "RUNNING" =>
                            \E s \in Runners : Owns(s, p)'
  BY DEF RunningIsOwned, Owns, Executing
<1>3. CASE ApiNext /\ UNCHANGED runnerVars
  <2>1. \A p \in Pipelines : status'[p] = "RUNNING" => status[p] = "RUNNING"
    BY <1>0, <1>3, ApiMoves
  <2>2. \A s \in Runners, p \in Pipelines : Owns(s, p) => Owns(s, p)'
    BY <1>3 DEF runnerVars, Owns, Executing
  <2>3. QED BY <1>1, <1>2, <1>3, <2>1, <2>2 DEF runnerVars, Unbroken
<1>4. ASSUME NEW r \in Runners, Step(r) \/ FaultStep(r)
      PROVE  Unbroken' /\ RunningIsOwned'
  <2>1. Unbroken'
    BY <1>0, <1>4, UnbrokenStep DEF ErrorsAndCrashesOnly
  <2>2. ASSUME NEW p \in Pipelines, status'[p] = "RUNNING"
        PROVE  \E s \in Runners : Owns(s, p)'
    <3>1. CASE status[p] = "RUNNING"
      <4>1. PICK s \in Runners : Owns(s, p)
        BY <1>1, <3>1
      <4>2. CASE s = r
        BY <1>0, <1>4, <2>2, <3>1, <4>1, <4>2, OwnsStays
      <4>3. CASE s # r
        <5>1. pc'[s] = pc[s] /\ job'[s] = job[s] /\ todo'[s] = todo[s]
          BY <1>0, <1>4, <4>3, OthersStay DEF RunnerTyped
        <5>2. QED BY <4>1, <5>1 DEF Owns, Executing
      <4>4. QED BY <4>2, <4>3
    <3>2. CASE status[p] # "RUNNING"
      <4>1. pc'[r] = "snapshot" /\ job'[r].pid = p
        BY <1>0, <1>4, <2>2, <3>2, StatusMove
      <4>2. QED BY <4>1 DEF Owns, Executing
    <3>3. QED BY <3>1, <3>2
  <2>3. QED BY <1>2, <2>1, <2>2
<1>5. CASE UNCHANGED vars
  BY <1>5 DEF vars, storeVars, runnerVars, RunningIsOwned, Executing, Unbroken
<1>6. QED BY <1>3, <1>4, <1>5 DEF Next, RunnerNext

(* For any number of runners whose only faults are errors in the body and  *)
(* crashes, a RUNNING pipeline is being executed or will be met by a       *)
(* runner's startup recovery: no path through retries, pauses and          *)
(* finalisation drops a claim and leaves the status behind.                *)
THEOREM RunningHasAnOwner == ErrorsAndCrashesOnly => (Spec => []RunningIsOwned)
<1> SUFFICES ASSUME ErrorsAndCrashesOnly PROVE Spec => []RunningIsOwned
  OBVIOUS
<1>1. Init => Unbroken /\ RunningIsOwned
  BY DEF Init, StoreInit, RunnerInit, Unbroken, NoJob, JobOf, RunningIsOwned
<1>2. Typed /\ Unbroken /\ RunningIsOwned /\ [Next]_vars => Unbroken' /\ RunningIsOwned'
  BY OwnedStep
<1>3. Spec => []Typed
  BY TypedInit, TypedStep, PTL DEF Spec
<1>4. QED BY <1>1, <1>2, <1>3, PTL DEF Spec

(***************************************************************************)
(* FAILED means exhausted.                                                 *)
(***************************************************************************)

\* The last n runs of history h are FAILED.
LastFailed(h, n) ==
  /\ Len(h) >= n
  /\ \A i \in Len(h) - n + 1 .. Len(h) : h[i] = "FAILED"

\* Every attempt before the present one has left a FAILED row.
Counted(r) ==
  /\ pc[r] \in ClaimPcs => status[job[r].pid] # "FAILED"
  /\ pc[r] = "start" => LastFailed(runs[job[r].pid], job[r].attempt - 1)
  /\ pc[r] \in BodyPcs \cup {"failed"} =>
       /\ Len(runs[job[r].pid]) >= job[r].attempt
       /\ \A i \in Len(runs[job[r].pid]) - job[r].attempt + 1 .. Len(runs[job[r].pid]) - 1 :
            runs[job[r].pid][i] = "FAILED"
  /\ pc[r] = "giveup" => LastFailed(runs[job[r].pid], MaxAttempts)

\* Closing the open row that follows n - 1 failed ones makes n failed ones.
LEMMA OneMoreFailed ==
  ASSUME NEW h \in Seq(RunStatus), NEW n \in Nat, n >= 1, Len(h) >= n,
         \A i \in Len(h) - n + 1 .. Len(h) - 1 : h[i] = "FAILED"
  PROVE  LastFailed([h EXCEPT ![Len(h)] = "FAILED"], n)
<1> DEFINE g == [h EXCEPT ![Len(h)] = "FAILED"]
<1>1. Len(h) \in Nat /\ DOMAIN h = 1 .. Len(h)
  BY LenProperties
<1>2. Len(g) = Len(h)
  BY OverwriteEntry DEF RunStatus
<1>3. ASSUME NEW i \in Len(h) - n + 1 .. Len(h) PROVE g[i] = "FAILED"
  <2>1. i \in DOMAIN h
    BY <1>1
  <2>2. \A l, m \in Nat : \A j \in l - m + 1 .. l : j = l \/ j \in l - m + 1 .. l - 1
    OBVIOUS
  <2>3. i = Len(h) \/ i \in Len(h) - n + 1 .. Len(h) - 1
    BY <1>1, <2>2
  <2>4. QED BY <2>1, <2>3
<1>4. QED BY <1>2, <1>3 DEF LastFailed

\* A new open row follows the failed ones.
LEMMA FailedThenOpen ==
  ASSUME NEW h \in Seq(RunStatus), NEW n \in Nat, n >= 1, LastFailed(h, n - 1)
  PROVE  LET g == Append(h, "RUNNING") IN
           /\ Len(g) >= n
           /\ \A i \in Len(g) - n + 1 .. Len(g) - 1 : g[i] = "FAILED"
<1> DEFINE g == Append(h, "RUNNING")
<1>1. Len(h) \in Nat
  BY LenProperties
<1>2. Len(g) = Len(h) + 1 /\ \A i \in 1 .. Len(h) : g[i] = h[i]
  BY AppendProperties DEF RunStatus
<1>3. Len(h) >= n - 1
  BY DEF LastFailed
<1>4. \A l, m \in Nat : l >= m - 1 =>
        \A i \in (l + 1) - m + 1 .. (l + 1) - 1 : i \in 1 .. l /\ i \in l - (m - 1) + 1 .. l
  OBVIOUS
<1>5. \A i \in Len(g) - n + 1 .. Len(g) - 1 :
        i \in 1 .. Len(h) /\ i \in Len(h) - (n - 1) + 1 .. Len(h)
  BY <1>1, <1>2, <1>3, <1>4
<1>6. Len(g) >= n
  BY <1>1, <1>2, <1>3
<1>7. QED BY <1>2, <1>5, <1>6 DEF LastFailed

LEMMA CountedStep ==
  ASSUME "bookkeeping" \notin FaultKinds, RunnerTyped, NEW r \in Runners, Unbroken,
         OwnsRun(r), FirstUnpaused(r), Counted(r), Step(r) \/ FaultStep(r)
  PROVE  Counted(r)'
<1> DEFINE p == job[r].pid
           k == job[r].attempt
<1>0. LocalTyped /\ runs \in [Pipelines -> Seq(RunStatus)] /\ k \in Nat /\ k <= MaxAttempts
      /\ MaxAttempts \in Nat
  BY RunnerAssumption DEF RunnerTyped, StoreTypeOK, LocalTyped, Job
<1> SUFFICES ASSUME pc'[r] \in ClaimPcs PROVE Counted(r)'
  BY DEF Counted
<1>1. status'[job'[r].pid] # "FAILED"
  <2>1. CASE \E row \in todo[r] : Claim(r, row)
    BY <2>1, ClaimFacts
  <2>2. CASE Advance(r) \/ Retries(r)
    <3>1. pc[r] \in ClaimPcs /\ job'[r].pid = p /\ p \in Pipelines
      BY <1>0, <2>2, AdvanceKeeps DEF LocalTyped, JobNamed
    <3>2. status'[p] # status[p] => status'[p] # "FAILED"
      BY <3>1, StatusMove
    <3>3. QED BY <3>1, <3>2 DEF Counted
  <2>3. QED BY <1>0, <2>1, <2>2, ClaimGoesOn
<1>2. CASE pc'[r] \in BodyPcs \cup {"failed"}
  <2>1. CASE StartRun(r)
    <3>1. p \in Pipelines /\ runs[p] \in Seq(RunStatus) /\ Len(runs[p]) \in Nat
      BY <1>0, <2>1, LenProperties DEF StartRun, LocalTyped, JobNamed
    <3>2. job'[r].pid = p /\ job'[r].attempt = k /\ k >= 1 /\ LastFailed(runs[p], k - 1)
      BY <1>0, <2>1 DEF StartRun, LocalTyped, Job, FirstUnpaused, Counted
    <3>3. runs'[p] = Append(runs[p], "RUNNING")
      BY <1>0, <2>1, <3>1 DEF StartRun, start_run
    <3>4. /\ Len(runs'[p]) >= k
          /\ \A i \in Len(runs'[p]) - k + 1 .. Len(runs'[p]) - 1 : runs'[p][i] = "FAILED"
      <4>1. runs[p] \in Seq(RunStatus) /\ k \in Nat /\ k >= 1 /\ LastFailed(runs[p], k - 1)
        BY <1>0, <3>1, <3>2
      <4>2. /\ Len(Append(runs[p], "RUNNING")) >= k
            /\ \A i \in Len(Append(runs[p], "RUNNING")) - k + 1 ..
                        Len(Append(runs[p], "RUNNING")) - 1 :
                 Append(runs[p], "RUNNING")[i] = "FAILED"
        BY <4>1, FailedThenOpen, Zenon
      <4>3. QED BY <3>3, <4>2
    <3>5. QED BY <1>1, <1>2, <3>2, <3>4 DEF Counted
  <2>2. CASE /\ pc[r] \in BodyPcs \cup {"failed"}
             /\ runs' = runs /\ job'[r].pid = p /\ job'[r].attempt = k
    BY <1>1, <1>2, <2>2 DEF Counted
  <2>3. QED BY <1>0, <1>2, <2>1, <2>2, BodyMove
<1>3. CASE pc'[r] \in {"start", "giveup"}
  <2>1. ~\E row \in todo[r] : Claim(r, row)
    BY <1>3, ClaimFacts
  <2>2. TakeSnapshot(r) \/ FinishFailed(r)
    <3>1. CASE Advance(r)
      BY <1>0, <1>3, <3>1
      DEF Advance, StartRun, ReadRows, ReadEof, CommitBatch, CheckPause, ApplyPause,
          FinishSuccess, ExecutionError, Goto, LocalTyped
    <3>2. CASE Retries(r) /\ Step(r)
      <4>1. pc[r] \in {"start", "failed", "status", "finish"} /\ ~StatementRefused(r)
        BY <3>2 DEF Retries, StatementRefused, Unbroken
      <4>2. ~StartRun(r) /\ ~GetStatus(r) /\ ~FinishRunning(r)
        BY <1>0, <1>3, LeavesClaim DEF StartRun, GetStatus, FinishRunning, Goto, LocalTyped
      <4>3. QED
        BY <3>2, <4>1, <4>2
        DEF Step, Start, Recover, Requeue, IdleTick, Poll, DispatchPause, Claim, ClaimLost,
            TakeSnapshot, ReadRows, ReadEof, CommitBatch, CheckPause, ApplyPause,
            FinishSuccess, GiveUp
    <3>3. CASE FaultStep(r)
      BY <1>0, <1>3, <3>1, <3>3, LeavesClaim
      DEF FaultStep, Advance, BookkeepingError, Fault, ConnectionLost, RequeueReplyLost,
          FailedReplyLost, Crash
    <3>4. QED BY <1>0, <2>1, <3>1, <3>2, <3>3, ClaimGoesOn
  <2>3. CASE TakeSnapshot(r)
    <3>1. p \in Pipelines /\ runs' = runs /\ Len(runs[p]) \in Nat /\ pc'[r] = "start"
      BY <1>0, <2>3, LenProperties DEF TakeSnapshot, storeVars, LocalTyped, JobNamed, Goto
    <3>2. job'[r].pid = p /\ job'[r].attempt = 1
      BY <1>0, <2>3, AdvanceKeeps DEF Advance
    <3>3. LastFailed(runs'[p], 0)
      BY <3>1 DEF LastFailed
    <3>4. QED BY <1>1, <3>1, <3>2, <3>3 DEF Counted, LastFailed
  <2>4. CASE FinishFailed(r)
    <3>1. p \in Pipelines /\ runs[p] \in Seq(RunStatus) /\ Len(runs[p]) \in Nat
      BY <1>0, <2>4, LenProperties DEF FinishFailed, LocalTyped, JobNamed
    <3>2. pc[r] = "failed" /\ job[r].run = Len(runs[p]) /\ k >= 1 /\ Len(runs[p]) >= k
          /\ \A i \in Len(runs[p]) - k + 1 .. Len(runs[p]) - 1 : runs[p][i] = "FAILED"
      BY <2>4 DEF FinishFailed, OwnsRun, FirstUnpaused, Counted
    <3>3. runs'[p] = [runs[p] EXCEPT ![Len(runs[p])] = "FAILED"]
      BY <1>0, <2>4, <3>1, <3>2 DEF FinishFailed, finish_failed
    <3>4. LastFailed(runs'[p], k)
      BY <1>0, <3>1, <3>2, <3>3, OneMoreFailed DEF LastFailed
    <3>5. /\ job'[r].pid = p
          /\ pc'[r] = "start" => job'[r].attempt = k + 1
          /\ pc'[r] = "giveup" => ~(k < MaxAttempts)
      BY <1>0, <2>4, RetryLabels
      DEF FinishFailed, RetryOrGiveUp, AttemptsLeft, Goto, LocalTyped
    <3>6. pc'[r] = "start" => job'[r].attempt - 1 = k
      BY <1>0, <3>5
    <3>7. pc'[r] = "giveup" => k = MaxAttempts
      BY <1>0, <3>5
    <3>8. QED BY <1>1, <1>3, <3>4, <3>5, <3>6, <3>7 DEF Counted, LastFailed
  <2>5. QED BY <2>2, <2>3, <2>4
<1>4. QED BY <1>1, <1>2, <1>3 DEF Counted

\* A pipeline that is FAILED keeps its failed runs, and one that becomes
\* FAILED has them.
LEMMA FailedStep ==
  ASSUME RunnerTyped, FailedMeansExhausted, "bookkeeping" \notin FaultKinds,
         NEW r \in Runners, Counted(r), Unbroken, Step(r) \/ FaultStep(r),
         NEW p \in Pipelines, status'[p] = "FAILED"
  PROVE  LastFailed(runs'[p], MaxAttempts)
<1>0. /\ runs[p] \in Seq(RunStatus) /\ Len(runs[p]) \in Nat /\ MaxAttempts \in Nat
      /\ DOMAIN runs[p] = 1 .. Len(runs[p])
  BY RunnerAssumption, LenProperties DEF RunnerTyped, StoreTypeOK
<1>1. CASE status[p] = "FAILED"
  <2>1. ~(pc[r] \in ClaimPcs /\ job[r].pid = p)
    BY <1>1 DEF Counted
  <2>2. LastFailed(runs[p], MaxAttempts)
    BY <1>1 DEF FailedMeansExhausted, LastFailed
  <2>3. CASE runs'[p] = CloseOpen(runs[p])
    <3>1. Len(runs'[p]) = Len(runs[p])
      BY <1>0, <2>3, CloseOpenEntries
    <3>2. \A l, m \in Nat : l >= m => \A i \in l - m + 1 .. l : i \in 1 .. l
      OBVIOUS
    <3>3. \A i \in Len(runs[p]) - MaxAttempts + 1 .. Len(runs[p]) : i \in DOMAIN runs[p]
      BY <1>0, <2>2, <3>2 DEF LastFailed
    <3>4. QED BY <2>2, <2>3, <3>1, <3>3 DEF LastFailed, CloseOpen
  <2>4. QED BY <2>1, <2>2, <2>3, RunsElsewhere
<1>2. CASE status[p] # "FAILED"
  <2>1. pc[r] = "giveup" /\ pc'[r] \notin ClaimPcs
    BY <1>2, StatusMove
  <2>2. GiveUp(r)
    <3>1. status' # status
      BY <1>2
    <3>2. QED
      BY <2>1, <3>1
      DEF Step, FaultStep, Start, Recover, Requeue, IdleTick, Poll, DispatchPause, Claim,
          ClaimLost, TakeSnapshot, StartRun, ReadRows, ReadEof, CommitBatch, CheckPause,
          ApplyPause, FinishSuccess, FinishFailed, GetStatus, FinishRunning,
          StatementRefused, ExecutionError, BookkeepingError, ConnectionLost,
          RequeueReplyLost, FailedReplyLost, Crash, storeVars
  <2>3. job[r].pid = p /\ runs' = runs
    BY <1>2, <2>2 DEF GiveUp, fail_if_active, UpdateStatus, RunnerTyped, StoreTypeOK
  <2>4. QED BY <2>1, <2>3 DEF Counted
<1>3. QED BY <1>1, <1>2

ExhaustInv ==
  SoloInv /\ Unbroken /\ FailedMeansExhausted /\ \A r \in Runners : Counted(r)

LEMMA ExhaustStep ==
  ASSUME SingleRunner, "bookkeeping" \notin FaultKinds, Typed, Typed', ExhaustInv, [Next]_vars
  PROVE  ExhaustInv'
<1>0. SoloInv'
  BY SoloStep DEF ExhaustInv
<1>1. CASE ApiNext /\ UNCHANGED runnerVars
  <2>1. /\ runs' = runs
        /\ \A p \in Pipelines : status'[p] = status[p]
             \/ status'[p] \in {"RUN_REQUESTED", "PAUSE_REQUESTED"}
    BY <1>1, ApiMoves DEF Typed, TypeOK, StoreTypeOK
  <2>2. \A r \in Runners : pc[r] \in ClaimPcs => job[r].pid \in Pipelines
    BY DEF Typed, JobNamed
  <2>3. FailedMeansExhausted'
    BY <2>1 DEF ExhaustInv, FailedMeansExhausted
  <2>4. \A r \in Runners : Counted(r)'
    BY <1>1, <2>1, <2>2 DEF runnerVars, ExhaustInv, Counted, LastFailed
  <2>5. QED BY <1>0, <1>1, <2>3, <2>4 DEF runnerVars, ExhaustInv, Unbroken
<1>2. ASSUME NEW r \in Runners, Step(r) \/ FaultStep(r)
      PROVE  ExhaustInv'
  <2>1. RunnerTyped /\ Solo(r) /\ Counted(r) /\ Unbroken /\ FailedMeansExhausted
    BY TypedParts DEF ExhaustInv, SoloInv
  <2>2. Unbroken'
    BY <1>2, <2>1, UnbrokenStep
  <2>3. Counted(r)'
    BY <1>2, <2>1, CountedStep DEF Solo
  <2>4. \A s \in Runners : s = r
    BY DEF SingleRunner
  <2>5. FailedMeansExhausted'
    BY <1>2, <2>1, FailedStep DEF FailedMeansExhausted, LastFailed
  <2>6. QED BY <1>0, <2>2, <2>3, <2>4, <2>5 DEF ExhaustInv
<1>3. CASE UNCHANGED vars
  BY <1>0, <1>3 DEF vars, storeVars, runnerVars, ExhaustInv, FailedMeansExhausted, Unbroken,
                    Counted, LastFailed
<1>4. QED BY <1>1, <1>2, <1>3 DEF Next, RunnerNext

LEMMA ExhaustInit == Init => Unbroken /\ FailedMeansExhausted /\ \A r \in Runners : Counted(r)
BY DEF Init, StoreInit, RunnerInit, NoJob, JobOf, Unbroken, FailedMeansExhausted, Counted

(* With one runner and no errors in the bookkeeping statements, FAILED     *)
(* means that the retries are used up: the last max_attempts runs of the   *)
(* pipeline exist and are FAILED, also when lost connections and crashes   *)
(* left open or failed rows of earlier claims before them.                 *)
THEOREM FailedIsExhausted == SingleRunner => (Spec => []FailedMeansExhausted)
<1> SUFFICES ASSUME SingleRunner PROVE Spec => []FailedMeansExhausted
  OBVIOUS
<1>1. CASE "bookkeeping" \in FaultKinds
  <2>1. FailedMeansExhausted
    BY <1>1 DEF FailedMeansExhausted
  <2>2. QED BY <2>1, PTL
<1>2. CASE "bookkeeping" \notin FaultKinds
  <2>1. Typed /\ Typed' /\ ExhaustInv /\ [Next]_vars => ExhaustInv'
    BY <1>2, ExhaustStep
  <2>2. Init => ExhaustInv
    BY SoloInit, ExhaustInit DEF ExhaustInv
  <2>3. Spec => []Typed
    BY TypedInit, TypedStep, PTL DEF Spec
  <2>4. ExhaustInv => FailedMeansExhausted
    BY DEF ExhaustInv
  <2>5. QED BY <2>1, <2>2, <2>3, <2>4, PTL DEF Spec
<1>3. QED BY <1>1, <1>2

(***************************************************************************)
(* SUCCESS is final, for any number of runners.                            *)
(***************************************************************************)

\* Runner r holds a run that it may still close.
Writing(r) == pc[r] \in BodyPcs \cup {"failed"}

\* Nobody else closes it as SUCCESS: executors of one pipeline hold runs of
\* their own, although recovery may have closed some of them as FAILED.
RowsApart ==
  /\ \A r \in Runners : Writing(r) =>
       /\ job[r].run \in DOMAIN runs[job[r].pid]
       /\ runs[job[r].pid][job[r].run] # "SUCCESS"
  /\ \A r, s \in Runners :
       r # s /\ Writing(r) /\ Writing(s) /\ job[r].pid = job[s].pid => job[r].run # job[s].run

\* What a step of r does to a row of the history.
LEMMA RowMoves ==
  ASSUME RunnerTyped, NEW r \in Runners, Step(r) \/ FaultStep(r),
         NEW p \in Pipelines, NEW i \in DOMAIN runs[p]
  PROVE  /\ i \in DOMAIN runs'[p]
         /\ \/ runs'[p][i] = runs[p][i]
            \/ FinishSuccess(r) /\ job[r].pid = p /\ job[r].run = i
            \/ /\ pc[r] = "failed" /\ job[r].pid = p /\ job[r].run = i
               /\ runs'[p][i] = "FAILED"
            \/ runs[p][i] = "RUNNING" /\ runs'[p][i] = "FAILED"
<1>1. runs \in [Pipelines -> Seq(RunStatus)] /\ runs[p] \in Seq(RunStatus)
      /\ DOMAIN runs[p] = 1 .. Len(runs[p]) /\ Len(runs[p]) \in Nat
  BY LenProperties DEF RunnerTyped, StoreTypeOK
<1>2. CASE StartRun(r)
  <2>1. CASE job[r].pid = p
    <3>1. runs'[p] = Append(runs[p], "RUNNING")
      BY <1>1, <1>2, <2>1 DEF StartRun, start_run
    <3>2. /\ runs'[p] \in Seq(RunStatus) /\ Len(runs'[p]) = Len(runs[p]) + 1
          /\ \A j \in 1 .. Len(runs[p]) : runs'[p][j] = runs[p][j]
      BY <1>1, <3>1, AppendProperties DEF RunStatus
    <3>3. DOMAIN runs'[p] = 1 .. Len(runs'[p])
      BY <3>2, LenProperties
    <3>4. QED BY <1>1, <3>2, <3>3
  <2>2. CASE job[r].pid # p
    BY <1>1, <1>2, <2>2 DEF StartRun, start_run
  <2>3. QED BY <2>1, <2>2
<1>3. CASE FinishSuccess(r)
  BY <1>1, <1>3 DEF FinishSuccess, finish_success
<1>4. CASE pc[r] = "failed" /\ finish_failed(job[r].pid, job[r].run)
  BY <1>1, <1>4 DEF finish_failed
<1>5. CASE \E ids : recover_running_failed_bulk(ids)
  BY <1>1, <1>5 DEF recover_running_failed_bulk
<1>6. QED BY <1>2, <1>3, <1>4, <1>5, RunsMove

LEMMA RowsApartStep ==
  ASSUME RunnerTyped, RowsApart, NEW r \in Runners, Step(r) \/ FaultStep(r)
  PROVE  RowsApart'
<1>0. LocalTyped
  BY DEF RunnerTyped
<1>1. ASSUME NEW s \in Runners, s # r
      PROVE  Writing(s)' = Writing(s) /\ job'[s] = job[s]
  BY <1>0, <1>1, OthersStay DEF Writing
<1>2. ASSUME NEW s \in Runners, Writing(s)
      PROVE  /\ job[s].pid \in Pipelines
             /\ job[s].run \in DOMAIN runs[job[s].pid]
             /\ runs[job[s].pid][job[s].run] # "SUCCESS"
  BY <1>0, <1>2 DEF LocalTyped, JobNamed, Writing, RowsApart
<1>3. Writing(r)' =>
        \/ StartRun(r)
        \/ Writing(r) /\ runs' = runs /\ job'[r].pid = job[r].pid /\ job'[r].run = job[r].run
  BY <1>0, BodyMove DEF Writing
<1>4. CASE StartRun(r)
  <2> DEFINE p == job[r].pid
  <2>1. p \in Pipelines /\ runs[p] \in Seq(RunStatus) /\ Len(runs[p]) \in Nat
        /\ DOMAIN runs[p] = 1 .. Len(runs[p])
    BY <1>0, <1>4, LenProperties DEF StartRun, LocalTyped, JobNamed, RunnerTyped, StoreTypeOK
  <2>2. runs'[p] = Append(runs[p], "RUNNING")
    BY <1>4, <2>1 DEF StartRun, start_run, RunnerTyped, StoreTypeOK
  <2>3. /\ runs'[p] \in Seq(RunStatus) /\ Len(runs'[p]) = Len(runs[p]) + 1
        /\ runs'[p][Len(runs[p]) + 1] = "RUNNING"
    BY <2>1, <2>2, AppendProperties DEF RunStatus
  <2>4. DOMAIN runs'[p] = 1 .. Len(runs'[p])
    BY <2>3, LenProperties
  <2>5. job'[r].pid = p /\ job'[r].run = Len(runs[p]) + 1
    BY <1>0, <1>4 DEF StartRun, NewRunId, LocalTyped, Job
  <2>6. job'[r].run \in DOMAIN runs'[p] /\ runs'[p][job'[r].run] # "SUCCESS"
    BY <2>1, <2>3, <2>4, <2>5
  <2>7. job'[r].run \notin DOMAIN runs[p]
    BY <2>1, <2>5
  <2>8. ASSUME NEW s \in Runners, s # r, Writing(s)
        PROVE  /\ job[s].run \in DOMAIN runs'[job[s].pid]
               /\ runs'[job[s].pid][job[s].run] # "SUCCESS"
               /\ job[s].pid = p => job[s].run # job'[r].run
    <3>1. ~FinishSuccess(r) /\ pc[r] # "failed"
      BY <1>4 DEF StartRun, FinishSuccess
    <3>2. QED BY <1>2, <1>4, <2>7, <2>8, <3>1, RowMoves
  <2>9. QED BY <1>1, <2>5, <2>6, <2>8 DEF RowsApart
<1>5. CASE ~StartRun(r)
  <2>1. ASSUME NEW s \in Runners, s # r, Writing(s)
        PROVE  /\ job[s].run \in DOMAIN runs'[job[s].pid]
               /\ runs'[job[s].pid][job[s].run] # "SUCCESS"
    <3>1. ~(FinishSuccess(r) /\ job[r].pid = job[s].pid /\ job[r].run = job[s].run)
      BY <2>1 DEF RowsApart, Writing, FinishSuccess
    <3>2. QED BY <1>2, <2>1, <3>1, RowMoves
  <2>2. Writing(r)' => /\ Writing(r) /\ runs' = runs
                       /\ job'[r].pid = job[r].pid /\ job'[r].run = job[r].run
    BY <1>3, <1>5
  <2>3. ASSUME NEW s \in Runners, Writing(s)'
        PROVE  /\ Writing(s) /\ job'[s].pid = job[s].pid /\ job'[s].run = job[s].run
               /\ job'[s].run \in DOMAIN runs'[job'[s].pid]
               /\ runs'[job'[s].pid][job'[s].run] # "SUCCESS"
    BY <1>1, <1>2, <2>1, <2>2, <2>3
  <2>4. QED BY <2>3 DEF RowsApart
<1>6. QED BY <1>4, <1>5

LEMMA SuccessStep ==
  ASSUME Typed, RowsApart, [Next]_vars
  PROVE  /\ RowsApart'
         /\ \A p \in Pipelines : \A i \in DOMAIN runs[p] :
              runs[p][i] # "RUNNING" /\ runs'[p][i] # runs[p][i] =>
                /\ runs[p][i] = "FAILED"
                /\ \E r \in Runners : FinishSuccess(r) /\ job[r].pid = p /\ job[r].run = i
<1>0. RunnerTyped /\ status \in [Pipelines -> PipelineStatus]
  BY TypedParts DEF RunnerTyped, StoreTypeOK
<1>1. CASE runs' = runs /\ UNCHANGED runnerVars
  BY <1>1 DEF runnerVars, RowsApart, Writing
<1>2. ASSUME NEW r \in Runners, Step(r) \/ FaultStep(r), NEW p \in Pipelines,
             NEW i \in DOMAIN runs[p], runs[p][i] # "RUNNING", runs'[p][i] # runs[p][i]
      PROVE  runs[p][i] = "FAILED" /\ FinishSuccess(r) /\ job[r].pid = p /\ job[r].run = i
  <2>1. runs[p][i] \in RunStatus
    BY <1>0, LenProperties DEF RunnerTyped, StoreTypeOK
  <2>2. /\ job[r].pid = p /\ job[r].run = i
        /\ \/ FinishSuccess(r)
           \/ pc[r] = "failed" /\ runs'[p][i] = "FAILED"
    BY <1>0, <1>2, RowMoves
  <2>3. runs[p][i] # "SUCCESS"
    BY <2>2 DEF RowsApart, Writing, FinishSuccess
  <2>4. QED BY <1>2, <2>1, <2>2, <2>3 DEF RunStatus
<1>3. ASSUME NEW r \in Runners, Step(r) \/ FaultStep(r) PROVE RowsApart'
  BY <1>0, <1>3, RowsApartStep
<1>4. CASE ApiNext /\ UNCHANGED runnerVars
  BY <1>0, <1>1, <1>4, ApiMoves
<1>5. CASE UNCHANGED vars
  BY <1>1, <1>5 DEF vars, storeVars
<1>6. QED BY <1>2, <1>3, <1>4, <1>5 DEF Next, RunnerNext

(* For any number of runners, SUCCESS is final, and only the executor of a *)
(* run may turn it from FAILED to SUCCESS, when a recovery has closed it   *)
(* too early: concurrent executions of one pipeline never write to each    *)
(* other's row.                                                            *)
THEOREM SuccessStays == Spec => SuccessIsFinal
<1>1. Init => RowsApart
  BY DEF Init, RunnerInit, RowsApart, Writing
<1>2. Typed /\ RowsApart /\ [Next]_vars => RowsApart'
  BY SuccessStep
<1>3. Typed /\ RowsApart /\ [Next]_vars =>
        [\A p \in Pipelines : \A i \in DOMAIN runs[p] :
           runs[p][i] # "RUNNING" /\ runs'[p][i] # runs[p][i] =>
             /\ runs[p][i] = "FAILED"
             /\ \E r \in Runners : FinishSuccess(r) /\ job[r].pid = p /\ job[r].run = i]_vars
  BY SuccessStep
<1>4. Spec => []Typed
  BY TypedInit, TypedStep, PTL DEF Spec
<1>5. QED BY <1>1, <1>2, <1>3, <1>4, PTL DEF Spec, SuccessIsFinal

(***************************************************************************)
(* A tick comes to its end, for any number of runners.                     *)
(***************************************************************************)

\* The locals a claim starts with, and none outside a claim.
Fresh(r) ==
  /\ pc[r] \notin ClaimPcs => job[r] = NoJob
  /\ pc[r] = "snapshot" => job[r].attempt = 0

\* The steps of a tick: it goes on to the next row, claims one, goes on with
\* the claimed one, or makes another attempt at it.
LEMMA TickMoves ==
  ASSUME LocalTyped, NEW r \in Runners, Step(r) \/ FaultStep(r), InTick(r), InTick(r)'
  PROVE  \/ pc[r] \in ClaimPcs /\ NextRow(r, todo[r])
         \/ \E row \in todo[r] : pc[r] = "dispatch" /\ NextRow(r, todo[r] \ {row})
         \/ \E row \in todo[r] : Claim(r, row)
         \/ Advance(r)
         \/ /\ pc[r] \in {"start", "failed", "status", "finish"}
            /\ \E broken \in BOOLEAN : RetryOrGiveUp(r, broken)
            /\ UNCHANGED todo
<1>1. pc[r] \notin {"down", "recover", "requeue", "poll"}
      /\ pc'[r] \notin {"down", "recover", "requeue", "poll"}
  BY DEF InTick
<1>2. ~Exit(r) /\ ~NextRow(r, {})
  BY <1>1 DEF Exit, NextRow, Goto, LocalTyped
<1>3. CASE Step(r)
  BY <1>1, <1>3
  DEF Step, Start, Recover, Requeue, IdleTick, Poll, DispatchPause, ClaimLost,
      FinishFailed, GetStatus, FinishRunning, GiveUp, StatementRefused, Advance
<1>4. CASE FaultStep(r)
  BY <1>1, <1>2, <1>4
  DEF FaultStep, BookkeepingError, ConnectionLost, RequeueReplyLost, FailedReplyLost,
      Crash, Advance
<1>5. QED BY <1>3, <1>4

\* Only a claim brings r to its snapshot, and r's locals are fresh again
\* whenever its dispatch is over.
LEMMA FreshStep ==
  ASSUME LocalTyped, NEW r \in Runners, Fresh(r), Step(r) \/ FaultStep(r)
  PROVE  Fresh(r)'
<1>1. CASE (\E rows : NextRow(r, rows)) \/ Exit(r)
  <2>1. job'[r] = NoJob
    BY <1>1 DEF NextRow, Exit, LocalTyped
  <2>2. QED BY <1>1, <2>1, LeavesClaim DEF Fresh
<1>2. CASE \E row \in todo[r] : Claim(r, row)
  <2>1. PICK row \in todo[r] : Claim(r, row)
    BY <1>2
  <2>2. pc'[r] = "snapshot" /\ job'[r] = JobOf(row.pid)
    BY <2>1 DEF Claim, Goto, LocalTyped
  <2>3. QED BY <2>2 DEF Fresh, JobOf
<1>3. CASE Start(r) \/ Recover(r) \/ IdleTick(r) \/ Poll(r)
  <2>1. /\ pc[r] \notin ClaimPcs /\ job' = job
        /\ pc'[r] \in {"recover", "poll", "requeue", "dispatch"}
    BY <1>3 DEF Start, Recover, IdleTick, Poll, runnerVars, Goto, LocalTyped
  <2>2. QED BY <2>1 DEF Fresh
<1>4. CASE Advance(r)
  <2>1. pc'[r] \in ClaimPcs \ {"snapshot"}
    BY <1>4 DEF Advance, TakeSnapshot, StartRun, ReadRows, ReadEof, CommitBatch, CheckPause,
                ApplyPause, FinishSuccess, ExecutionError, Goto, LocalTyped
  <2>2. QED BY <2>1 DEF Fresh
<1>5. CASE \E broken \in BOOLEAN : RetryOrGiveUp(r, broken)
  <2>1. pc'[r] \in {"start", "giveup"}
    BY <1>5, RetryLabels
  <2>2. QED BY <2>1 DEF Fresh
<1>6. CASE Step(r)
  BY <1>1, <1>2, <1>3, <1>4, <1>5, <1>6
  DEF Step, Requeue, DispatchPause, ClaimLost, FinishFailed, GetStatus, FinishRunning,
      GiveUp, StatementRefused, Advance
<1>7. CASE FaultStep(r)
  BY <1>1, <1>4, <1>5, <1>7
  DEF FaultStep, BookkeepingError, ConnectionLost, RequeueReplyLost, FailedReplyLost, Crash,
      Advance
<1>8. QED BY <1>6, <1>7

\* A tick fetches finitely many rows.
LEMMA RowIsFinite == ASSUME IsFiniteSet(Pipelines) PROVE IsFiniteSet(Row)
<1> DEFINE pairs == Pipelines \X PipelineStatus
           f == [p \in pairs |-> [pid |-> p[1], seen |-> p[2]]]
<1>1. IsFiniteSet(PipelineStatus)
  <2>1. PipelineStatus = {"IDLE"} \cup {"RUN_REQUESTED"} \cup {"RUNNING"}
                         \cup {"PAUSE_REQUESTED"} \cup {"PAUSED"} \cup {"FAILED"}
    BY DEF PipelineStatus
  <2>2. IsFiniteSet({"IDLE"})
    BY FS_Singleton
  <2>3. QED BY <2>1, <2>2, FS_AddElement
<1>2. IsFiniteSet(pairs)
  BY <1>1, FS_Product
<1>3. f \in Surjection(pairs, Row)
  <2>1. \A p \in pairs : f[p] \in Row
    BY DEF Row
  <2>2. ASSUME NEW row \in Row PROVE \E p \in pairs : f[p] = row
    <3>1. <<row.pid, row.seen>> \in pairs /\ row = [pid |-> row.pid, seen |-> row.seen]
      BY DEF Row
    <3>2. f[<<row.pid, row.seen>>] = row
      BY <3>1
    <3>3. QED BY <3>1, <3>2
  <2>3. QED BY <2>1, <2>2 DEF Surjection
<1>4. QED BY <1>2, <1>3, FS_Surjection

\* What is left is counted in numbers.
LEMMA MeasureTyped ==
  ASSUME IsFiniteSet(Pipelines), LocalTyped, NEW r \in Runners
  PROVE  /\ IsFiniteSet(todo[r]) /\ Cardinality(todo[r]) \in Nat
         /\ RowsLeft(r) \in Nat
         /\ job[r].attempt \in Nat /\ job[r].attempt <= MaxAttempts
         /\ job[r].batch \in Nat /\ job[r].batch <= MaxBatches
         /\ BatchesLeft(r) \in Nat
         /\ Stage(r) \in Nat
<1>1. IsFiniteSet(todo[r]) /\ Cardinality(todo[r]) \in Nat
  BY RowIsFinite, FS_Subset, FS_CardinalityType DEF LocalTyped
<1>2. RowsLeft(r) \in Nat
  BY <1>1 DEF RowsLeft
<1>3. job[r] \in Job /\ MaxBatches \in Nat /\ MaxAttempts \in Nat
  BY RunnerAssumption DEF LocalTyped
<1>4. /\ job[r].attempt \in Nat /\ job[r].attempt <= MaxAttempts
      /\ job[r].batch \in Nat /\ job[r].batch <= MaxBatches
  BY <1>3 DEF Job
<1>5. BatchesLeft(r) \in Nat
  BY <1>3, <1>4 DEF BatchesLeft
<1>6. Stage(r) \in Nat
  BY DEF Stage
<1>7. QED BY <1>1, <1>2, <1>4, <1>5, <1>6

\* Every step that stays in the tick brings its end closer.
LEMMA TickCloser ==
  ASSUME IsFiniteSet(Pipelines), LocalTyped, NEW r \in Runners, Fresh(r),
         Step(r) \/ FaultStep(r), InTick(r), InTick(r)'
  PROVE  Closer(r)
<1> DEFINE n == Cardinality(todo[r])
<1>0. /\ IsFiniteSet(todo[r]) /\ n \in Nat
      /\ job[r].attempt \in Nat /\ job[r].attempt <= MaxAttempts
      /\ job[r].batch \in Nat /\ job[r].batch <= MaxBatches
      /\ MaxBatches \in Nat /\ MaxAttempts \in Nat
  BY MeasureTyped, RunnerAssumption
<1>1. CASE pc[r] \in ClaimPcs /\ NextRow(r, todo[r])
  <2>1. pc'[r] \notin ClaimPcs /\ todo'[r] = todo[r]
    BY <1>1 DEF NextRow, Goto, LocalTyped
  <2>2. RowsLeft(r) = n + 1 /\ RowsLeft(r)' = n + 0
    BY <1>1, <2>1 DEF RowsLeft
  <2>3. QED BY <1>0, <2>2 DEF Closer
<1>2. ASSUME NEW row \in todo[r], pc[r] = "dispatch", NextRow(r, todo[r] \ {row})
      PROVE  Closer(r)
  <2>1. pc'[r] \notin ClaimPcs /\ todo'[r] = todo[r] \ {row}
    BY <1>2 DEF NextRow, Goto, LocalTyped
  <2>2. Cardinality(todo[r] \ {row}) = n - 1
    BY <1>0, FS_RemoveElement
  <2>3. RowsLeft(r) = n + 0 /\ RowsLeft(r)' = (n - 1) + 0
    BY <1>2, <2>1, <2>2 DEF RowsLeft
  <2>4. QED BY <1>0, <2>3 DEF Closer
<1>3. ASSUME NEW row \in todo[r], Claim(r, row) PROVE Closer(r)
  <2>1. /\ pc[r] = "dispatch" /\ pc'[r] = "snapshot"
        /\ todo'[r] = todo[r] \ {row} /\ job'[r] = JobOf(row.pid)
    BY <1>3 DEF Claim, Goto, LocalTyped
  <2>2. Cardinality(todo[r] \ {row}) = n - 1
    BY <1>0, FS_RemoveElement
  <2>3. RowsLeft(r) = n + 0 /\ RowsLeft(r)' = (n - 1) + 1
    BY <2>1, <2>2 DEF RowsLeft
  <2>4. job[r] = NoJob
    BY <2>1 DEF Fresh
  <2>5. /\ job[r].attempt = 0 /\ job'[r].attempt = 0
        /\ job[r].batch = 0 /\ job'[r].batch = 0
    BY <2>1, <2>4 DEF NoJob, JobOf
  <2>6. BatchesLeft(r)' = BatchesLeft(r)
    BY <2>1, <2>5 DEF BatchesLeft
  <2>7. Stage(r) = 12 /\ Stage(r)' = 11
    BY <2>1 DEF Stage
  <2>8. RowsLeft(r)' = RowsLeft(r)
    BY <1>0, <2>3
  <2>9. QED BY <2>5, <2>6, <2>7, <2>8 DEF Closer
<1>4. ASSUME pc[r] \in ClaimPcs, pc'[r] \in ClaimPcs, todo' = todo
      PROVE  RowsLeft(r)' = RowsLeft(r)
  BY <1>4 DEF RowsLeft
<1>5. CASE TakeSnapshot(r)
  <2>1. /\ pc[r] = "snapshot" /\ pc'[r] = "start" /\ todo' = todo
        /\ job'[r].attempt = 1
    BY <1>5 DEF TakeSnapshot, Goto, LocalTyped, Job
  <2>2. job[r].attempt = 0
    BY <2>1 DEF Fresh
  <2>3. QED BY <1>4, <2>1, <2>2 DEF Closer
<1>6. CASE ReadRows(r)
  <2>1. /\ pc[r] = "read" /\ pc'[r] = "write" /\ todo' = todo
        /\ job'[r].attempt = job[r].attempt /\ job'[r].batch = job[r].batch + 1
    BY <1>6 DEF ReadRows, Goto, LocalTyped, Job
  <2>2. /\ BatchesLeft(r) = MaxBatches + 1 - job[r].batch
        /\ BatchesLeft(r)' = MaxBatches + 1 - (job[r].batch + 1)
    BY <2>1 DEF BatchesLeft
  <2>3. BatchesLeft(r)' < BatchesLeft(r)
    BY <1>0, <2>2
  <2>4. QED BY <1>4, <2>1, <2>3 DEF Closer
<1>7. CASE \/ StartRun(r) \/ ReadEof(r) \/ CommitBatch(r) \/ CheckPause(r) \/ ApplyPause(r)
           \/ FinishSuccess(r) \/ ExecutionError(r)
           \/ GetStatus(r) /\ Goto(r, "finish") /\ UNCHANGED <<todo, job>>
  <2>1. /\ todo' = todo /\ job'[r].attempt = job[r].attempt /\ job'[r].batch = job[r].batch
        /\ \/ pc[r] = "start" /\ pc'[r] = "read"
           \/ pc[r] = "read" /\ pc'[r] = "success"
           \/ pc[r] = "write" /\ pc'[r] = "check"
           \/ pc[r] = "check" /\ pc'[r] \in {"pause", "read"}
           \/ pc[r] = "pause" /\ pc'[r] = "success"
           \/ pc[r] = "success" /\ pc'[r] = "status"
           \/ pc[r] \in BodyPcs /\ pc'[r] = "failed"
           \/ pc[r] = "status" /\ pc'[r] = "finish"
    BY <1>7 DEF StartRun, ReadEof, CommitBatch, CheckPause, ApplyPause, FinishSuccess,
                ExecutionError, GetStatus, Goto, LocalTyped, Job
  <2>2. pc[r] \in ClaimPcs \ {"giveup"} /\ pc'[r] \in ClaimPcs \ {"giveup"}
    BY <2>1
  <2>3. BatchesLeft(r)' = BatchesLeft(r)
    BY <2>1, <2>2 DEF BatchesLeft
  <2>4. Stage(r)' < Stage(r)
    BY <2>1 DEF Stage
  <2>5. QED BY <1>4, <2>1, <2>2, <2>3, <2>4 DEF Closer
<1>8. ASSUME pc[r] \in {"start", "failed", "status", "finish"}, UNCHANGED todo,
             NEW broken \in BOOLEAN, RetryOrGiveUp(r, broken)
      PROVE  Closer(r)
  <2>1. /\ job'[r] = NextAttempt(r, broken)
        /\ pc'[r] = IF AttemptsLeft(r) THEN "start" ELSE "giveup"
    BY <1>8 DEF RetryOrGiveUp, Goto, LocalTyped
  <2>2. RowsLeft(r)' = RowsLeft(r)
    BY <1>4, <1>8, <2>1
  <2>3. CASE AttemptsLeft(r)
    <3>1. job'[r].attempt = job[r].attempt + 1
      BY <2>1, <2>3 DEF NextAttempt
    <3>2. QED BY <1>0, <2>2, <3>1 DEF Closer
  <2>4. CASE ~AttemptsLeft(r)
    <3>1. job'[r].attempt = job[r].attempt /\ pc'[r] = "giveup"
      BY <2>1, <2>4 DEF NextAttempt
    <3>2. BatchesLeft(r) = MaxBatches + 1 - job[r].batch /\ BatchesLeft(r)' = 0
      BY <1>8, <3>1 DEF BatchesLeft
    <3>3. BatchesLeft(r)' < BatchesLeft(r)
      BY <1>0, <3>2
    <3>4. QED BY <2>2, <3>1, <3>3 DEF Closer
  <2>5. QED BY <2>3, <2>4
<1>9. QED
  BY <1>1, <1>2, <1>3, <1>5, <1>6, <1>7, <1>8, TickMoves DEF Advance

\* A step of somebody else leaves r's locals alone and is no step of r.
LEMMA IdleIsNoStep ==
  ASSUME IsFiniteSet(Pipelines), LocalTyped, NEW r \in Runners, Fresh(r),
         InTick(r), InTick(r)', pc'[r] = pc[r], todo'[r] = todo[r], job'[r] = job[r]
  PROVE  ~Step(r)
<1>1. /\ RowsLeft(r) \in Nat /\ BatchesLeft(r) \in Nat /\ Stage(r) \in Nat
      /\ job[r].attempt \in Nat
  BY MeasureTyped
<1>2. /\ RowsLeft(r)' = RowsLeft(r) /\ BatchesLeft(r)' = BatchesLeft(r)
      /\ Stage(r)' = Stage(r)
  BY DEF RowsLeft, BatchesLeft, Stage
<1>3. ~Closer(r)
  BY <1>1, <1>2 DEF Closer
<1>4. QED BY <1>3, TickCloser

LEMMA TickStep ==
  ASSUME IsFiniteSet(Pipelines), Typed, \A r \in Runners : Fresh(r), [Next]_vars
  PROVE  /\ \A r \in Runners : Fresh(r)'
         /\ \A r \in Runners : InTick(r) /\ InTick(r)' =>
              Closer(r) \/ (UNCHANGED <<pc[r], todo[r], job[r]>> /\ ~Step(r))
<1>0. LocalTyped
  BY TypedParts DEF RunnerTyped
<1>1. ASSUME NEW r \in Runners, pc'[r] = pc[r], todo'[r] = todo[r], job'[r] = job[r]
      PROVE  /\ Fresh(r)'
             /\ InTick(r) /\ InTick(r)' =>
                  Closer(r) \/ (UNCHANGED <<pc[r], todo[r], job[r]>> /\ ~Step(r))
  BY <1>0, <1>1, IdleIsNoStep DEF Fresh
<1>2. CASE ApiNext /\ UNCHANGED runnerVars
  BY <1>1, <1>2 DEF runnerVars
<1>3. ASSUME NEW s \in Runners, Step(s) \/ FaultStep(s), NEW r \in Runners
      PROVE  /\ Fresh(r)'
             /\ InTick(r) /\ InTick(r)' =>
                  Closer(r) \/ (UNCHANGED <<pc[r], todo[r], job[r]>> /\ ~Step(r))
  <2>1. CASE r = s
    BY <1>0, <1>3, <2>1, FreshStep, TickCloser
  <2>2. CASE r # s
    BY <1>0, <1>1, <1>3, <2>2, OthersStay
  <2>3. QED BY <2>1, <2>2
<1>4. CASE UNCHANGED vars
  BY <1>1, <1>4 DEF vars, runnerVars
<1>5. QED BY <1>2, <1>3, <1>4 DEF Next, RunnerNext

(* For any number of runners, any clients and every kind of fault, a tick  *)
(* does not go round in circles: each statement of it brings its end       *)
(* closer, so a tick whose statements are issued ends.                     *)
THEOREM TicksAdvance == IsFiniteSet(Pipelines) => (Spec => TickAdvances)
<1> SUFFICES ASSUME IsFiniteSet(Pipelines) PROVE Spec => TickAdvances
  OBVIOUS
<1>1. Init => \A r \in Runners : Fresh(r)
  BY DEF Init, RunnerInit, Fresh
<1>2. Typed /\ (\A r \in Runners : Fresh(r)) /\ [Next]_vars => (\A r \in Runners : Fresh(r))'
  BY TickStep
<1>3. Typed /\ (\A r \in Runners : Fresh(r)) /\ [Next]_vars =>
        [\A r \in Runners : InTick(r) /\ InTick(r)' =>
           Closer(r) \/ (UNCHANGED <<pc[r], todo[r], job[r]>> /\ ~Step(r))]_vars
  BY TickStep
<1>4. Spec => []Typed
  BY TypedInit, TypedStep, PTL DEF Spec
<1>5. QED BY <1>1, <1>2, <1>3, <1>4, PTL DEF Spec, TickAdvances

=============================================================================
