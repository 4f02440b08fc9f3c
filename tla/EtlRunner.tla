----------------------------- MODULE EtlRunner ------------------------------
(***************************************************************************)
(* The data plane: the runner process of runner/main.py, with its manager, *)
(* dispatcher and executor.  A runner is sequential; pc says which         *)
(* statement on the database it issues next, and between two of its        *)
(* statements every other process may act.                                 *)
(*                                                                         *)
(*   down      the process is not running                                  *)
(*   recover   main_loop, about to list the pipelines left RUNNING         *)
(*   requeue   main_loop, about to fail their runs and queue them again    *)
(*   poll      between two ticks                                           *)
(*   dispatch  tick, about to dispatch its next row                        *)
(*   snapshot  dispatch, claim committed, about to read the tasks          *)
(*   start     execute, about to insert the row of the run                 *)
(*   read      _run_body, about to read a batch                            *)
(*   write     _run_body, batch read, about to write and commit it         *)
(*   check     _pause_if_requested, about to read the status               *)
(*   pause     _pause_if_requested, PAUSE_REQUESTED read, about to apply   *)
(*   success   execute, about to close the run as SUCCESS                  *)
(*   failed    execute, exception caught, about to roll back and to close  *)
(*             the run as FAILED                                           *)
(*   status    dispatch, executor returned, about to read the status       *)
(*   finish    dispatch, about to finalise the pipeline to IDLE            *)
(*   giveup    dispatch, last attempt failed, about to mark it FAILED      *)
(***************************************************************************)
EXTENDS EtlStore

CONSTANTS
  Runners,       \* runner processes
  MaxAttempts,   \* PipelineDispatcher.max_attempts
  MaxBatches,    \* bound: non-empty batches the source holds at most
  FaultKinds,    \* the kinds of faults that may happen
  MaxFaults      \* bound: how many faults happen

AllFaultKinds == {"execution", "bookkeeping", "connection", "crash"}

ASSUME RunnerAssumption ==
  /\ MaxAttempts \in Nat \ {0}
  /\ MaxBatches \in Nat
  /\ FaultKinds \subseteq AllFaultKinds
  /\ MaxFaults \in Nat

VARIABLES
  pc,        \* pc[r]: the statement runner r issues next
  todo,      \* todo[r]: rows fetched and not yet dispatched (or recovered)
  job,       \* job[r]: the local variables of dispatch and execute
  faults,    \* faults so far
  bodyEnd    \* history: how the last finished body of each pipeline ended

runnerVars == <<pc, todo, job, faults, bodyEnd>>

\* The run is open and its body is being executed.
BodyPcs == {"read", "write", "check", "pause", "success"}

\* A claim is held: dispatch is past claim_run_requested.
ClaimPcs ==
  BodyPcs \cup {"snapshot", "start", "failed", "status", "finish", "giveup"}

Pcs == ClaimPcs \cup {"down", "recover", "requeue", "poll", "dispatch"}

\* A row of etl_pipelines as it was fetched: id and status of that moment.
Row == [pid: Pipelines, seen: PipelineStatus]

JobOf(p) ==
  [pid |-> p, attempt |-> 0, run |-> 0, batch |-> 0, aborted |-> FALSE]

NoJob == JobOf(NoPipeline)

\* aborted: the session's transaction is in error and was not rolled back.
Job == [pid: Pipelines \cup {NoPipeline}, attempt: 0 .. MaxAttempts, run: Nat,
        batch: 0 .. MaxBatches, aborted: BOOLEAN]

RunnerTypeOK ==
  /\ pc \in [Runners -> Pcs]
  /\ todo \in [Runners -> SUBSET Row]
  /\ job \in [Runners -> Job]
  /\ faults \in 0 .. MaxFaults
  /\ bodyEnd \in [Pipelines -> {"none", "drained", "stopped"}]

RunnerInit ==
  /\ pc = [r \in Runners |-> "down"]
  /\ todo = [r \in Runners |-> {}]
  /\ job = [r \in Runners |-> NoJob]
  /\ faults = 0
  /\ bodyEnd = [p \in Pipelines |-> "none"]

Goto(r, label) == pc' = [pc EXCEPT ![r] = label]

\* The process is gone, and its memory with it.
Exit(r) ==
  /\ Goto(r, "down")
  /\ todo' = [todo EXCEPT ![r] = {}]
  /\ job' = [job EXCEPT ![r] = NoJob]

\* tick, after dispatch returned or its exception was logged.
NextRow(r, rows) ==
  /\ Goto(r, IF rows = {} THEN "poll" ELSE "dispatch")
  /\ todo' = [todo EXCEPT ![r] = rows]
  /\ job' = [job EXCEPT ![r] = NoJob]

(***************************************************************************)
(* main_loop: startup, recovery, and the poll of every tick.               *)
(***************************************************************************)
Start(r) ==
  /\ pc[r] = "down"
  /\ Goto(r, "recover")
  /\ UNCHANGED <<storeVars, todo, job, faults, bodyEnd>>

Fetched(ids) == {[pid |-> p, seen |-> status[p]] : p \in ids}

Recover(r) ==
  /\ pc[r] = "recover"
  /\ todo' = [todo EXCEPT ![r] = Fetched(list_stuck_running_ids)]
  /\ Goto(r, IF list_stuck_running_ids = {} THEN "poll" ELSE "requeue")
  /\ UNCHANGED <<storeVars, job, faults, bodyEnd>>

\* Both bulk updates are committed together.
RequeueStuck(r) ==
  LET ids == {row.pid : row \in todo[r]} IN
    /\ recover_running_failed_bulk(ids)
    /\ mark_run_requested_bulk(ids)
    /\ UNCHANGED <<enabled, bodyEnd>>

Requeue(r) ==
  /\ pc[r] = "requeue"
  /\ RequeueStuck(r)
  /\ NextRow(r, {})
  /\ UNCHANGED faults

\* A tick that finds nothing changes nothing.
IdleTick(r) ==
  /\ pc[r] = "poll"
  /\ get_active = {}
  /\ UNCHANGED <<storeVars, runnerVars>>

Poll(r) ==
  /\ pc[r] = "poll"
  /\ get_active # {}
  /\ todo' = [todo EXCEPT ![r] = Fetched(get_active)]
  /\ Goto(r, "dispatch")
  /\ UNCHANGED <<storeVars, job, faults, bodyEnd>>

(***************************************************************************)
(* dispatch: the row decides by the status it had when it was fetched.     *)
(***************************************************************************)

\* get_active orders by name.
IsFirst(r, row) == row \in todo[r] /\ \A x \in todo[r] : row.pid <= x.pid

DispatchPause(r, row) ==
  /\ pc[r] = "dispatch"
  /\ IsFirst(r, row)
  /\ row.seen = "PAUSE_REQUESTED"
  /\ apply_pause_requested(row.pid)
  /\ NextRow(r, todo[r] \ {row})
  /\ UNCHANGED <<enabled, runs, faults, bodyEnd>>

Claim(r, row) ==
  /\ pc[r] = "dispatch"
  /\ IsFirst(r, row)
  /\ row.seen = "RUN_REQUESTED"
  /\ Matches(row.pid, ClaimFrom)
  /\ claim_run_requested(row.pid)
  /\ todo' = [todo EXCEPT ![r] = @ \ {row}]
  /\ job' = [job EXCEPT ![r] = JobOf(row.pid)]
  /\ Goto(r, "snapshot")
  /\ UNCHANGED <<enabled, runs, faults, bodyEnd>>

\* claimed is None: another runner was faster, or the request was withdrawn.
ClaimLost(r, row) ==
  /\ pc[r] = "dispatch"
  /\ IsFirst(r, row)
  /\ row.seen = "RUN_REQUESTED"
  /\ ~Matches(row.pid, ClaimFrom)
  /\ NextRow(r, todo[r] \ {row})
  /\ UNCHANGED <<storeVars, faults, bodyEnd>>

TakeSnapshot(r) ==
  /\ pc[r] = "snapshot"
  /\ job' = [job EXCEPT ![r].attempt = 1]
  /\ Goto(r, "start")
  /\ UNCHANGED <<storeVars, todo, faults, bodyEnd>>

(***************************************************************************)
(* execute: one attempt, one row of etl_runs.                              *)
(***************************************************************************)
StartRun(r) ==
  LET p == job[r].pid IN
    /\ pc[r] = "start"
    /\ ~job[r].aborted
    /\ start_run(p)
    /\ job' = [job EXCEPT ![r].run = NewRunId(p)]
    /\ bodyEnd' = [bodyEnd EXCEPT ![p] = "none"]
    /\ Goto(r, "read")
    /\ UNCHANGED <<status, enabled, todo, faults>>

ReadRows(r) ==
  /\ pc[r] = "read"
  /\ job[r].batch < MaxBatches
  /\ job' = [job EXCEPT ![r].batch = @ + 1]
  /\ Goto(r, "write")
  /\ UNCHANGED <<storeVars, todo, faults, bodyEnd>>

ReadEof(r) ==
  /\ pc[r] = "read"
  /\ bodyEnd' = [bodyEnd EXCEPT ![job[r].pid] = "drained"]
  /\ Goto(r, "success")
  /\ UNCHANGED <<storeVars, todo, job, faults>>

\* The batch, and an incremental pipeline's checkpoint, become durable.
CommitBatch(r) ==
  /\ pc[r] = "write"
  /\ Goto(r, "check")
  /\ UNCHANGED <<storeVars, todo, job, faults, bodyEnd>>

CheckPause(r) ==
  /\ pc[r] = "check"
  /\ Goto(r, IF Matches(job[r].pid, {"PAUSE_REQUESTED"}) THEN "pause" ELSE "read")
  /\ UNCHANGED <<storeVars, todo, job, faults, bodyEnd>>

\* Mutant: the pause is applied and the loop goes on with the next batch.
ApplyPauseGoesOn(r) ==
  /\ pc[r] = "pause"
  /\ apply_pause_requested(job[r].pid)
  /\ Goto(r, "read")
  /\ UNCHANGED <<enabled, runs, todo, job, faults, bodyEnd>>

\* The body stops whether or not the UPDATE found the request still there.
ApplyPause(r) ==
  /\ pc[r] = "pause"
  /\ apply_pause_requested(job[r].pid)
  /\ bodyEnd' = [bodyEnd EXCEPT ![job[r].pid] = "stopped"]
  /\ Goto(r, "success")
  /\ UNCHANGED <<enabled, runs, todo, job, faults>>

FinishSuccess(r) ==
  /\ pc[r] = "success"
  /\ finish_success(job[r].pid, job[r].run)
  /\ Goto(r, "status")
  /\ UNCHANGED <<status, enabled, todo, job, faults, bodyEnd>>

(***************************************************************************)
(* dispatch, around execute: retries and the final status.                 *)
(***************************************************************************)

\* Mutants: one attempt too many, one too few.
AttemptsLeftInclusive(r) == job[r].attempt <= MaxAttempts
AttemptsLeftShort(r) == job[r].attempt + 1 < MaxAttempts

AttemptsLeft(r) == job[r].attempt < MaxAttempts

\* Mutant: the attempt is made again and not counted.
NextAttemptUncounted(r, broken) ==
  [pid |-> job[r].pid, attempt |-> job[r].attempt,
   run |-> 0, batch |-> 0, aborted |-> broken]

\* The locals of the next attempt; the last one's are not needed any more.
NextAttempt(r, broken) ==
  [pid |-> job[r].pid,
   attempt |-> IF AttemptsLeft(r) THEN job[r].attempt + 1 ELSE job[r].attempt,
   run |-> 0, batch |-> 0, aborted |-> broken]

\* dispatch's handler of an exception that is no disconnect.
RetryOrGiveUp(r, broken) ==
  /\ job' = [job EXCEPT ![r] = NextAttempt(r, broken)]
  /\ Goto(r, IF AttemptsLeft(r) THEN "start" ELSE "giveup")

FinishFailed(r) ==
  /\ pc[r] = "failed"
  /\ finish_failed(job[r].pid, job[r].run)
  /\ RetryOrGiveUp(r, FALSE)
  /\ UNCHANGED <<status, enabled, todo, faults, bodyEnd>>

GetStatus(r) ==
  /\ pc[r] = "status"
  /\ IF Matches(job[r].pid, {"PAUSED"})
       THEN NextRow(r, todo[r])
       ELSE Goto(r, "finish") /\ UNCHANGED <<todo, job>>
  /\ UNCHANGED <<storeVars, faults, bodyEnd>>

FinishRunning(r) ==
  /\ pc[r] = "finish"
  /\ finish_running_to_idle(job[r].pid)
  /\ NextRow(r, todo[r])
  /\ UNCHANGED <<enabled, runs, faults, bodyEnd>>

GiveUp(r) ==
  /\ pc[r] = "giveup"
  /\ ~job[r].aborted
  /\ fail_if_active(job[r].pid)
  /\ NextRow(r, todo[r])
  /\ UNCHANGED <<enabled, runs, faults, bodyEnd>>

\* In an aborted transaction every statement is refused.
StatementRefused(r) ==
  /\ job[r].aborted
  /\ \/ pc[r] = "start" /\ RetryOrGiveUp(r, TRUE) /\ UNCHANGED todo
     \/ pc[r] = "giveup" /\ NextRow(r, todo[r])
  /\ UNCHANGED <<storeVars, faults, bodyEnd>>

Step(r) ==
  \/ Start(r) \/ Recover(r) \/ Requeue(r) \/ IdleTick(r) \/ Poll(r)
  \/ \E row \in todo[r] : DispatchPause(r, row) \/ Claim(r, row) \/ ClaimLost(r, row)
  \/ TakeSnapshot(r) \/ StartRun(r)
  \/ ReadRows(r) \/ ReadEof(r) \/ CommitBatch(r) \/ CheckPause(r) \/ ApplyPause(r)
  \/ FinishSuccess(r) \/ FinishFailed(r)
  \/ GetStatus(r) \/ FinishRunning(r) \/ GiveUp(r) \/ StatementRefused(r)

(***************************************************************************)
(* Faults.  A statement that is committed and whose reply is lost is the   *)
(* step above followed by ConnectionLost, except where the reply decides   *)
(* what comes next.                                                        *)
(***************************************************************************)
Fault(kind) ==
  /\ kind \in FaultKinds
  /\ faults < MaxFaults
  /\ faults' = faults + 1

\* Reading, transforming or writing a batch, or closing the run, raises.
ExecutionError(r) ==
  /\ Fault("execution")
  /\ pc[r] \in BodyPcs
  /\ Goto(r, "failed")
  /\ UNCHANGED <<storeVars, todo, job, bodyEnd>>

\* A statement outside the try block of execute raises, connection intact.
BookkeepingError(r) ==
  /\ Fault("bookkeeping")
  /\ \/ pc[r] \in {"recover", "requeue"} /\ Exit(r)
     \/ /\ pc[r] = "dispatch"
        /\ \E row \in todo[r] : IsFirst(r, row) /\ NextRow(r, todo[r] \ {row})
     \/ pc[r] \in {"snapshot", "giveup"} /\ NextRow(r, todo[r])
     \/ /\ pc[r] \in {"start", "failed", "status", "finish"}
        /\ \E broken \in BOOLEAN : RetryOrGiveUp(r, broken)
        /\ UNCHANGED todo
  /\ UNCHANGED <<storeVars, bodyEnd>>

\* is_db_disconnect: startup fails, the tick is left, or dispatch returns.
ConnectionLost(r) ==
  /\ Fault("connection")
  /\ \/ pc[r] \in {"recover", "requeue"} /\ Exit(r)
     \/ pc[r] \in {"dispatch", "snapshot", "giveup"} /\ NextRow(r, {})
     \/ /\ pc[r] \in BodyPcs \cup {"start", "failed", "status", "finish"}
        /\ NextRow(r, todo[r])
  /\ UNCHANGED <<storeVars, bodyEnd>>

\* Recovery was committed, its reply lost: startup fails all the same.
RequeueReplyLost(r) ==
  /\ Fault("connection")
  /\ pc[r] = "requeue"
  /\ RequeueStuck(r)
  /\ Exit(r)

\* The run was closed as FAILED, the reply lost: no retry follows.
FailedReplyLost(r) ==
  /\ Fault("connection")
  /\ pc[r] = "failed"
  /\ finish_failed(job[r].pid, job[r].run)
  /\ NextRow(r, todo[r])
  /\ UNCHANGED <<status, enabled, bodyEnd>>

Crash(r) ==
  /\ Fault("crash")
  /\ pc[r] # "down"
  /\ Exit(r)
  /\ UNCHANGED <<storeVars, bodyEnd>>

FaultStep(r) ==
  \/ ExecutionError(r) \/ BookkeepingError(r)
  \/ ConnectionLost(r) \/ RequeueReplyLost(r) \/ FailedReplyLost(r)
  \/ Crash(r)

RunnerNext == \E r \in Runners : Step(r) \/ FaultStep(r)

=============================================================================
