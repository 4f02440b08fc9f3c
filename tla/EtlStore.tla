------------------------------ MODULE EtlStore ------------------------------
(***************************************************************************)
(* The metadata the API and the runners share: the rows of                 *)
(* etl.etl_pipelines and etl.etl_runs, and the statements the two          *)
(* repositories issue on them.  A repository method that executes one      *)
(* UPDATE and commits it is one atomic step: PostgreSQL re-evaluates the   *)
(* WHERE clause after waiting for a row lock (READ COMMITTED), so a        *)
(* conditional UPDATE is a compare-and-set.                                *)
(*                                                                         *)
(* A pipeline is identified by its rank in the order of the name column,   *)
(* the order in which get_active returns rows.                             *)
(***************************************************************************)
EXTENDS Naturals, Sequences

CONSTANT Pipelines   \* the rows of etl_pipelines

ASSUME PipelinesAssumption == Pipelines \subseteq Nat \ {0}

NoPipeline == 0

VARIABLES
  status,    \* status[p]: the status column of pipeline p
  enabled,   \* enabled[p]: the enabled column of pipeline p
  runs       \* runs[p]: statuses of p's rows in etl_runs, oldest first

storeVars == <<status, enabled, runs>>

PipelineStatus ==
  {"IDLE", "RUN_REQUESTED", "RUNNING", "PAUSE_REQUESTED", "PAUSED", "FAILED"}

RunStatus == {"RUNNING", "SUCCESS", "FAILED"}

StoreTypeOK ==
  /\ status \in [Pipelines -> PipelineStatus]
  /\ enabled \in [Pipelines -> BOOLEAN]
  /\ runs \in [Pipelines -> Seq(RunStatus)]

\* Rows as create_pipeline leaves them: the column defaults, no run yet.
StoreInit ==
  /\ status = [p \in Pipelines |-> "IDLE"]
  /\ enabled = [p \in Pipelines |-> TRUE]
  /\ runs = [p \in Pipelines |-> << >>]

(***************************************************************************)
(* UPDATE etl_pipelines SET status = to WHERE id = p AND status IN from.   *)
(* The statement's row count is 1 exactly when Matches(p, from).           *)
(***************************************************************************)
Matches(p, from) == status[p] \in from

UpdateStatus(p, from, to) ==
  status' = IF Matches(p, from) THEN [status EXCEPT ![p] = to] ELSE status

(***************************************************************************)
(* app/repositories/pipelines.py: what the API may request.                *)
(***************************************************************************)
RequestRunFrom == {"IDLE", "PAUSED", "PAUSE_REQUESTED"}
RequestPauseFrom == {"RUNNING", "RUN_REQUESTED", "IDLE"}

request_run(p) == UpdateStatus(p, RequestRunFrom, "RUN_REQUESTED")

\* Mutant: the API applies the pause itself instead of asking the runner.
request_pause_applied_at_once(p) == UpdateStatus(p, RequestPauseFrom, "PAUSED")

request_pause(p) == UpdateStatus(p, RequestPauseFrom, "PAUSE_REQUESTED")

update_pipeline(p, value) == enabled' = [enabled EXCEPT ![p] = value]

(***************************************************************************)
(* runner/repos/pipelines.py: what a runner reads and changes.             *)
(***************************************************************************)

\* Mutants: one of the two requests is not listed for the tick.
ActiveRunsOnly == {"RUN_REQUESTED"}
ActivePausesOnly == {"PAUSE_REQUESTED"}

ActiveStatuses == {"RUN_REQUESTED", "PAUSE_REQUESTED"}

\* Mutant: enabled is not looked at.
active_or_disabled == {p \in Pipelines : status[p] \in ActiveStatuses}

get_active == {p \in Pipelines : enabled[p] /\ status[p] \in ActiveStatuses}

\* Mutant: a pipeline already RUNNING can be claimed again.
ClaimFromRunningToo == {"RUN_REQUESTED", "RUNNING"}

ClaimFrom == {"RUN_REQUESTED"}

claim_run_requested(p) == UpdateStatus(p, ClaimFrom, "RUNNING")

apply_pause_requested(p) == UpdateStatus(p, {"PAUSE_REQUESTED"}, "PAUSED")

\* Mutant: recovery lists what the next tick would serve.
stuck_and_enabled == {p \in Pipelines : enabled[p] /\ status[p] = "RUNNING"}

list_stuck_running_ids == {p \in Pipelines : status[p] = "RUNNING"}

\* Mutant: recovery closes the runs and forgets to queue the pipelines again.
requeue_forgotten(ids) == UNCHANGED status

mark_run_requested_bulk(ids) ==
  status' = [p \in Pipelines |->
               IF p \in ids /\ status[p] = "RUNNING"
                 THEN "RUN_REQUESTED" ELSE status[p]]

\* Mutant: finalisation is unconditional.
FinishFromAny == PipelineStatus

FinishFrom == {"RUNNING"}

finish_running_to_idle(p) == UpdateStatus(p, FinishFrom, "IDLE")

\* Mutant: a permanent failure overwrites whatever the operator asked for.
FailFromAny == PipelineStatus

FailFrom == {"RUNNING", "PAUSE_REQUESTED"}

fail_if_active(p) == UpdateStatus(p, FailFrom, "FAILED")

(***************************************************************************)
(* runner/repos/runs.py.  The uuid of a new run is its position in the     *)
(* pipeline's history.                                                     *)
(***************************************************************************)

\* Mutant: a retry reuses the row of the attempt before it.
ReusedRunId(p) == IF runs[p] = << >> THEN 1 ELSE Len(runs[p])

NewRunId(p) == Len(runs[p]) + 1

start_run(p) == runs' = [runs EXCEPT ![p] = Append(@, "RUNNING")]

finish_success(p, run) == runs' = [runs EXCEPT ![p][run] = "SUCCESS"]

finish_failed(p, run) == runs' = [runs EXCEPT ![p][run] = "FAILED"]

\* Mutant: recovery does not ask whether the run was still RUNNING.
recover_every_run(ids) ==
  runs' = [p \in Pipelines |->
             IF p \in ids THEN [i \in DOMAIN runs[p] |-> "FAILED"] ELSE runs[p]]

recover_running_failed_bulk(ids) ==
  runs' = [p \in Pipelines |->
             IF p \in ids
               THEN [i \in DOMAIN runs[p] |->
                       IF runs[p][i] = "RUNNING" THEN "FAILED" ELSE runs[p][i]]
               ELSE runs[p]]

=============================================================================
