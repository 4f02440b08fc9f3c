----------------------------- MODULE EtlPlatform ----------------------------
(***************************************************************************)
(* The platform: API handlers and runners that coordinate only through the *)
(* status column of etl_pipelines, and the properties of the whole.        *)
(***************************************************************************)
EXTENDS EtlApi, EtlRunner, FiniteSets

VARIABLE
  preempted   \* history: runners that go on although their claim has ended

vars == <<storeVars, apiVars, runnerVars, preempted>>

\* Runner r is between its claim and the end of its dispatch of p.
Executing(r, p) == pc[r] \in ClaimPcs /\ job[r].pid = p

\* The claim on p is alive: nobody has settled or re-queued the pipeline.
Claimed(p) == status[p] \in {"RUNNING", "PAUSE_REQUESTED"}

TypeOK ==
  /\ StoreTypeOK
  /\ ApiTypeOK
  /\ RunnerTypeOK
  /\ preempted \subseteq Runners

Init ==
  /\ StoreInit
  /\ ApiInit
  /\ RunnerInit
  /\ preempted = {}

\* r goes on with a job whose pipeline has left the claimed statuses.
RecordPreemption ==
  preempted' = {r \in Runners :
                  /\ pc'[r] \in ClaimPcs
                  /\ r \in preempted \/ ~Claimed(job[r].pid)'}

Next ==
  /\ \/ ApiNext /\ UNCHANGED runnerVars
     \/ RunnerNext /\ UNCHANGED apiVars
  /\ RecordPreemption

Spec == Init /\ [][Next]_vars

(***************************************************************************)
(* Fairness: the event loop of a runner keeps issuing its next statement   *)
(* and a runner that is down is started again; API calls and faults need   *)
(* not happen.                                                             *)
(***************************************************************************)
RunnerStep(r) == Step(r) /\ UNCHANGED apiVars /\ RecordPreemption

FairSpec == Spec /\ \A r \in Runners : WF_vars(RunnerStep(r))

(***************************************************************************)
(* Properties of any number of runners.                                    *)
(***************************************************************************)

(* claim_run_requested as a lock: two runners execute the same pipeline    *)
(* only if one of them goes on although its claim has ended: withdrawn,    *)
(* finished, failed or re-queued by somebody else, or paused by itself.    *)
ExclusiveClaim ==
  \A r, s \in Runners : \A p \in Pipelines :
    (r # s /\ Executing(r, p) /\ Executing(s, p)) => {r, s} \cap preempted # {}

(* SUCCESS is final, also when several runners execute one pipeline: no    *)
(* retry, late executor or recovery takes it back.  A row that recovery    *)
(* closed as FAILED over the head of a live executor is the only one that  *)
(* is rewritten, and only by that executor, whose body has come to its     *)
(* end.                                                                    *)
SuccessIsFinal ==
  [][\A p \in Pipelines : \A i \in DOMAIN runs[p] :
       runs[p][i] # "RUNNING" /\ runs'[p][i] # runs[p][i] =>
         /\ runs[p][i] = "FAILED"
         /\ \E r \in Runners : FinishSuccess(r) /\ job[r].pid = p /\ job[r].run = i]_vars

\* Executor of p while r is past the claim, none otherwise.
held == [r \in Runners |-> IF pc[r] \in ClaimPcs THEN job[r].pid ELSE NoPipeline]

Lifecycle == INSTANCE PipelineLifecycle
               WITH Workers <- Runners, Nothing <- NoPipeline,
                    st <- status, holds <- held

(* The platform implements the abstract lifecycle: whatever the            *)
(* interleaving of handlers, ticks, retries, faults and restarts, a status *)
(* changes only as an operator may ask, as the holder of the pipeline may  *)
(* settle it, or as a starting runner may re-queue it.                     *)
LifecycleSpec == Lifecycle!LifeSpec

(***************************************************************************)
(* Properties of a deployment with one runner, the one docker-compose      *)
(* describes.                                                              *)
(***************************************************************************)

(* The run an executor is about to close is its own latest row and is      *)
(* still RUNNING: retries and recovery never leave two attempts of a       *)
(* pipeline writing to one history row.                                    *)
RunRowOwned ==
  \A r \in Runners : pc[r] \in BodyPcs \cup {"failed"} =>
    LET p == job[r].pid IN
      /\ job[r].run = Len(runs[p])
      /\ runs[p] # << >>
      /\ runs[p][job[r].run] = "RUNNING"

(* IDLE after a run means the last run drained its source and is recorded  *)
(* as SUCCESS: a body cut short by a pause request is never finalised to   *)
(* IDLE, even when the request was withdrawn between reading and applying. *)
IdleMeansComplete ==
  \A p \in Pipelines : status[p] = "IDLE" =>
    \/ runs[p] = << >>
    \/ bodyEnd[p] = "drained" /\ runs[p][Len(runs[p])] = "SUCCESS"

(* A pipeline becomes PAUSED only while no batch of it is between its read *)
(* and its commit.                                                         *)
PauseBetweenBatches ==
  [][\A p \in Pipelines : status[p] # "PAUSED" /\ status'[p] = "PAUSED" =>
       ~\E r \in Runners : Executing(r, p) /\ pc[r] = "write"]_vars

(* A closed run is history: no retry, late executor or recovery rewrites   *)
(* SUCCESS or FAILED.                                                      *)
ClosedRunsStay ==
  [][\A p \in Pipelines : \A i \in DOMAIN runs[p] :
       runs[p][i] # "RUNNING" => runs'[p][i] = runs[p][i]]_vars

(* README.md lets a pipeline stay RUNNING without an executor "until the   *)
(* next runner startup".  That startup ends it: the recovery that leads to *)
(* the first tick queues every pipeline that is RUNNING at that moment     *)
(* again and closes all its runs, although handlers act between the SELECT *)
(* of the stuck ids and the two UPDATEs by id.                             *)
RestartRecovers ==
  [][\A r \in Runners : \A p \in Pipelines :
       pc[r] \in {"recover", "requeue"} /\ pc'[r] = "poll" /\ status[p] = "RUNNING" =>
         /\ status'[p] = "RUN_REQUESTED"
         /\ \A i \in DOMAIN runs[p] : runs'[p][i] # "RUNNING"]_vars

(* Batches of a PAUSED pipeline are processed only by a retry: the attempt *)
(* that applies the pause stops there, but if closing its run then fails,  *)
(* dispatch runs the next attempt without looking at the status.           *)
PausedWorkIsRetry ==
  \A r \in Runners : \A p \in Pipelines :
    Executing(r, p) /\ status[p] = "PAUSED" /\ pc[r] \in {"read", "write", "check"}
      => job[r].attempt > 1

(* Without errors in the bookkeeping statements themselves, FAILED means   *)
(* that every attempt was made and recorded: the last MaxAttempts runs are *)
(* FAILED.                                                                 *)
FailedMeansExhausted ==
  "bookkeeping" \notin FaultKinds =>
    \A p \in Pipelines : status[p] = "FAILED" =>
      /\ Len(runs[p]) >= MaxAttempts
      /\ \A i \in Len(runs[p]) - MaxAttempts + 1 .. Len(runs[p]) :
           runs[p][i] = "FAILED"

(* RUNNING is never an orphan: some runner is executing the pipeline, or   *)
(* one is on its way through the recovery that will re-queue it.  Holds    *)
(* for execution errors and crashes; a lost connection breaks it, until    *)
(* the next startup.                                                       *)
RunningIsOwned ==
  \A p \in Pipelines : status[p] = "RUNNING" =>
    \E r \in Runners :
      \/ Executing(r, p)
      \/ pc[r] \in {"down", "recover"}
      \/ pc[r] = "requeue" /\ \E row \in todo[r] : row.pid = p

\* The rows of the tick that runner r has not finished with.
RowsLeft(r) == Cardinality(todo[r]) + IF pc[r] \in ClaimPcs THEN 1 ELSE 0

\* The batches the present attempt may still read.
BatchesLeft(r) == IF pc[r] = "giveup" THEN 0 ELSE MaxBatches + 1 - job[r].batch

\* Where the runner is on its way from one batch, or attempt, to the next.
Stage(r) ==
  CASE pc[r] = "dispatch" -> 12
    [] pc[r] = "snapshot" -> 11
    [] pc[r] = "start" -> 10
    [] pc[r] = "write" -> 9
    [] pc[r] = "check" -> 8
    [] pc[r] = "pause" -> 7
    [] pc[r] = "read" -> 6
    [] pc[r] = "success" -> 5
    [] pc[r] = "failed" -> 4
    [] pc[r] = "status" -> 3
    [] pc[r] = "finish" -> 2
    [] OTHER -> 1

\* Fewer rows, attempts or batches left, or a later stage.
Closer(r) ==
  \/ RowsLeft(r)' < RowsLeft(r)
  \/ /\ RowsLeft(r)' = RowsLeft(r)
     /\ \/ job[r].attempt < job'[r].attempt
        \/ /\ job'[r].attempt = job[r].attempt
           /\ \/ BatchesLeft(r)' < BatchesLeft(r)
              \/ BatchesLeft(r)' = BatchesLeft(r) /\ Stage(r)' < Stage(r)

\* Runner r is working through the rows of a tick.
InTick(r) == pc[r] \in ClaimPcs \cup {"dispatch"}

(* A tick never goes round in circles: every statement of it, and every    *)
(* fault in it, ends the tick or brings its end closer, whatever handlers  *)
(* and other runners do to the pipeline meanwhile.  In particular every    *)
(* way into a retry uses up an attempt, also when the bookkeeping of the   *)
(* failure fails.                                                          *)
TickAdvances ==
  [][\A r \in Runners : InTick(r) /\ InTick(r)' =>
       Closer(r) \/ (UNCHANGED <<pc[r], todo[r], job[r]>> /\ ~Step(r))]_vars

Settled(p) == status[p] \in {"IDLE", "PAUSED", "FAILED"} \/ ~enabled[p]

(* A requested run is executed to an end: whatever fails or crashes on the *)
(* way, the pipeline reaches a status in which no runner owes it anything. *)
RunSettles ==
  \A p \in Pipelines : status[p] \in {"RUN_REQUESTED", "RUNNING"} ~> Settled(p)

(* A pause request is answered, also when it races the end of the run or a *)
(* crash.                                                                  *)
PauseSettles ==
  \A p \in Pipelines : status[p] = "PAUSE_REQUESTED" ~> Settled(p)

(***************************************************************************)
(* What the documentation says and the code does not do.                   *)
(***************************************************************************)

(* ARCHITECTURE.md on the claim: "This prevents concurrent execution by    *)
(* multiple workers."                                                      *)
ExclusiveExecution ==
  \A r, s \in Runners : \A p \in Pipelines :
    Executing(r, p) /\ Executing(s, p) => r = s

(* README.md: "On startup, the runner performs recovery and marks stale    *)
(* RUNNING executions as failed."  Past recovery, an open run has an       *)
(* executor.                                                               *)
StaleRunsClosed ==
  (\A r \in Runners : pc[r] \notin {"down", "recover", "requeue"}) =>
    \A p \in Pipelines : \A i \in DOMAIN runs[p] :
      runs[p][i] = "RUNNING" => \E r \in Runners : Executing(r, p) /\ job[r].run = i

(* API.md: "Pipelines in RUNNING state cannot be modified".                *)
NoEditWhileRunning ==
  [][\A p \in Pipelines : enabled'[p] # enabled[p] => status[p] # "RUNNING"]_vars

=============================================================================
