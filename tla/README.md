# A formal model of the ETL platform

TLA+ specifications of the ETL platform in this repository, the TLC
configurations that check them on small instances, and theorems about them
checked by TLAPS for every value of their constants. Paths below are relative
to the repository root; the Python package is `src/`.

    tlc   -workers 2 -config SingleRunner.cfg MCPlatform.tla
    tlapm EtlPlatformProofs.tla

## 1. The system

Two kinds of processes share one PostgreSQL database and nothing else.

| Part | State it keeps | Operations |
|---|---|---|
| **API** (`src/app`, FastAPI): endpoints, `PipelinesService`, `SQLPipelinesRepository` | none between requests | create, list, get, PATCH, `POST /run`, `POST /pause`, list runs |
| **Metadata store** (`etl.*` tables, `src/app/models`) | `etl_pipelines` (configuration, `enabled`, `status`), `etl_runs` (history), `etl_state` (checkpoint), `etl_pipeline_tasks` | the UPDATE/INSERT/SELECT statements of the repositories, one transaction each unless stated otherwise |
| **Runner** (`src/runner/main.py`, `manager.py`) | the rows fetched by the current tick | wait for the database, recover, then a tick every few seconds: fetch active rows, dispatch each in a fresh session |
| **Dispatcher** (`dispatcher.py`) | snapshot of the pipeline, attempt number | apply a pause, claim, retry up to three attempts, finalise to `IDLE` or `FAILED` |
| **Executor** (`executor.py`, `services/pause.py`) | run id, open transaction | open a run row, choose a body, check for a pause after each batch, close the run |
| **Load bodies** (`adapters/sql_*.py`, `adapters/tasks_*.py`) | offset, or cursor `(last_ts, last_id)` | read a batch, transform, write, commit (with the checkpoint, if incremental) |
| **Sinks** (`adapters/writers.py`) | PostgreSQL tables, Elasticsearch indices | upsert by id; transactional in PostgreSQL, immediate in Elasticsearch |
| **Configuration** (`schemas/pipelines.py`, `services/pipelines.py`, `pipeline_snapshot.py`) | columns of `etl_pipelines`; the snapshot an execution works from | validate and merge a PATCH; snapshot at the claim |
| **Task plans** (`task_plan.py`, `tasks_python.py`; edited by Makefile targets) | `etl_pipeline_tasks`; the copy in the snapshot | validate the plan, resolve its query, transforms and target |

The API and the runners interact through one column, `etl_pipelines.status`.
Every change of it is a conditional UPDATE, i.e. a compare-and-set; the
decision to issue it is taken on a row read earlier, in another statement or,
in a runner, in another session and possibly minutes before.

What is hard here, and hardly reachable by a test:

- **interleavings** of API handlers with the statements of a runner: a pause or
  a run request between the pause check and the pause, between closing the run
  and finalising the pipeline, between a tick's query and the claim;
- **several runners**, which the claim is written for, and their recovery;
- **crashes** at every statement, and what the next start finds;
- **lost connections**, whose handling differs from that of other errors, and
  statements that were committed although their reply was lost;
- **bookkeeping statements that fail** outside the executor's `try`, with or
  without leaving the session in an aborted transaction;
- **retries** that follow a pause, a partial write, or an attempt whose run is
  already closed;
- **batching** over a source that changes: cursor order, offsets, filtered
  batches, checkpoint against sink;
- **configuration edits** at any moment: PATCHes that overlap, a plan of tasks
  that is edited statement by statement, four copies of one configuration of
  different age, and a checkpoint that outlives what it was a checkpoint of.

`PROJECT.json` lists each of these as a hazard with the line where it bites.

### What makes each part correct

- *Store and lifecycle*: only the transitions operators and holders may make;
  a claim is exclusive; a closed run stays closed.
- *Runner*: no pipeline is `RUNNING` without somebody responsible for it, and
  what a lost connection leaves `RUNNING` the next startup takes up; a
  request is eventually answered; `FAILED` means all attempts were used;
  `IDLE` means the source was drained and the run recorded as `SUCCESS`.
- *Executor*: one open run per execution, its own; pauses only between batches.
- *Incremental load*: the committed checkpoint covers only rows that are in the
  sink; it never moves back; a drained run leaves sink and source equal.
- *Full load*: a drained run has loaded every row no one moved behind its back;
  every run ends.
- *API*: what it refuses stays refused until the statement that depends on it.
- *Configuration*: a row that passed validation stays valid; an execution writes
  by one configuration, the one that was claimed; a disabled pipeline stops being
  claimed.
- *Task plans*: whatever the rows of the plan, nothing is loaded by half a
  configuration or into a target that is not supported.

## 2. Modules

| Module | Models | State |
|---|---|---|
| `EtlStore` | rows of `etl_pipelines`/`etl_runs`, one operator per repository statement, named after the method | `status`, `enabled`, `runs` |
| `EtlApi` | `run_pipeline`, `pause_pipeline`, `update_pipeline`: read, decide, then write in a later step | `call` (the request between its read and its UPDATE), `calls` |
| `EtlRunner` | `main_loop`, `tick`, `dispatch`, `execute`, `_pause_if_requested`, and their faults | `pc` (the next statement), `todo` (rows fetched), `job` (locals of dispatch/execute), `faults`, history `bodyEnd` |
| `EtlPlatform` | API and runners composed over the store; the properties | history `preempted` |
| `PipelineLifecycle` | the abstract specification of the status column | `st`, `holds` |
| `IncrementalLoad` | `run_sql_incremental_pipeline`, `run_tasks_incremental`, `StateRepo`, the writers with `_ensure_index` | `source`, `sink`, `index`, `state`, and per execution `pc`, `cursor`, `batch`, `stateObj` and `seen` (the session's copy of the checkpoint), `ensured`, `attempt` |
| `Replica` | the abstract specification of an incremental load: a sink and a checkpoint that follow a source | `source`, `clock`, `sink`, `state` |
| `FullLoad` | `run_sql_full_pipeline`, `run_tasks_full`, the writers | `source`, `sink`, `pc`, `offset`, `batch`, `attempt`, history `owed` |
| `TaskPlan` | `is_allowed_target`, `validate_tasks_v1`, `resolve_transformer`, what a configuration reads, applies and writes, and when a body raises before it reads | none (operators) |
| `PipelineConfig` | create and PATCH with their validation, the operator's task statements, and one runner that works from copies: tick, claim, snapshot, tasks, batches, checkpoint | `row`, `tasks`, `edit` (PATCHes between read and commit), `fetched`, `snap`, `plan` (the copies), `state`, `sink`, histories `claimed`, `overlapped`, `late`, `loads` |
| `MCPlatform`, `MCLoad`, `MCFullLoad`, `MCConfig` | the constants of the runs | |
| `EtlStoreProofs`, `EtlPlatformProofs`, `RunnerProofs` | theorems about `EtlPlatform` | |
| `LoadProofs`, `OverlapProofs` | theorems about `IncrementalLoad`, with one executor and with any number | |
| `FullLoadProofs`, `ConfigProofs` | theorems about `FullLoad` and `PipelineConfig` | |
| `NatOrder` | lemmas: least and greatest number, positions in a set of numbers | |

`EtlPlatform` composes `EtlApi` and `EtlRunner` over `EtlStore`. The loads refine
what `EtlRunner` does in one step, `CommitBatch`; `PipelineConfig` uses the status
sets of `EtlStore` and takes a batch, and a request, as one step in turn.

### Granularity

A step is one statement on the database together with the Python code up to
the next one. PostgreSQL runs at READ COMMITTED: a conditional UPDATE
re-evaluates its condition after waiting for a row lock, so it is atomic, and a
SELECT sees what is committed when it runs. Where the code commits two
statements together (recovery; sink rows and checkpoint) they are one step.
A body's write and its commit are one step of `EtlRunner`, whose properties do
not look inside the batch, and two or three steps of the load modules.

- A **tick** (`manager.tick`) fetches its rows once (`Poll`) and works through
  them in the order of their names; the row decides by the status it had *then*.
- An **attempt** (`execute`) is `StartRun`, a loop of `ReadRows`,
  `CommitBatch`, `CheckPause`, and `FinishSuccess` or `FinishFailed`. A run id
  is the position of the run in the pipeline's history.
- `job.aborted` is a session left in an aborted transaction: `execute` rolls
  back only around the body, so an error in `start_run`, `get_status` or
  `finish_running_to_idle` poisons the next attempt. Whether a failing
  statement aborts the transaction depends on the error; both are allowed.
- **Faults**: `ExecutionError` (anything in the body), `BookkeepingError` (a
  statement outside its `try`), `ConnectionLost` (`is_db_disconnect`),
  `RequeueReplyLost` and `FailedReplyLost` (committed, reply lost; elsewhere
  this is the step followed by `ConnectionLost`), `Crash`.
- A **PATCH** is modelled in `EtlApi` for `enabled`, the one column the control
  flow of the runner reads, and in `PipelineConfig` for all columns an execution
  depends on. SQLAlchemy writes only an attribute that differs from the row it
  loaded: a PATCH to the value it read changes nothing, also if another PATCH
  has changed the column since.
- In **`PipelineConfig`** a query, a key or a module is a name, and an empty text
  is `Null` where the code treats both alike; a target is a kind of sink and a
  name, and that of a task may also be empty. `Mentions` gives the names that
  occur in the text of a query, all that `POST /pipelines` asks of the keys of an
  incremental pipeline, and `Columns` those in its output. A batch is one row of a source
  that does not change; the sink remembers which transforms the row went
  through. The statements of a dispatch that only concern the status are fused
  with the one that decides. The tasks are read in a statement of their own
  after the claim, as in `dispatch`; they have no endpoint and change by one
  `INSERT` or `DELETE` at a time, as the Makefile's targets issue them.
- In the **load modules** a row is an id and a time (or version) of its last
  change, and a sink holds for each id the version it was given: what upserts
  by id do. A transform is a filter; that is all that cursor and offset could
  depend on. A failing bulk request may have applied any part of itself.
- The **index** of an Elasticsearch target is looked up by the first write of a
  writer (`IndexFound`, `IndexMissing`) and created in a second request, which
  another executor may have issued in between (`CreateRefused`). `FullLoad`
  leaves it out: with one executor it adds a step and no behaviour.
- `stateObj` and `seen` follow SQLAlchemy's identity map, which holds objects
  weakly, and `expire_on_commit=False`. A body that finds a row of `etl_state`
  at its start keeps it in a local (`held`) and never reads it again before a
  rollback; a body that finds none inserts it with its first batch (`new`; the
  insert is refused if another session was faster) or finds it there by then,
  and from its second batch on reads it anew each time (`fetched`). The UPDATE
  names the columns that differ from the session's copy (`Flushed`): with one
  executor the copy is the row, with two it need not be.

### The abstract lifecycle

`PipelineLifecycle` knows operators, workers and what each worker holds. It is
the list of status changes the platform can make, with their preconditions on
who holds the pipeline; `docs/ARCHITECTURE.md` lists fewer (a pause of an
`IDLE` pipeline, a pause withdrawn by a run, `PAUSE_REQUESTED -> FAILED` and
the re-queueing of `RUNNING` are missing there). `EtlPlatform` implements it
under `st <- status` and `holds[r] <-` the pipeline of `r`'s job while `r` is
past its claim.

### The abstract replica

`Replica` has no batches, attempts, sessions, kinds of sink or faults. Others
write the source; a delivery moves some wanted rows of the sink to a later
version that the source has had, and may move the checkpoint forward over rows
that are in the sink as the source has them. `IncrementalLoad` with one executor
implements it with its own variables and `Wanted <- Ids \ Dropped`: cursors, retries,
partial bulk requests and lost commits are all deliveries, or nothing at all.

## 3. Runs

Deadlock is checked in every run: an idle runner polls (`IdleTick`), an idle
load may begin again.

| Run | Instance | Shows |
|---|---|---|
| `single_runner` | 1 runner, 2 pipelines, 2 handlers, 3 requests, 2 attempts, 2 batches, 2 faults of any kind | types; `RunRowOwned`, `IdleMeansComplete`, `PausedWorkIsRetry`, `PauseBetweenBatches`, `ClosedRunsStay`, `RestartRecovers`; `TickAdvances` |
| `restarts` | 1 runner, 2 pipelines, 3 requests, 2 attempts, 1 batch, 2 execution errors or crashes, fair | `RunningIsOwned`, `FailedMeansExhausted`, `RunSettles`, `PauseSettles` |
| `many_runners` | 2 runners, 1 pipeline, 3 requests, 2 attempts, 1 batch, 2 execution errors or crashes | `ExclusiveClaim`, `SuccessIsFinal`; `LifecycleSpec` (refinement) |
| `incremental` | 1 executor, 3 rows of which one is filtered, batches of 2, both sinks, 4 source transactions, 2 attempts, 2 faults, fair | `CheckpointCovers`, `CheckpointMonotonic`, `DrainedMeansSynced`, `LoadEnds`; `ReplicaSpec` (refinement) |
| `overlap` | 2 executors, 3 rows of which one is filtered, batches of 2, both sinks, 3 source transactions of one row each, while no executor holds a batch (`CalmLoadSpec`), 3 attempts, 2 faults | `CheckpointCovers`, `DrainedMeansSynced`, `SinkNeverOlder`, `RacesNeverExhaust`: the sessions race for the checkpoint row and for the index, and no row and no execution is lost; `LoadAdvances` |
| `full_reload` | 3 rows, 2 versions, inserts, updates and deletes without limit, both bodies, both sinks, 2 faults, fair | `OwedRowsLoaded`, `FullLoadAdvances`, `FullLoadEnds` |
| `configuration` | 1 runner, 2 handlers, 4 bodies of POST, 13 of PATCH, 2 queries over 3 rows, 2 keys that order them in opposite ways, 3 targets of which one is not supported, plans of up to 2 tasks; 2 edits, 3 requests, 2 attempts, 1 fault | `ConfigHolds`, `DisabledClaimedOnce`, `LoadsSupported`, `CoveredUnlessMoved`, `WritesAsClaimed` |

**Bounds.** Two pipelines are needed for a tick with a stale second row; two
handlers for a request between another's read and write. Three requests are the
shortest way to run, pause and run again, or run, disable and enable. Two
attempts distinguish the first, a retried and the last attempt of the code's
three; two batches a first from a later pause check; two faults a failure
and the failure of what handles it. Three rows in batches of two give a full
page, a short page and a page that is filtered out entirely; one source
transaction may change several rows, so equal times are cut by a batch. Three
attempts, the code's number, are needed in `overlap`: an execution can lose the
race for the index and the race for the checkpoint row, and with two attempts
`RacesNeverExhaust` fails. Two edits in `configuration` are two PATCHes that
overlap, a PATCH and its reversal, or the two statements of a plan; three
requests run, pause and run again around them.

**Symmetry** is used in `many_runners`, `overlap` and `configuration` only, on
runners, executors and handlers, which are interchangeable; no liveness is
checked there.

**Fairness.** `FairSpec` asks of each runner that it keeps issuing its next
statement (`WF(RunnerStep)`): the event loop is sequential and every statement
returns or raises. This includes `Start`: a runner that is down is started
again. `infra/docker-compose.yml` has no restart policy for the runner, so this
is a duty of whoever operates it; without it nothing is ever executed. API
calls and faults need not happen. The load modules ask the same of an execution.
The bounds on source changes (`MaxTime`) and faults matter to liveness: a run
over a source that changes for ever need not end, nor does one that fails for
ever get anywhere.

**One runner.** `single_runner`, `restarts` and `incremental` speak of a
deployment with one runner process, which is what docker-compose starts. With
two runners most of those properties fail, for the reason `two_executors`
shows; `many_runners` and `overlap` say what is left. `overlap` is about a source
that changes one row at a time, and only while no executor holds a batch. When it
changes between the reads of two executors, `CheckpointCovers` and
`SinkNeverOlder` fail as well: the slower executor writes the older version of a
row over the newer one and takes the checkpoint back, and the faster one, whose
cursor is further on, then moves the checkpoint past that row again. When one
transaction changes several rows, `CheckpointCovers` fails even though the source
is calm while batches are under way: rows of one time are told apart by the id,
and the id of the checkpoint may be another executor's (`mixed_checkpoint`). With
one row for each time a mixed key covers what the plain key of its time does. That
is what the exclusion of `two_executors`, the monotonic checkpoint of `regress`
and a checkpoint written as a whole would have to prevent.

**Progress without fairness.** `TickAdvances`, `LoadAdvances` and `FullLoadAdvances`
say that a step which does not end a tick, an execution or a run makes a
lexicographic measure smaller: (rows, attempts, batches, statement) for a tick,
(attempts, keys above the cursor, statement) and (attempts, positions after the
offset, statement) for the loads; and that a step of anybody else does not make
it larger. They ask for no fairness, hold for faults too, and say why
`RunSettles`, `LoadEnds` and `FullLoadEnds` hold: such a measure cannot fall for ever.
They are relative to the bounds: every source transaction lies within `MaxTime`.

**Strict source times.** `IncrementalLoad` lets every source transaction carry
a later time than all those before it. The README's contract asks for a
monotonic key; if a later transaction carries a time *equal* to the
checkpoint's, with a smaller id, its row is not read.

**An order that stays.** `FullLoad` lets the source query order its rows by an id
that never changes. The README asks for a deterministic `ORDER BY` only: if the
column it names is updated between two pages, a row moves across the offset like
one that is deleted and inserted again, and `OwedRowsLoaded` does not hold for it.

### Where code and documentation disagree

Each of these runs finds a counterexample to a sentence of the documentation.

| Run | Sentence | What happens |
|---|---|---|
| `two_executors` | `docs/ARCHITECTURE.md:244` "This prevents concurrent execution by multiple workers." | a runner that starts re-queues the pipeline another one is executing (`main.py:73-79`) and claims it; run, claim, pause, run again before the pause is applied has the same effect |
| `stale_run` | `README.md:410` "marks stale `RUNNING` executions as failed" | the runner crashes while the pipeline is `PAUSE_REQUESTED`; recovery looks for `RUNNING` only |
| `late_edit` | `docs/API.md:118` "cannot be modified" while `RUNNING` | the check and the write of a PATCH are two statements |
| `regress` | `README.md:218` "Progress is monotonic and checkpointed." | of two executors, the slower one overwrites the checkpoint with an older key |
| `mixed_checkpoint` | `docs/ARCHITECTURE.md:30` "resume from the last consistent checkpoint" | e1 loads rows 1 and 2; e2 takes (1, 1) for its copy of the checkpoint before e1 commits (1, 2); both rows change to time 2; e2 loads row 1 and writes only the time, as the id is the one it saw: (2, 2), and row 2 is not loaded again |

One divergence has no run of its own: `README.md:388` says that a write to a
target that is not on the list is "rejected by both API and Runner". `POST`
rejects it, `PATCH` does not (`ReadForPatch` accepts any target); the runner does
(`LoadsSupported`).

Every property of a passing run has a *mutant*: a variant of one definition,
written next to it, with a plausible bug (a dropped condition, an off-by-one, a
missing reset) under which TLC finds the property violated.

## 4. Proofs

Assumptions: the named `ASSUME`s of the modules, and for some theorems a
hypothesis on the instance, which is stated in the theorem. Everything else
(pipelines, runners, handlers, rows, batch size, attempts, bounds) is arbitrary.

| Theorem | States | Under |
|---|---|---|
| `TypeCorrect` | `Spec => []TypeOK` | |
| `ImplementsLifecycle` | `Spec => LifecycleSpec` (refinement) | |
| `ClaimIsExclusive` | `Spec => []ExclusiveClaim` | |
| `RunRowIsOwned`, `IdleIsComplete`, `PausedWorkIsARetry` | the invariants `RunRowOwned`, `IdleMeansComplete`, `PausedWorkIsRetry` | `SingleRunner` |
| `ClosedRunsAreFinal`, `PausesBetweenBatches`, `StartupRecovers` | the action properties `ClosedRunsStay`, `PauseBetweenBatches`, `RestartRecovers` | `SingleRunner` |
| `FailedIsExhausted` | `[]FailedMeansExhausted` | `SingleRunner`, no errors in bookkeeping statements |
| `RunningHasAnOwner` | `[]RunningIsOwned` | faults are body errors and crashes; any number of runners |
| `SuccessStays` | `SuccessIsFinal` | any number of runners |
| `TicksAdvance` | `TickAdvances` | `IsFiniteSet(Pipelines)`; any number of runners |
| `LoadTypeCorrect` | `LoadSpec => []LoadTypeOK` | any number of executors |
| `CheckpointIsCovered`, `CheckpointNeverBack`, `DrainedIsSynced`, `SinkGoesForward` | `CheckpointCovers`, `CheckpointMonotonic`, `DrainedMeansSynced`, `SinkNeverOlder` | `SingleExecutor` |
| `LoadImplementsReplica` | `LoadSpec => ReplicaSpec` (refinement) | `SingleExecutor` |
| `RacesAreAffordable` | `RacesNeverExhaust` | `MaxAttempts >= 3`; any number of executors |
| `ExecutionsAdvance` | `LoadAdvances` | any number of executors |
| `CalmSinkNeverOlder` | `CalmLoadSpec => SinkNeverOlder` | any number of executors, any source transactions |
| `CalmCheckpointIsCovered`, `CalmDrainedIsSynced` | `CalmLoadSpec =>` `[]CheckpointCovers`, `DrainedMeansSynced` | `OneRowAtATime`; any number of executors |
| `FullTypeCorrect`, `OwedAreLoaded` | `[]FullTypeOK`, `OwedRowsLoaded` | |
| `FullRunsAdvance` | `FullLoadAdvances` | `IsFiniteSet(Ids)` |
| `ConfigTypeCorrect`, `ConfigIsValid`, `ClaimedIsWritten`, `DisabledIsClaimedOnce`, `OnlySupportedLoads`, `CheckpointKeepsMeaning` | all six properties of `configuration` | |

The hypotheses are necessary. With two runners or executors TLC finds the
counterexamples of section 3; an error of a bookkeeping statement may use an
attempt without leaving a `FAILED` run; a lost connection leaves a pipeline
`RUNNING` with no owner until the next startup, as README.md:409 says; without
`OneRowAtATime` the checkpoint may be a mixture that passes a row
(`mixed_checkpoint`); with two attempts an execution can
lose both races and give up (`PipelineDispatcher.max_attempts` is 3). The
finiteness of `Pipelines` and `Ids` is that of a table; measures count them.

- **Types of the platform.** Types alone are not inductive: `job[r].pid` indexes
  `runs`, so `Typed` adds `JobNamed`, a runner past its claim holds a pipeline.
  `EtlStoreProofs` types each repository statement; then one lemma per way the
  locals change (`NextRow`, `Exit`, `RetryOrGiveUp`, `Goto`) and one step per action.
- **Exclusion.** `ClaimHeld`: a runner past its claim whose claim has not been
  ended from outside works on a pipeline that is `RUNNING` or
  `PAUSE_REQUESTED`. A claim needs `RUN_REQUESTED`, so whoever was working
  then is preempted.
- **One runner** (`SoloInv` in `RunnerProofs`). `OwnsRun`: inside a body, the
  runner's run is the latest of its pipeline and the only open one;
  `Unfinished` and `Recorded` say what a body that ended has left and what the
  history shows of it; `FirstUnpaused`: until its pause check answers, a first
  attempt works on a pipeline nobody has paused. `IDLE` is then complete because
  only a drained body reaches the statement that sets it. Without bookkeeping
  errors no session is ever in an aborted transaction (`Unbroken`), so that
  whoever holds a claim can end it, which `RunningHasAnOwner` needs; `ExhaustInv`
  counts the `FAILED` rows at the end of the history against `attempt`.
- **Recovery** (`Listed`). Between the SELECT of the stuck ids and the two UPDATEs,
  what is `RUNNING` is on the list: handlers make nothing `RUNNING`, and the only
  runner that claims is the one that is recovering.
- **Many runners, one history** (`RowsApart`). A starting runner closes the open
  run of a pipeline that another one is executing, so with several runners a
  closed run may be rewritten. What is left: executors of one pipeline hold
  different rows, and none holds one that says `SUCCESS`; the only rewrite is
  from `FAILED` to `SUCCESS`, by the executor that opened the row.
- **Incremental load** (`LoadInv`). `PastOnly`: nothing is read that was not
  there. `CheckpointCovers` becomes inductive with `ExecInv`: outside a batch the
  cursor of the execution is the committed checkpoint, and `BatchFollows`: the
  batch is an initial segment of the rows above the cursor, in versions the
  source had, so that a row that has changed since lies above its last key.
  `SessionFresh`: the one session's copy of the checkpoint is the row, so that
  the columns it leaves out of an UPDATE are those that agree (`FlushedIsKey`).
- **Replica** (`SinkBehind` on top of `LoadInv`). The sink is never ahead of the
  source nor of a batch on its way to it, so that every upsert, a part of a
  failed bulk request included, moves rows forward; a commit moves the
  checkpoint to the last key of the batch, which `LoadInv` knows to be delivered.
- **Any number of executors** (`OverlapProofs`). `RaceInv`: the index and the row
  of `etl_state` come into being once, nothing removes them, and an execution that
  still believes one of them missing has not yet lost an attempt over it; hence
  at most two attempts are lost without a fault. `NothingAhead`: while the source
  waits for the batches, what is read is the present version, so that no write is
  old. `CalmInv` speaks of times only, as the id of the checkpoint may be anybody's:
  with one row for each time (`DistinctTimes`), everything up to the time of the
  checkpoint, and of each executor's cursor, is delivered (`CoveredTo`), and each
  executor's batch *closes*, i.e. whatever it leaves out below one of its rows is
  in the sink, by whichever hand. The time of a mixed key is always one of the two
  that were mixed. The checkpoint may go back under it, but not too far forward.
- **Measures.** An execution's cursor starts below every key and a batch lies
  above its cursor (`CursorBehind`); a batch was read at an offset within the
  ids (`BatchIsThere`); a runner outside a claim has fresh locals (`Fresh`),
  so that a claim trades the row for the claimed pipeline. With these, every
  action decreases the measure, and an executor or runner whose locals did not
  change has not taken a step.
- **Full load** (`FullInv`). `PassedAreKept`: an owed row behind the frontier is in
  the sink as it is now, or in the batch; `BatchIsCurrent`, `OnePerRow` and
  `SentIsThere` make that survive `Write` and `Commit` for both sinks. A change
  of the source never brings an owed row behind the frontier: an insertion only
  raises positions, and a deletion lowers those of later rows, which were at
  least one further on. At the end of the source no row is at the offset, hence
  none beyond it (`PositionReached`).
- **Configuration.** `EditsValid`: each PATCH under way is valid as a change of
  the row *it read*, and `CommitIsMerge`: over that row, the columns that differ
  amount to the whole merge. `ClaimInv`: the snapshot is the claimed row as long as
  a body works from it, and no tick can have fetched a row that was
  already claimed while disabled. Only a batch writes (`SinkKept`), and the row it
  writes is one of those its query still has to return (`NextRowFacts`).
   `CheckpointInv`: an incremental body's cursor is the checkpoint; while one load
  has made all batches, the rows of its query up to the checkpoint are in its
  target; the next row is the only one between the checkpoint and its own key.

Only model-checked: the liveness properties (`RunSettles`, `PauseSettles`,
`LoadEnds`, `FullLoadEnds`). Their fairness is stated with `ENABLED`, which the
prover does not reason about; the measures above are the part of the argument
that it can check. What the violated runs show is a counterexample each, and
stays with TLC as well.

## 5. Not modelled

- *Formats of single fields* (lengths, regular expressions, quoting in
  `sql_identifiers.py`, the syntax of queries): functions on strings without state.
- *Values*: their conversion by the writers, the columns a target has. A value a
  sink refuses is an error of the batch, which is modelled.
- *Time*: backoff delays and poll intervals; a step may take any time.
- *Start-up*: settings, logging, dependency wiring. `wait_for_db` gives up after
  ten attempts: a runner that never comes up is one that stays down.
- *Repository methods without a caller*: `set_status`, `mark_failed_bulk`,
  `update_pipeline_status`, the API's `claim_run_requested`.
- *The demo transforms* in `src/pipelines`: a filter on rows in the loads, a name
  in `PipelineConfig`.
- *Reads* (list, get, list runs): stuttering steps.

## 6. What is left

Every component with a state is modelled. What could be added: an
`IncrementalLoad` whose source may commit an older time late (outside the
contract of README.md, which asks for a monotonic key), and `EtlRunner`'s
`CommitBatch` shown to be implemented by the steps of the load modules.
