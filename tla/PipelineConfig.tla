--------------------------- MODULE PipelineConfig ---------------------------
(***************************************************************************)
(* One pipeline whose configuration is edited while it is requested,       *)
(* claimed, executed, paused, retried and recovered: PATCH by concurrent   *)
(* handlers, its tasks by statements of the operator (Makefile), and the   *)
(* runner that works from copies it took on the way.                       *)
(*                                                                         *)
(* The status protocol is that of EtlStore, whose sets of statuses are     *)
(* used here; a request, and a finalisation, is one step, as the steps in  *)
(* between are the subject of EtlPlatform.  A batch is one row of a source *)
(* that does not change, written and checkpointed in one step; batches,    *)
(* sinks and a changing source are the subject of IncrementalLoad and      *)
(* FullLoad.  There is one runner.                                         *)
(***************************************************************************)
EXTENDS TaskPlan

CONSTANTS
  Clients,       \* concurrent PATCH handlers
  Creations,     \* bodies of POST /pipelines: a record of all columns
  Patches,       \* bodies of PATCH: functions of some of the columns
  TaskRows,      \* rows the operator inserts: <<order_index, task>>
  MaxIndex,      \* the largest order_index, which is an INTEGER
  Targets,       \* every target somebody may name, supported or not
  Mentions,      \* Mentions[q]: the names that occur in the text of query q
  Columns,       \* Columns[q]: the columns in the output of query q
  Selects,       \* Selects[q]: the rows that query q returns
  Rank,          \* Rank[k][row]: the position of row in the order of the key k
  MaxAttempts,   \* PipelineDispatcher.max_attempts
  MaxEdits,      \* bound: PATCHes past their read, and task statements
  MaxRequests,   \* bound: run and pause requests that change the status
  MaxFaults      \* bound: failed batches and crashes

ASSUME ConfigAssumption ==
  /\ MaxAttempts \in Nat \ {0}
  /\ MaxIndex \in Nat /\ MaxEdits \in Nat /\ MaxRequests \in Nat /\ MaxFaults \in Nat
  /\ \A q \in DOMAIN Selects : Selects[q] \subseteq Nat

\* The columns of etl_pipelines and what each can hold.
ValuesOf ==
  [type |-> {"SQL", "PYTHON", "ES"}, mode |-> {"full", "incremental"}, enabled |-> BOOLEAN,
   source_query |-> DOMAIN Selects \cup {Null}, target_table |-> Targets,
   python_module |-> STRING \cup {Null}, description |-> STRING \cup {Null},
   incremental_key |-> DOMAIN Rank \cup {Null}, incremental_id_key |-> STRING \cup {Null}]

EtlPipeline(p) ==
  DOMAIN p = DOMAIN ValuesOf /\ \A column \in DOMAIN p : p[column] \in ValuesOf[column]

\* Columns that may not be NULL: the commit of a PATCH that clears one fails.
NotNull == {"type", "mode", "enabled", "target_table"}

\* The types of the requests and of the operator's statements.
ASSUME RequestAssumption ==
  /\ \A p \in Creations : EtlPipeline(p)
  /\ \A data \in Patches : \A column \in DOMAIN data :
       /\ column \in DOMAIN ValuesOf
       /\ data[column] \in ValuesOf[column] \/ (column \in NotNull /\ data[column] = Null)
  /\ \A t \in TaskRows :
       /\ t = <<t[1], t[2]>> /\ t[1] \in 0 .. MaxIndex
       /\ t[2].task_type = "SQL" => t[2].body \in DOMAIN Selects \cup {Null}
       /\ t[2].target_table \in Targets \cup {Null, Empty}

AllRows == UNION {Selects[q] : q \in DOMAIN Selects}

\* The id key makes the order of the rows strict, whatever the key column.
ASSUME RankAssumption ==
  \A key \in DOMAIN Rank : \A r, s \in AllRows :
    Rank[key][r] \in Nat \ {0} /\ (Rank[key][r] = Rank[key][s] => r = s)

VARIABLES
  row,        \* the row of etl_pipelines without its status
  status,     \* its status
  tasks,      \* its rows of etl_pipeline_tasks
  edit,       \* edit[c]: the PATCH of c between its read and its commit
  state,      \* etl_state: key of the last row processed, 0 if there is none
  sink,       \* sink[t][r]: the transforms row r went through into target t
  pc,         \* what the runner does next
  fetched,    \* the row and status the tick fetched
  snap,       \* the snapshot taken at the claim
  plan,       \* the tasks read after it
  attempt,
  cursor,     \* last key, or offset of a full load
  edits, requests, faults,
  claimed,    \* history: the row when it was last claimed
  overlapped, \* history: a PATCH committed over a row changed since its read
  late,       \* history: claims since the pipeline was last disabled
  loads       \* history: what the batches so far read, applied and wrote

storeVars == <<row, status, tasks>>
dataVars == <<state, sink, loads>>
copyVars == <<fetched, snap, plan>>
attemptVars == <<attempt, cursor>>
boundVars == <<edits, requests, faults>>
configVars == <<storeVars, edit, dataVars, pc, copyVars, attemptVars, boundVars,
                claimed, overlapped, late>>

Store == INSTANCE EtlStore
           WITH Pipelines <- {1}, status <- <<status>>, enabled <- <<row.enabled>>,
                runs <- << << >> >>

NoEdit == << >>

\* The pipeline has not been created yet.
NoRow == [enabled |-> FALSE]
Exists == row # NoRow

NotLoaded == <<Null>>

(***************************************************************************)
(* Requests: what POST and PATCH accept.                                   *)
(***************************************************************************)

\* PipelineUpdate and _validate_pipeline_config.
ValidConfig(p) ==
  /\ p.mode = "incremental" => p.incremental_key # Null /\ p.incremental_id_key # Null
  /\ p.type = "PYTHON" => p.python_module # Null

\* PipelineCreate.validate_business_rules and create_pipeline: the keys must
\* occur in the text of the query, which need not be in its output.
Creatable(p) ==
  /\ ValidConfig(p)
  /\ p.mode = "incremental" =>
       {p.incremental_key, p.incremental_id_key} \subseteq Mentions[p.source_query]
  /\ is_allowed_target(p.target_table)

\* Mutant: the database takes whatever the handler sends.
StorableAnyway(data) == TRUE

Storable(data) == \A column \in NotNull \cap DOMAIN data : data[column] # Null

\* Mutant: only what the PATCH sends is validated.
OnlyPatched(p, data) ==
  [column \in DOMAIN p |-> IF column \in DOMAIN data THEN data[column]
                           ELSE IF column \in {"mode", "type"} THEN "unset" ELSE p[column]]

\* {**row, **update_data}
Merged(p, data) ==
  [column \in DOMAIN p |-> IF column \in DOMAIN data THEN data[column] ELSE p[column]]

\* The columns of the UPDATE: the attributes that differ from the row read.
Flushed(read, data) == {column \in DOMAIN data : data[column] # read[column]}

ConfigTypeOK ==
  /\ Exists => EtlPipeline(row)
  /\ status \in Store!PipelineStatus
  /\ attempt \in 0 .. MaxAttempts
  /\ pc \in {"down", "poll", "dispatch", "tasks", "start", "batch", "check"}
  /\ DOMAIN tasks \subseteq {t[1] : t \in TaskRows}
  /\ state \in Nat /\ cursor \in Nat

ConfigInit ==
  /\ row = NoRow
  /\ status = "IDLE"
  /\ tasks = NoTasks
  /\ edit = [c \in Clients |-> NoEdit]
  /\ state = 0
  /\ sink = [t \in Targets |-> [r \in AllRows |-> NotLoaded]]
  /\ pc = "down"
  /\ fetched = NoEdit /\ snap = NoEdit /\ plan = NoTasks
  /\ attempt = 0 /\ cursor = 0
  /\ edits = 0 /\ requests = 0 /\ faults = 0
  /\ claimed = NoEdit
  /\ overlapped = FALSE
  /\ late = 0
  /\ loads = {}

Move(from, to) ==
  /\ status \in from
  /\ status' = to

(***************************************************************************)
(* The API.  A PATCH reads the row, refuses if it is RUNNING, validates,   *)
(* and writes in a later statement what differs from the row it read.      *)
(***************************************************************************)
Create(p) ==
  /\ ~Exists
  /\ Creatable(p)
  /\ row' = p
  /\ UNCHANGED <<status, tasks, edit, dataVars, pc, copyVars, attemptVars, boundVars,
                 claimed, overlapped, late>>

Begin == Exists /\ edits < MaxEdits /\ edits' = edits + 1

ReadForPatch(c, data) ==
  /\ edit[c] = NoEdit
  /\ Begin
  /\ status # "RUNNING"
  /\ ValidConfig(Merged(row, data))
  /\ edit' = [edit EXCEPT ![c] = [read |-> row, data |-> data]]
  /\ UNCHANGED <<storeVars, dataVars, pc, copyVars, attemptVars, requests, faults,
                 claimed, overlapped, late>>

CommitPatch(c) ==
  /\ edit[c] # NoEdit
  /\ Storable(edit[c].data)
  /\ row' = [column \in DOMAIN row |->
               IF column \in Flushed(edit[c].read, edit[c].data)
                 THEN edit[c].data[column] ELSE row[column]]
  /\ overlapped' = (overlapped \/ row # edit[c].read)
  /\ late' = IF row'.enabled THEN 0 ELSE late
  /\ edit' = [edit EXCEPT ![c] = NoEdit]
  /\ UNCHANGED <<status, tasks, dataVars, pc, copyVars, attemptVars, boundVars, claimed>>

\* The commit is refused, or the handler is gone.
AbandonPatch(c) ==
  /\ edit[c] # NoEdit
  /\ edit' = [edit EXCEPT ![c] = NoEdit]
  /\ UNCHANGED <<storeVars, dataVars, pc, copyVars, attemptVars, boundVars,
                 claimed, overlapped, late>>

\* Tasks have no endpoint: the operator issues one statement at a time.
InsertTask(i, task) ==
  /\ i \notin DOMAIN tasks
  /\ Begin
  /\ tasks' = [j \in DOMAIN tasks \cup {i} |-> IF j = i THEN task ELSE tasks[j]]
  /\ UNCHANGED <<row, status, edit, dataVars, pc, copyVars, attemptVars, requests, faults,
                 claimed, overlapped, late>>

ClearTasks ==
  /\ tasks # NoTasks
  /\ Begin
  /\ tasks' = NoTasks
  /\ UNCHANGED <<row, status, edit, dataVars, pc, copyVars, attemptVars, requests, faults,
                 claimed, overlapped, late>>

Request ==
  /\ Exists
  /\ requests < MaxRequests
  /\ requests' = requests + 1
  /\ \/ Move(Store!RequestRunFrom, "RUN_REQUESTED")
     \/ Move(Store!RequestPauseFrom, "PAUSE_REQUESTED")
  /\ UNCHANGED <<row, tasks, edit, dataVars, pc, copyVars, attemptVars, edits, faults,
                 claimed, overlapped, late>>

(***************************************************************************)
(* The runner.                                                             *)
(***************************************************************************)

\* The dispatch is over; its locals are gone.
Leave(label) ==
  /\ pc' = label
  /\ fetched' = NoEdit /\ snap' = NoEdit /\ plan' = NoTasks
  /\ attempt' = 0 /\ cursor' = 0

Recover ==
  /\ pc = "down"
  /\ pc' = "poll"
  /\ status' = IF status = "RUNNING" THEN "RUN_REQUESTED" ELSE status
  /\ UNCHANGED <<row, tasks, edit, dataVars, copyVars, attemptVars, boundVars,
                 claimed, overlapped, late>>

IdleTick ==
  /\ pc = "poll" /\ Store!get_active = {}
  /\ UNCHANGED configVars

Poll ==
  /\ pc = "poll" /\ Store!get_active # {}
  /\ pc' = "dispatch"
  /\ fetched' = [seen |-> status, row |-> row]
  /\ UNCHANGED <<storeVars, edit, dataVars, snap, plan, attemptVars, boundVars,
                 claimed, overlapped, late>>

DispatchPause ==
  /\ pc = "dispatch"
  /\ fetched.seen = "PAUSE_REQUESTED"
  /\ status' = IF status = "PAUSE_REQUESTED" THEN "PAUSED" ELSE status
  /\ Leave("poll")
  /\ UNCHANGED <<row, tasks, edit, dataVars, boundVars, claimed, overlapped, late>>

\* UPDATE ... RETURNING
ReturnedRow == row

Claim ==
  /\ pc = "dispatch"
  /\ fetched.seen = "RUN_REQUESTED"
  /\ Move(Store!ClaimFrom, "RUNNING")
  /\ snap' = ReturnedRow
  /\ claimed' = row
  /\ late' = IF row.enabled THEN late ELSE late + 1
  /\ pc' = "tasks"
  /\ UNCHANGED <<row, tasks, edit, dataVars, fetched, plan, attemptVars, boundVars, overlapped>>

ClaimLost ==
  /\ pc = "dispatch"
  /\ fetched.seen = "RUN_REQUESTED"
  /\ status \notin Store!ClaimFrom
  /\ Leave("poll")
  /\ UNCHANGED <<storeVars, edit, dataVars, boundVars, claimed, overlapped, late>>

\* snapshot_pipeline_with_tasks: the tasks as they are by now.
ReadTasks ==
  /\ pc = "tasks"
  /\ plan' = tasks
  /\ attempt' = 1
  /\ pc' = "start"
  /\ UNCHANGED <<storeVars, edit, dataVars, fetched, snap, cursor, boundVars,
                 claimed, overlapped, late>>

RetryOrGiveUp ==
  IF attempt < MaxAttempts
    THEN /\ attempt' = attempt + 1 /\ cursor' = 0 /\ pc' = "start"
         /\ UNCHANGED <<status, copyVars>>
    ELSE /\ status' = IF status \in Store!FailFrom THEN "FAILED" ELSE status
         /\ Leave("poll")

Fail ==
  /\ RetryOrGiveUp
  /\ UNCHANGED <<row, tasks, edit, dataVars, boundVars, claimed, overlapped, late>>

load == LoadOf(snap, plan)

Incremental == snap.mode = "incremental"

StartBody ==
  /\ pc = "start"
  /\ ~RaisesAtOnce(snap, plan)
  /\ cursor' = IF Incremental THEN state ELSE 0
  /\ pc' = "batch"
  /\ UNCHANGED <<storeVars, edit, dataVars, copyVars, attempt, boundVars,
                 claimed, overlapped, late>>

StartRaises ==
  /\ pc = "start"
  /\ RaisesAtOnce(snap, plan)
  /\ Fail

\* The rows a full load has before it: OFFSET counts them.
Before(r) == {s \in Selects[load.query] : s < r}

\* The rows the next batch query may return.
Unread ==
  {r \in Selects[load.query] :
     IF Incremental THEN Rank[load.key][r] > cursor ELSE Cardinality(Before(r)) >= cursor}

\* ORDER BY, LIMIT 1
NextRow ==
  CHOOSE r \in Unread :
    \A s \in Unread : IF Incremental THEN Rank[load.key][r] <= Rank[load.key][s] ELSE r <= s

\* The batch query names columns that the source query does not have.
ReadRefused ==
  /\ Incremental
  /\ ~({load.key, IdKey(snap)} \subseteq Columns[load.query])

\* Mutant: the writer trusts the configuration.
WriterTrusts == TRUE

WriterAccepts == is_allowed_target(load.target)

\* Mutant: the writer is resolved from the row as it is now.
LiveTarget == row.target_table

WriterTarget == load.target

\* The key of the row just read.
NewCursor == IF Incremental THEN Rank[load.key][NextRow] ELSE cursor + 1

Batch ==
  /\ pc = "batch"
  /\ ~ReadRefused /\ Unread # {} /\ WriterAccepts
  /\ sink' = [sink EXCEPT ![WriterTarget][NextRow] = load.through]
  /\ loads' = loads \cup {load}
  /\ cursor' = NewCursor
  /\ state' = IF Incremental THEN NewCursor ELSE state
  /\ pc' = "check"
  /\ UNCHANGED <<storeVars, edit, copyVars, attempt, boundVars, claimed, overlapped, late>>

BatchRaises ==
  /\ pc = "batch"
  /\ ReadRefused \/ (Unread # {} /\ ~WriterAccepts)
  /\ Fail

\* finish_running_to_idle
Drained ==
  /\ pc = "batch"
  /\ ~ReadRefused /\ Unread = {}
  /\ status' = IF status \in Store!FinishFrom THEN "IDLE" ELSE status
  /\ Leave("poll")
  /\ UNCHANGED <<row, tasks, edit, dataVars, boundVars, claimed, overlapped, late>>

\* _pause_if_requested
Check ==
  /\ pc = "check"
  /\ IF status = "PAUSE_REQUESTED"
       THEN status' = "PAUSED" /\ Leave("poll")
       ELSE pc' = "batch" /\ UNCHANGED <<status, copyVars, attemptVars>>
  /\ UNCHANGED <<row, tasks, edit, dataVars, boundVars, claimed, overlapped, late>>

Fault == faults < MaxFaults /\ faults' = faults + 1

Error ==
  /\ Fault
  /\ pc \in {"start", "batch", "check"}
  /\ RetryOrGiveUp
  /\ UNCHANGED <<row, tasks, edit, dataVars, edits, requests, claimed, overlapped, late>>

Crash ==
  /\ Fault
  /\ pc # "down"
  /\ Leave("down")
  /\ UNCHANGED <<storeVars, edit, dataVars, edits, requests, claimed, overlapped, late>>

ConfigNext ==
  \/ \E p \in Creations : Create(p)
  \/ \E c \in Clients : \/ \E data \in Patches : ReadForPatch(c, data)
                        \/ CommitPatch(c) \/ AbandonPatch(c)
  \/ \E t \in TaskRows : InsertTask(t[1], t[2])
  \/ ClearTasks \/ Request
  \/ Recover \/ IdleTick \/ Poll \/ DispatchPause \/ Claim \/ ClaimLost \/ ReadTasks
  \/ StartBody \/ StartRaises \/ Batch \/ BatchRaises \/ Drained \/ Check
  \/ Error \/ Crash

ConfigSpec == ConfigInit /\ [][ConfigNext]_configVars

(***************************************************************************)
(* Properties.                                                             *)
(***************************************************************************)

(* The rules for a complete configuration survive any series of PATCHes,   *)
(* whatever each sends and clears, unless one of them committed over a row *)
(* changed since it had read it: validation looks at the row it read.      *)
ConfigHolds == Exists /\ ~overlapped => ValidConfig(row)

(* Every row an execution writes, in any batch of any attempt, is one of   *)
(* its query, goes into its target and through its transforms as the row   *)
(* at the claim and the plan read after it name them: whatever PATCHes and *)
(* task statements come in between, one execution never mixes two          *)
(* configurations.                                                         *)
WritesAsClaimed ==
  [][LET l == LoadOf(claimed, plan) IN
       \A t \in Targets : \A r \in AllRows : sink'[t][r] # sink[t][r] =>
         /\ t = l.target /\ sink'[t][r] = l.through
         /\ l.query # Null /\ r \in Selects[l.query]]_configVars

(* A disabled pipeline is claimed at most once more, by the tick that had  *)
(* fetched it before; recovery and later requests do not revive it.        *)
DisabledClaimedOnce == late <= 1

(* Nothing is ever loaded by a configuration that lacks its query or a     *)
(* transform, or into a target that is not supported, although a PATCH may *)
(* name any target and PATCHes that overlap may leave any combination.     *)
LoadsSupported ==
  \A l \in loads :
    is_allowed_target(l.target) /\ l.query # Null /\ Null \notin Range(l.through)

(* The checkpoint of an incremental pipeline keeps its meaning as long as  *)
(* what batches read, applied and wrote was the same for all of them and   *)
(* is what the configuration says now: the rows of the query below the     *)
(* checkpoint are in the target, transformed as configured.  Edits that no *)
(* batch saw do no harm; after a batch under another query, key, target or *)
(* half of a plan, etl_state is not reset and the rows below it are lost.  *)
CoveredUnlessMoved ==
  LET l == LoadOf(row, tasks) IN
    Exists /\ row.mode = "incremental" /\ ~RaisesAtOnce(row, tasks) /\ loads \subseteq {l} =>
      \A r \in Selects[l.query] : Rank[l.key][r] <= state => sink[l.target][r] = l.through

=============================================================================
