---------------------------- MODULE ConfigProofs ----------------------------
(***************************************************************************)
(* Theorems about PipelineConfig, for any handlers, requests, tasks,       *)
(* queries, keys, targets, attempts and faults: what edits at any point of *)
(* the life of a pipeline can do to its configuration, to the executions   *)
(* under way and to its checkpoint.                                        *)
(***************************************************************************)
EXTENDS PipelineConfig, NatOrder

(***************************************************************************)
(* Rows, plans, and what they mean.                                        *)
(***************************************************************************)

\* The rows of the plan were inserted by the operator.
IsPlan(t) ==
  /\ t = NoTasks \/ DOMAIN t # {}
  /\ \A i \in DOMAIN t : <<i, t[i]>> \in TaskRows

LEMMA RowFacts ==
  ASSUME NEW p, EtlPipeline(p)
  PROVE  /\ p # NoRow
         /\ DOMAIN p = DOMAIN ValuesOf
         /\ p.enabled \in BOOLEAN
         /\ p.source_query \in DOMAIN Selects \cup {Null}
         /\ p.target_table \in Targets
         /\ p.incremental_key \in DOMAIN Rank \cup {Null}
<1>1. /\ "type" \in DOMAIN ValuesOf /\ "enabled" \in DOMAIN ValuesOf
      /\ "source_query" \in DOMAIN ValuesOf /\ "target_table" \in DOMAIN ValuesOf
      /\ "incremental_key" \in DOMAIN ValuesOf
  BY DEF ValuesOf
<1>2. "type" \notin DOMAIN NoRow
  BY DEF NoRow
<1>3. /\ ValuesOf["enabled"] = BOOLEAN
      /\ ValuesOf["source_query"] = DOMAIN Selects \cup {Null}
      /\ ValuesOf["target_table"] = Targets
      /\ ValuesOf["incremental_key"] = DOMAIN Rank \cup {Null}
  BY DEF ValuesOf
<1>4. DOMAIN p = DOMAIN ValuesOf /\ \A column \in DOMAIN p : p[column] \in ValuesOf[column]
  BY DEF EtlPipeline
<1>5. p # NoRow
  BY <1>1, <1>2, <1>4
<1>6. QED BY <1>1, <1>3, <1>4, <1>5

\* A plan of at least one task has a first and a last one.
LEMMA EndsOfPlan ==
  ASSUME NEW t, IsPlan(t), t # NoTasks
  PROVE  /\ DOMAIN t \in SUBSET Nat /\ IsFiniteSet(DOMAIN t)
         /\ FirstTask(t) \in DOMAIN t
         /\ LastTask(t) \in DOMAIN t /\ \A i \in DOMAIN t : i <= LastTask(t)
<1>1. MaxIndex \in Nat
  BY ConfigAssumption
<1>2. \A i \in DOMAIN t : i \in 0 .. MaxIndex
  <2>1. TAKE i \in DOMAIN t
  <2>2. <<i, t[i]>> \in TaskRows
    BY DEF IsPlan
  <2>3. <<i, t[i]>>[1] \in 0 .. MaxIndex
    BY <2>2, RequestAssumption
  <2>4. QED BY <2>3
<1>3. \A m \in 0 .. MaxIndex : m \in Nat /\ m <= MaxIndex
  BY <1>1
<1>4. DOMAIN t \in SUBSET Nat /\ \A i \in DOMAIN t : i <= MaxIndex
  BY <1>2, <1>3
<1>5. PICK i \in DOMAIN t : \A j \in DOMAIN t : i <= j
  BY <1>4, LeastNat DEF IsPlan
<1>6. PICK m \in DOMAIN t : \A j \in DOMAIN t : j <= m
  BY <1>1, <1>4, GreatestNat DEF IsPlan
<1>7. \A j \in DOMAIN t : m >= j
  BY <1>4, <1>6
<1>8. Min(DOMAIN t) \in DOMAIN t
  BY <1>5, Zenon DEF Min
<1>9. Max(DOMAIN t) \in DOMAIN t /\ \A j \in DOMAIN t : Max(DOMAIN t) >= j
  BY <1>6, <1>7, Zenon DEF Max
<1>10. IsFiniteSet(DOMAIN t)
  <2>1. IsFiniteSet(0 .. MaxIndex)
    BY <1>1, FS_Interval
  <2>2. QED BY <1>2, <2>1, FS_Subset
<1>11. \A j \in DOMAIN t : j <= Max(DOMAIN t)
  BY <1>4, <1>9
<1>12. QED BY <1>4, <1>8, <1>9, <1>10, <1>11 DEF FirstTask, LastTask

\* A configuration that does not raise at once names a query and a target
\* there are, and, if incremental, a key.
LEMMA LoadFacts ==
  ASSUME NEW p, EtlPipeline(p), NEW t, IsPlan(t),
         ~RaisesAtOnce(p, t)
  PROVE  /\ LoadOf(p, t).query \in DOMAIN Selects
         /\ LoadOf(p, t).target \in Targets
         /\ LoadOf(p, t).key = p.incremental_key
         /\ p.mode = "incremental" => p.incremental_key \in DOMAIN Rank
<1>1. /\ p.source_query \in DOMAIN Selects \cup {Null}
      /\ p.target_table \in Targets
      /\ p.incremental_key \in DOMAIN Rank \cup {Null}
  BY RowFacts
<1>2. p.mode = "incremental" => p.incremental_key \in DOMAIN Rank
  BY <1>1 DEF RaisesAtOnce
<1>3. CASE t = NoTasks
  BY <1>1, <1>2, <1>3 DEF RaisesAtOnce, LoadOf
<1>4. CASE t # NoTasks
  <2>1. FirstTask(t) \in DOMAIN t /\ LastTask(t) \in DOMAIN t
    BY <1>4, EndsOfPlan
  <2>2. \A i \in DOMAIN t :
          /\ t[i].task_type = "SQL" => t[i].body \in DOMAIN Selects \cup {Null}
          /\ t[i].target_table \in Targets \cup {Null, Empty}
    <3>1. TAKE i \in DOMAIN t
    <3>2. <<i, t[i]>> \in TaskRows
      BY DEF IsPlan
    <3>3. <<i, t[i]>>[2] = t[i]
      OBVIOUS
    <3>4. QED BY <3>2, <3>3, RequestAssumption
  <2>3. /\ t[FirstTask(t)].body # Null /\ t[FirstTask(t)].task_type = "SQL"
    BY <1>4, <2>1 DEF RaisesAtOnce, ValidTasks
  <2>4. FinalTarget(t, p.target_table) \in Targets
    BY <1>1, <2>1, <2>2 DEF FinalTarget
  <2>5. QED BY <1>2, <1>4, <2>1, <2>2, <2>3, <2>4 DEF LoadOf
<1>5. QED BY <1>3, <1>4

\* The steps of a plan are bodies of its tasks.
LEMMA StepsFacts ==
  ASSUME NEW t, IsPlan(t), t # NoTasks
  PROVE  \A body \in Range(Steps(t)) : \E i \in DOMAIN t : body = t[i].body
<1>1. /\ DOMAIN t \in SUBSET Nat /\ IsFiniteSet(DOMAIN t)
      /\ LastTask(t) \in DOMAIN t /\ \A i \in DOMAIN t : i <= LastTask(t)
  BY EndsOfPlan
<1>2. Cardinality(DOMAIN t) \in Nat
  BY <1>1, FS_CardinalityType
<1>3. Position(DOMAIN t, LastTask(t)) = Cardinality(DOMAIN t) - 1
  BY <1>1, PositionOfLast
<1>4. ASSUME NEW n \in 1 .. Cardinality(DOMAIN t) - 1
      PROVE  At(t, n) \in DOMAIN t
  <2>1. n \in Nat /\ Cardinality(DOMAIN t) - 1 >= n
    BY <1>2
  <2>2. \E i \in DOMAIN t : Position(DOMAIN t, i) = n
    BY <1>1, <1>3, <2>1, PositionReached
  <2>3. QED BY <2>2 DEF At, Position, Smaller
<1>5. QED BY <1>4 DEF Steps, Range

(***************************************************************************)
(* Types.  The row, and what was copied from it, are rows of the table;    *)
(* the tasks, and the copy of them, are the operator's; and a body that    *)
(* has started runs from a configuration that did not raise at once.       *)
(***************************************************************************)
EditsTyped ==
  /\ DOMAIN edit = Clients
  /\ \A c \in Clients : edit[c] # NoEdit =>
       Exists /\ EtlPipeline(edit[c].read) /\ edit[c].data \in Patches

CopiesTyped ==
  /\ pc \in {"tasks", "start", "batch", "check"} => EtlPipeline(snap)
  /\ pc \in {"start", "batch", "check"} => IsPlan(plan)
  /\ pc \in {"batch", "check"} => ~RaisesAtOnce(snap, plan)
  /\ pc = "dispatch" => Exists

SinkTyped == DOMAIN sink = Targets /\ \A t \in Targets : DOMAIN sink[t] = AllRows

ConfigTyped ==
  /\ ConfigTypeOK
  /\ IsPlan(tasks)
  /\ EditsTyped
  /\ CopiesTyped
  /\ SinkTyped

\* The next row of a body is one of the rows that are left, and for an
\* incremental body the first of them.
LEMMA NextRowFacts ==
  ASSUME ConfigTyped, pc = "batch", Unread # {}
  PROVE  /\ load.query \in DOMAIN Selects /\ load.target \in Targets
         /\ NextRow \in Unread /\ NextRow \in AllRows
         /\ Incremental => load.key \in DOMAIN Rank
         /\ Incremental => \A s \in Unread : Rank[load.key][NextRow] <= Rank[load.key][s]
<1>1. EtlPipeline(snap) /\ IsPlan(plan) /\ ~RaisesAtOnce(snap, plan)
  BY DEF ConfigTyped, CopiesTyped
<1>2. /\ load.query \in DOMAIN Selects /\ load.target \in Targets
      /\ Incremental => load.key \in DOMAIN Rank
  BY <1>1, LoadFacts DEF load, Incremental
<1>3. Unread \subseteq Selects[load.query] /\ Unread \subseteq AllRows /\ Unread \subseteq Nat
  BY <1>2, ConfigAssumption DEF Unread, AllRows
<1>4. CASE Incremental
  <2> DEFINE rank(s) == Rank[load.key][s]
             ranks == {rank(s) : s \in Unread}
  <2>1. \A s \in Unread : rank(s) \in Nat
    BY <1>2, <1>3, <1>4, RankAssumption
  <2>2. ranks \in SUBSET Nat /\ ranks # {}
    BY <2>1
  <2>3. PICK m \in ranks : \A n \in ranks : m <= n
    BY <2>2, LeastNat
  <2>4. PICK r \in Unread : m = rank(r)
    BY <2>3
  <2>5. \A s \in Unread : Rank[load.key][r] <= Rank[load.key][s]
    BY <2>3, <2>4
  <2>6. NextRow = CHOOSE q \in Unread : \A s \in Unread : Rank[load.key][q] <= Rank[load.key][s]
    BY <1>4 DEF NextRow
  <2>7. NextRow \in Unread /\ \A s \in Unread : Rank[load.key][NextRow] <= Rank[load.key][s]
    BY <2>4, <2>5, <2>6
  <2>8. QED BY <1>2, <1>3, <2>7
<1>5. CASE ~Incremental
  <2>1. PICK r \in Unread : \A s \in Unread : r <= s
    BY <1>3, LeastNat
  <2>2. NextRow = CHOOSE q \in Unread : \A s \in Unread : q <= s
    BY <1>5 DEF NextRow
  <2>3. NextRow \in Unread
    BY <2>1, <2>2
  <2>4. QED BY <1>2, <1>3, <1>5, <2>3
<1>6. QED BY <1>4, <1>5

\* Only a batch writes.
LEMMA SinkKept == [ConfigNext]_configVars => Batch \/ UNCHANGED dataVars
BY DEF ConfigNext, configVars, storeVars, Create, ReadForPatch, CommitPatch, AbandonPatch,
       InsertTask, ClearTasks, Request, Recover, IdleTick, Poll, DispatchPause, Claim,
       ClaimLost, ReadTasks, StartBody, StartRaises, BatchRaises, Drained, Check, Error,
       Crash, Fail

\* A body that has started lacks neither its query nor a transform.
LEMMA BodyHasQuery ==
  ASSUME ConfigTyped, pc = "batch"
  PROVE  load.query # Null /\ Null \notin Range(load.through)
<1>1. EtlPipeline(snap) /\ IsPlan(plan) /\ ~RaisesAtOnce(snap, plan)
  BY DEF ConfigTyped, CopiesTyped
<1>2. CASE plan = NoTasks
  BY <1>1, <1>2 DEF RaisesAtOnce, load, LoadOf
<1>3. CASE plan # NoTasks
  <2>1. /\ FirstTask(plan) \in DOMAIN plan
        /\ \A i \in DOMAIN plan : plan[i].body # Null
    BY <1>1, <1>3, EndsOfPlan DEF RaisesAtOnce, ValidTasks
  <2>2. load.query = plan[FirstTask(plan)].body /\ load.through = Steps(plan)
    BY <1>3 DEF load, LoadOf
  <2>3. Null \notin Range(Steps(plan))
    BY <1>1, <1>3, <2>1, StepsFacts
  <2>4. QED BY <2>1, <2>2, <2>3
<1>4. QED BY <1>2, <1>3

LEMMA ConfigTypedInit == ConfigInit => ConfigTyped
<1> SUFFICES ASSUME ConfigInit PROVE ConfigTyped
  OBVIOUS
<1>1. ~Exists
  BY DEF ConfigInit, Exists
<1>2. IsPlan(tasks) /\ DOMAIN tasks = {}
  BY DEF ConfigInit, IsPlan, NoTasks
<1>3. EditsTyped
  BY DEF ConfigInit, EditsTyped
<1>4. CopiesTyped
  BY DEF ConfigInit, CopiesTyped
<1>5. SinkTyped
  BY DEF ConfigInit, SinkTyped
<1>6. ConfigTypeOK
  BY <1>1, <1>2, ConfigAssumption DEF ConfigInit, ConfigTypeOK, Store!PipelineStatus
<1>7. QED BY <1>2, <1>3, <1>4, <1>5, <1>6 DEF ConfigTyped

\* What a step keeps that leaves the row, the tasks and the edits alone.
LEMMA RowKept ==
  ASSUME ConfigTyped, UNCHANGED <<row, tasks, edit>>
  PROVE  /\ (Exists => EtlPipeline(row))' /\ IsPlan(tasks)' /\ EditsTyped'
         /\ (DOMAIN tasks \subseteq {t[1] : t \in TaskRows})'
BY DEF ConfigTyped, ConfigTypeOK, EditsTyped, Exists, IsPlan

\* The ways a dispatch ends or goes on after an error.
LEMMA LeaveTypes ==
  ASSUME NEW label \in {"poll", "down"}, Leave(label)
  PROVE  CopiesTyped' /\ pc' = label /\ attempt' \in 0 .. MaxAttempts /\ cursor' \in Nat
BY ConfigAssumption DEF Leave, CopiesTyped

LEMMA RetryTypes ==
  ASSUME ConfigTyped, RetryOrGiveUp, pc \in {"start", "batch", "check"}
  PROVE  /\ CopiesTyped' /\ pc' \in {"start", "poll"} /\ attempt' \in 0 .. MaxAttempts
         /\ cursor' \in Nat /\ status' \in Store!PipelineStatus
<1>1. \A n \in 0 .. MaxAttempts : n < MaxAttempts => n + 1 \in 0 .. MaxAttempts
  BY ConfigAssumption
<1>2. status \in Store!PipelineStatus /\ "FAILED" \in Store!PipelineStatus
      /\ attempt \in 0 .. MaxAttempts
  BY DEF ConfigTyped, ConfigTypeOK, Store!PipelineStatus
<1>3. CASE attempt < MaxAttempts
  BY <1>1, <1>2, <1>3 DEF RetryOrGiveUp, ConfigTyped, CopiesTyped, copyVars
<1>4. CASE ~(attempt < MaxAttempts)
  BY <1>2, <1>4, LeaveTypes DEF RetryOrGiveUp
<1>5. QED BY <1>3, <1>4

\* A PATCH that can be stored leaves a row of the table.
LEMMA CommitTypes ==
  ASSUME ConfigTyped, NEW c \in Clients, CommitPatch(c)
  PROVE  Exists /\ EtlPipeline(row)' /\ Exists'
<1>1. /\ edit[c] # NoEdit /\ Exists /\ EtlPipeline(row) /\ edit[c].data \in Patches
      /\ Storable(edit[c].data)
  BY DEF CommitPatch, ConfigTyped, ConfigTypeOK, EditsTyped
<1>2. DOMAIN row = DOMAIN ValuesOf /\ \A column \in DOMAIN row : row[column] \in ValuesOf[column]
  BY <1>1 DEF EtlPipeline
<1>3. \A column \in Flushed(edit[c].read, edit[c].data) :
         edit[c].data[column] \in ValuesOf[column]
  BY <1>1, RequestAssumption DEF Flushed, Storable
<1>4. /\ DOMAIN row' = DOMAIN ValuesOf
      /\ \A column \in DOMAIN row' : row'[column] \in ValuesOf[column]
  BY <1>2, <1>3 DEF CommitPatch
<1>5. EtlPipeline(row)'
  BY <1>4 DEF EtlPipeline, ValuesOf
<1>6. EtlPipeline(row')
  BY <1>4 DEF EtlPipeline
<1>7. row' # NoRow
  BY <1>6, RowFacts
<1>8. QED BY <1>1, <1>5, <1>7 DEF Exists, NoRow

LEMMA ConfigTypedStep == ConfigTyped /\ [ConfigNext]_configVars => ConfigTyped'
<1> SUFFICES ASSUME ConfigTyped, [ConfigNext]_configVars PROVE ConfigTyped'
  OBVIOUS
<1>1. /\ Exists => EtlPipeline(row)
      /\ status \in Store!PipelineStatus /\ attempt \in 0 .. MaxAttempts
      /\ pc \in {"down", "poll", "dispatch", "tasks", "start", "batch", "check"}
      /\ DOMAIN tasks \subseteq {t[1] : t \in TaskRows} /\ state \in Nat /\ cursor \in Nat
      /\ IsPlan(tasks) /\ EditsTyped /\ CopiesTyped /\ SinkTyped
  BY DEF ConfigTyped, ConfigTypeOK
<1>2. Store!PipelineStatus =
        {"IDLE", "RUN_REQUESTED", "RUNNING", "PAUSE_REQUESTED", "PAUSED", "FAILED"}
  BY DEF Store!PipelineStatus
<1>3. ASSUME UNCHANGED sink
      PROVE  SinkTyped'
  BY <1>1, <1>3 DEF SinkTyped
<1>4. ASSUME NEW p \in Creations, Create(p)
      PROVE  ConfigTyped'
  <2>1. EtlPipeline(p) /\ row' = p /\ ~Exists
    BY <1>4, RequestAssumption DEF Create
  <2>2. EtlPipeline(row)'
    BY <2>1 DEF EtlPipeline, ValuesOf
  <2>3. Exists'
    BY <2>1, RowFacts DEF Exists, NoRow
  <2>4. EditsTyped'
    BY <1>1, <1>4, <2>1 DEF Create, EditsTyped
  <2>5. CopiesTyped'
    BY <1>1, <1>4, <2>1 DEF Create, CopiesTyped, copyVars
  <2>6. IsPlan(tasks)'
    BY <1>1, <1>4 DEF Create, IsPlan
  <2>7. QED
    BY <1>1, <1>3, <1>4, <2>2, <2>4, <2>5, <2>6
    DEF Create, ConfigTyped, ConfigTypeOK, dataVars, attemptVars
<1>5. ASSUME NEW c \in Clients, NEW data \in Patches, ReadForPatch(c, data)
      PROVE  ConfigTyped'
  <2>1. Exists /\ EtlPipeline(row) /\ UNCHANGED row
    BY <1>1, <1>5 DEF ReadForPatch, Begin, storeVars
  <2>2. EditsTyped'
    <3>1. edit' = [edit EXCEPT ![c] = [read |-> row, data |-> data]]
      BY <1>5 DEF ReadForPatch
    <3>2. DOMAIN edit' = Clients
      BY <1>1, <3>1 DEF EditsTyped
    <3>3. \A d \in Clients : edit'[d] # NoEdit =>
            Exists /\ EtlPipeline(edit'[d].read) /\ edit'[d].data \in Patches
      <4>1. SUFFICES ASSUME NEW d \in Clients, edit'[d] # NoEdit
                     PROVE  Exists /\ EtlPipeline(edit'[d].read) /\ edit'[d].data \in Patches
        OBVIOUS
      <4>2. CASE d = c
        <5>1. edit'[d] = [read |-> row, data |-> data]
          BY <1>1, <3>1, <4>2 DEF EditsTyped
        <5>2. edit'[d].read = row /\ edit'[d].data = data
          BY <5>1
        <5>3. QED BY <2>1, <5>2
      <4>3. CASE d # c
        <5>1. edit'[d] = edit[d]
          BY <1>1, <3>1, <4>3 DEF EditsTyped
        <5>2. QED BY <1>1, <4>1, <5>1 DEF EditsTyped
      <4>4. QED BY <4>2, <4>3
    <3>4. QED BY <2>1, <3>2, <3>3 DEF EditsTyped, Exists, EtlPipeline, ValuesOf
  <2>3. CopiesTyped'
    BY <1>1, <1>5, <2>1 DEF ReadForPatch, CopiesTyped, copyVars, Exists
  <2>4. (Exists => EtlPipeline(row))' /\ IsPlan(tasks)'
    BY <1>1, <1>5 DEF ReadForPatch, storeVars, Exists, IsPlan, EtlPipeline
  <2>5. QED
    BY <1>1, <1>3, <1>5, <2>2, <2>3, <2>4
    DEF ReadForPatch, ConfigTyped, ConfigTypeOK, storeVars, dataVars, attemptVars
<1>6. ASSUME NEW c \in Clients, CommitPatch(c)
      PROVE  ConfigTyped'
  <2>1. Exists /\ EtlPipeline(row)' /\ Exists'
    BY <1>6, CommitTypes
  <2>2. EditsTyped'
    BY <1>1, <1>6, <2>1 DEF CommitPatch, EditsTyped
  <2>3. CopiesTyped'
    BY <1>1, <1>6, <2>1 DEF CommitPatch, CopiesTyped, copyVars
  <2>4. IsPlan(tasks)'
    BY <1>1, <1>6 DEF CommitPatch, IsPlan
  <2>5. QED
    BY <1>1, <1>3, <1>6, <2>1, <2>2, <2>3, <2>4
    DEF CommitPatch, ConfigTyped, ConfigTypeOK, dataVars, attemptVars
<1>7. ASSUME NEW c \in Clients, AbandonPatch(c)
      PROVE  ConfigTyped'
  <2>1. EditsTyped'
    BY <1>1, <1>7 DEF AbandonPatch, EditsTyped, storeVars, Exists
  <2>2. CopiesTyped'
    BY <1>1, <1>7 DEF AbandonPatch, CopiesTyped, copyVars, storeVars, Exists
  <2>3. (Exists => EtlPipeline(row))' /\ IsPlan(tasks)'
    BY <1>1, <1>7 DEF AbandonPatch, storeVars, Exists, IsPlan
  <2>4. QED
    BY <1>1, <1>3, <1>7, <2>1, <2>2, <2>3
    DEF AbandonPatch, ConfigTyped, ConfigTypeOK, storeVars, dataVars, attemptVars
<1>8. ASSUME NEW t \in TaskRows, InsertTask(t[1], t[2])
      PROVE  ConfigTyped'
  <2>1. t = <<t[1], t[2]>>
    BY RequestAssumption
  <2>2. tasks' = [j \in DOMAIN tasks \cup {t[1]} |-> IF j = t[1] THEN t[2] ELSE tasks[j]]
    BY <1>8 DEF InsertTask
  <2>3. IsPlan(tasks)'
    BY <1>1, <2>1, <2>2 DEF IsPlan
  <2>4. DOMAIN tasks' \subseteq {u[1] : u \in TaskRows}
    BY <1>1, <2>2
  <2>5. EditsTyped' /\ CopiesTyped' /\ (Exists => EtlPipeline(row))'
    BY <1>1, <1>8 DEF InsertTask, EditsTyped, CopiesTyped, copyVars, Exists
  <2>6. QED
    BY <1>1, <1>3, <1>8, <2>3, <2>4, <2>5
    DEF InsertTask, ConfigTyped, ConfigTypeOK, dataVars, attemptVars
<1>9. CASE ClearTasks
  <2>1. IsPlan(tasks)' /\ DOMAIN tasks' = {}
    BY <1>9 DEF ClearTasks, IsPlan, NoTasks
  <2>2. EditsTyped' /\ CopiesTyped' /\ (Exists => EtlPipeline(row))'
    BY <1>1, <1>9 DEF ClearTasks, EditsTyped, CopiesTyped, copyVars, Exists
  <2>3. QED
    BY <1>1, <1>3, <1>9, <2>1, <2>2
    DEF ClearTasks, ConfigTyped, ConfigTypeOK, dataVars, attemptVars
<1>10. CASE Request
  <2>1. UNCHANGED <<row, tasks, edit>> /\ CopiesTyped'
    BY <1>1, <1>10 DEF Request, CopiesTyped, copyVars, Exists
  <2>2. status' \in Store!PipelineStatus
    BY <1>2, <1>10 DEF Request, Move
  <2>3. QED
    BY <1>1, <1>3, <1>10, <2>1, <2>2, RowKept
    DEF Request, ConfigTyped, ConfigTypeOK, dataVars, attemptVars
<1>11. CASE Recover
  <2>1. UNCHANGED <<row, tasks, edit>> /\ CopiesTyped'
    BY <1>11 DEF Recover, CopiesTyped
  <2>2. status' \in Store!PipelineStatus
    BY <1>1, <1>2, <1>11 DEF Recover
  <2>3. QED
    BY <1>1, <1>3, <1>11, <2>1, <2>2, RowKept
    DEF Recover, ConfigTyped, ConfigTypeOK, dataVars, attemptVars
<1>12. CASE Poll
  <2>1. row.enabled
    BY <1>12 DEF Poll, Store!get_active
  <2>2. Exists
    BY <2>1 DEF Exists, NoRow
  <2>3. UNCHANGED <<row, tasks, edit>> /\ CopiesTyped'
    BY <1>12, <2>2 DEF Poll, CopiesTyped, storeVars, Exists
  <2>4. QED
    BY <1>1, <1>3, <1>12, <2>3, RowKept
    DEF Poll, ConfigTyped, ConfigTypeOK, storeVars, dataVars, attemptVars
<1>13. ASSUME NEW label \in {"poll", "down"}, Leave(label),
              UNCHANGED <<row, tasks, edit, dataVars>>, status' \in Store!PipelineStatus
       PROVE  ConfigTyped'
  BY <1>1, <1>3, <1>13, LeaveTypes, RowKept DEF ConfigTyped, ConfigTypeOK, dataVars
<1>14. CASE DispatchPause
  <2>1. status' \in Store!PipelineStatus
    BY <1>1, <1>2, <1>14 DEF DispatchPause
  <2>2. QED BY <1>13, <1>14, <2>1 DEF DispatchPause
<1>15. CASE Claim
  <2>1. Exists /\ EtlPipeline(row)
    BY <1>1, <1>15 DEF Claim, CopiesTyped
  <2>2. UNCHANGED <<row, tasks, edit>> /\ CopiesTyped'
    BY <1>15, <2>1 DEF Claim, CopiesTyped, ReturnedRow
  <2>3. status' \in Store!PipelineStatus
    BY <1>2, <1>15 DEF Claim, Move
  <2>4. QED
    BY <1>1, <1>3, <1>15, <2>2, <2>3, RowKept
    DEF Claim, ConfigTyped, ConfigTypeOK, dataVars, attemptVars
<1>16. CASE ClaimLost
  BY <1>1, <1>13, <1>16 DEF ClaimLost, storeVars
<1>17. CASE ReadTasks
  <2>1. UNCHANGED <<row, tasks, edit>> /\ CopiesTyped'
    BY <1>1, <1>17 DEF ReadTasks, CopiesTyped, storeVars
  <2>2. 1 \in 0 .. MaxAttempts
    BY ConfigAssumption
  <2>3. QED
    BY <1>1, <1>3, <1>17, <2>1, <2>2, RowKept
    DEF ReadTasks, ConfigTyped, ConfigTypeOK, storeVars, dataVars
<1>18. ASSUME RetryOrGiveUp, pc \in {"start", "batch", "check"},
              UNCHANGED <<row, tasks, edit, dataVars>>
       PROVE  ConfigTyped'
  BY <1>1, <1>3, <1>18, RetryTypes, RowKept DEF ConfigTyped, ConfigTypeOK, dataVars
<1>19. CASE StartBody
  <2>1. UNCHANGED <<row, tasks, edit>> /\ CopiesTyped'
    BY <1>1, <1>19 DEF StartBody, CopiesTyped, storeVars, copyVars
  <2>2. QED
    BY <1>1, <1>3, <1>19, <2>1, RowKept
    DEF StartBody, ConfigTyped, ConfigTypeOK, storeVars, dataVars
<1>20. CASE StartRaises
  BY <1>18, <1>20 DEF StartRaises, Fail
<1>21. CASE Batch
  <2>1. /\ load.query \in DOMAIN Selects /\ load.target \in Targets
        /\ NextRow \in AllRows /\ (Incremental => load.key \in DOMAIN Rank)
    BY <1>21, NextRowFacts DEF Batch
  <2>2. NewCursor \in Nat
    BY <1>1, <2>1, RankAssumption DEF NewCursor
  <2>3. SinkTyped'
    BY <1>1, <1>21, <2>1 DEF Batch, SinkTyped
  <2>4. UNCHANGED <<row, tasks, edit>> /\ CopiesTyped'
    BY <1>1, <1>21 DEF Batch, CopiesTyped, storeVars, copyVars
  <2>5. QED
    BY <1>1, <1>21, <2>2, <2>3, <2>4, RowKept DEF Batch, ConfigTyped, ConfigTypeOK, storeVars
<1>22. CASE BatchRaises
  BY <1>18, <1>22 DEF BatchRaises, Fail
<1>23. CASE Drained
  <2>1. status' \in Store!PipelineStatus
    BY <1>1, <1>2, <1>23 DEF Drained
  <2>2. QED BY <1>13, <1>23, <2>1 DEF Drained
<1>24. CASE Check
  <2>1. CASE status = "PAUSE_REQUESTED"
    BY <1>2, <1>13, <1>24, <2>1 DEF Check
  <2>2. CASE status # "PAUSE_REQUESTED"
    <3>1. UNCHANGED <<row, tasks, edit>> /\ CopiesTyped'
      BY <1>1, <1>24, <2>2 DEF Check, CopiesTyped, copyVars
    <3>2. QED
      BY <1>1, <1>3, <1>24, <2>2, <3>1, RowKept
      DEF Check, ConfigTyped, ConfigTypeOK, dataVars, attemptVars
  <2>3. QED BY <2>1, <2>2
<1>25. CASE Error
  BY <1>18, <1>25 DEF Error
<1>26. CASE Crash
  BY <1>1, <1>13, <1>26 DEF Crash, storeVars
<1>27. CASE UNCHANGED configVars
  BY <1>1, <1>3, <1>27, RowKept
  DEF configVars, storeVars, dataVars, copyVars, attemptVars, ConfigTyped, ConfigTypeOK, CopiesTyped, Exists
<1>28. IdleTick => UNCHANGED configVars
  BY DEF IdleTick
<1>29. QED
  BY <1>4, <1>5, <1>6, <1>7, <1>8, <1>9, <1>10, <1>11, <1>12, <1>14, <1>15, <1>16, <1>17,
     <1>19, <1>20, <1>21, <1>22, <1>23, <1>24, <1>25, <1>26, <1>27, <1>28
  DEF ConfigNext

(***************************************************************************)
(* PATCH.  Each was validated against the row it read; if it commits over  *)
(* that row, what it leaves is what was validated.                         *)
(***************************************************************************)
EditsValid ==
  \A c \in Clients : edit[c] # NoEdit => ValidConfig(Merged(edit[c].read, edit[c].data))

PatchInv == ConfigHolds /\ EditsValid

LEMMA CommitIsMerge ==
  ASSUME ConfigTyped, NEW c \in Clients, CommitPatch(c), row = edit[c].read
  PROVE  row' = Merged(edit[c].read, edit[c].data)
<1>1. row' = [column \in DOMAIN row |->
                IF column \in Flushed(row, edit[c].data) THEN edit[c].data[column] ELSE row[column]]
  BY DEF CommitPatch
<1>2. \A column \in DOMAIN row :
        (IF column \in Flushed(row, edit[c].data) THEN edit[c].data[column] ELSE row[column])
        = (IF column \in DOMAIN edit[c].data THEN edit[c].data[column] ELSE row[column])
  BY DEF Flushed
<1>3. QED BY <1>1, <1>2 DEF Merged

LEMMA PatchInvStep ==
  ASSUME ConfigTyped, PatchInv, [ConfigNext]_configVars
  PROVE  PatchInv'
<1>1. ASSUME NEW p \in Creations, Create(p)
      PROVE  PatchInv'
  BY <1>1 DEF Create, Creatable, PatchInv, ConfigHolds, EditsValid, ValidConfig, Merged
<1>2. ASSUME NEW c \in Clients, NEW data \in Patches, ReadForPatch(c, data)
      PROVE  PatchInv'
  <2>1. ConfigHolds'
    BY <1>2 DEF ReadForPatch, storeVars, PatchInv, ConfigHolds, Exists, ValidConfig
  <2>2. EditsValid'
    <3>1. DOMAIN edit = Clients /\ edit' = [edit EXCEPT ![c] = [read |-> row, data |-> data]]
      BY <1>2 DEF ReadForPatch, ConfigTyped, EditsTyped
    <3>2. ValidConfig(Merged(row, data))
      BY <1>2 DEF ReadForPatch
    <3>3. \A d \in Clients : edit'[d] = IF d = c THEN [read |-> row, data |-> data] ELSE edit[d]
      BY <3>1
    <3>4. \A d \in Clients : edit'[d] # NoEdit =>
            ValidConfig(Merged(edit'[d].read, edit'[d].data))
      BY <3>2, <3>3 DEF PatchInv, EditsValid
    <3>5. QED BY <3>4 DEF EditsValid, ValidConfig, Merged
  <2>3. QED BY <2>1, <2>2 DEF PatchInv
<1>3. ASSUME NEW c \in Clients, CommitPatch(c)
      PROVE  PatchInv'
  <2>1. ConfigHolds'
    <3>1. CASE row = edit[c].read
      <4>1. row' = Merged(edit[c].read, edit[c].data)
        BY <1>3, <3>1, CommitIsMerge
      <4>2. ValidConfig(row')
        BY <1>3, <4>1 DEF CommitPatch, PatchInv, EditsValid
      <4>3. QED BY <4>2 DEF ConfigHolds, ValidConfig
    <3>2. CASE row # edit[c].read
      BY <1>3, <3>2 DEF CommitPatch, ConfigHolds
    <3>3. QED BY <3>1, <3>2
  <2>2. EditsValid'
    <3>1. DOMAIN edit = Clients /\ edit' = [edit EXCEPT ![c] = NoEdit]
      BY <1>3 DEF CommitPatch, ConfigTyped, EditsTyped
    <3>2. QED BY <3>1 DEF PatchInv, EditsValid, ValidConfig, Merged
  <2>3. QED BY <2>1, <2>2 DEF PatchInv
<1>4. ASSUME NEW c \in Clients, AbandonPatch(c)
      PROVE  PatchInv'
  <2>1. DOMAIN edit = Clients /\ edit' = [edit EXCEPT ![c] = NoEdit]
    BY <1>4 DEF AbandonPatch, ConfigTyped, EditsTyped
  <2>2. QED
    BY <1>4, <2>1
    DEF AbandonPatch, storeVars, PatchInv, ConfigHolds, Exists, EditsValid, ValidConfig, Merged
<1>5. CASE UNCHANGED <<row, edit, overlapped>>
  BY <1>5 DEF PatchInv, ConfigHolds, Exists, EditsValid, ValidConfig, Merged
<1>6. (\E t \in TaskRows : InsertTask(t[1], t[2])) \/ ClearTasks \/ Request
        => UNCHANGED <<row, edit, overlapped>>
  BY DEF InsertTask, ClearTasks, Request
<1>7. Recover \/ IdleTick \/ Poll \/ DispatchPause \/ Claim \/ ClaimLost \/ ReadTasks
        => UNCHANGED <<row, edit, overlapped>>
  BY DEF Recover, IdleTick, Poll, DispatchPause, Claim, ClaimLost, ReadTasks, configVars, storeVars
<1>8. StartBody \/ StartRaises \/ Batch \/ BatchRaises \/ Drained \/ Check \/ Error \/ Crash
        => UNCHANGED <<row, edit, overlapped>>
  BY DEF StartBody, StartRaises, Batch, BatchRaises, Drained, Check, Error, Crash, Fail, storeVars
<1>9. UNCHANGED configVars => UNCHANGED <<row, edit, overlapped>>
  BY DEF configVars, storeVars
<1>10. QED BY <1>1, <1>2, <1>3, <1>4, <1>5, <1>6, <1>7, <1>8, <1>9 DEF ConfigNext

(***************************************************************************)
(* Copies.  The snapshot is that of the claim for as long as it is used,   *)
(* and a body writes by it alone; a disabled pipeline can only be claimed  *)
(* by a tick that fetched it before, and there is at most one of those.    *)
(***************************************************************************)
ClaimInv ==
  /\ pc \in {"tasks", "start", "batch", "check"} => snap = claimed
  /\ DisabledClaimedOnce /\ late \in Nat
  /\ Exists /\ row.enabled => late = 0
  /\ ~Exists => late = 0
  /\ pc = "dispatch" => late = 0

LEMMA ClaimInvStep ==
  ASSUME ConfigTyped, ClaimInv, [ConfigNext]_configVars
  PROVE  ClaimInv'
<1> USE DEF ClaimInv, DisabledClaimedOnce
<1>1. ASSUME NEW p \in Creations, Create(p)
      PROVE  ClaimInv'
  BY <1>1 DEF Create, copyVars
<1>2. ASSUME NEW c \in Clients, CommitPatch(c)
      PROVE  ClaimInv'
  <2>1. Exists' /\ EtlPipeline(row')
    BY <1>2, CommitTypes DEF EtlPipeline, ValuesOf
  <2>2. row'.enabled \in BOOLEAN
    BY <2>1, RowFacts
  <2>3. CASE row'.enabled
    BY <1>2, <2>1, <2>3 DEF CommitPatch, copyVars
  <2>4. CASE ~row'.enabled
    BY <1>2, <2>1, <2>4 DEF CommitPatch, copyVars
  <2>5. QED BY <2>2, <2>3, <2>4
<1>3. CASE Claim
  <2>1. Exists /\ row.enabled \in BOOLEAN /\ late = 0
    BY <1>3, RowFacts DEF Claim, ConfigTyped, ConfigTypeOK, CopiesTyped
  <2>2. CASE row.enabled
    BY <1>3, <2>1, <2>2 DEF Claim, ReturnedRow, Exists
  <2>3. CASE ~row.enabled
    BY <1>3, <2>1, <2>3 DEF Claim, ReturnedRow, Exists
  <2>4. QED BY <2>1, <2>2, <2>3
<1>4. CASE Poll
  <2>1. row.enabled
    BY <1>4 DEF Poll, Store!get_active
  <2>2. Exists
    BY <2>1 DEF Exists, NoRow
  <2>3. QED BY <1>4, <2>1, <2>2 DEF Poll, storeVars, Exists
<1>5. ASSUME UNCHANGED <<row, claimed, late>>,
             pc' # "dispatch" \/ pc = "dispatch",
             \/ pc' \notin {"tasks", "start", "batch", "check"}
             \/ UNCHANGED snap /\ pc \in {"tasks", "start", "batch", "check"}
      PROVE  ClaimInv'
  BY <1>5 DEF Exists
<1>6. ASSUME NEW c \in Clients, NEW data \in Patches, ReadForPatch(c, data)
      PROVE  ClaimInv'
  BY <1>6 DEF ReadForPatch, storeVars, copyVars, Exists
<1>7. ASSUME NEW c \in Clients, AbandonPatch(c)
      PROVE  ClaimInv'
  BY <1>7 DEF AbandonPatch, storeVars, copyVars, Exists
<1>8. ASSUME NEW t \in TaskRows, InsertTask(t[1], t[2])
      PROVE  ClaimInv'
  BY <1>8 DEF InsertTask, copyVars, Exists
<1>9. CASE ClearTasks
  BY <1>9 DEF ClearTasks, copyVars, Exists
<1>10. CASE Request
  BY <1>10 DEF Request, copyVars, Exists
<1>11. CASE Recover
  BY <1>5, <1>11 DEF Recover
<1>12. CASE DispatchPause
  BY <1>5, <1>12 DEF DispatchPause, Leave
<1>13. CASE ClaimLost
  BY <1>5, <1>13 DEF ClaimLost, Leave, storeVars
<1>14. CASE ReadTasks
  BY <1>5, <1>14 DEF ReadTasks, storeVars
<1>15. ASSUME RetryOrGiveUp, pc \in {"start", "batch", "check"}, UNCHANGED <<row, claimed, late>>
       PROVE  ClaimInv'
  <2>1. CASE attempt < MaxAttempts
    BY <1>5, <1>15, <2>1 DEF RetryOrGiveUp, copyVars
  <2>2. CASE ~(attempt < MaxAttempts)
    BY <1>5, <1>15, <2>2 DEF RetryOrGiveUp, Leave
  <2>3. QED BY <2>1, <2>2
<1>16. CASE StartBody
  BY <1>5, <1>16 DEF StartBody, storeVars, copyVars
<1>17. CASE StartRaises
  BY <1>15, <1>17 DEF StartRaises, Fail
<1>18. CASE Batch
  BY <1>5, <1>18 DEF Batch, storeVars, copyVars
<1>19. CASE BatchRaises
  BY <1>15, <1>19 DEF BatchRaises, Fail
<1>20. CASE Drained
  BY <1>5, <1>20 DEF Drained, Leave
<1>21. CASE Check
  BY <1>5, <1>21 DEF Check, Leave, copyVars
<1>22. CASE Error
  BY <1>15, <1>22 DEF Error
<1>23. CASE Crash
  BY <1>5, <1>23 DEF Crash, Leave, storeVars
<1>24. CASE UNCHANGED configVars
  BY <1>24 DEF configVars, storeVars, copyVars, Exists
<1>25. IdleTick => UNCHANGED configVars
  BY DEF IdleTick
<1>26. QED
  BY <1>1, <1>2, <1>3, <1>4, <1>6, <1>7, <1>8, <1>9, <1>10, <1>11, <1>12, <1>13, <1>14,
     <1>16, <1>17, <1>18, <1>19, <1>20, <1>21, <1>22, <1>23, <1>24, <1>25
  DEF ConfigNext

(***************************************************************************)
(* The checkpoint.  While all batches were made by one load, the rows of   *)
(* its query up to the checkpoint are in its target.                       *)
(***************************************************************************)
Covers(l) ==
  \A r \in Selects[l.query] : Rank[l.key][r] <= state => sink[l.target][r] = l.through

CheckpointInv ==
  /\ loads = {} => state = 0
  /\ \A l \in loads : l.query \in DOMAIN Selects /\ l.target \in Targets
  /\ \A l \in loads : loads = {l} /\ l.key \in DOMAIN Rank => Covers(l)
  /\ pc \in {"batch", "check"} /\ Incremental => cursor = state

LEMMA RankFacts ==
  ASSUME NEW q \in DOMAIN Selects, NEW key \in DOMAIN Rank, NEW r \in Selects[q]
  PROVE  r \in AllRows /\ Rank[key][r] \in Nat /\ ~(Rank[key][r] <= 0)
<1>1. r \in AllRows
  BY DEF AllRows
<1>2. \A n \in Nat \ {0} : n \in Nat /\ ~(n <= 0)
  OBVIOUS
<1>3. QED BY <1>1, <1>2, RankAssumption

\* A batch extends what its load covers by the row it wrote.
LEMMA BatchCovers ==
  ASSUME ConfigTyped, CheckpointInv, Batch, loads \subseteq {load}, load.key \in DOMAIN Rank
  PROVE  \A r \in Selects[load.query] :
           Rank[load.key][r] <= state' => sink'[load.target][r] = load.through
<1>1. /\ load.query \in DOMAIN Selects /\ load.target \in Targets
      /\ NextRow \in Unread /\ NextRow \in AllRows
      /\ Incremental => \A s \in Unread : Rank[load.key][NextRow] <= Rank[load.key][s]
  BY NextRowFacts DEF Batch
<1>2. SUFFICES ASSUME NEW r \in Selects[load.query], Rank[load.key][r] <= state'
               PROVE  sink'[load.target][r] = load.through
  OBVIOUS
<1>3. /\ r \in AllRows /\ Rank[load.key][r] \in Nat /\ ~(Rank[load.key][r] <= 0)
      /\ Rank[load.key][NextRow] \in Nat /\ state \in Nat
  BY <1>1, RankFacts, RankAssumption DEF ConfigTyped, ConfigTypeOK
<1>4. /\ DOMAIN sink = Targets /\ DOMAIN sink[load.target] = AllRows
      /\ sink' = [sink EXCEPT ![load.target][NextRow] = load.through]
  BY <1>1 DEF Batch, WriterTarget, ConfigTyped, SinkTyped
<1>5. CASE r = NextRow
  BY <1>1, <1>3, <1>4, <1>5
<1>6. CASE r # NextRow
  <2>1. sink'[load.target][r] = sink[load.target][r]
    BY <1>1, <1>3, <1>4, <1>6
  <2>2. Rank[load.key][r] <= state
    <3>1. CASE Incremental
      <4>1. cursor = state /\ state' = Rank[load.key][NextRow]
        BY <3>1 DEF Batch, NewCursor, CheckpointInv
      <4>2. Rank[load.key][r] # Rank[load.key][NextRow]
        BY <1>1, <1>3, <1>6, RankAssumption
      <4>3. ~(Rank[load.key][NextRow] <= Rank[load.key][r])
        BY <1>2, <1>3, <4>1, <4>2
      <4>4. r \notin Unread
        BY <1>1, <3>1, <4>3
      <4>5. ~(Rank[load.key][r] > cursor)
        BY <3>1, <4>4 DEF Unread
      <4>6. QED BY <1>3, <4>1, <4>5
    <3>2. CASE ~Incremental
      BY <1>2, <3>2 DEF Batch
    <3>3. QED BY <3>1, <3>2
  <2>3. CASE loads = {}
    BY <1>3, <2>2, <2>3 DEF CheckpointInv
  <2>4. CASE loads = {load}
    BY <2>1, <2>2, <2>4 DEF CheckpointInv, Covers
  <2>5. QED BY <2>3, <2>4
<1>7. QED BY <1>5, <1>6

LEMMA CheckpointInvStep ==
  ASSUME ConfigTyped, CheckpointInv, [ConfigNext]_configVars
  PROVE  CheckpointInv'
<1>1. ASSUME UNCHANGED dataVars,
             \/ pc' \notin {"batch", "check"}
             \/ pc \in {"batch", "check"} /\ UNCHANGED <<snap, cursor>>
      PROVE  CheckpointInv'
  BY <1>1 DEF CheckpointInv, Covers, dataVars, Incremental
<1>2. CASE Batch
  <2>1. /\ load.query \in DOMAIN Selects /\ load.target \in Targets
        /\ loads' = loads \cup {load} /\ snap' = snap
    BY <1>2, NextRowFacts DEF Batch, copyVars
  <2>2. ASSUME NEW l \in loads', loads' = {l}, l.key \in DOMAIN Rank
        PROVE  \A r \in Selects[l.query] :
                 Rank[l.key][r] <= state' => sink'[l.target][r] = l.through
    <3>1. l = load /\ loads \subseteq {load}
      BY <2>1, <2>2
    <3>2. QED BY <1>2, <2>2, <3>1, BatchCovers
  <2>3. Incremental' => cursor' = state'
    BY <1>2, <2>1 DEF Batch, Incremental
  <2>4. \A l \in loads' : l.query \in DOMAIN Selects /\ l.target \in Targets
    BY <2>1 DEF CheckpointInv
  <2>5. QED BY <2>1, <2>2, <2>3, <2>4 DEF CheckpointInv, Covers
<1>3. CASE StartBody
  <2>1. UNCHANGED dataVars /\ snap' = snap /\ (Incremental => cursor' = state)
    BY <1>3 DEF StartBody, copyVars, Incremental
  <2>2. QED BY <2>1 DEF CheckpointInv, Covers, dataVars, Incremental
<1>4. ASSUME NEW p \in Creations, Create(p)
      PROVE  CheckpointInv'
  BY <1>1, <1>4 DEF Create, copyVars, attemptVars
<1>5. ASSUME NEW c \in Clients, NEW data \in Patches, ReadForPatch(c, data)
      PROVE  CheckpointInv'
  BY <1>1, <1>5 DEF ReadForPatch, copyVars, attemptVars
<1>6. ASSUME NEW c \in Clients, CommitPatch(c) \/ AbandonPatch(c)
      PROVE  CheckpointInv'
  BY <1>1, <1>6 DEF CommitPatch, AbandonPatch, copyVars, attemptVars
<1>7. ASSUME NEW t \in TaskRows, InsertTask(t[1], t[2])
      PROVE  CheckpointInv'
  BY <1>1, <1>7 DEF InsertTask, copyVars, attemptVars
<1>8. CASE ClearTasks \/ Request
  BY <1>1, <1>8 DEF ClearTasks, Request, copyVars, attemptVars
<1>9. CASE Recover \/ Poll \/ DispatchPause \/ Claim \/ ClaimLost \/ ReadTasks
  BY <1>1, <1>9 DEF Recover, Poll, DispatchPause, Claim, ClaimLost, ReadTasks, Leave
<1>10. ASSUME RetryOrGiveUp, UNCHANGED dataVars
       PROVE  CheckpointInv'
  <2>1. pc' \notin {"batch", "check"}
    BY <1>10 DEF RetryOrGiveUp, Leave
  <2>2. QED BY <1>1, <1>10, <2>1
<1>11. CASE StartRaises \/ BatchRaises \/ Error
  BY <1>10, <1>11 DEF StartRaises, BatchRaises, Error, Fail
<1>12. CASE Drained \/ Crash
  BY <1>1, <1>12 DEF Drained, Crash, Leave
<1>13. CASE Check
  BY <1>1, <1>13 DEF Check, Leave, copyVars, attemptVars
<1>14. CASE UNCHANGED configVars
  BY <1>1, <1>14 DEF configVars, copyVars, attemptVars
<1>15. IdleTick => UNCHANGED configVars
  BY DEF IdleTick
<1>16. QED
  BY <1>2, <1>3, <1>4, <1>5, <1>6, <1>7, <1>8, <1>9, <1>11, <1>12, <1>13, <1>14, <1>15
  DEF ConfigNext

(***************************************************************************)
(* The theorems.                                                           *)
(***************************************************************************)

(* Types: whatever PATCHes overlap, the row stays one the table can hold.  *)
THEOREM ConfigTypeCorrect == ConfigSpec => []ConfigTypeOK
<1>1. ConfigTyped => ConfigTypeOK
  BY DEF ConfigTyped
<1>2. QED BY <1>1, ConfigTypedInit, ConfigTypedStep, PTL DEF ConfigSpec

(* A configuration stays valid under any number of PATCHes by any number   *)
(* of handlers until one commits over a row it has not read.               *)
THEOREM ConfigIsValid == ConfigSpec => []ConfigHolds
<1>1. ConfigInit => PatchInv
  BY DEF ConfigInit, PatchInv, ConfigHolds, EditsValid, Exists
<1>2. ConfigTyped /\ PatchInv /\ [ConfigNext]_configVars => ConfigTyped' /\ PatchInv'
  BY ConfigTypedStep, PatchInvStep
<1>3. PatchInv => ConfigHolds
  BY DEF PatchInv
<1>4. QED BY <1>1, <1>2, <1>3, ConfigTypedInit, PTL DEF ConfigSpec

LEMMA ClaimInvHolds == ConfigSpec => []ClaimInv
<1>1. ConfigInit => ClaimInv
  BY DEF ConfigInit, ClaimInv, DisabledClaimedOnce, Exists
<1>2. ConfigTyped /\ ClaimInv /\ [ConfigNext]_configVars => ConfigTyped' /\ ClaimInv'
  BY ConfigTypedStep, ClaimInvStep
<1>3. QED BY <1>1, <1>2, ConfigTypedInit, PTL DEF ConfigSpec

(* Whatever the interleaving of PATCHes, task statements, retries and      *)
(* faults, an execution only writes rows of the query, into the target and *)
(* through the transforms, of the configuration it claimed.                *)
THEOREM ClaimedIsWritten == ConfigSpec => WritesAsClaimed
<1> DEFINE l == LoadOf(claimed, plan)
<1>1. ASSUME ConfigTyped, ClaimInv, ConfigNext, NEW t \in Targets, NEW r \in AllRows,
             sink'[t][r] # sink[t][r]
      PROVE  /\ t = l.target /\ sink'[t][r] = l.through
             /\ l.query # Null /\ r \in Selects[l.query]
  <2>1. Batch
    BY <1>1, SinkKept DEF dataVars
  <2>2. load = l
    BY <1>1, <2>1 DEF Batch, ClaimInv, load
  <2>3. /\ load.query \in DOMAIN Selects /\ load.target \in Targets
        /\ NextRow \in Unread /\ NextRow \in AllRows
    BY <1>1, <2>1, NextRowFacts DEF Batch
  <2>4. /\ DOMAIN sink = Targets /\ \A u \in Targets : DOMAIN sink[u] = AllRows
        /\ sink' = [sink EXCEPT ![load.target][NextRow] = load.through]
    BY <1>1, <2>1 DEF Batch, WriterTarget, ConfigTyped, SinkTyped
  <2>5. t = load.target /\ r = NextRow
    BY <1>1, <2>3, <2>4
  <2>6. sink'[t][r] = load.through
    BY <2>3, <2>4, <2>5
  <2>7. load.query # Null
    BY <1>1, <2>1, BodyHasQuery DEF Batch
  <2>8. r \in Selects[load.query]
    BY <2>3, <2>5 DEF Unread
  <2>9. QED BY <2>2, <2>5, <2>6, <2>7, <2>8
<1>2. ConfigTyped /\ ClaimInv /\ [ConfigNext]_configVars =>
        [LET m == LoadOf(claimed, plan) IN
           \A t \in Targets : \A r \in AllRows : sink'[t][r] # sink[t][r] =>
             /\ t = m.target /\ sink'[t][r] = m.through
             /\ m.query # Null /\ r \in Selects[m.query]]_configVars
  BY <1>1
<1>3. QED BY <1>2, ConfigTypedInit, ConfigTypedStep, ClaimInvHolds, PTL DEF ConfigSpec, WritesAsClaimed

(* Disabling a pipeline takes effect after one more claim at the latest.   *)
THEOREM DisabledIsClaimedOnce == ConfigSpec => []DisabledClaimedOnce
<1>1. ClaimInv => DisabledClaimedOnce
  BY DEF ClaimInv
<1>2. QED BY <1>1, ClaimInvHolds, PTL

(* The checkpoint covers what the configuration says, for any queries and  *)
(* keys, as long as every batch so far was made by that configuration.     *)
THEOREM CheckpointKeepsMeaning == ConfigSpec => []CoveredUnlessMoved
<1>1. ConfigInit => CheckpointInv
  BY DEF ConfigInit, CheckpointInv
<1>2. ConfigTyped /\ CheckpointInv /\ [ConfigNext]_configVars => ConfigTyped' /\ CheckpointInv'
  BY ConfigTypedStep, CheckpointInvStep
<1>3. ConfigTyped /\ CheckpointInv => CoveredUnlessMoved
  <2> DEFINE l == LoadOf(row, tasks)
  <2>1. SUFFICES ASSUME ConfigTyped, CheckpointInv, Exists, row.mode = "incremental",
                        ~RaisesAtOnce(row, tasks), loads \subseteq {l}
                 PROVE  \A r \in Selects[l.query] :
                          Rank[l.key][r] <= state => sink[l.target][r] = l.through
    BY DEF CoveredUnlessMoved
  <2>2. l.query \in DOMAIN Selects /\ l.key \in DOMAIN Rank
    BY <2>1, LoadFacts DEF ConfigTyped, ConfigTypeOK
  <2>3. CASE loads = {}
    BY <2>1, <2>2, <2>3, RankFacts DEF CheckpointInv
  <2>4. CASE loads = {l}
    BY <2>1, <2>2, <2>4 DEF CheckpointInv, Covers
  <2>5. QED BY <2>1, <2>3, <2>4
<1>4. QED BY <1>1, <1>2, <1>3, ConfigTypedInit, PTL DEF ConfigSpec

(* No load ever lacks its query or a transform, and none goes to a target  *)
(* that is not supported, whatever PATCHes and task statements were made.  *)
THEOREM OnlySupportedLoads == ConfigSpec => []LoadsSupported
<1>1. ConfigInit => LoadsSupported
  BY DEF ConfigInit, LoadsSupported
<1>2. ASSUME ConfigTyped, LoadsSupported, Batch
      PROVE  LoadsSupported'
  <2>1. /\ EtlPipeline(snap) /\ IsPlan(plan) /\ ~RaisesAtOnce(snap, plan)
        /\ loads' = loads \cup {load} /\ is_allowed_target(load.target)
    BY <1>2 DEF Batch, WriterAccepts, ConfigTyped, CopiesTyped
  <2>2. load.query # Null /\ Null \notin Range(load.through)
    BY <1>2, BodyHasQuery DEF Batch
  <2>3. QED BY <1>2, <2>1, <2>2 DEF LoadsSupported
<1>3. [ConfigNext]_configVars => Batch \/ UNCHANGED loads
  BY SinkKept DEF dataVars
<1>4. ConfigTyped /\ LoadsSupported /\ [ConfigNext]_configVars => LoadsSupported'
  BY <1>2, <1>3 DEF LoadsSupported
<1>5. QED BY <1>1, <1>4, ConfigTypedInit, ConfigTypedStep, PTL DEF ConfigSpec

=============================================================================
