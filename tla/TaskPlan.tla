------------------------------ MODULE TaskPlan ------------------------------
(***************************************************************************)
(* What a configuration means: which targets are supported, when a plan of *)
(* tasks is well formed (validate_tasks_v1), which body an attempt runs,   *)
(* and when that body raises before it reads anything.                     *)
(*                                                                         *)
(* A configuration is the row of etl_pipelines as a record of its columns. *)
(* The plan is a function from order_index to a task: the table's unique   *)
(* constraint makes the indices of a pipeline distinct.  A query, a module *)
(* or the body of a task is a name, or Null for what the code treats as    *)
(* NULL there, the empty and the blank text.  A target is the kind of its  *)
(* sink, which its prefix gives, and the name of the table or index; the   *)
(* target of a task may be NULL or, which is not the same, empty.          *)
(***************************************************************************)
EXTENDS Naturals, FiniteSetsExt

CONSTANTS
  Null,
  Empty,                   \* the empty text as the target of a task
  ALLOWED_TARGET_TABLES,   \* names of the tables that may be written
  ALLOWED_ES_INDEXES       \* names of the indices that may be written

is_allowed_target(target) ==
  /\ target # Null
  /\ target.name \in CASE target.sink = "postgres"      -> ALLOWED_TARGET_TABLES
                       [] target.sink = "elasticsearch" -> ALLOWED_ES_INDEXES

NoTasks == << >>

FirstTask(tasks) == Min(DOMAIN tasks)
LastTask(tasks) == Max(DOMAIN tasks)

\* tasks_sorted[-1].target_table or p.target_table
FinalTarget(tasks, target) ==
  LET last == tasks[LastTask(tasks)].target_table
  IN  IF last \in {Null, Empty} THEN target ELSE last

ValidTasks(tasks, target) ==
  /\ \A i \in DOMAIN tasks :
       /\ tasks[i].body # Null
       /\ tasks[i].task_type = IF i = FirstTask(tasks) THEN "SQL" ELSE "PYTHON"
       /\ i # LastTask(tasks) => tasks[i].target_table = Null
  /\ is_allowed_target(FinalTarget(tasks, target))

\* tasks[n] in the order of order_index, counted from 0.
At(tasks, n) == CHOOSE i \in DOMAIN tasks : Cardinality({j \in DOMAIN tasks : j < i}) = n

\* load_python_transform of tasks[1:], in their order.
Steps(tasks) == [n \in 1 .. Cardinality(DOMAIN tasks) - 1 |-> tasks[At(tasks, n)].body]

\* resolve_transformer: python_module, or the module an old description names.
Transforms(p) ==
  IF p.type # "PYTHON" THEN << >>
  ELSE <<IF p.python_module # Null THEN p.python_module ELSE p.description>>

\* What the chosen body reads, applies and writes.
LoadOf(p, tasks) ==
  IF tasks = NoTasks
    THEN [query |-> p.source_query, key |-> p.incremental_key,
          through |-> Transforms(p), target |-> p.target_table]
    ELSE [query |-> tasks[FirstTask(tasks)].body, key |-> p.incremental_key,
          through |-> Steps(tasks), target |-> FinalTarget(tasks, p.target_table)]

\* incremental_id_key, or its default.
IdKey(p) == IF p.incremental_id_key # Null THEN p.incremental_id_key ELSE "film_id"

\* _run_body and the first lines of each body.
RaisesAtOnce(p, tasks) ==
  \/ p.mode = "incremental" /\ p.incremental_key = Null
  \/ IF tasks = NoTasks
       THEN p.source_query = Null \/ Null \in Range(Transforms(p))
       ELSE ~ValidTasks(tasks, p.target_table)

=============================================================================
