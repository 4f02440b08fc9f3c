------------------------------ MODULE FullLoad ------------------------------
(***************************************************************************)
(* The body of a full run: run_sql_full_pipeline and run_tasks_full.  Both *)
(* page through the source query with LIMIT and OFFSET, from offset 0 at   *)
(* every attempt, and commit each batch; they differ in how the offset     *)
(* advances.                                                               *)
(*                                                                         *)
(* README.md requires a deterministic ORDER BY of the source query; here   *)
(* it orders its rows by an id that never changes, which is more.  A row   *)
(* is its id and the version it is in; the sink holds, for each id, the    *)
(* version it was given.  A PostgreSQL sink is written in the transaction  *)
(* of the batch; Elasticsearch at once, and a failing bulk request may     *)
(* have applied a part of it.                                              *)
(***************************************************************************)
EXTENDS Naturals, FiniteSets

CONSTANTS
  Ids,           \* ids a source row may have; the source query's order
  Dropped,       \* ids whose rows the transforms filter out
  BatchSize,     \* batch_size of the pipeline
  MaxAttempts,   \* PipelineDispatcher.max_attempts
  Sinks,         \* kinds of sink to consider, of "postgres", "elasticsearch"
  Loops,         \* bodies to consider, of "sql", "tasks"
  MaxVersion,    \* bound: versions of a row
  MaxFaults      \* bound: failed batches and lost runs

ASSUME FullLoadAssumption ==
  /\ Ids \subseteq Nat
  /\ Dropped \subseteq Ids
  /\ BatchSize \in Nat \ {0}
  /\ MaxAttempts \in Nat \ {0}
  /\ Sinks \subseteq {"postgres", "elasticsearch"}
  /\ Loops \subseteq {"sql", "tasks"}
  /\ MaxVersion \in Nat \ {0} /\ MaxFaults \in Nat

VARIABLES
  source,    \* source[i]: version of row i, 0 if there is no such row
  target,    \* the kind of sink
  loop,      \* which of the two bodies
  sink,      \* sink[i]: the version of row i in the target, 0 if none
  pc,        \* where the run is
  offset,    \* offset of the next batch
  batch,     \* the rows read and not yet committed
  attempt,   \* the dispatcher's attempt
  owed,      \* history: rows this attempt is to load as they now are
  faults

localVars == <<pc, offset, batch, attempt>>
fullVars == <<source, target, loop, sink, pc, offset, batch, attempt, owed, faults>>

Row == [id: Ids, version: 1 .. MaxVersion]

Present == {i \in Ids : source[i] # 0}

\* How many rows the query returns before row i.
Rank(i) == Cardinality({j \in Present : j < i})

FullTypeOK ==
  /\ source \in [Ids -> 0 .. MaxVersion]
  /\ target \in Sinks /\ loop \in Loops
  /\ sink \in [Ids -> 0 .. MaxVersion]
  /\ pc \in {"idle", "read", "write", "commit", "check"}
  /\ offset \in Nat
  /\ batch \subseteq Row
  /\ attempt \in 0 .. MaxAttempts
  /\ owed \subseteq Present
  /\ faults \in 0 .. MaxFaults

FullInit ==
  /\ source \in [Ids -> {0, 1}]
  /\ target \in Sinks /\ loop \in Loops
  /\ sink = [i \in Ids |-> 0]
  /\ pc = "idle"
  /\ offset = 0
  /\ batch = {}
  /\ attempt = 0
  /\ owed = {}
  /\ faults = 0

(***************************************************************************)
(* The source is written by others.  README.md's limitations speak of      *)
(* skips on a mutable source; `owed` says which rows none may befall.      *)
(***************************************************************************)

\* Positions before this one are behind the attempt.  run_tasks_full leaves
\* a whole page behind, run_sql_full_pipeline the rows it fetched.
Frontier ==
  CASE batch = {} -> offset
    [] batch # {} /\ loop = "sql" -> offset + Cardinality(batch)
    [] batch # {} /\ loop = "tasks" -> offset + BatchSize

\* A row behind the frontier need not be read again; one ahead will be.
Update(i) ==
  /\ source[i] \in 1 .. MaxVersion - 1
  /\ source' = [source EXCEPT ![i] = @ + 1]
  /\ owed' = IF Rank(i) < Frontier THEN owed \ {i} ELSE owed
  /\ UNCHANGED <<target, loop, sink, localVars, faults>>

\* A row that appears ahead of the frontier will be read.
Insert(i) ==
  /\ source[i] = 0
  /\ source' = [source EXCEPT ![i] = 1]
  /\ owed' = IF pc # "idle" /\ Rank(i) >= Frontier THEN owed \cup {i} ELSE owed
  /\ UNCHANGED <<target, loop, sink, localVars, faults>>

\* A row that goes behind the frontier draws the rest one position down.
Delete(i) ==
  /\ source[i] # 0
  /\ source' = [source EXCEPT ![i] = 0]
  /\ owed' = IF Rank(i) < Frontier THEN {} ELSE owed \ {i}
  /\ UNCHANGED <<target, loop, sink, localVars, faults>>

(***************************************************************************)
(* The run.                                                                *)
(***************************************************************************)

Leave ==
  /\ pc' = "idle"
  /\ offset' = 0
  /\ batch' = {}
  /\ attempt' = 0
  /\ owed' = {}

\* A claim: attempt 1, offset 0.
Begin ==
  /\ pc = "idle"
  /\ pc' = "read"
  /\ attempt' = 1
  /\ owed' = Present
  /\ UNCHANGED <<source, target, loop, sink, offset, batch, faults>>

\* LIMIT batch_size OFFSET offset.
Page == {[id |-> i, version |-> source[i]] :
           i \in {j \in Present : Rank(j) >= offset /\ Rank(j) < offset + BatchSize}}

ReadRows ==
  /\ pc = "read"
  /\ Page # {}
  /\ batch' = Page
  /\ pc' = "write"
  /\ UNCHANGED <<source, target, loop, sink, offset, attempt, owed, faults>>

ReadEof ==
  /\ pc = "read"
  /\ Page = {}
  /\ Leave
  /\ UNCHANGED <<source, target, loop, sink, faults>>

Transformed(rows) == {r \in rows : r.id \notin Dropped}

\* Upsert by id, last writer wins.
Upserted(rows) ==
  [i \in Ids |-> IF \E r \in rows : r.id = i
                   THEN (CHOOSE r \in rows : r.id = i).version ELSE sink[i]]

\* PostgreSQL: invisible until the commit.  Elasticsearch: done.
Write ==
  /\ pc = "write"
  /\ sink' = IF target = "elasticsearch" THEN Upserted(Transformed(batch)) ELSE sink
  /\ pc' = "commit"
  /\ UNCHANGED <<source, target, loop, offset, batch, attempt, owed, faults>>

\* Mutant: both bodies step over a whole page.
NextOffsetByPage == offset + BatchSize

\* Mutant: the offset follows the rows that were written.
NextOffsetByWritten == offset + Cardinality(Transformed(batch))

\* run_sql_full_pipeline steps over the rows it fetched, run_tasks_full over
\* a whole page.
NextOffset == offset + IF loop = "sql" THEN Cardinality(batch) ELSE BatchSize

\* run_tasks_full moves its offset after the pause check, which reads none.
Commit ==
  /\ pc = "commit"
  /\ sink' = IF target = "postgres" THEN Upserted(Transformed(batch)) ELSE sink
  /\ offset' = NextOffset
  /\ batch' = {}
  /\ pc' = "check"
  /\ UNCHANGED <<source, target, loop, attempt, owed, faults>>

\* _pause_if_requested: nothing was asked for.
Continue ==
  /\ pc = "check"
  /\ pc' = "read"
  /\ UNCHANGED <<source, target, loop, sink, offset, batch, attempt, owed, faults>>

\* _pause_if_requested: the run ends here; the next one starts from 0.
StopForPause ==
  /\ pc = "check"
  /\ Leave
  /\ UNCHANGED <<source, target, loop, sink, faults>>

\* Mutant: one attempt too many.
RetryOnceMore ==
  IF attempt <= MaxAttempts
    THEN /\ attempt' = attempt + 1
         /\ pc' = "read"
         /\ offset' = 0
         /\ batch' = {}
         /\ owed' = Present
    ELSE Leave

\* rollback, then the next attempt, from offset 0.
Retry ==
  IF attempt < MaxAttempts
    THEN /\ attempt' = attempt + 1
         /\ pc' = "read"
         /\ offset' = 0
         /\ batch' = {}
         /\ owed' = Present
    ELSE Leave

Fault == faults < MaxFaults /\ faults' = faults + 1

\* What a bulk request leaves behind when it fails: any part of it.
PartlyWritten ==
  \/ UNCHANGED sink
  \/ /\ pc = "write" /\ target = "elasticsearch"
     /\ \E part \in SUBSET Transformed(batch) : sink' = Upserted(part)

\* Any statement, transform or request fails.
Error ==
  /\ Fault
  /\ pc # "idle"
  /\ PartlyWritten
  /\ Retry
  /\ UNCHANGED <<source, target, loop>>

\* The process or its connection is lost; nobody rolls back, nobody retries.
Lost ==
  /\ Fault
  /\ pc # "idle"
  /\ PartlyWritten
  /\ Leave
  /\ UNCHANGED <<source, target, loop>>

Work == ReadRows \/ ReadEof \/ Write \/ Commit \/ Continue \/ StopForPause

FullNext ==
  \/ \E i \in Ids : Update(i) \/ Insert(i) \/ Delete(i)
  \/ Begin \/ Work \/ Error \/ Lost

FullSpec == FullInit /\ [][FullNext]_fullVars

FairFullSpec == FullSpec /\ WF_fullVars(Work)

(***************************************************************************)
(* Properties.                                                             *)
(***************************************************************************)

(* A run that reaches the end of the source has loaded, in its present     *)
(* version, every row that was there all along and every row that appeared *)
(* ahead of it - unless a row behind it was deleted, the one change that   *)
(* makes LIMIT/OFFSET skip.                                                *)
OwedRowsLoaded ==
  [][ReadEof => \A i \in owed \ Dropped : sink[i] = source[i]]_fullVars

\* Positions the source could still fill beyond the offset.
Ahead == IF offset < Cardinality(Ids) THEN Cardinality(Ids) - offset ELSE 0

\* Where the run is on its way from one move of the offset to the next.
Stage ==
  CASE pc = "check" -> 4 [] pc = "read" -> 3 [] pc = "write" -> 2 [] OTHER -> 1

\* Fewer attempts left, or fewer positions ahead, or a later stage.
Closer ==
  \/ attempt < attempt'
  \/ attempt' = attempt /\ Ahead' < Ahead
  \/ attempt' = attempt /\ Ahead' = Ahead /\ Stage' < Stage

(* A full run never goes round in circles: every step of it, failed ones   *)
(* included, ends it or brings its end closer, whatever is inserted and    *)
(* deleted meanwhile; a page that is not empty moves the offset.           *)
FullLoadAdvances ==
  [][pc # "idle" /\ pc' # "idle" =>
       Closer \/ (UNCHANGED localVars /\ source' # source)]_fullVars

(* Every run ends, even when the transforms drop whole batches: the offset *)
(* follows the rows read, not the rows written.                            *)
FullLoadEnds == pc # "idle" ~> pc = "idle"

=============================================================================
