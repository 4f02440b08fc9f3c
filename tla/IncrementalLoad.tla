--------------------------- MODULE IncrementalLoad --------------------------
(***************************************************************************)
(* The body of an incremental run: run_sql_incremental_pipeline and        *)
(* run_tasks_incremental, which share one algorithm.  A batch is the next  *)
(* batch_size rows above the cursor in the order of (incremental_key,      *)
(* incremental_id_key); it is transformed, written to the sink, and the    *)
(* key of its last source row is committed to etl_state.                   *)
(*                                                                         *)
(* A row is its id and its time of last change; a sink holds, for each id, *)
(* the time of the version it was given.  A PostgreSQL sink is written in  *)
(* the transaction that commits the checkpoint; Elasticsearch is written   *)
(* at once, and a failing bulk request may have applied a part of it.  The *)
(* first write of a body looks whether the index is there and creates it   *)
(* if not, in two requests.                                                *)
(*                                                                         *)
(* The checkpoint is written through SQLAlchemy's session, whose UPDATE    *)
(* names only the columns in which the new value differs from the one the  *)
(* session has seen.                                                       *)
(***************************************************************************)
EXTENDS Naturals, FiniteSets

CONSTANTS
  Executors,     \* executions of the one pipeline at a time (one per runner)
  Ids,           \* values of the incremental id key
  Transactions,  \* sets of rows that one source transaction may change
  Dropped,       \* ids whose rows the transforms filter out
  BatchSize,     \* batch_size of the pipeline
  MaxAttempts,   \* PipelineDispatcher.max_attempts
  Sinks,         \* kinds of sink to consider, of "postgres", "elasticsearch"
  MaxTime,       \* bound: the source's clock
  MaxFaults      \* bound: failed batches and lost executors

ASSUME LoadAssumption ==
  /\ Ids \subseteq Nat \ {0}
  /\ \E n \in Ids \cup {0} : \A i \in Ids : i <= n
  /\ Transactions \subseteq SUBSET Ids
  /\ Dropped \subseteq Ids
  /\ BatchSize \in Nat \ {0}
  /\ MaxAttempts \in Nat \ {0}
  /\ Sinks \subseteq {"postgres", "elasticsearch"}
  /\ MaxTime \in Nat /\ MaxFaults \in Nat

VARIABLES
  source,    \* source[i]: time of the last change of row i, 0 if there is none
  clock,     \* time of the latest change
  target,    \* the kind of sink
  sink,      \* sink[i]: the version of row i in the target, 0 if none
  index,     \* whether the index of an Elasticsearch target exists
  state,     \* the row of etl_state: key of the last processed source row
  pc,        \* pc[e]: where execution e is
  cursor,    \* cursor[e]: last_ts, last_id
  batch,     \* batch[e]: the source rows read and not yet committed
  stateObj,  \* stateObj[e]: the session's EtlState: none; new; fetched by
             \* upsert, until its commit; held by the body's local
  seen,      \* seen[e]: the columns of that object as last read or written
  ensured,   \* ensured[e]: the writer knows that the index exists (_ensured)
  attempt,   \* attempt[e]
  faults

sourceVars == <<source, clock>>
sinkVars == <<target, sink, index>>
localVars == <<pc, cursor, batch, stateObj, seen, ensured, attempt>>
loadVars == <<source, clock, target, sink, index, state, pc, cursor, batch, stateObj,
              seen, ensured, attempt, faults>>

Key == [ts: 0 .. MaxTime, id: Ids \cup {0}]

\* No checkpoint: below every row.
NoKey == [ts |-> 0, id |-> 0]

Below(k, l) ==
  \/ k.ts < l.ts
  \/ k.ts = l.ts /\ k.id < l.id

KeyOf(i) == [ts |-> source[i], id |-> i]

\* Rows as the query returns them.
Rows == {KeyOf(i) : i \in {j \in Ids : source[j] # 0}}

LoadTypeOK ==
  /\ source \in [Ids -> 0 .. MaxTime]
  /\ clock \in 0 .. MaxTime
  /\ target \in Sinks
  /\ sink \in [Ids -> 0 .. MaxTime]
  /\ index \in BOOLEAN
  /\ state \in Key
  /\ pc \in [Executors ->
             {"idle", "load", "read", "write", "create", "upsert", "commit", "check"}]
  /\ cursor \in [Executors -> Key]
  /\ batch \in [Executors -> SUBSET Key]
  /\ stateObj \in [Executors -> {"none", "new", "fetched", "held"}]
  /\ seen \in [Executors -> Key]
  /\ ensured \in [Executors -> BOOLEAN]
  /\ attempt \in [Executors -> 0 .. MaxAttempts]
  /\ faults \in 0 .. MaxFaults

LoadInit ==
  /\ source = [i \in Ids |-> 0]
  /\ clock = 0
  /\ target \in Sinks
  /\ sink = [i \in Ids |-> 0]
  /\ index = FALSE
  /\ state = NoKey
  /\ pc = [e \in Executors |-> "idle"]
  /\ cursor = [e \in Executors |-> NoKey]
  /\ batch = [e \in Executors |-> {}]
  /\ stateObj = [e \in Executors |-> "none"]
  /\ seen = [e \in Executors |-> NoKey]
  /\ ensured = [e \in Executors |-> FALSE]
  /\ attempt = [e \in Executors |-> 0]
  /\ faults = 0

(***************************************************************************)
(* The source is written by others: a transaction changes some rows and    *)
(* gives them all its time.  README.md's contract makes that key monotonic *)
(* and here it is strictly so: what commits later carries a later time.    *)
(***************************************************************************)
Change(ids) ==
  /\ ids # {}
  /\ clock < MaxTime
  /\ clock' = clock + 1
  /\ source' = [i \in Ids |-> IF i \in ids THEN clock' ELSE source[i]]
  /\ UNCHANGED <<sinkVars, state, localVars, faults>>

Goto(e, label) == pc' = [pc EXCEPT ![e] = label]

\* Execution e is over: its session is closed and its locals are gone.
Leave(e) ==
  /\ Goto(e, "idle")
  /\ cursor' = [cursor EXCEPT ![e] = NoKey]
  /\ batch' = [batch EXCEPT ![e] = {}]
  /\ stateObj' = [stateObj EXCEPT ![e] = "none"]
  /\ seen' = [seen EXCEPT ![e] = NoKey]
  /\ ensured' = [ensured EXCEPT ![e] = FALSE]
  /\ attempt' = [attempt EXCEPT ![e] = 0]

\* A claim: a fresh session, attempt 1.
Begin(e) ==
  /\ pc[e] = "idle"
  /\ attempt' = [attempt EXCEPT ![e] = 1]
  /\ Goto(e, "load")
  /\ UNCHANGED <<sourceVars, sinkVars, state, cursor, batch, stateObj, seen, ensured,
                 faults>>

\* state_repo.get: the body's local keeps the object it finds alive.
Load(e) ==
  /\ pc[e] = "load"
  /\ cursor' = [cursor EXCEPT ![e] = state]
  /\ stateObj' = [stateObj EXCEPT ![e] = IF state = NoKey THEN "none" ELSE "held"]
  /\ seen' = [seen EXCEPT ![e] = state]
  /\ Goto(e, "read")
  /\ UNCHANGED <<sourceVars, sinkVars, state, batch, ensured, attempt, faults>>

\* Mutant: only the time is compared.
AboveTime(k) == {r \in Rows : r.ts > k.ts}

\* Mutant: the last row is read again.
AboveOrAt(k) == {r \in Rows : ~Below(r, k)}

\* Mutant: the id is compared whatever the time.
AboveEither(k) == {r \in Rows : r.ts > k.ts \/ r.id > k.id}

\* WHERE key > cursor, or no WHERE without a checkpoint.
Above(k) == {r \in Rows : Below(k, r)}

\* ORDER BY key LIMIT n: the rows with fewer than n of rs before them.
Limit(rs, n) == {r \in rs : Cardinality({q \in rs : Below(q, r)}) < n}

ReadRows(e) ==
  /\ pc[e] = "read"
  /\ Above(cursor[e]) # {}
  /\ batch' = [batch EXCEPT ![e] = Limit(Above(cursor[e]), BatchSize)]
  /\ Goto(e, "write")
  /\ UNCHANGED <<sourceVars, sinkVars, state, cursor, stateObj, seen, ensured, attempt,
                 faults>>

ReadEof(e) ==
  /\ pc[e] = "read"
  /\ Above(cursor[e]) = {}
  /\ Leave(e)
  /\ UNCHANGED <<sourceVars, sinkVars, state, faults>>

\* Mutant: the rows are written as they were read.
Untransformed(rows) == rows

Transformed(rows) == {r \in rows : r.id \notin Dropped}

\* Mutant: the target is replaced by the batch.
Replaced(rows) ==
  [i \in Ids |-> IF \E r \in rows : r.id = i
                   THEN (CHOOSE r \in rows : r.id = i).ts ELSE 0]

\* Upsert by id, last writer wins.
Upserted(rows) ==
  [i \in Ids |-> IF \E r \in rows : r.id = i
                   THEN (CHOOSE r \in rows : r.id = i).ts ELSE sink[i]]

\* The writer is about to use an index it has not ensured yet.
NeedsIndex(e) ==
  /\ target = "elasticsearch"
  /\ Transformed(batch[e]) # {}
  /\ ~ensured[e]

\* Mutant: the index is created without asking.
IndexNeverSeen == FALSE

\* indices.exists
IndexSeen == index

IndexFound(e) ==
  /\ pc[e] = "write"
  /\ NeedsIndex(e) /\ IndexSeen
  /\ ensured' = [ensured EXCEPT ![e] = TRUE]
  /\ UNCHANGED <<sourceVars, sinkVars, state, pc, cursor, batch, stateObj, seen,
                 attempt, faults>>

IndexMissing(e) ==
  /\ pc[e] = "write"
  /\ NeedsIndex(e) /\ ~IndexSeen
  /\ Goto(e, "create")
  /\ UNCHANGED <<sourceVars, sinkVars, state, cursor, batch, stateObj, seen, ensured,
                 attempt, faults>>

\* indices.create
CreateIndex(e) ==
  /\ pc[e] = "create"
  /\ ~index
  /\ index' = TRUE
  /\ ensured' = [ensured EXCEPT ![e] = TRUE]
  /\ Goto(e, "write")
  /\ UNCHANGED <<sourceVars, target, sink, state, cursor, batch, stateObj, seen,
                 attempt, faults>>

\* PostgreSQL: invisible until the commit.  Elasticsearch: done.
Write(e) ==
  /\ pc[e] = "write"
  /\ ~NeedsIndex(e)
  /\ sink' = IF target = "elasticsearch" THEN Upserted(Transformed(batch[e])) ELSE sink
  /\ Goto(e, "upsert")
  /\ UNCHANGED <<sourceVars, target, index, state, cursor, batch, stateObj, seen,
                 ensured, attempt, faults>>

\* The last row of a batch, src_rows[-1].
LastRow(rows) == CHOOSE r \in rows : \A q \in rows : ~Below(r, q)

\* state_repo.upsert: the row is looked up unless the session has the object.
Upsert(e) ==
  /\ pc[e] = "upsert"
  /\ cursor' = [cursor EXCEPT ![e] = LastRow(batch[e])]
  /\ IF stateObj[e] = "none"
       THEN /\ stateObj' = [stateObj EXCEPT ![e] = IF state = NoKey THEN "new" ELSE "fetched"]
            /\ seen' = [seen EXCEPT ![e] = state]
       ELSE UNCHANGED <<stateObj, seen>>
  /\ Goto(e, "commit")
  /\ UNCHANGED <<sourceVars, sinkVars, state, batch, ensured, attempt, faults>>

\* The UPDATE names the columns whose value differs from the one seen; an
\* INSERT names both, and neither column of a row's key is 0.
Flushed(e) ==
  [ts |-> IF cursor[e].ts = seen[e].ts THEN state.ts ELSE cursor[e].ts,
   id |-> IF cursor[e].id = seen[e].id THEN state.id ELSE cursor[e].id]

\* Sink rows and checkpoint in one transaction.  expire_on_commit is off: an
\* object still held is not read again, any other is dropped.
Commit(e) ==
  /\ pc[e] = "commit"
  /\ stateObj[e] = "new" => state = NoKey
  /\ state' = Flushed(e)
  /\ sink' = IF target = "postgres" THEN Upserted(Transformed(batch[e])) ELSE sink
  /\ batch' = [batch EXCEPT ![e] = {}]
  /\ stateObj' = [stateObj EXCEPT ![e] = IF @ = "held" THEN "held" ELSE "none"]
  /\ seen' = [seen EXCEPT ![e] = IF stateObj[e] = "held" THEN cursor[e] ELSE NoKey]
  /\ Goto(e, "check")
  /\ UNCHANGED <<sourceVars, target, index, cursor, ensured, attempt, faults>>

\* _pause_if_requested: nothing was asked for.
Continue(e) ==
  /\ pc[e] = "check"
  /\ Goto(e, "read")
  /\ UNCHANGED <<sourceVars, sinkVars, state, cursor, batch, stateObj, seen, ensured,
                 attempt, faults>>

\* _pause_if_requested: the run ends here and a later run resumes.
StopForPause(e) ==
  /\ pc[e] = "check"
  /\ Leave(e)
  /\ UNCHANGED <<sourceVars, sinkVars, state, faults>>

\* Mutant: the retry goes on with the cursor it has instead of loading it.
RetryWithCursor(e) ==
  IF attempt[e] < MaxAttempts
    THEN /\ attempt' = [attempt EXCEPT ![e] = @ + 1]
         /\ batch' = [batch EXCEPT ![e] = {}]
         /\ stateObj' = [stateObj EXCEPT ![e] = "none"]
         /\ seen' = [seen EXCEPT ![e] = NoKey]
         /\ ensured' = [ensured EXCEPT ![e] = FALSE]
         /\ Goto(e, "read")
         /\ UNCHANGED cursor
    ELSE Leave(e)

\* Mutant: the attempt is not counted.
RetryUncounted(e) ==
  /\ UNCHANGED attempt
  /\ cursor' = [cursor EXCEPT ![e] = NoKey]
  /\ batch' = [batch EXCEPT ![e] = {}]
  /\ stateObj' = [stateObj EXCEPT ![e] = "none"]
  /\ seen' = [seen EXCEPT ![e] = NoKey]
  /\ ensured' = [ensured EXCEPT ![e] = FALSE]
  /\ Goto(e, "load")

\* Mutant: one attempt too many.
RetryOnceMore(e) ==
  IF attempt[e] <= MaxAttempts
    THEN /\ attempt' = [attempt EXCEPT ![e] = @ + 1]
         /\ cursor' = [cursor EXCEPT ![e] = NoKey]
         /\ batch' = [batch EXCEPT ![e] = {}]
         /\ stateObj' = [stateObj EXCEPT ![e] = "none"]
         /\ seen' = [seen EXCEPT ![e] = NoKey]
         /\ ensured' = [ensured EXCEPT ![e] = FALSE]
         /\ Goto(e, "load")
    ELSE Leave(e)

\* rollback, which also expires the session's objects, then the next attempt.
Retry(e) ==
  IF attempt[e] < MaxAttempts
    THEN /\ attempt' = [attempt EXCEPT ![e] = @ + 1]
         /\ cursor' = [cursor EXCEPT ![e] = NoKey]
         /\ batch' = [batch EXCEPT ![e] = {}]
         /\ stateObj' = [stateObj EXCEPT ![e] = "none"]
         /\ seen' = [seen EXCEPT ![e] = NoKey]
         /\ ensured' = [ensured EXCEPT ![e] = FALSE]
         /\ Goto(e, "load")
    ELSE Leave(e)

\* Two sessions inserted the row of etl_state: the second is refused.
InsertRefused(e) ==
  /\ pc[e] = "commit"
  /\ stateObj[e] = "new" /\ state # NoKey
  /\ Retry(e)
  /\ UNCHANGED <<sourceVars, sinkVars, state, faults>>

\* Somebody created the index since IndexMissing: the request raises.
CreateRefused(e) ==
  /\ pc[e] = "create"
  /\ index
  /\ Retry(e)
  /\ UNCHANGED <<sourceVars, sinkVars, state, faults>>

Fault == faults < MaxFaults /\ faults' = faults + 1

\* What a failing request to Elasticsearch leaves behind: any part of a bulk
\* request, or the index, created although the reply was lost.
PartlyWritten(e) ==
  \/ UNCHANGED <<sink, index>>
  \/ /\ pc[e] = "write" /\ target = "elasticsearch" /\ ~NeedsIndex(e)
     /\ \E part \in SUBSET Transformed(batch[e]) : sink' = Upserted(part)
     /\ UNCHANGED index
  \/ /\ pc[e] = "create" /\ index' = TRUE
     /\ UNCHANGED sink

\* Any statement, transform or request fails.
Error(e) ==
  /\ Fault
  /\ pc[e] # "idle"
  /\ PartlyWritten(e)
  /\ Retry(e)
  /\ UNCHANGED <<sourceVars, target, state>>

\* The process or its connection is lost; nobody rolls back, nobody retries.
Lost(e) ==
  /\ Fault
  /\ pc[e] # "idle"
  /\ PartlyWritten(e)
  /\ Leave(e)
  /\ UNCHANGED <<sourceVars, target, state>>

Work(e) ==
  \/ Load(e) \/ ReadRows(e) \/ ReadEof(e) \/ Write(e) \/ Upsert(e) \/ Commit(e)
  \/ IndexFound(e) \/ IndexMissing(e) \/ CreateIndex(e) \/ CreateRefused(e)
  \/ Continue(e) \/ StopForPause(e) \/ InsertRefused(e)

LoadNext ==
  \/ \E ids \in Transactions : Change(ids)
  \/ \E e \in Executors : Begin(e) \/ Work(e) \/ Error(e) \/ Lost(e)

LoadSpec == LoadInit /\ [][LoadNext]_loadVars

\* A running execution goes on; runs, changes and faults need not begin.
FairLoadSpec == LoadSpec /\ \A e \in Executors : WF_loadVars(Work(e))

\* An environment that several executors can stand: the source changes only
\* while none of them holds a batch.
CalmChange(ids) == (\A e \in Executors : batch[e] = {}) /\ Change(ids)

CalmNext ==
  \/ \E ids \in Transactions : CalmChange(ids)
  \/ \E e \in Executors : Begin(e) \/ Work(e) \/ Error(e) \/ Lost(e)

CalmLoadSpec == LoadInit /\ [][CalmNext]_loadVars

(***************************************************************************)
(* Properties.                                                             *)
(***************************************************************************)

(* No row is missed: whatever lies at or below the committed checkpoint    *)
(* and survives the transforms is in the sink in its present version,      *)
(* across failed batches, partial bulk requests, retries, pauses and lost  *)
(* executors, and however the source changes meanwhile.                    *)
CheckpointCovers ==
  \A i \in Ids \ Dropped :
    source[i] # 0 /\ ~Below(state, KeyOf(i)) => sink[i] = source[i]

(* Progress is monotonic: a commit never moves the checkpoint back.        *)
CheckpointMonotonic == [][~Below(state', state)]_state

(* A run that ends because the source is exhausted leaves the sink equal   *)
(* to the source, minus what the transforms drop.                          *)
DrainedMeansSynced ==
  [][\A e \in Executors : ReadEof(e) =>
       \A i \in Ids \ Dropped : sink[i] = source[i]]_loadVars

(* Losing a race is affordable: while nothing fails, no execution gives    *)
(* up, although two executors may both create the index and both insert    *)
(* the checkpoint row, and the loser of each race loses an attempt.        *)
RacesNeverExhaust ==
  [][\A e \in Executors :
       faults' = 0 /\ pc[e] # "idle" /\ pc'[e] = "idle" => ReadEof(e) \/ StopForPause(e)]_loadVars

(* No row goes back: what a retry, a late batch or a part of a failed bulk *)
(* request writes is never older than what the sink has, although every    *)
(* upsert overwrites unconditionally.                                      *)
SinkNeverOlder == [][\A i \in Ids : sink[i] <= sink'[i]]_sink

\* The keys an execution may still pass.
Ahead(e) == Cardinality({k \in Key : Below(cursor[e], k)})

\* Where it is on its way from one move of the cursor to the next.
Stage(e) ==
  CASE pc[e] = "load" -> 9
    [] pc[e] = "commit" -> 8
    [] pc[e] = "check" -> 7
    [] pc[e] = "read" -> 6
    [] pc[e] = "write" /\ ~ensured[e] -> 5
    [] pc[e] = "create" -> 4
    [] pc[e] = "write" /\ ensured[e] -> 3
    [] pc[e] = "upsert" -> 2
    [] OTHER -> 0

\* Fewer attempts left, or fewer keys ahead, or a later stage.
Closer(e) ==
  \/ attempt[e] < attempt'[e]
  \/ /\ attempt'[e] = attempt[e]
     /\ \/ Ahead(e)' < Ahead(e)
        \/ Ahead(e)' = Ahead(e) /\ Stage(e)' < Stage(e)

(* Nothing an execution does leads it back: every step it takes, a failed  *)
(* one, a lost race and a batch that is filtered out included, ends it or  *)
(* brings its end closer, and no step of another executor or of the source *)
(* puts it off.                                                            *)
LoadAdvances ==
  [][\A e \in Executors : pc[e] # "idle" /\ pc'[e] # "idle" =>
       \/ Closer(e)
       \/ /\ UNCHANGED <<pc[e], cursor[e], batch[e], stateObj[e], seen[e], ensured[e],
                          attempt[e]>>
          /\ ~Work(e)]_loadVars

(* Every execution ends, even when the transforms drop whole batches: the  *)
(* checkpoint follows the rows read, not the rows written.                 *)
LoadEnds == \A e \in Executors : pc[e] # "idle" ~> pc[e] = "idle"

Copy == INSTANCE Replica WITH Wanted <- Ids \ Dropped

(* The load of one executor implements the abstract replica: the sink only *)
(* moves forward, to versions the source has had, and the checkpoint only  *)
(* forward, over rows that are in the sink.                                *)
ReplicaSpec == Copy!ReplSpec

=============================================================================
