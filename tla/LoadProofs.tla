----------------------------- MODULE LoadProofs -----------------------------
(***************************************************************************)
(* Theorems about IncrementalLoad when one executor at a time runs the     *)
(* pipeline: its types, that the committed checkpoint covers only rows     *)
(* that are in the sink and never moves back, that no row of the sink goes *)
(* back, and that the load implements the abstract Replica, for any rows,  *)
(* batch size, attempts, sinks, source transactions and faults.            *)
(***************************************************************************)
EXTENDS IncrementalLoad, NatOrder

(***************************************************************************)
(* The order of keys.                                                      *)
(***************************************************************************)

AnyKey == [ts: Nat, id: Nat]

\* Below is a strict linear order.
LEMMA BelowOrder ==
  /\ \A k \in AnyKey : ~Below(k, k)
  /\ \A k, l \in AnyKey : k = l \/ Below(k, l) \/ Below(l, k)
  /\ \A k, l, m \in AnyKey : Below(k, l) /\ Below(l, m) => Below(k, m)
<1>1. \A k, l \in AnyKey : k.ts = l.ts /\ k.id = l.id => k = l
  BY DEF AnyKey
<1>2. \A k \in AnyKey : k.ts \in Nat /\ k.id \in Nat
  BY DEF AnyKey
<1>3. QED BY <1>1, <1>2 DEF Below

\* Any set of keys has a first one.
LEMMA FirstKey ==
  ASSUME NEW K \in SUBSET AnyKey, K # {}
  PROVE  \E k \in K : \A l \in K : ~Below(l, k)
<1> DEFINE T == {k.ts : k \in K}
<1>1. T \in SUBSET Nat /\ T # {}
  BY DEF AnyKey
<1>2. PICK t \in T : \A u \in T : t <= u
  BY <1>1, LeastNat
<1> DEFINE I == {k.id : k \in {l \in K : l.ts = t}}
<1>3. I \in SUBSET Nat /\ I # {}
  BY DEF AnyKey
<1>4. PICK i \in I : \A j \in I : i <= j
  BY <1>3, LeastNat
<1>5. PICK k \in K : k.ts = t /\ k.id = i
  BY <1>4
<1>6. ASSUME NEW l \in K PROVE ~Below(l, k)
  <2>1. t <= l.ts /\ l.ts \in Nat /\ t \in Nat
    BY <1>1, <1>2
  <2>2. l.ts = t => i <= l.id /\ l.id \in Nat /\ i \in Nat
    BY <1>3, <1>4
  <2>3. QED BY <1>5, <2>1, <2>2 DEF Below
<1>7. QED BY <1>6

\* A set of keys with an upper bound has a last one.
LEMMA LastKey ==
  ASSUME NEW K \in SUBSET AnyKey, K # {}, NEW b \in Nat,
         \A k \in K : k.ts <= b /\ k.id <= b
  PROVE  \E k \in K : \A l \in K : ~Below(k, l)
<1> DEFINE T == {k.ts : k \in K}
<1>1. T \in SUBSET Nat /\ T # {} /\ \A u \in T : u <= b
  BY DEF AnyKey
<1>2. PICK t \in T : \A u \in T : u <= t
  BY <1>1, GreatestNat
<1> DEFINE I == {k.id : k \in {l \in K : l.ts = t}}
<1>3. I \in SUBSET Nat /\ I # {} /\ \A j \in I : j <= b
  BY DEF AnyKey
<1>4. PICK i \in I : \A j \in I : j <= i
  BY <1>3, GreatestNat
<1>5. PICK k \in K : k.ts = t /\ k.id = i
  BY <1>4
<1>6. ASSUME NEW l \in K PROVE ~Below(k, l)
  <2>1. l.ts <= t /\ l.ts \in Nat /\ t \in Nat
    BY <1>1, <1>2
  <2>2. l.ts = t => l.id <= i /\ l.id \in Nat /\ i \in Nat
    BY <1>3, <1>4
  <2>3. QED BY <1>5, <2>1, <2>2 DEF Below
<1>7. QED BY <1>6

\* What ORDER BY and LIMIT keep of a finite set: some of it, from the first on.
LEMMA LimitTakesFirst ==
  ASSUME NEW K \in SUBSET AnyKey, IsFiniteSet(K), NEW n \in Nat \ {0}
  PROVE  /\ Limit(K, n) \subseteq K
         /\ K # {} => Limit(K, n) # {}
         /\ \A r \in Limit(K, n), q \in K : Below(q, r) => q \in Limit(K, n)
<1> DEFINE Before(r) == {q \in K : Below(q, r)}
<1>1. Limit(K, n) = {r \in K : Cardinality(Before(r)) < n}
  BY DEF Limit
<1>2. \A r \in K : IsFiniteSet(Before(r)) /\ Cardinality(Before(r)) \in Nat
  BY FS_Subset, FS_CardinalityType
<1>3. ASSUME K # {} PROVE Limit(K, n) # {}
  <2>1. PICK k \in K : \A l \in K : ~Below(l, k)
    BY <1>3, FirstKey
  <2>2. Before(k) = {}
    BY <2>1
  <2>3. Cardinality(Before(k)) = 0
    BY <2>2, FS_EmptySet
  <2>4. QED BY <1>1, <2>3
<1>4. ASSUME NEW r \in Limit(K, n), NEW q \in K, Below(q, r)
      PROVE  q \in Limit(K, n)
  <2>1. r \in K /\ Cardinality(Before(r)) < n
    BY <1>1
  <2>2. Before(q) \subseteq Before(r)
    BY <1>4, <2>1, BelowOrder
  <2>3. Cardinality(Before(q)) <= Cardinality(Before(r))
    BY <1>2, <2>1, <2>2, FS_Subset
  <2>4. Cardinality(Before(q)) < n
    BY <1>2, <2>1, <2>3
  <2>5. QED BY <1>1, <2>4
<1>5. QED BY <1>1, <1>3, <1>4

(***************************************************************************)
(* The inductive invariant.                                                *)
(***************************************************************************)
SingleExecutor == \A e, f \in Executors : e = f

\* The source and the checkpoint lie in the past; nothing comes from nowhere.
PastOnly ==
  /\ \A i \in Ids : source[i] <= clock
  /\ state.ts <= clock
  /\ \A i \in Ids : sink[i] # 0 => source[i] # 0

\* The batch is what follows the checkpoint, without a gap.
BatchFollows(e) ==
  /\ batch[e] # {}
  /\ \A r \in batch[e] : r.id \in Ids /\ 0 < r.ts /\ r.ts <= source[r.id] /\ Below(state, r)
  /\ \A r, q \in batch[e] : r.id = q.id => r = q
  /\ \A i \in Ids, q \in batch[e] :
       source[i] # 0 /\ Below(state, KeyOf(i)) /\ Below(KeyOf(i), q) => KeyOf(i) \in batch[e]

ExecInv(e) ==
  /\ pc[e] \in {"read", "write", "create", "upsert", "check"} => cursor[e] = state
  /\ pc[e] \in {"write", "create", "upsert", "commit"} => BatchFollows(e)
  /\ pc[e] = "commit" => cursor[e] = LastRow(batch[e])
  /\ pc[e] \in {"upsert", "commit"} /\ target = "elasticsearch" =>
       \A r \in Transformed(batch[e]) : sink[r.id] = r.ts

\* What the session remembers of the checkpoint row is what the row holds.
SessionFresh ==
  \A e \in Executors :
    /\ stateObj[e] # "none" => seen[e] = state
    /\ pc[e] = "commit" => stateObj[e] # "none"

LoadInv ==
  /\ PastOnly
  /\ CheckpointCovers
  /\ \A e \in Executors : ExecInv(e)

LEMMA KeysAreKeys == Key \subseteq AnyKey
<1>1. 0 .. MaxTime \subseteq Nat /\ Ids \cup {0} \subseteq Nat
  BY LoadAssumption
<1>2. QED BY <1>1 DEF Key, AnyKey

\* The rows are finitely many keys, and their keys are known.
LEMMA RowsAreKeys ==
  ASSUME LoadTypeOK
  PROVE  /\ Rows \subseteq Key
         /\ IsFiniteSet(Rows)
         /\ \A i \in Ids : KeyOf(i) \in Key /\ KeyOf(i).id = i /\ KeyOf(i).ts = source[i]
<1> DEFINE present == {i \in Ids : source[i] # 0}
           f == [i \in present |-> KeyOf(i)]
<1>1. \A i \in Ids : KeyOf(i) \in Key /\ KeyOf(i).id = i /\ KeyOf(i).ts = source[i]
  BY DEF LoadTypeOK, KeyOf, Key
<1>2. Rows = {KeyOf(i) : i \in present}
  BY DEF Rows
<1>3. PICK n \in Nat : Ids \subseteq 1 .. n
  BY LoadAssumption
<1>4. IsFiniteSet(present)
  <2>1. IsFiniteSet(1 .. n)
    BY FS_Interval
  <2>2. present \subseteq 1 .. n
    BY <1>3
  <2>3. QED BY <2>1, <2>2, FS_Subset
<1>5. f \in Surjection(present, Rows)
  BY <1>2 DEF Surjection
<1>6. IsFiniteSet(Rows)
  BY <1>4, <1>5, FS_Surjection
<1>7. QED BY <1>1, <1>2, <1>6

\* LastRow is a row of the batch, and no row of the batch lies above it.
LEMMA LastRowIsLast ==
  ASSUME NEW K \in SUBSET Key, K # {}
  PROVE  LastRow(K) \in K /\ \A q \in K : ~Below(LastRow(K), q)
<1>1. PICK n \in Nat : \A i \in Ids : i <= n
  BY LoadAssumption
<1>2. /\ \A t \in 0 .. MaxTime : t <= n + MaxTime
      /\ \A i \in Ids \cup {0} : i <= n + MaxTime
  <2>1. \A i \in Ids \cup {0} : i \in Nat /\ i <= n
    BY <1>1, LoadAssumption
  <2>2. \A t \in 0 .. MaxTime : t \in Nat /\ t <= MaxTime
    BY LoadAssumption
  <2>3. n \in Nat /\ MaxTime \in Nat
    BY LoadAssumption
  <2>4. QED BY <2>1, <2>2, <2>3
<1>3. n + MaxTime \in Nat
  BY LoadAssumption
<1>4. \E r \in K : \A q \in K : ~Below(r, q)
  <2>1. \A k \in K : k.ts <= n + MaxTime /\ k.id <= n + MaxTime
    BY <1>2 DEF Key
  <2>2. K \in SUBSET AnyKey
    BY KeysAreKeys
  <2>3. QED BY <2>1, <2>2, <1>3, LastKey
<1>5. QED BY <1>4 DEF LastRow

\* An upsert writes versions.
LEMMA UpsertedType ==
  ASSUME LoadTypeOK, NEW K \in SUBSET Key
  PROVE  Upserted(K) \in [Ids -> 0 .. MaxTime]
<1>1. \A k \in Key : k.ts \in 0 .. MaxTime
  BY DEF Key
<1>2. \A i \in Ids : (\E r \in K : r.id = i) => (CHOOSE r \in K : r.id = i) \in Key
  OBVIOUS
<1>3. \A i \in Ids : sink[i] \in 0 .. MaxTime
  BY DEF LoadTypeOK
<1>4. QED BY <1>1, <1>2, <1>3 DEF Upserted

\* An upsert writes the rows it is given and nothing else.
LEMMA UpsertedRows ==
  ASSUME NEW K \in SUBSET Key, \A r, q \in K : r.id = q.id => r = q
  PROVE  /\ \A r \in K : r.id \in Ids => Upserted(K)[r.id] = r.ts
         /\ \A i \in Ids : (\A r \in K : r.id # i) => Upserted(K)[i] = sink[i]
<1>1. \A r \in K : (CHOOSE q \in K : q.id = r.id) = r
  OBVIOUS
<1>2. QED BY <1>1 DEF Upserted

(***************************************************************************)
(* Types.                                                                  *)
(***************************************************************************)

\* A batch is read before it is written, and it has rows.
BatchesHeld ==
  \A e \in Executors : pc[e] \in {"write", "create", "upsert", "commit"} => batch[e] # {}

LocalTypes ==
  /\ pc \in [Executors ->
             {"idle", "load", "read", "write", "create", "upsert", "commit", "check"}]
  /\ cursor \in [Executors -> Key]
  /\ batch \in [Executors -> SUBSET Key]
  /\ stateObj \in [Executors -> {"none", "new", "fetched", "held"}]
  /\ seen \in [Executors -> Key]
  /\ ensured \in [Executors -> BOOLEAN]
  /\ attempt \in [Executors -> 0 .. MaxAttempts]

SharedTypes ==
  /\ source \in [Ids -> 0 .. MaxTime]
  /\ clock \in 0 .. MaxTime
  /\ target \in Sinks
  /\ sink \in [Ids -> 0 .. MaxTime]
  /\ index \in BOOLEAN
  /\ state \in Key
  /\ faults \in 0 .. MaxFaults

LEMMA TypesSplit == LoadTypeOK <=> LocalTypes /\ SharedTypes
BY DEF LoadTypeOK, LocalTypes, SharedTypes

LEMMA NoKeyIsKey == NoKey \in Key
<1>1. 0 \in 0 .. MaxTime /\ 0 \in Ids \cup {0}
  BY LoadAssumption
<1>2. QED BY <1>1 DEF NoKey, Key

\* An attempt that ends leaves well-typed locals and no batch.
LEMMA ResetTypes ==
  ASSUME LocalTypes, BatchesHeld, NEW e \in Executors, Retry(e) \/ Leave(e)
  PROVE  LocalTypes' /\ BatchesHeld'
<1>1. 0 \in 0 .. MaxAttempts
  BY LoadAssumption
<1>2. attempt[e] < MaxAttempts => attempt[e] + 1 \in 0 .. MaxAttempts
  BY LoadAssumption DEF LocalTypes
<1>3. CASE Leave(e)
  BY <1>1, <1>3, NoKeyIsKey DEF Leave, Goto, LocalTypes, BatchesHeld
<1>4. CASE attempt[e] < MaxAttempts /\ Retry(e)
  <2>1. attempt' = [attempt EXCEPT ![e] = attempt[e] + 1]
    BY <1>4 DEF Retry
  <2>2. attempt' \in [Executors -> 0 .. MaxAttempts]
    BY <1>2, <1>4, <2>1 DEF LocalTypes
  <2>3. /\ pc' = [pc EXCEPT ![e] = "load"] /\ cursor' = [cursor EXCEPT ![e] = NoKey]
        /\ batch' = [batch EXCEPT ![e] = {}] /\ ensured' = [ensured EXCEPT ![e] = FALSE]
        /\ stateObj' = [stateObj EXCEPT ![e] = "none"]
        /\ seen' = [seen EXCEPT ![e] = NoKey]
    BY <1>4 DEF Retry, Goto
  <2>4. LocalTypes'
    BY <2>2, <2>3, NoKeyIsKey DEF LocalTypes
  <2>5. BatchesHeld'
    BY <2>3 DEF LocalTypes, BatchesHeld
  <2>6. QED BY <2>4, <2>5
<1>5. QED BY <1>3, <1>4 DEF Retry

\* What the session writes is a key.
LEMMA FlushedIsKey ==
  ASSUME NEW e \in Executors, cursor[e] \in Key, state \in Key
  PROVE  Flushed(e) \in Key
BY DEF Flushed, Key

LEMMA TypeInit ==
  ASSUME LoadInit
  PROVE  LoadTypeOK /\ BatchesHeld
<1>1. 0 \in 0 .. MaxTime /\ 0 \in 0 .. MaxAttempts /\ 0 \in 0 .. MaxFaults
  BY LoadAssumption
<1>2. LocalTypes
  BY <1>1, NoKeyIsKey DEF LoadInit, LocalTypes
<1>3. SharedTypes
  BY <1>1, NoKeyIsKey DEF LoadInit, SharedTypes
<1>4. BatchesHeld
  BY DEF LoadInit, BatchesHeld
<1>5. QED BY <1>2, <1>3, <1>4, TypesSplit

\* What is read is a set of keys, and there is some.
LEMMA ReadTypes ==
  ASSUME LoadTypeOK, NEW e \in Executors, Above(cursor[e]) # {}
  PROVE  /\ Limit(Above(cursor[e]), BatchSize) \in SUBSET Key
         /\ Limit(Above(cursor[e]), BatchSize) # {}
         /\ \A r \in Limit(Above(cursor[e]), BatchSize), q \in Above(cursor[e]) :
              Below(q, r) => q \in Limit(Above(cursor[e]), BatchSize)
<1>1. Above(cursor[e]) \subseteq Rows
  BY DEF Above
<1>2. Above(cursor[e]) \in SUBSET AnyKey /\ IsFiniteSet(Above(cursor[e]))
  BY <1>1, RowsAreKeys, KeysAreKeys, FS_Subset
<1>3. BatchSize \in Nat \ {0}
  BY LoadAssumption
<1>4. QED BY <1>1, <1>2, <1>3, RowsAreKeys, LimitTakesFirst

\* A failing request leaves well-typed rows behind.
LEMMA PartTypes ==
  ASSUME LoadTypeOK, NEW e \in Executors, PartlyWritten(e)
  PROVE  sink' \in [Ids -> 0 .. MaxTime] /\ index' \in BOOLEAN
<1>1. \A part \in SUBSET Transformed(batch[e]) : part \in SUBSET Key
  BY DEF Transformed, LoadTypeOK
<1>2. QED BY <1>1, UpsertedType DEF PartlyWritten, LoadTypeOK

LEMMA FaultTypes == faults \in 0 .. MaxFaults /\ Fault => faults' \in 0 .. MaxFaults
BY LoadAssumption DEF Fault

\* Every step of an executor but the ends of an attempt keeps the locals typed.
LEMMA WorkTypes ==
  ASSUME LoadTypeOK, BatchesHeld, NEW e \in Executors,
         Begin(e) \/ Work(e) \/ Error(e) \/ Lost(e)
  PROVE  LocalTypes' /\ BatchesHeld'
<1>1. LocalTypes /\ state \in Key
  BY TypesSplit DEF SharedTypes
<1>2. 1 \in 0 .. MaxAttempts
  BY LoadAssumption
<1>3. CASE Retry(e) \/ Leave(e)
  BY <1>1, <1>3, ResetTypes
<1>4. CASE Begin(e)
  BY <1>1, <1>2, <1>4 DEF Begin, Goto, LocalTypes, BatchesHeld
<1>5. CASE Load(e)
  BY <1>1, <1>5 DEF Load, Goto, LocalTypes, BatchesHeld
<1>6. CASE ReadRows(e)
  <2>1. /\ Limit(Above(cursor[e]), BatchSize) \in SUBSET Key
        /\ Limit(Above(cursor[e]), BatchSize) # {}
    BY <1>6, ReadTypes DEF ReadRows
  <2>2. QED BY <1>1, <1>6, <2>1 DEF ReadRows, Goto, LocalTypes, BatchesHeld
<1>7. CASE Write(e)
  BY <1>1, <1>7 DEF Write, Goto, LocalTypes, BatchesHeld
<1>8. CASE Upsert(e)
  <2>1. batch[e] \in SUBSET Key /\ batch[e] # {}
    BY <1>1, <1>8 DEF Upsert, LocalTypes, BatchesHeld
  <2>2. LastRow(batch[e]) \in Key
    BY <2>1, LastRowIsLast
  <2>3. QED BY <1>1, <1>8, <2>2 DEF Upsert, Goto, LocalTypes, BatchesHeld
<1>9. CASE Commit(e)
  <2>1. seen' \in [Executors -> Key] /\ batch' \in [Executors -> SUBSET Key]
    BY <1>1, <1>9, NoKeyIsKey DEF Commit, LocalTypes
  <2>2. stateObj' \in [Executors -> {"none", "new", "fetched", "held"}]
    BY <1>1, <1>9 DEF Commit, LocalTypes
  <2>3. LocalTypes'
    BY <1>1, <1>9, <2>1, <2>2 DEF Commit, Goto, LocalTypes
  <2>4. QED BY <1>1, <1>9, <2>3 DEF Commit, Goto, LocalTypes, BatchesHeld
<1>10. CASE IndexFound(e) \/ IndexMissing(e) \/ CreateIndex(e) \/ Continue(e)
  BY <1>1, <1>10
  DEF IndexFound, IndexMissing, CreateIndex, Continue, Goto, LocalTypes, BatchesHeld
<1>11. QED
  BY <1>3, <1>4, <1>5, <1>6, <1>7, <1>8, <1>9, <1>10
  DEF Work, ReadEof, CreateRefused, StopForPause, InsertRefused, Error, Lost

\* What is written to the sink, the index and the checkpoint is typed.
LEMMA WorkShares ==
  ASSUME LoadTypeOK, NEW e \in Executors,
         Begin(e) \/ Work(e) \/ Error(e) \/ Lost(e)
  PROVE  SharedTypes'
<1>1. SharedTypes /\ cursor[e] \in Key
  BY TypesSplit DEF LocalTypes
<1>2. Upserted(Transformed(batch[e])) \in [Ids -> 0 .. MaxTime]
  <2>1. Transformed(batch[e]) \in SUBSET Key
    BY DEF Transformed, LoadTypeOK
  <2>2. QED BY <2>1, UpsertedType
<1>3. CASE Write(e)
  BY <1>1, <1>2, <1>3 DEF Write, sourceVars, SharedTypes
<1>4. CASE Commit(e)
  BY <1>1, <1>2, <1>4, FlushedIsKey DEF Commit, sourceVars, SharedTypes
<1>5. CASE CreateIndex(e)
  BY <1>1, <1>5 DEF CreateIndex, sourceVars, SharedTypes
<1>6. CASE Error(e) \/ Lost(e)
  <2>1. sink' \in [Ids -> 0 .. MaxTime] /\ index' \in BOOLEAN
    BY <1>6, PartTypes DEF Error, Lost
  <2>2. faults' \in 0 .. MaxFaults
    BY <1>1, <1>6, FaultTypes DEF Error, Lost, SharedTypes
  <2>3. QED BY <1>1, <1>6, <2>1, <2>2 DEF Error, Lost, sourceVars, SharedTypes
<1>7. CASE UNCHANGED <<sourceVars, sinkVars, state, faults>>
  BY <1>1, <1>7 DEF sourceVars, sinkVars, SharedTypes
<1>8. QED
  BY <1>3, <1>4, <1>5, <1>6, <1>7
  DEF Begin, Work, Load, ReadRows, ReadEof, Upsert, IndexFound, IndexMissing,
      CreateRefused, Continue, StopForPause, InsertRefused

LEMMA ChangeTypes ==
  ASSUME LoadTypeOK, BatchesHeld, NEW ids \in SUBSET Ids, Change(ids)
  PROVE  LoadTypeOK' /\ BatchesHeld'
<1>1. clock' \in 0 .. MaxTime
  BY LoadAssumption DEF Change, LoadTypeOK
<1>2. LocalTypes' /\ BatchesHeld'
  BY TypesSplit DEF Change, localVars, LocalTypes, BatchesHeld
<1>3. SharedTypes'
  BY <1>1, TypesSplit DEF Change, sinkVars, SharedTypes
<1>4. LoadTypeOK'
  BY <1>2, <1>3 DEF LoadTypeOK, LocalTypes, SharedTypes
<1>5. QED BY <1>2, <1>4

LEMMA TypeStep ==
  ASSUME LoadTypeOK, BatchesHeld, [LoadNext]_loadVars
  PROVE  LoadTypeOK' /\ BatchesHeld'
<1>1. ASSUME NEW e \in Executors, Begin(e) \/ Work(e) \/ Error(e) \/ Lost(e)
      PROVE  LoadTypeOK' /\ BatchesHeld'
  <2>1. LocalTypes' /\ BatchesHeld' /\ SharedTypes'
    BY <1>1, WorkTypes, WorkShares
  <2>2. QED BY <2>1 DEF LoadTypeOK, LocalTypes, SharedTypes
<1>2. CASE UNCHANGED loadVars
  BY <1>2 DEF loadVars, LoadTypeOK, BatchesHeld
<1>3. ASSUME NEW ids \in Transactions, Change(ids)
      PROVE  LoadTypeOK' /\ BatchesHeld'
  BY <1>3, ChangeTypes, LoadAssumption
<1>4. QED BY <1>1, <1>2, <1>3 DEF LoadNext

(* Every variable of the load keeps its type, whatever the number of       *)
(* executors: what ReadRows takes is a non-empty set of keys, so the last  *)
(* row that Upsert makes the checkpoint is a key.                          *)
THEOREM LoadTypeCorrect == LoadSpec => []LoadTypeOK
<1>1. LoadInit => LoadTypeOK /\ BatchesHeld
  BY TypeInit
<1>2. LoadTypeOK /\ BatchesHeld /\ [LoadNext]_loadVars => LoadTypeOK' /\ BatchesHeld'
  BY TypeStep
<1>3. QED BY <1>1, <1>2, PTL DEF LoadSpec

(***************************************************************************)
(* One executor: the checkpoint covers the sink.                           *)
(***************************************************************************)

\* Keys compare as numbers do.
LEMMA RowFacts ==
  ASSUME LoadTypeOK
  PROVE  /\ state \in AnyKey
         /\ \A i \in Ids : KeyOf(i) \in AnyKey /\ KeyOf(i).id = i /\ KeyOf(i).ts = source[i]
         /\ \A e \in Executors : batch[e] \in SUBSET Key /\ batch[e] \in SUBSET AnyKey
         /\ \A i \in Ids : source[i] \in Nat
BY RowsAreKeys, KeysAreKeys, LoadAssumption DEF LoadTypeOK

\* An executor that is not in a batch promises nothing.
LEMMA OutsideBatch ==
  ASSUME NEW e \in Executors, pc[e] \in {"idle", "load"}
  PROVE  ExecInv(e)
BY DEF ExecInv

\* A row of the batch belongs to an id whose key is still above the checkpoint.
LEMMA BatchIsAbove ==
  ASSUME LoadTypeOK, NEW e \in Executors, BatchFollows(e), NEW r \in batch[e]
  PROVE  r.id \in Ids /\ source[r.id] # 0 /\ Below(state, KeyOf(r.id))
<1>1. r.id \in Ids /\ r \in AnyKey /\ state \in AnyKey
  BY RowFacts DEF BatchFollows
<1>2. 0 < r.ts /\ r.ts <= source[r.id] /\ Below(state, r)
  BY DEF BatchFollows
<1>3. KeyOf(r.id).id = r.id /\ KeyOf(r.id).ts = source[r.id] /\ source[r.id] \in Nat
  BY <1>1, RowFacts
<1>4. r.ts \in Nat /\ r.id \in Nat /\ state.ts \in Nat /\ state.id \in Nat
  BY <1>1 DEF AnyKey
<1>5. Below(state, KeyOf(r.id))
  BY <1>2, <1>3, <1>4 DEF Below
<1>6. QED BY <1>1, <1>2, <1>3, <1>4, <1>5

\* Writing any part of the batch leaves the covered rows as they are.
LEMMA PartKeepsCovered ==
  ASSUME LoadTypeOK, PastOnly, CheckpointCovers, NEW e \in Executors,
         BatchFollows(e), NEW part \in SUBSET Transformed(batch[e]),
         sink' = Upserted(part), source' = source, clock' = clock, state' = state
  PROVE  /\ PastOnly'
         /\ CheckpointCovers'
         /\ \A r \in part : sink'[r.id] = r.ts
<1>1. part \subseteq batch[e] /\ part \in SUBSET Key
  BY RowFacts DEF Transformed
<1>2. \A r, q \in part : r.id = q.id => r = q
  BY <1>1 DEF BatchFollows
<1>3. /\ \A r \in part : r.id \in Ids => Upserted(part)[r.id] = r.ts
      /\ \A i \in Ids : (\A r \in part : r.id # i) => Upserted(part)[i] = sink[i]
  BY <1>1, <1>2, UpsertedRows
<1>4. \A r \in part : r.id \in Ids /\ source[r.id] # 0 /\ Below(state, KeyOf(r.id))
  BY <1>1, BatchIsAbove
<1>5. CheckpointCovers'
  <2>1. SUFFICES ASSUME NEW i \in Ids \ Dropped, source[i] # 0, ~Below(state, KeyOf(i))
                 PROVE  sink'[i] = source[i]
    BY DEF CheckpointCovers, KeyOf
  <2>2. \A r \in part : r.id # i
    BY <1>4, <2>1
  <2>3. QED BY <1>3, <2>1, <2>2 DEF CheckpointCovers
<1>6. PastOnly'
  BY <1>3, <1>4 DEF PastOnly
<1>7. QED BY <1>3, <1>4, <1>5, <1>6

LEMMA CoverInit ==
  ASSUME LoadInit
  PROVE  LoadInv
<1>1. PastOnly /\ CheckpointCovers
  BY DEF LoadInit, NoKey, PastOnly, CheckpointCovers
<1>2. \A e \in Executors : ExecInv(e)
  BY OutsideBatch DEF LoadInit
<1>3. QED BY <1>1, <1>2 DEF LoadInv

\* A transaction on the source puts its rows above the checkpoint and above
\* every batch that is being loaded.
LEMMA CoverChange ==
  ASSUME LoadTypeOK, LoadInv, NEW ids \in SUBSET Ids, Change(ids)
  PROVE  LoadInv'
<1>1. clock \in Nat /\ clock' = clock + 1 /\ state' = state /\ sink' = sink
  BY LoadAssumption DEF Change, sinkVars, LoadTypeOK
<1>2. \A i \in Ids : source'[i] = IF i \in ids THEN clock + 1 ELSE source[i]
  BY <1>1 DEF Change
<1>3. \A i \in Ids : source[i] \in Nat /\ source[i] <= clock /\ state.ts <= clock
  BY RowFacts DEF LoadInv, PastOnly
<1>4. state.ts \in Nat
  BY RowFacts DEF AnyKey
<1>5. \A i \in Ids : source[i] <= source'[i] /\ source'[i] \in Nat /\ source'[i] <= clock + 1
  BY <1>1, <1>2, <1>3
<1>6. PastOnly'
  <2>1. \A i \in Ids : source'[i] <= clock'
    BY <1>1, <1>5
  <2>2. state'.ts <= clock'
    BY <1>1, <1>4 DEF LoadInv, PastOnly
  <2>3. \A i \in Ids : sink'[i] # 0 => source'[i] # 0
    BY <1>1, <1>2 DEF LoadInv, PastOnly
  <2>4. QED BY <2>1, <2>2, <2>3 DEF PastOnly
<1>7. CheckpointCovers'
  <2>1. SUFFICES ASSUME NEW i \in Ids \ Dropped, source'[i] # 0, ~Below(state, KeyOf(i)')
                 PROVE  sink[i] = source'[i]
    BY <1>1 DEF CheckpointCovers, Below
  <2>2. i \notin ids
    BY <1>1, <1>2, <1>3, <1>4, <2>1 DEF KeyOf, Below
  <2>3. source'[i] = source[i]
    BY <1>2, <2>2
  <2>4. QED BY <2>1, <2>3 DEF LoadInv, CheckpointCovers, KeyOf
<1>8. ASSUME NEW e \in Executors, BatchFollows(e) PROVE BatchFollows(e)'
  <2>1. batch' = batch /\ \A r \in batch[e] : r \in AnyKey /\ r.ts \in Nat
    BY RowFacts DEF Change, localVars, AnyKey
  <2>2. \A r \in batch[e] : r.id \in Ids /\ 0 < r.ts /\ r.ts <= source'[r.id] /\ Below(state, r)
    BY <1>3, <1>5, <1>8, <2>1 DEF BatchFollows
  <2>3. ASSUME NEW i \in Ids, NEW q \in batch[e], source'[i] # 0,
               Below(state, KeyOf(i)'), Below(KeyOf(i)', q)
        PROVE  KeyOf(i)' \in batch[e]
    <3>1. q.ts <= clock /\ q.ts \in Nat
      <4>1. q.id \in Ids /\ q.ts <= source[q.id] /\ q.ts \in Nat
        BY <1>8, <2>1 DEF BatchFollows
      <4>2. source[q.id] \in Nat /\ source[q.id] <= clock
        BY <1>3, <4>1
      <4>3. QED BY <1>1, <4>1, <4>2
    <3>2. i \notin ids
      BY <1>1, <1>2, <2>3, <3>1 DEF KeyOf, Below
    <3>3. KeyOf(i)' = KeyOf(i) /\ source[i] # 0
      BY <1>2, <2>3, <3>2 DEF KeyOf
    <3>4. QED BY <1>8, <2>3, <3>3 DEF BatchFollows
  <2>4. QED BY <1>1, <1>8, <2>1, <2>2, <2>3 DEF BatchFollows
<1>9. \A e \in Executors : ExecInv(e)'
  BY <1>1, <1>8 DEF Change, localVars, sinkVars, LoadInv, ExecInv, Transformed, LastRow
<1>10. QED BY <1>6, <1>7, <1>9 DEF LoadInv

\* A step that leaves the source, the sink and the checkpoint alone keeps the
\* shared part.
LEMMA SharedKept ==
  ASSUME LoadInv, source' = source, clock' = clock, sink' = sink, state' = state
  PROVE  PastOnly' /\ CheckpointCovers'
BY DEF LoadInv, PastOnly, CheckpointCovers, KeyOf, Below

\* The attempt ends: the only executor promises nothing any more.
LEMMA ResetPromises ==
  ASSUME SingleExecutor, LoadTypeOK, NEW e \in Executors, Retry(e) \/ Leave(e)
  PROVE  \A f \in Executors : ExecInv(f)'
<1>1. pc'[e] \in {"idle", "load"}
  BY DEF Retry, Leave, Goto, LoadTypeOK
<1>2. ExecInv(e)'
  BY <1>1 DEF ExecInv
<1>3. \A f \in Executors : f = e
  BY DEF SingleExecutor
<1>4. QED BY <1>2, <1>3

LEMMA CoverRead ==
  ASSUME LoadTypeOK, LoadInv, NEW e \in Executors, ReadRows(e)
  PROVE  ExecInv(e)'
<1> DEFINE above == Above(state)
           some == Limit(above, BatchSize)
<1>1. cursor[e] = state /\ above # {}
  BY DEF ReadRows, LoadInv, ExecInv
<1>2. /\ some \in SUBSET Key /\ some # {} /\ some \subseteq above
      /\ \A r \in some, q \in above : Below(q, r) => q \in some
  BY <1>1, ReadTypes DEF Limit
<1>3. /\ batch'[e] = some /\ pc'[e] = "write" /\ cursor'[e] = state
      /\ state' = state /\ source' = source
  BY <1>1 DEF ReadRows, Goto, sourceVars, LoadTypeOK
<1>4. \A r \in above :
        /\ r.id \in Ids /\ 0 < r.ts /\ r.ts <= source[r.id] /\ Below(state, r)
        /\ r = KeyOf(r.id)
  <2>1. SUFFICES ASSUME NEW j \in Ids, source[j] # 0, Below(state, KeyOf(j))
                 PROVE  0 < source[j] /\ source[j] <= source[j]
    BY RowFacts DEF Above, Rows
  <2>2. QED BY <2>1, RowFacts
<1>5. \A r, q \in some : r.id = q.id => r = q
  BY <1>2, <1>4
<1>6. \A i \in Ids : source[i] # 0 /\ Below(state, KeyOf(i)) => KeyOf(i) \in above
  BY DEF Above, Rows
<1>7. BatchFollows(e)'
  BY <1>2, <1>3, <1>4, <1>5, <1>6 DEF BatchFollows, KeyOf, Below
<1>8. QED BY <1>3, <1>7 DEF ExecInv

LEMMA CoverWrite ==
  ASSUME LoadTypeOK, LoadInv, NEW e \in Executors, Write(e)
  PROVE  PastOnly' /\ CheckpointCovers' /\ ExecInv(e)'
<1>1. BatchFollows(e) /\ cursor[e] = state
  BY DEF Write, LoadInv, ExecInv
<1>2. /\ pc'[e] = "upsert" /\ UNCHANGED <<source, clock, state, target, batch, cursor>>
  BY DEF Write, Goto, sourceVars, LoadTypeOK
<1>3. BatchFollows(e)'
  BY <1>1, <1>2 DEF BatchFollows, KeyOf, Below
<1>4. CASE target = "elasticsearch"
  <2>1. sink' = Upserted(Transformed(batch[e]))
    BY <1>4 DEF Write
  <2>2. /\ PastOnly' /\ CheckpointCovers'
        /\ \A r \in Transformed(batch[e]) : sink'[r.id] = r.ts
    BY <1>1, <1>2, <2>1, PartKeepsCovered DEF LoadInv
  <2>3. QED BY <1>1, <1>2, <1>3, <2>2 DEF ExecInv, Transformed
<1>5. CASE target # "elasticsearch"
  <2>1. sink' = sink
    BY <1>5 DEF Write
  <2>2. QED BY <1>1, <1>2, <1>3, <1>5, <2>1, SharedKept DEF ExecInv
<1>6. QED BY <1>4, <1>5

\* A session that knows the row writes the whole of the new key.
LEMMA FlushedIsCursor ==
  ASSUME LoadTypeOK, SessionFresh, NEW e \in Executors, pc[e] = "commit"
  PROVE  Flushed(e) = cursor[e]
<1>1. seen[e] = state /\ cursor[e] \in Key
  BY DEF SessionFresh, LoadTypeOK
<1>2. Flushed(e) = [ts |-> cursor[e].ts, id |-> cursor[e].id]
  BY <1>1 DEF Flushed
<1>3. QED BY <1>1, <1>2 DEF Key

LEMMA SessionStep ==
  ASSUME SingleExecutor, LoadTypeOK, SessionFresh, [LoadNext]_loadVars
  PROVE  SessionFresh'
<1>1. ASSUME NEW e \in Executors,
             (stateObj'[e] # "none" => seen'[e] = state')
               /\ (pc'[e] = "commit" => stateObj'[e] # "none")
      PROVE  SessionFresh'
  BY <1>1 DEF SessionFresh, SingleExecutor
<1>2. CASE UNCHANGED <<state, localVars>>
  BY <1>2 DEF SessionFresh, localVars
<1>3. ASSUME NEW e \in Executors, Retry(e) \/ Leave(e) PROVE SessionFresh'
  BY <1>1, <1>3 DEF Retry, Leave, Goto, LoadTypeOK
<1>4. ASSUME NEW e \in Executors, Commit(e) PROVE SessionFresh'
  <2>1. state' = cursor[e]
    BY <1>4, FlushedIsCursor DEF Commit
  <2>2. QED BY <1>1, <1>4, <2>1 DEF Commit, Goto, LoadTypeOK
<1>5. ASSUME NEW e \in Executors, Load(e) PROVE SessionFresh'
  BY <1>1, <1>5 DEF Load, Goto, LoadTypeOK
<1>6. ASSUME NEW e \in Executors, Upsert(e) PROVE SessionFresh'
  BY <1>1, <1>6 DEF Upsert, Goto, SessionFresh, LoadTypeOK
<1>7. ASSUME NEW e \in Executors,
             \/ Begin(e) \/ ReadRows(e) \/ Write(e) \/ Continue(e)
             \/ IndexFound(e) \/ IndexMissing(e) \/ CreateIndex(e)
      PROVE  SessionFresh'
  <2>1. UNCHANGED <<state, stateObj, seen>> /\ pc'[e] # "commit"
    BY <1>7 DEF Begin, ReadRows, Write, Continue, IndexFound, IndexMissing, CreateIndex,
                Goto, LoadTypeOK
  <2>2. QED BY <1>1, <2>1 DEF SessionFresh
<1>8. QED
  BY <1>2, <1>3, <1>4, <1>5, <1>6, <1>7
  DEF LoadNext, Change, Work, ReadEof, CreateRefused, StopForPause, InsertRefused, Error,
      Lost, loadVars, localVars

\* The rows of the batch are in the sink when its last row becomes the
\* checkpoint, and no other row lies between the two checkpoints.
LEMMA CoverCommit ==
  ASSUME LoadTypeOK, LoadInv, SessionFresh, NEW e \in Executors, Commit(e)
  PROVE  PastOnly' /\ CheckpointCovers' /\ ExecInv(e)' /\ ~Below(state', state)
<1> DEFINE last == LastRow(batch[e])
           rows == Transformed(batch[e])
<1>1. BatchFollows(e) /\ cursor[e] = last
  BY DEF Commit, LoadInv, ExecInv
<1>2. /\ pc'[e] = "check" /\ state' = last /\ cursor' = cursor
      /\ UNCHANGED <<source, clock, target>>
  BY <1>1, FlushedIsCursor DEF Commit, Goto, sourceVars, LoadTypeOK
<1>3. last \in batch[e] /\ \A q \in batch[e] : ~Below(last, q)
  BY <1>1, RowFacts, LastRowIsLast DEF BatchFollows
<1>4. last \in AnyKey /\ state \in AnyKey /\ Below(state, last)
  BY <1>1, <1>3, RowFacts DEF BatchFollows
<1>5. /\ \A r \in rows : sink'[r.id] = r.ts
      /\ \A i \in Ids : (\A r \in rows : r.id # i) => sink'[i] = sink[i]
  <2>1. rows \subseteq batch[e] /\ rows \in SUBSET Key
    BY RowFacts DEF Transformed
  <2>2. \A r \in rows : r.id \in Ids
    BY <1>1, <2>1 DEF BatchFollows
  <2>3. \A r, q \in rows : r.id = q.id => r = q
    BY <1>1, <2>1 DEF BatchFollows
  <2>4. CASE target = "postgres"
    <3>1. sink' = Upserted(rows)
      BY <2>4 DEF Commit
    <3>2. QED BY <2>1, <2>2, <2>3, <3>1, UpsertedRows
  <2>5. CASE target = "elasticsearch"
    <3>1. sink' = sink
      BY <2>5 DEF Commit
    <3>2. \A r \in rows : sink[r.id] = r.ts
      BY <2>5 DEF Commit, LoadInv, ExecInv
    <3>3. QED BY <3>1, <3>2
  <2>6. target \in {"postgres", "elasticsearch"}
    BY LoadAssumption DEF LoadTypeOK
  <2>7. QED BY <2>4, <2>5, <2>6
<1>6. CheckpointCovers'
  <2>1. SUFFICES ASSUME NEW i \in Ids \ Dropped, source[i] # 0, ~Below(last, KeyOf(i))
                 PROVE  sink'[i] = source[i]
    BY <1>2 DEF CheckpointCovers, KeyOf, Below
  <2>2. KeyOf(i) \in AnyKey /\ KeyOf(i).id = i /\ KeyOf(i).ts = source[i]
    BY RowFacts
  <2>3. CASE ~Below(state, KeyOf(i))
    <3>1. \A r \in rows : r.id # i
      BY <1>1, <2>3, BatchIsAbove DEF Transformed
    <3>2. sink'[i] = sink[i]
      BY <1>5, <3>1
    <3>3. QED BY <2>1, <2>3, <3>2 DEF LoadInv, CheckpointCovers
  <2>4. CASE Below(state, KeyOf(i))
    <3>1. KeyOf(i) = last \/ Below(KeyOf(i), last)
      BY <1>4, <2>1, <2>2, BelowOrder
    <3>2. KeyOf(i) \in batch[e]
      BY <1>1, <1>3, <2>1, <2>4, <3>1 DEF BatchFollows
    <3>3. KeyOf(i) \in rows
      BY <2>1, <2>2, <3>2 DEF Transformed
    <3>4. QED BY <1>5, <2>2, <3>3
  <2>5. QED BY <2>3, <2>4
<1>7. PastOnly'
  <2>1. last.id \in Ids /\ last.ts <= source[last.id] /\ last.ts \in Nat
    BY <1>1, <1>3, <1>4 DEF BatchFollows, AnyKey
  <2>2. \A i \in Ids : source[i] \in Nat /\ source[i] <= clock
    BY RowFacts DEF LoadInv, PastOnly
  <2>3. clock \in Nat
    BY LoadAssumption DEF LoadTypeOK
  <2>4. last.ts <= clock
    BY <2>1, <2>2, <2>3
  <2>5. \A i \in Ids : sink'[i] # 0 => source[i] # 0
    <3>1. \A r \in rows : source[r.id] # 0
      BY <1>1, BatchIsAbove DEF Transformed
    <3>2. QED BY <1>5, <3>1 DEF LoadInv, PastOnly
  <2>6. QED BY <1>2, <2>2, <2>4, <2>5 DEF PastOnly
<1>8. ExecInv(e)'
  BY <1>1, <1>2 DEF ExecInv
<1>9. ~Below(last, state)
  BY <1>4, BelowOrder
<1>10. QED BY <1>2, <1>6, <1>7, <1>8, <1>9

LEMMA CoverQuiet ==
  ASSUME LoadTypeOK, LoadInv, NEW e \in Executors,
         \/ Begin(e) \/ Load(e) \/ Upsert(e) \/ Continue(e)
         \/ IndexFound(e) \/ IndexMissing(e) \/ CreateIndex(e)
  PROVE  PastOnly' /\ CheckpointCovers' /\ ExecInv(e)'
<1>1. UNCHANGED <<source, clock, target, sink, state, batch>>
  BY DEF Begin, Load, Upsert, Continue, IndexFound, IndexMissing, CreateIndex,
         sourceVars, sinkVars
<1>2. PastOnly' /\ CheckpointCovers'
  BY <1>1, SharedKept
<1>3. BatchFollows(e) => BatchFollows(e)'
  BY <1>1 DEF BatchFollows, KeyOf, Below
<1>4. ExecInv(e)
  BY DEF LoadInv
<1>5. CASE Begin(e)
  <2>1. pc'[e] = "load"
    BY <1>5 DEF Begin, Goto, LoadTypeOK
  <2>2. QED BY <1>2, <2>1 DEF ExecInv
<1>6. CASE Load(e)
  <2>1. pc'[e] = "read" /\ cursor'[e] = state
    BY <1>6 DEF Load, Goto, LoadTypeOK
  <2>2. QED BY <1>1, <1>2, <2>1 DEF ExecInv
<1>7. CASE Upsert(e)
  <2>1. /\ pc[e] = "upsert" /\ pc'[e] = "commit"
        /\ cursor'[e] = LastRow(batch[e]) /\ batch'[e] = batch[e]
    BY <1>1, <1>7 DEF Upsert, Goto, LoadTypeOK
  <2>2. QED BY <1>1, <1>2, <1>3, <1>4, <2>1 DEF ExecInv
<1>8. CASE Continue(e)
  <2>1. pc[e] = "check" /\ pc'[e] = "read" /\ cursor' = cursor
    BY <1>8 DEF Continue, Goto, LoadTypeOK
  <2>2. QED BY <1>1, <1>2, <1>4, <2>1 DEF ExecInv
<1>9. CASE IndexFound(e) \/ IndexMissing(e) \/ CreateIndex(e)
  <2>1. /\ pc[e] \in {"write", "create"} /\ pc'[e] \in {"write", "create"}
        /\ cursor' = cursor
    BY <1>9 DEF IndexFound, IndexMissing, CreateIndex, Goto, LoadTypeOK
  <2>2. QED BY <1>1, <1>2, <1>3, <1>4, <2>1 DEF ExecInv
<1>10. QED BY <1>5, <1>6, <1>7, <1>8, <1>9

\* However an attempt ends, what it left in the sink is harmless.
LEMMA CoverReset ==
  ASSUME SingleExecutor, LoadTypeOK, LoadInv, NEW e \in Executors,
         \/ ReadEof(e) \/ StopForPause(e) \/ InsertRefused(e) \/ CreateRefused(e)
         \/ Error(e) \/ Lost(e)
  PROVE  LoadInv' /\ state' = state
<1>1. Retry(e) \/ Leave(e)
  BY DEF ReadEof, StopForPause, InsertRefused, CreateRefused, Error, Lost
<1>2. \A f \in Executors : ExecInv(f)'
  BY <1>1, ResetPromises
<1>3. UNCHANGED <<source, clock, state>>
  BY DEF ReadEof, StopForPause, InsertRefused, CreateRefused, Error, Lost, sourceVars
<1>4. CASE sink' = sink
  BY <1>2, <1>3, <1>4, SharedKept DEF LoadInv
<1>5. CASE sink' # sink
  <2>1. Error(e) \/ Lost(e)
    BY <1>5 DEF ReadEof, StopForPause, InsertRefused, CreateRefused, sinkVars
  <2>2. /\ pc[e] = "write"
        /\ \E part \in SUBSET Transformed(batch[e]) : sink' = Upserted(part)
    BY <1>5, <2>1 DEF Error, Lost, PartlyWritten
  <2>3. BatchFollows(e)
    BY <2>2 DEF LoadInv, ExecInv
  <2>4. PastOnly' /\ CheckpointCovers'
    BY <1>3, <2>2, <2>3, PartKeepsCovered DEF LoadInv
  <2>5. QED BY <1>2, <1>3, <2>4 DEF LoadInv
<1>6. QED BY <1>4, <1>5

LEMMA CoverStep ==
  ASSUME SingleExecutor, LoadTypeOK, LoadInv, SessionFresh, [LoadNext]_loadVars
  PROVE  LoadInv' /\ (state' # state => ~Below(state', state))
<1>1. ASSUME NEW ids \in Transactions, Change(ids)
      PROVE  LoadInv' /\ state' = state
  BY <1>1, CoverChange, LoadAssumption DEF Change
<1>2. ASSUME NEW e \in Executors, Begin(e) \/ Work(e) \/ Error(e) \/ Lost(e)
      PROVE  LoadInv' /\ (state' # state => ~Below(state', state))
  <2>1. ASSUME PastOnly', CheckpointCovers', ExecInv(e)' PROVE LoadInv'
    <3>1. \A f \in Executors : f = e
      BY DEF SingleExecutor
    <3>2. QED BY <2>1, <3>1 DEF LoadInv
  <2>2. CASE ReadRows(e)
    <3>1. UNCHANGED <<source, clock, sink, state>>
      BY <2>2 DEF ReadRows, sourceVars, sinkVars
    <3>2. QED BY <2>1, <2>2, <3>1, CoverRead, SharedKept
  <2>3. CASE Write(e)
    BY <2>1, <2>3, CoverWrite DEF Write
  <2>4. CASE Commit(e)
    BY <2>1, <2>4, CoverCommit
  <2>5. CASE \/ Begin(e) \/ Load(e) \/ Upsert(e) \/ Continue(e)
             \/ IndexFound(e) \/ IndexMissing(e) \/ CreateIndex(e)
    <3>1. state' = state
      BY <2>5 DEF Begin, Load, Upsert, Continue, IndexFound, IndexMissing, CreateIndex
    <3>2. QED BY <2>1, <2>5, <3>1, CoverQuiet
  <2>6. CASE \/ ReadEof(e) \/ StopForPause(e) \/ InsertRefused(e) \/ CreateRefused(e)
             \/ Error(e) \/ Lost(e)
    BY <2>6, CoverReset
  <2>7. QED BY <1>2, <2>2, <2>3, <2>4, <2>5, <2>6 DEF Work
<1>3. CASE UNCHANGED loadVars
  BY <1>3 DEF loadVars, LoadInv, PastOnly, CheckpointCovers, ExecInv, BatchFollows, KeyOf,
             Below, Transformed, LastRow
<1>4. QED BY <1>1, <1>2, <1>3 DEF LoadNext

LEMMA CoverAlways ==
  SingleExecutor => (LoadSpec => [](LoadTypeOK /\ LoadInv /\ SessionFresh))
<1> SUFFICES ASSUME SingleExecutor
             PROVE  LoadSpec => [](LoadTypeOK /\ LoadInv /\ SessionFresh)
  OBVIOUS
<1> DEFINE Inv == LoadTypeOK /\ BatchesHeld /\ LoadInv /\ SessionFresh
<1>1. LoadInit => Inv
  BY TypeInit, CoverInit DEF LoadInit, SessionFresh
<1>2. Inv /\ [LoadNext]_loadVars => Inv'
  BY TypeStep, CoverStep, SessionStep
<1>3. LoadSpec => []Inv
  BY <1>1, <1>2, PTL DEF LoadSpec
<1>4. Inv => LoadTypeOK /\ LoadInv /\ SessionFresh
  OBVIOUS
<1>5. QED BY <1>3, <1>4, PTL

(* While the pipeline has one executor, no row at or below the committed   *)
(* checkpoint is missing from the sink or old in it: the batch is what     *)
(* follows the checkpoint without a gap, so its last row leaves none       *)
(* behind, and a failed write touches only rows above the checkpoint.      *)
THEOREM CheckpointIsCovered == SingleExecutor => (LoadSpec => []CheckpointCovers)
<1>1. LoadTypeOK /\ LoadInv /\ SessionFresh => CheckpointCovers
  BY DEF LoadInv
<1>2. QED BY <1>1, CoverAlways, PTL

(* While the pipeline has one executor, a commit moves the checkpoint      *)
(* forward: the rows of a batch all lie above the checkpoint it started    *)
(* from, and nobody else moves that one.                                   *)
THEOREM CheckpointNeverBack == SingleExecutor => (LoadSpec => CheckpointMonotonic)
<1> SUFFICES ASSUME SingleExecutor PROVE LoadSpec => CheckpointMonotonic
  OBVIOUS
<1>1. LoadTypeOK /\ LoadInv /\ SessionFresh /\ [LoadNext]_loadVars
        => [~Below(state', state)]_state
  BY CoverStep
<1>2. QED BY <1>1, CoverAlways, PTL DEF LoadSpec, CheckpointMonotonic

(* While the pipeline has one executor, a run that finds no more rows      *)
(* leaves in the sink exactly the rows the transforms keep, each in its    *)
(* present version, although the source changed while it ran.              *)
THEOREM DrainedIsSynced == SingleExecutor => (LoadSpec => DrainedMeansSynced)
<1> SUFFICES ASSUME SingleExecutor PROVE LoadSpec => DrainedMeansSynced
  OBVIOUS
<1>1. ASSUME LoadTypeOK, LoadInv, NEW e \in Executors, ReadEof(e),
             NEW i \in Ids \ Dropped
      PROVE  sink[i] = source[i]
  <2>1. Above(state) = {}
    BY <1>1 DEF ReadEof, LoadInv, ExecInv
  <2>2. CASE source[i] = 0
    BY <1>1, <2>2 DEF LoadInv, PastOnly
  <2>3. CASE source[i] # 0
    <3>1. KeyOf(i) \in Rows
      BY <1>1, <2>3 DEF Rows
    <3>2. ~Below(state, KeyOf(i))
      BY <2>1, <3>1 DEF Above
    <3>3. QED BY <1>1, <2>3, <3>2 DEF LoadInv, CheckpointCovers
  <2>4. QED BY <2>2, <2>3
<1>2. LoadTypeOK /\ LoadInv /\ SessionFresh /\ [LoadNext]_loadVars =>
        [\A e \in Executors : ReadEof(e) => \A i \in Ids \ Dropped : sink[i] = source[i]]_loadVars
  BY <1>1
<1>3. QED BY <1>2, CoverAlways, PTL DEF LoadSpec, DrainedMeansSynced

(***************************************************************************)
(* One executor: the load is a replica.                                    *)
(***************************************************************************)

\* The sink lags behind the source, and behind every batch on its way to it.
SinkBehind ==
  /\ \A i \in Ids : sink[i] <= source[i]
  /\ \A e \in Executors : pc[e] \in {"write", "create", "upsert", "commit"} =>
       \A r \in batch[e] : sink[r.id] <= r.ts

ReplStep == [Copy!ReplNext]_(Copy!replVars)

\* A step that leaves source and checkpoint alone and moves rows forward.
LEMMA ForwardIsDelivery ==
  ASSUME UNCHANGED <<source, clock>>, sink' \in [Ids -> 0 .. MaxTime],
         \A i \in Ids : sink'[i] # sink[i] =>
           i \notin Dropped /\ sink[i] < sink'[i] /\ sink'[i] <= source[i],
         state' # state => /\ Below(state, state') /\ state'.ts <= clock
                           /\ CheckpointCovers'
  PROVE  ReplStep
<1>1. Copy!Forward
  BY DEF Copy!Forward
<1>2. state' # state => Copy!Before(state, state') /\ state'.ts <= clock /\ Copy!DeliveredUpTo(state)'
  BY DEF Copy!Before, Copy!DeliveredUpTo, CheckpointCovers, Below, KeyOf
<1>3. Copy!Deliver
  BY <1>1, <1>2 DEF Copy!Deliver
<1>4. QED BY <1>3 DEF ReplStep, Copy!ReplNext

\* Whatever part of its batch an execution writes, it moves rows forward to
\* versions of the source, and not past its batch.
LEMMA WriteIsForward ==
  ASSUME LoadTypeOK, SinkBehind, NEW e \in Executors, BatchFollows(e),
         pc[e] \in {"write", "create", "upsert", "commit"},
         NEW part \in SUBSET Transformed(batch[e]), sink' = Upserted(part)
  PROVE  /\ sink' \in [Ids -> 0 .. MaxTime]
         /\ \A i \in Ids : sink'[i] # sink[i] =>
              i \notin Dropped /\ sink[i] < sink'[i] /\ sink'[i] <= source[i]
         /\ \A r \in batch[e] : sink'[r.id] <= r.ts
<1>1. part \subseteq batch[e] /\ part \in SUBSET Key
  BY RowFacts DEF Transformed
<1>2. \A r, q \in batch[e] : r.id = q.id => r = q
  BY DEF BatchFollows
<1>3. /\ \A r \in part : r.id \in Ids => sink'[r.id] = r.ts
      /\ \A i \in Ids : (\A r \in part : r.id # i) => sink'[i] = sink[i]
  BY <1>1, <1>2, UpsertedRows
<1>4. \A r \in batch[e] : /\ r.id \in Ids /\ r.ts \in Nat /\ r.ts <= source[r.id]
                          /\ sink[r.id] <= r.ts /\ sink[r.id] \in Nat
  BY RowFacts, LoadAssumption DEF BatchFollows, SinkBehind, LoadTypeOK, AnyKey
<1>5. ASSUME NEW i \in Ids, sink'[i] # sink[i]
      PROVE  i \notin Dropped /\ sink[i] < sink'[i] /\ sink'[i] <= source[i]
  <2>1. PICK r \in part : r.id = i
    BY <1>3, <1>5
  <2>2. sink'[i] = r.ts /\ i \notin Dropped
    BY <1>3, <2>1 DEF Transformed
  <2>3. QED BY <1>1, <1>4, <1>5, <2>1, <2>2
<1>6. ASSUME NEW r \in batch[e] PROVE sink'[r.id] <= r.ts
  <2>1. CASE \A q \in part : q.id # r.id
    BY <1>3, <1>4, <2>1
  <2>2. CASE \E q \in part : q.id = r.id
    <3>1. r \in part
      BY <1>1, <1>2, <2>2
    <3>2. QED BY <1>3, <1>4, <3>1
  <2>3. QED BY <2>1, <2>2
<1>7. QED BY <1>1, <1>5, <1>6, UpsertedType

\* A source transaction is a write of the replica's source.
LEMMA ChangeReplicates ==
  ASSUME LoadTypeOK, LoadInv, SinkBehind, NEW ids \in SUBSET Ids, Change(ids)
  PROVE  SinkBehind' /\ ReplStep
<1>1. /\ clock' = clock + 1 /\ clock \in Nat
      /\ source' = [i \in Ids |-> IF i \in ids THEN clock' ELSE source[i]]
      /\ UNCHANGED <<sink, state, pc, batch>>
  BY LoadAssumption DEF Change, sinkVars, localVars, LoadTypeOK
<1>2. \A i \in Ids : sink[i] \in Nat /\ source[i] \in Nat /\ sink[i] <= source[i]
                    /\ source[i] <= clock
  BY LoadAssumption DEF LoadTypeOK, SinkBehind, LoadInv, PastOnly
<1>3. \A i \in Ids : sink[i] <= source'[i]
  BY <1>1, <1>2
<1>4. Copy!Write
  BY <1>1 DEF Copy!Write
<1>5. QED BY <1>1, <1>3, <1>4 DEF SinkBehind, ReplStep, Copy!ReplNext

\* A step of the execution is a delivery or nothing.
LEMMA StepReplicates ==
  ASSUME SingleExecutor, LoadTypeOK, BatchesHeld, LoadInv, LoadInv', LoadTypeOK',
         SessionFresh, SinkBehind, NEW e \in Executors, Begin(e) \/ Work(e) \/ Error(e) \/ Lost(e)
  PROVE  SinkBehind' /\ ReplStep
<1> DEFINE Batching(l) == l \in {"write", "create", "upsert", "commit"}
<1>1. UNCHANGED <<source, clock>>
  BY DEF Begin, Work, Load, ReadRows, ReadEof, Write, Upsert, Commit, IndexFound,
         IndexMissing, CreateIndex, CreateRefused, Continue, StopForPause, InsertRefused,
         Error, Lost, sourceVars
<1>2. \A f \in Executors : f = e
  BY DEF SingleExecutor
<1>3. \A i \in Ids : sink[i] \in Nat /\ source[i] \in Nat /\ sink[i] <= source[i]
  BY LoadAssumption DEF LoadTypeOK, SinkBehind
<1>4. ASSUME sink' = sink, state' = state, Batching(pc'[e]) => Batching(pc[e]) /\ batch'[e] = batch[e]
      PROVE  SinkBehind' /\ ReplStep
  <2>1. \A f \in Executors : Batching(pc'[f]) => \A r \in batch'[f] : sink'[r.id] <= r.ts
    BY <1>2, <1>4 DEF SinkBehind
  <2>2. SinkBehind'
    BY <1>1, <1>3, <1>4, <2>1 DEF SinkBehind
  <2>3. QED BY <1>1, <1>4, <2>2 DEF ReplStep, Copy!replVars
<1>5. ASSUME NEW part \in SUBSET Transformed(batch[e]), sink' = Upserted(part),
             Batching(pc[e]), Batching(pc'[e]) => batch'[e] = batch[e],
             state' # state => Below(state, state')
      PROVE  SinkBehind' /\ ReplStep
  <2>1. BatchFollows(e)
    BY <1>5 DEF LoadInv, ExecInv
  <2>2. /\ sink' \in [Ids -> 0 .. MaxTime]
        /\ \A i \in Ids : sink'[i] # sink[i] =>
             i \notin Dropped /\ sink[i] < sink'[i] /\ sink'[i] <= source[i]
        /\ \A r \in batch[e] : sink'[r.id] <= r.ts
    BY <1>5, <2>1, WriteIsForward
  <2>3. \A i \in Ids : sink'[i] <= source[i]
    BY <1>3, <2>2
  <2>4. \A f \in Executors : Batching(pc'[f]) => \A r \in batch'[f] : sink'[r.id] <= r.ts
    BY <1>2, <1>5, <2>2
  <2>5. SinkBehind'
    BY <1>1, <2>3, <2>4 DEF SinkBehind
  <2>6. state'.ts <= clock /\ CheckpointCovers'
    BY <1>1 DEF LoadInv, PastOnly
  <2>7. QED BY <1>1, <1>5, <2>2, <2>5, <2>6, ForwardIsDelivery
<1>6. CASE Retry(e) \/ Leave(e)
  <2>1. ~Batching(pc'[e])
    BY <1>6 DEF Retry, Leave, Goto, LoadTypeOK
  <2>2. state' = state
    BY <1>6 DEF Begin, Work, Load, ReadRows, ReadEof, Write, Upsert, Commit, IndexFound,
         IndexMissing, CreateIndex, CreateRefused, Continue, StopForPause, InsertRefused,
         Error, Lost, Retry, Leave, Goto, LoadTypeOK
  <2>3. CASE sink' = sink
    BY <1>4, <2>1, <2>2, <2>3
  <2>4. CASE pc[e] = "write" /\ \E part \in SUBSET Transformed(batch[e]) : sink' = Upserted(part)
    BY <1>5, <2>1, <2>2, <2>4
  <2>5. QED
    BY <1>6, <2>3, <2>4
    DEF Begin, Work, Load, ReadRows, ReadEof, Write, Upsert, Commit, IndexFound,
        IndexMissing, CreateIndex, CreateRefused, Continue, StopForPause, InsertRefused,
        Error, Lost, PartlyWritten, sinkVars, Retry, Leave, Goto, LoadTypeOK
<1>7. CASE ReadRows(e)
  <2>1. /\ UNCHANGED <<sink, state>>
        /\ \A r \in batch'[e] : r.id \in Ids /\ r.ts = source[r.id]
    BY <1>7, RowFacts DEF ReadRows, sinkVars, Limit, Above, Rows, LoadTypeOK
  <2>2. \A f \in Executors : \A r \in batch'[f] : sink'[r.id] <= r.ts
    BY <1>2, <1>3, <2>1
  <2>3. SinkBehind'
    BY <1>1, <1>3, <2>1, <2>2 DEF SinkBehind
  <2>4. QED BY <1>1, <2>1, <2>3 DEF ReplStep, Copy!replVars
<1>8. CASE Write(e)
  <2>1. /\ pc[e] = "write" /\ UNCHANGED <<batch, state>>
    BY <1>8 DEF Write
  <2>2. CASE target = "elasticsearch"
    BY <1>5, <1>8, <2>1, <2>2 DEF Write
  <2>3. CASE target # "elasticsearch"
    BY <1>4, <1>8, <2>1, <2>3 DEF Write
  <2>4. QED BY <2>2, <2>3
<1>9. CASE Commit(e)
  <2>1. /\ pc[e] = "commit" /\ pc'[e] = "check" /\ state' = cursor[e]
    BY <1>9, FlushedIsCursor DEF Commit, Goto, LoadTypeOK
  <2>2. BatchFollows(e) /\ cursor[e] = LastRow(batch[e])
    BY <2>1 DEF LoadInv, ExecInv
  <2>3. LastRow(batch[e]) \in batch[e]
    BY <2>1, RowFacts, LastRowIsLast DEF BatchesHeld
  <2>4. Below(state, state')
    BY <2>1, <2>2, <2>3 DEF BatchFollows
  <2>5. CASE target = "postgres"
    <3>1. sink' = Upserted(Transformed(batch[e]))
      BY <1>9, <2>5 DEF Commit
    <3>2. QED BY <1>5, <2>1, <2>4, <3>1
  <2>6. CASE target # "postgres"
    <3>1. sink' = sink
      BY <1>9, <2>6 DEF Commit
    <3>2. SinkBehind'
      BY <1>1, <1>2, <1>3, <2>1, <3>1 DEF SinkBehind
    <3>3. sink' \in [Ids -> 0 .. MaxTime]
      BY <3>1 DEF LoadTypeOK
    <3>4. state'.ts <= clock /\ CheckpointCovers'
      BY <1>1 DEF LoadInv, PastOnly
    <3>5. ReplStep
      BY <1>1, <2>4, <3>1, <3>3, <3>4, ForwardIsDelivery
    <3>6. QED BY <3>2, <3>5
  <2>7. QED BY <2>5, <2>6
<1>10. CASE Begin(e) \/ Load(e) \/ Continue(e)
  <2>1. /\ UNCHANGED <<sink, state>> /\ ~Batching(pc'[e])
    BY <1>10 DEF Begin, Load, Continue, Goto, sinkVars, LoadTypeOK
  <2>2. QED BY <1>4, <2>1
<1>11. CASE Upsert(e) \/ IndexFound(e) \/ IndexMissing(e) \/ CreateIndex(e)
  <2>1. /\ UNCHANGED <<sink, state, batch>> /\ Batching(pc[e])
    BY <1>11 DEF Upsert, IndexFound, IndexMissing, CreateIndex, sinkVars
  <2>2. QED BY <1>4, <2>1
<1>12. QED
  BY <1>6, <1>7, <1>8, <1>9, <1>10, <1>11
  DEF Work, ReadEof, CreateRefused, StopForPause, InsertRefused, Error, Lost

LEMMA ReplicaStep ==
  ASSUME SingleExecutor, LoadTypeOK, BatchesHeld, LoadInv, SessionFresh, SinkBehind,
         [LoadNext]_loadVars
  PROVE  SinkBehind' /\ ReplStep
<1>1. LoadInv' /\ LoadTypeOK'
  BY TypeStep, CoverStep
<1>2. CASE UNCHANGED loadVars
  BY <1>2 DEF loadVars, SinkBehind, ReplStep, Copy!replVars
<1>3. ASSUME NEW ids \in Transactions, Change(ids) PROVE SinkBehind' /\ ReplStep
  BY <1>3, ChangeReplicates, LoadAssumption
<1>4. QED BY <1>1, <1>2, <1>3, StepReplicates DEF LoadNext

(* The load with one executor implements Replica: every step of it is a    *)
(* write of the source, a delivery that moves some surviving rows forward  *)
(* to a version the source has had and the checkpoint, if at all, forward  *)
(* over rows that are in the sink, or nothing a reader of source, sink and *)
(* checkpoint could see.                                                   *)
THEOREM LoadImplementsReplica == SingleExecutor => (LoadSpec => ReplicaSpec)
<1> SUFFICES ASSUME SingleExecutor PROVE LoadSpec => ReplicaSpec
  OBVIOUS
<1> DEFINE Inv == LoadTypeOK /\ BatchesHeld /\ LoadInv /\ SessionFresh /\ SinkBehind
<1>1. LoadInit => SessionFresh /\ SinkBehind
  BY DEF LoadInit, SessionFresh, SinkBehind
<1>2. LoadInit => Inv
  BY <1>1, TypeInit, CoverInit
<1>3. Inv /\ [LoadNext]_loadVars => Inv'
  BY TypeStep, CoverStep, SessionStep, ReplicaStep
<1>4. Inv /\ [LoadNext]_loadVars => [Copy!ReplNext]_(Copy!replVars)
  BY ReplicaStep DEF ReplStep
<1>5. LoadInit => Copy!ReplInit
  BY DEF LoadInit, NoKey, Copy!ReplInit
<1>6. QED BY <1>2, <1>3, <1>4, <1>5, PTL DEF LoadSpec, ReplicaSpec, Copy!ReplSpec

(* With one executor no write takes a row of the sink back to an older     *)
(* version, although the source may change between the read of a batch and *)
(* its write, and a batch that failed in part is written again.            *)
THEOREM SinkGoesForward == SingleExecutor => (LoadSpec => SinkNeverOlder)
<1> SUFFICES ASSUME SingleExecutor PROVE LoadSpec => SinkNeverOlder
  OBVIOUS
<1> DEFINE Inv == LoadTypeOK /\ BatchesHeld /\ LoadInv /\ SessionFresh /\ SinkBehind
<1>1. LoadInit => SessionFresh /\ SinkBehind
  BY DEF LoadInit, SessionFresh, SinkBehind
<1>2. LoadInit => Inv
  BY <1>1, TypeInit, CoverInit
<1>3. Inv /\ [LoadNext]_loadVars => Inv'
  BY TypeStep, CoverStep, SessionStep, ReplicaStep
<1>4. ASSUME Inv, [LoadNext]_loadVars PROVE \A i \in Ids : sink[i] <= sink'[i]
  <2>1. \A i \in Ids : sink[i] \in Nat /\ sink'[i] \in Nat
    BY <1>4, TypeStep, LoadAssumption DEF LoadTypeOK
  <2>2. \A i \in Ids : sink'[i] # sink[i] => sink[i] < sink'[i]
    BY <1>4, ReplicaStep
    DEF ReplStep, Copy!ReplNext, Copy!Write, Copy!Deliver, Copy!Forward, Copy!replVars
  <2>3. QED BY <2>1, <2>2
<1>5. Inv /\ [LoadNext]_loadVars => [\A i \in Ids : sink[i] <= sink'[i]]_sink
  BY <1>4
<1>6. QED BY <1>2, <1>3, <1>5, PTL DEF LoadSpec, SinkNeverOlder

=============================================================================
