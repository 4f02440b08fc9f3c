---------------------------- MODULE OverlapProofs ----------------------------
(***************************************************************************)
(* Theorems about IncrementalLoad that hold for any number of executors of *)
(* the pipeline: losing a race never exhausts the attempts, every step of  *)
(* an execution brings its end closer, and, while the source changes only  *)
(* between batches, no row goes back and, if it changes one row at a time, *)
(* the checkpoint covers only rows that are in the sink.                   *)
(***************************************************************************)
EXTENDS LoadProofs

(***************************************************************************)
(* Races.  The index and the checkpoint row each come into being once, and *)
(* an execution loses an attempt only to one of these two.                 *)
(***************************************************************************)

\* How many of the two there are.
IndexMade == IF index THEN 1 ELSE 0
CheckpointMade == IF state = NoKey THEN 0 ELSE 1

Real(k) == k.ts # 0 /\ k.id # 0

\* What is read, and hence each column of the checkpoint, comes from a row, and
\* no session has seen a checkpoint that is not there.
RealRows ==
  /\ state # NoKey => Real(state)
  /\ \A e \in Executors :
       /\ \A r \in batch[e] : Real(r)
       /\ pc[e] = "commit" => Real(cursor[e])
       /\ seen[e] # NoKey => state # NoKey

\* Whoever is about to create one of them has not lost the race for it yet.
AttemptsExplained ==
  \A e \in Executors :
    /\ attempt[e] <= 1 + IndexMade + CheckpointMade
    /\ pc[e] = "create" => attempt[e] <= 1 + CheckpointMade
    /\ stateObj[e] = "new" => attempt[e] <= 1 + IndexMade

RaceInv == RealRows /\ (faults = 0 => AttemptsExplained)

LEMMA RaceInit ==
  ASSUME LoadInit
  PROVE  RaceInv
<1>1. IndexMade = 0 /\ CheckpointMade = 0
  BY DEF LoadInit, IndexMade, CheckpointMade
<1>2. RealRows
  BY DEF LoadInit, RealRows
<1>3. AttemptsExplained
  BY <1>1 DEF LoadInit, AttemptsExplained
<1>4. QED BY <1>2, <1>3 DEF RaceInv

LEMMA RowsAreReal ==
  ASSUME LoadTypeOK
  PROVE  \A r \in Rows : Real(r)
<1>1. 0 \notin Ids
  BY LoadAssumption
<1>2. QED BY <1>1, RowsAreKeys DEF Rows, Real

\* Whatever columns a commit names, the checkpoint is there afterwards.
LEMMA FlushedIsReal ==
  ASSUME RealRows, NEW e \in Executors, pc[e] = "commit"
  PROVE  Real(Flushed(e))
<1>1. Real(cursor[e])
  BY DEF RealRows
<1>2. CASE state = NoKey
  <2>1. seen[e] = NoKey
    BY <1>2 DEF RealRows
  <2>2. QED BY <1>1, <2>1 DEF Flushed, Real, NoKey
<1>3. CASE state # NoKey
  <2>1. Real(state)
    BY <1>3 DEF RealRows
  <2>2. QED BY <1>1, <2>1 DEF Flushed, Real
<1>4. QED BY <1>2, <1>3

LEMMA RealStep ==
  ASSUME LoadTypeOK, BatchesHeld, RealRows, [LoadNext]_loadVars
  PROVE  /\ RealRows'
         /\ state # NoKey => state' # NoKey
         /\ index => index'
<1>1. ASSUME NEW e \in Executors, Retry(e) \/ Leave(e), state' = state
      PROVE  RealRows'
  <2>1. pc'[e] # "commit" /\ batch'[e] = {} /\ seen'[e] = NoKey
    BY <1>1 DEF Retry, Leave, Goto, LoadTypeOK
  <2>2. \A f \in Executors \ {e} : /\ pc'[f] = pc[f] /\ batch'[f] = batch[f]
                                   /\ cursor'[f] = cursor[f] /\ seen'[f] = seen[f]
    BY <1>1 DEF Retry, Leave, Goto, LoadTypeOK
  <2>3. QED BY <1>1, <2>1, <2>2 DEF RealRows
<1>2. ASSUME NEW ids \in Transactions, Change(ids)
      PROVE  RealRows' /\ state' = state /\ index' = index
  BY <1>2 DEF Change, localVars, sinkVars, RealRows
<1>3. ASSUME NEW e \in Executors, ReadRows(e)
      PROVE  RealRows' /\ state' = state /\ index' = index
  <2>1. \A r \in Limit(Above(cursor[e]), BatchSize) : Real(r)
    BY RowsAreReal DEF Limit, Above
  <2>2. QED BY <1>3, <2>1 DEF ReadRows, Goto, sinkVars, RealRows, LoadTypeOK
<1>4. ASSUME NEW e \in Executors, Upsert(e)
      PROVE  RealRows' /\ state' = state /\ index' = index
  <2>1. batch[e] \in SUBSET Key /\ batch[e] # {}
    BY <1>4 DEF Upsert, LoadTypeOK, BatchesHeld
  <2>2. Real(LastRow(batch[e]))
    BY <2>1, LastRowIsLast DEF RealRows
  <2>3. \A f \in Executors : seen'[f] \in {seen[f], state}
    BY <1>4 DEF Upsert, LoadTypeOK
  <2>4. QED BY <1>4, <2>2, <2>3 DEF Upsert, Goto, sinkVars, RealRows, LoadTypeOK
<1>5. ASSUME NEW e \in Executors, Commit(e)
      PROVE  RealRows' /\ state' # NoKey /\ index' = index
  <2>1. Real(state')
    BY <1>5, FlushedIsReal DEF Commit
  <2>2. state' # NoKey
    BY <2>1 DEF Real, NoKey
  <2>3. \A f \in Executors : /\ pc'[f] = "commit" => pc[f] = "commit"
                             /\ batch'[f] \subseteq batch[f] /\ cursor'[f] = cursor[f]
    BY <1>5 DEF Commit, Goto, LoadTypeOK
  <2>4. QED BY <1>5, <2>1, <2>2, <2>3 DEF Commit, RealRows
<1>6. ASSUME NEW e \in Executors, CreateIndex(e)
      PROVE  RealRows' /\ state' = state /\ index'
  BY <1>6 DEF CreateIndex, Goto, RealRows, LoadTypeOK
<1>7. ASSUME NEW e \in Executors,
             \/ Begin(e) \/ Load(e) \/ Write(e) \/ IndexFound(e) \/ IndexMissing(e)
             \/ Continue(e)
      PROVE  RealRows' /\ state' = state /\ index' = index
  BY <1>7 DEF Begin, Load, Write, IndexFound, IndexMissing, Continue, Goto, sinkVars,
              RealRows, LoadTypeOK
<1>8. ASSUME NEW e \in Executors,
             \/ ReadEof(e) \/ StopForPause(e) \/ InsertRefused(e) \/ CreateRefused(e)
             \/ Error(e) \/ Lost(e)
      PROVE  /\ RealRows' /\ state' = state
             /\ index => index'
  <2>1. Retry(e) \/ Leave(e)
    BY <1>8 DEF ReadEof, StopForPause, InsertRefused, CreateRefused, Error, Lost
  <2>2. state' = state /\ (index => index')
    BY <1>8 DEF ReadEof, StopForPause, InsertRefused, CreateRefused, Error, Lost,
                PartlyWritten, sinkVars
  <2>3. QED BY <1>1, <2>1, <2>2
<1>9. CASE UNCHANGED loadVars
  BY <1>9 DEF loadVars, RealRows
<1>10. QED
  BY <1>2, <1>3, <1>4, <1>5, <1>6, <1>7, <1>8, <1>9 DEF LoadNext, Work

\* While nothing fails, whoever tries again has lost a race.
LEMMA RetryIsLostRace ==
  ASSUME NEW e \in Executors, Work(e), LoadTypeOK,
         attempt'[e] # attempt[e] \/ (pc[e] # "idle" /\ pc'[e] = "idle")
  PROVE  ReadEof(e) \/ StopForPause(e) \/ InsertRefused(e) \/ CreateRefused(e)
BY DEF Work, Load, ReadRows, Write, Upsert, Commit, IndexFound, IndexMissing, CreateIndex,
       Continue, Goto, LoadTypeOK

\* The attempts of the others, and what bounds them, stay as they are.
LEMMA OthersKeep ==
  ASSUME NEW e \in Executors, LoadTypeOK, Begin(e) \/ Work(e) \/ Error(e) \/ Lost(e),
         NEW f \in Executors, f # e
  PROVE  UNCHANGED <<pc[f], cursor[f], batch[f], stateObj[f], seen[f], ensured[f], attempt[f]>>
<1>1. CASE Retry(e) \/ Leave(e)
  BY <1>1 DEF Retry, Leave, Goto, LoadTypeOK
<1>2. CASE Begin(e) \/ Load(e) \/ ReadRows(e) \/ Write(e) \/ Upsert(e) \/ Commit(e)
  BY <1>2 DEF Begin, Load, ReadRows, Write, Upsert, Commit, Goto, LoadTypeOK
<1>3. CASE IndexFound(e) \/ IndexMissing(e) \/ CreateIndex(e) \/ Continue(e)
  BY <1>3 DEF IndexFound, IndexMissing, CreateIndex, Continue, Goto, LoadTypeOK
<1>4. QED
  BY <1>1, <1>2, <1>3
  DEF Work, ReadEof, CreateRefused, StopForPause, InsertRefused, Error, Lost

LEMMA RaceStep ==
  ASSUME LoadTypeOK, BatchesHeld, RaceInv, [LoadNext]_loadVars
  PROVE  RaceInv'
<1> DEFINE I == IndexMade
           S == CheckpointMade
<1>1. RealRows' /\ (state # NoKey => state' # NoKey) /\ (index => index')
  BY RealStep DEF RaceInv
<1>2. /\ I \in {0, 1} /\ S \in {0, 1} /\ I' \in {0, 1} /\ S' \in {0, 1}
      /\ I <= I' /\ S <= S'
  BY <1>1 DEF IndexMade, CheckpointMade
<1>3. /\ 0 <= 1 + I' + S'
      /\ 1 <= 1 + I' + S' /\ 1 <= 1 + I' /\ 1 <= 1 + S'
  <2>1. I' \in Nat /\ S' \in Nat
    BY <1>2
  <2>2. \A m, n \in Nat : 0 <= 1 + m + n /\ 1 <= 1 + m + n /\ 1 <= 1 + m
    OBVIOUS
  <2>3. QED BY <2>1, <2>2
<1>4. \A e \in Executors : attempt[e] \in Nat
  BY LoadAssumption DEF LoadTypeOK
<1>5. SUFFICES ASSUME faults' = 0 PROVE AttemptsExplained'
  BY <1>1 DEF RaceInv
<1>6. AttemptsExplained
  BY <1>5 DEF RaceInv, LoadNext, loadVars, Change, Begin, Work, Load, ReadRows, ReadEof,
              Write, Upsert, Commit, IndexFound, IndexMissing, CreateIndex, CreateRefused,
              Continue, StopForPause, InsertRefused, Error, Lost, Fault, LoadTypeOK
<1> DEFINE Explained(e) == /\ attempt[e] <= 1 + I + S
                           /\ pc[e] = "create" => attempt[e] <= 1 + S
                           /\ stateObj[e] = "new" => attempt[e] <= 1 + I
<1>7. ASSUME NEW f \in Executors, UNCHANGED <<pc[f], stateObj[f], attempt[f]>>
      PROVE  Explained(f)'
  <2> DEFINE a == attempt[f]
  <2>1. /\ a \in Nat /\ a <= 1 + I + S
        /\ pc[f] = "create" => a <= 1 + S
        /\ stateObj[f] = "new" => a <= 1 + I
    BY <1>4, <1>6 DEF AttemptsExplained
  <2>2. a <= 1 + I' + S' /\ (a <= 1 + S => a <= 1 + S') /\ (a <= 1 + I => a <= 1 + I')
    BY <1>2, <2>1
  <2>3. QED BY <1>7, <2>1, <2>2
<1>8. ASSUME NEW e \in Executors, Begin(e) \/ Work(e)
      PROVE  Explained(e)'
  <2>1. CASE Leave(e)
    <3>1. attempt'[e] = 0 /\ pc'[e] = "idle" /\ stateObj'[e] = "none"
      BY <2>1 DEF Leave, Goto, LoadTypeOK
    <3>2. QED BY <1>3, <3>1
  <2>2. CASE Begin(e)
    <3>1. attempt'[e] = 1 /\ pc'[e] = "load"
      BY <2>2 DEF Begin, Goto, LoadTypeOK
    <3>2. QED BY <1>3, <3>1
  <2>3. CASE CreateRefused(e) /\ ~Leave(e)
    <3>1. /\ attempt'[e] = attempt[e] + 1 /\ pc'[e] = "load" /\ stateObj'[e] = "none"
          /\ pc[e] = "create" /\ index' /\ index
      BY <2>3, <1>1 DEF CreateRefused, Retry, Goto, LoadTypeOK
    <3>2. attempt[e] <= 1 + S /\ I' = 1
      BY <1>6, <3>1 DEF AttemptsExplained, IndexMade
    <3>3. QED BY <1>2, <1>4, <3>1, <3>2
  <2>4. CASE InsertRefused(e) /\ ~Leave(e)
    <3>1. /\ attempt'[e] = attempt[e] + 1 /\ pc'[e] = "load" /\ stateObj'[e] = "none"
          /\ stateObj[e] = "new" /\ state' # NoKey
      BY <2>4, <1>1 DEF InsertRefused, Retry, Goto, LoadTypeOK
    <3>2. attempt[e] <= 1 + I /\ S' = 1
      BY <1>6, <3>1 DEF AttemptsExplained, CheckpointMade
    <3>3. QED BY <1>2, <1>4, <3>1, <3>2
  <2>5. CASE IndexMissing(e)
    <3>1. /\ attempt' = attempt /\ stateObj' = stateObj /\ I = 0
      BY <2>5 DEF IndexMissing, IndexSeen, IndexMade
    <3>2. attempt[e] <= 1 + S
      BY <1>2, <1>4, <1>6, <3>1 DEF AttemptsExplained
    <3>3. QED BY <1>2, <1>4, <1>6, <3>1, <3>2 DEF AttemptsExplained
  <2>6. CASE Upsert(e)
    <3>1. /\ attempt' = attempt /\ pc'[e] = "commit"
          /\ stateObj'[e] = "new" => stateObj[e] = "new" \/ state = NoKey
      BY <2>6 DEF Upsert, Goto, LoadTypeOK
    <3>2. stateObj'[e] = "new" => attempt[e] <= 1 + I
      BY <1>2, <1>4, <1>6, <3>1 DEF AttemptsExplained, CheckpointMade
    <3>3. QED BY <1>2, <1>4, <1>6, <3>1, <3>2 DEF AttemptsExplained
  <2>7. CASE \/ Load(e) \/ ReadRows(e) \/ Write(e) \/ Commit(e) \/ IndexFound(e)
             \/ CreateIndex(e) \/ Continue(e)
    <3>1. /\ attempt' = attempt /\ pc'[e] # "create"
          /\ stateObj'[e] = "new" => stateObj[e] = "new"
      BY <2>7 DEF Load, ReadRows, Write, Commit, IndexFound, CreateIndex, Continue, Goto,
                  LoadTypeOK
    <3>2. QED BY <1>2, <1>4, <1>6, <3>1 DEF AttemptsExplained
  <2>8. QED BY <1>8, <2>1, <2>2, <2>3, <2>4, <2>5, <2>6, <2>7
            DEF Work, ReadEof, StopForPause
<1>9. ASSUME NEW e \in Executors, Begin(e) \/ Work(e) \/ Error(e) \/ Lost(e)
      PROVE  \A f \in Executors : Explained(f)'
  <2>1. Begin(e) \/ Work(e)
    BY <1>5, <1>9 DEF Error, Lost, Fault, LoadTypeOK
  <2>2. QED BY <1>7, <1>8, <1>9, <2>1, OthersKeep
<1>10. (\E ids \in Transactions : Change(ids)) \/ UNCHANGED loadVars =>
        UNCHANGED <<pc, stateObj, attempt>>
  BY DEF Change, localVars, loadVars
<1>11. \A f \in Executors : Explained(f)'
  BY <1>7, <1>9, <1>10 DEF LoadNext
<1>12. QED BY <1>11 DEF AttemptsExplained

(* With the three attempts the code allows, an execution may lose both     *)
(* races, for the index and for the checkpoint row, and goes on: however   *)
(* many executors there are, and whatever the source does, none gives up   *)
(* unless something fails.                                                 *)
THEOREM RacesAreAffordable == MaxAttempts >= 3 => (LoadSpec => RacesNeverExhaust)
<1> SUFFICES ASSUME MaxAttempts >= 3 PROVE LoadSpec => RacesNeverExhaust
  OBVIOUS
<1> DEFINE Inv == LoadTypeOK /\ BatchesHeld /\ RaceInv
           Ends == \A e \in Executors :
                     faults' = 0 /\ pc[e] # "idle" /\ pc'[e] = "idle"
                       => ReadEof(e) \/ StopForPause(e)
<1>1. LoadInit => Inv
  BY TypeInit, RaceInit
<1>2. Inv /\ [LoadNext]_loadVars => Inv'
  BY TypeStep, RaceStep
<1>3. ASSUME Inv, LoadNext PROVE Ends
  <2> SUFFICES ASSUME NEW e \in Executors, faults' = 0, pc[e] # "idle", pc'[e] = "idle"
               PROVE  ReadEof(e) \/ StopForPause(e)
    OBVIOUS
  <2>1. Work(e)
    <3>1. ~(\E ids \in Transactions : Change(ids))
      BY DEF Change, localVars
    <3>2. \E f \in Executors : Begin(f) \/ Work(f) \/ Error(f) \/ Lost(f)
      BY <1>3, <3>1 DEF LoadNext
    <3>3. Begin(e) \/ Work(e) \/ Error(e) \/ Lost(e)
      BY <1>3, <3>2, OthersKeep
    <3>4. QED BY <1>3, <3>3 DEF Begin, Error, Lost, Fault, LoadTypeOK
  <2>2. faults = 0
    BY <2>1 DEF Work, Load, ReadRows, ReadEof, Write, Upsert, Commit, IndexFound,
                IndexMissing, CreateIndex, CreateRefused, Continue, StopForPause,
                InsertRefused
  <2>3. /\ attempt[e] \in Nat /\ IndexMade \in {0, 1} /\ CheckpointMade \in {0, 1}
        /\ AttemptsExplained
    BY <1>3, <2>2, LoadAssumption DEF RaceInv, LoadTypeOK, IndexMade, CheckpointMade
  <2>4. CASE CreateRefused(e) \/ InsertRefused(e)
    <3>1. attempt[e] <= 2
      BY <2>3, <2>4 DEF AttemptsExplained, CreateRefused, InsertRefused
    <3>2. attempt[e] < MaxAttempts
      BY <2>3, <3>1, LoadAssumption
    <3>3. pc'[e] = "load"
      BY <1>3, <2>4, <3>2 DEF CreateRefused, InsertRefused, Retry, Goto, LoadTypeOK
    <3>4. QED BY <3>3
  <2>5. QED BY <1>3, <2>1, <2>4, RetryIsLostRace
<1>4. Inv /\ [LoadNext]_loadVars => [Ends]_loadVars
  BY <1>3
<1>5. QED BY <1>1, <1>2, <1>4, PTL DEF LoadSpec, RacesNeverExhaust

(***************************************************************************)
(* Advance.  Attempts, keys ahead of the cursor, and stages are a measure  *)
(* that every step of an execution brings down.                            *)
(***************************************************************************)

\* There are finitely many keys.
LEMMA KeyIsFinite == IsFiniteSet(Key)
<1> DEFINE times == 0 .. MaxTime
           pairs == times \X (Ids \cup {0})
           f == [p \in pairs |-> [ts |-> p[1], id |-> p[2]]]
<1>1. PICK n \in Nat : Ids \cup {0} \subseteq 0 .. n
  <2>1. PICK n \in Ids \cup {0} : \A i \in Ids : i <= n
    BY LoadAssumption
  <2>2. n \in Nat /\ \A i \in Ids \cup {0} : i \in Nat /\ i <= n
    BY <2>1, LoadAssumption
  <2>3. Ids \cup {0} \subseteq 0 .. n
    BY <2>2
  <2>4. QED BY <2>2, <2>3
<1>2. IsFiniteSet(0 .. n) /\ IsFiniteSet(times)
  BY FS_Interval, LoadAssumption
<1>3. IsFiniteSet(Ids \cup {0})
  BY <1>1, <1>2, FS_Subset
<1>4. IsFiniteSet(pairs)
  BY <1>2, <1>3, FS_Product
<1>5. f \in Surjection(pairs, Key)
  <2>1. \A p \in pairs : f[p] \in Key
    BY DEF Key
  <2>2. ASSUME NEW k \in Key PROVE \E p \in pairs : f[p] = k
    <3>1. <<k.ts, k.id>> \in pairs /\ k = [ts |-> k.ts, id |-> k.id]
      BY DEF Key
    <3>2. f[<<k.ts, k.id>>] = k
      BY <3>1
    <3>3. QED BY <3>1, <3>2
  <2>3. QED BY <2>1, <2>2 DEF Surjection
<1>6. QED BY <1>4, <1>5, FS_Surjection

\* A cursor that moves up has fewer keys ahead of it.
LEMMA AheadShrinks ==
  ASSUME NEW k \in Key, NEW l \in Key
  PROVE  LET after(c) == {m \in Key : Below(c, m)} IN
           /\ Cardinality(after(k)) \in Nat
           /\ Below(k, l) => Cardinality(after(l)) < Cardinality(after(k))
<1> DEFINE after(c) == {m \in Key : Below(c, m)}
<1>1. IsFiniteSet(after(k)) /\ IsFiniteSet(after(l))
  BY KeyIsFinite, FS_Subset
<1>2. Cardinality(after(k)) \in Nat /\ Cardinality(after(l)) \in Nat
  BY <1>1, FS_CardinalityType
<1>3. ASSUME Below(k, l) PROVE Cardinality(after(l)) < Cardinality(after(k))
  <2>1. after(l) \subseteq after(k)
    BY <1>3, KeysAreKeys, BelowOrder
  <2>2. l \in after(k) /\ l \notin after(l)
    BY <1>3, KeysAreKeys, BelowOrder
  <2>3. /\ Cardinality(after(l)) <= Cardinality(after(k))
        /\ Cardinality(after(l)) = Cardinality(after(k)) => after(l) = after(k)
    BY <1>1, <2>1, FS_Subset
  <2>4. QED BY <1>2, <2>2, <2>3
<1>4. QED BY <1>2, <1>3

\* An attempt starts below every key, and a batch lies above its cursor.
CursorBehind ==
  \A e \in Executors :
    /\ pc[e] = "load" => cursor[e] = NoKey
    /\ pc[e] = "idle" => cursor[e] = NoKey
    /\ pc[e] \in {"write", "create", "upsert"} => \A r \in batch[e] : Below(cursor[e], r)

LEMMA CursorBehindStep ==
  ASSUME LoadTypeOK, CursorBehind, [LoadNext]_loadVars
  PROVE  CursorBehind'
<1> DEFINE Behind(e) ==
             /\ pc[e] = "load" => cursor[e] = NoKey
             /\ pc[e] = "idle" => cursor[e] = NoKey
             /\ pc[e] \in {"write", "create", "upsert"} =>
                  \A r \in batch[e] : Below(cursor[e], r)
<1>1. ASSUME NEW e \in Executors, UNCHANGED <<pc[e], cursor[e], batch[e]>>
      PROVE  Behind(e)'
  BY <1>1 DEF CursorBehind, Below
<1>2. ASSUME NEW e \in Executors, Begin(e) \/ Work(e) \/ Error(e) \/ Lost(e)
      PROVE  Behind(e)'
  <2>1. CASE Retry(e) \/ Leave(e)
    <3>1. pc'[e] \in {"load", "idle"} /\ cursor'[e] = NoKey
      BY <2>1 DEF Retry, Leave, Goto, LoadTypeOK
    <3>2. QED BY <3>1
  <2>2. CASE ReadRows(e)
    <3>1. /\ pc'[e] = "write" /\ cursor' = cursor
          /\ \A r \in batch'[e] : Below(cursor[e], r)
      BY <2>2 DEF ReadRows, Goto, Limit, Above, LoadTypeOK
    <3>2. QED BY <3>1 DEF Below
  <2>3. CASE Begin(e)
    <3>1. pc'[e] = "load" /\ pc[e] = "idle" /\ cursor' = cursor
      BY <2>3 DEF Begin, Goto, LoadTypeOK
    <3>2. QED BY <3>1 DEF CursorBehind
  <2>4. CASE Load(e) \/ Upsert(e) \/ Commit(e) \/ Continue(e)
    <3>1. pc'[e] \in {"read", "commit", "check"}
      BY <2>4 DEF Load, Upsert, Commit, Continue, Goto, LoadTypeOK
    <3>2. QED BY <3>1
  <2>5. CASE Write(e) \/ IndexFound(e) \/ IndexMissing(e) \/ CreateIndex(e)
    <3>1. /\ pc[e] \in {"write", "create"} /\ pc'[e] \in {"write", "create", "upsert"}
          /\ cursor' = cursor /\ batch' = batch
      BY <2>5 DEF Write, IndexFound, IndexMissing, CreateIndex, Goto, LoadTypeOK
    <3>2. QED BY <3>1 DEF CursorBehind, Below
  <2>6. QED
    BY <1>2, <2>1, <2>2, <2>3, <2>4, <2>5
    DEF Work, ReadEof, CreateRefused, StopForPause, InsertRefused, Error, Lost
<1>3. (\E ids \in Transactions : Change(ids)) \/ UNCHANGED loadVars =>
        UNCHANGED <<pc, cursor, batch>>
  BY DEF Change, localVars, loadVars
<1>4. \A e \in Executors : Behind(e)'
  BY <1>1, <1>2, <1>3, OthersKeep DEF LoadNext
<1>5. QED BY <1>4 DEF CursorBehind

\* A step of the body is never a stuttering step of its executor.
LEMMA WorkMoves ==
  ASSUME LoadTypeOK, NEW e \in Executors, Work(e)
  PROVE  pc'[e] # pc[e] \/ ensured'[e] # ensured[e]
<1>1. CASE Retry(e) \/ Leave(e)
  BY <1>1 DEF Work, Load, ReadRows, ReadEof, Write, Upsert, Commit, IndexFound, IndexMissing,
              CreateIndex, CreateRefused, Continue, StopForPause, InsertRefused,
              Retry, Leave, Goto, LoadTypeOK
<1>2. CASE IndexFound(e)
  BY <1>2 DEF IndexFound, NeedsIndex, LoadTypeOK
<1>3. CASE \/ Load(e) \/ ReadRows(e) \/ Write(e) \/ Upsert(e) \/ Commit(e)
           \/ IndexMissing(e) \/ CreateIndex(e) \/ Continue(e)
  BY <1>3 DEF Load, ReadRows, Write, Upsert, Commit, IndexMissing, CreateIndex, Continue,
              Goto, LoadTypeOK
<1>4. QED
  BY <1>1, <1>2, <1>3 DEF Work, ReadEof, CreateRefused, StopForPause, InsertRefused

LEMMA StepIsCloser ==
  ASSUME LoadTypeOK, BatchesHeld, CursorBehind, NEW e \in Executors,
         Work(e) \/ Error(e) \/ Lost(e), pc'[e] # "idle"
  PROVE  Closer(e)
<1>1. /\ attempt[e] \in Nat /\ cursor[e] \in Key /\ state \in Key
      /\ batch[e] \in SUBSET Key
  BY LoadAssumption DEF LoadTypeOK
<1>2. CASE Retry(e) \/ Leave(e)
  <2>1. attempt'[e] = attempt[e] + 1
    BY <1>2 DEF Retry, Leave, Goto, LoadTypeOK
  <2>2. QED BY <1>1, <2>1 DEF Closer
<1>3. ASSUME cursor'[e] = cursor[e], attempt' = attempt, Stage(e)' < Stage(e)
      PROVE  Closer(e)
  <2>1. Ahead(e)' = Ahead(e)
    BY <1>3 DEF Ahead, Key, Below
  <2>2. QED BY <1>3, <2>1 DEF Closer
<1>4. ASSUME NEW k \in Key, Below(cursor[e], k), cursor'[e] = k, attempt' = attempt
      PROVE  Closer(e)
  <2>1. Cardinality({m \in Key : Below(k, m)}) < Cardinality({m \in Key : Below(cursor[e], m)})
    BY <1>1, <1>4, AheadShrinks
  <2>2. Ahead(e)' = Cardinality({m \in Key : Below(k, m)})
    BY <1>4 DEF Ahead, Key, Below
  <2>3. QED BY <1>4, <2>1, <2>2 DEF Closer, Ahead
<1>5. CASE Load(e)
  <2>1. /\ cursor[e] = NoKey /\ cursor'[e] = state /\ attempt' = attempt
        /\ pc[e] = "load" /\ pc'[e] = "read"
    BY <1>5 DEF Load, Goto, LoadTypeOK, CursorBehind
  <2>2. CASE state = NoKey
    <3>1. Stage(e) = 9 /\ Stage(e)' = 6
      BY <2>1 DEF Stage
    <3>2. QED BY <1>3, <2>1, <2>2, <3>1
  <2>3. CASE state # NoKey
    <3>1. ~Below(state, NoKey)
      BY <1>1, KeysAreKeys DEF AnyKey, NoKey, Below
    <3>2. Below(NoKey, state)
      BY <1>1, <2>3, <3>1, NoKeyIsKey, KeysAreKeys, BelowOrder
    <3>3. QED BY <1>1, <1>4, <2>1, <3>2
  <2>4. QED BY <2>2, <2>3
<1>6. CASE Upsert(e)
  <2>1. LastRow(batch[e]) \in batch[e]
    BY <1>1, <1>6, LastRowIsLast DEF Upsert, BatchesHeld
  <2>2. Below(cursor[e], LastRow(batch[e]))
    BY <1>6, <2>1 DEF Upsert, CursorBehind
  <2>3. cursor'[e] = LastRow(batch[e]) /\ attempt' = attempt
    BY <1>6 DEF Upsert, LoadTypeOK
  <2>4. QED BY <1>1, <1>4, <2>1, <2>2, <2>3
<1>7. CASE ReadRows(e) \/ Commit(e) \/ Continue(e)
  <2>1. /\ cursor' = cursor /\ attempt' = attempt /\ ensured' = ensured
        /\ \/ pc[e] = "read" /\ pc'[e] = "write"
           \/ pc[e] = "commit" /\ pc'[e] = "check"
           \/ pc[e] = "check" /\ pc'[e] = "read"
    BY <1>7 DEF ReadRows, Commit, Continue, Goto, LoadTypeOK
  <2>2. Stage(e)' < Stage(e)
    BY <2>1 DEF Stage
  <2>3. QED BY <1>3, <2>1, <2>2
<1>8. CASE Write(e) \/ IndexFound(e) \/ IndexMissing(e) \/ CreateIndex(e)
  <2>1. /\ cursor' = cursor /\ attempt' = attempt
        /\ \/ pc[e] = "write" /\ pc'[e] = "upsert"
           \/ pc[e] = "write" /\ ~ensured[e] /\ pc'[e] = "write" /\ ensured'[e]
           \/ pc[e] = "write" /\ ~ensured[e] /\ pc'[e] = "create"
           \/ pc[e] = "create" /\ pc'[e] = "write" /\ ensured'[e]
    BY <1>8 DEF Write, IndexFound, IndexMissing, CreateIndex, NeedsIndex, Goto, LoadTypeOK
  <2>2. Stage(e)' < Stage(e)
    BY <2>1 DEF Stage
  <2>3. QED BY <1>3, <2>1, <2>2
<1>9. QED
  BY <1>2, <1>5, <1>6, <1>7, <1>8
  DEF Work, ReadEof, CreateRefused, StopForPause, InsertRefused, Error, Lost

(* However many executors there are, and whatever the source does, every   *)
(* step of an execution that does not end it uses up an attempt, moves its *)
(* cursor up or leads to the next of finitely many stages, and nobody else *)
(* undoes that: an execution that keeps taking steps ends.                 *)
THEOREM ExecutionsAdvance == LoadSpec => LoadAdvances
<1> DEFINE Inv == LoadTypeOK /\ BatchesHeld /\ CursorBehind
           Same(e) == UNCHANGED <<pc[e], cursor[e], batch[e], stateObj[e], seen[e],
                                  ensured[e], attempt[e]>>
           Advance == \A e \in Executors : pc[e] # "idle" /\ pc'[e] # "idle" =>
                        Closer(e) \/ (Same(e) /\ ~Work(e))
<1>1. LoadInit => Inv
  BY TypeInit DEF LoadInit, CursorBehind
<1>2. Inv /\ [LoadNext]_loadVars => Inv'
  BY TypeStep, CursorBehindStep
<1>3. ASSUME Inv, LoadNext PROVE Advance
  <2> SUFFICES ASSUME NEW e \in Executors, pc[e] # "idle", pc'[e] # "idle"
               PROVE  Closer(e) \/ (Same(e) /\ ~Work(e))
    OBVIOUS
  <2>1. Same(e) => ~Work(e)
    BY <1>3, WorkMoves
  <2>2. CASE \E ids \in Transactions : Change(ids)
    <3>1. Same(e)
      BY <2>2 DEF Change, localVars
    <3>2. QED BY <2>1, <3>1
  <2>3. ASSUME NEW f \in Executors, f # e, Begin(f) \/ Work(f) \/ Error(f) \/ Lost(f)
        PROVE  Same(e)
    BY <1>3, <2>3, OthersKeep
  <2>4. CASE Begin(e) \/ Work(e) \/ Error(e) \/ Lost(e)
    BY <1>3, <2>4, StepIsCloser DEF Begin
  <2>5. QED BY <1>3, <2>1, <2>2, <2>3, <2>4 DEF LoadNext
<1>4. Inv /\ [LoadNext]_loadVars =>
        [\A e \in Executors : pc[e] # "idle" /\ pc'[e] # "idle" =>
           \/ Closer(e)
           \/ /\ UNCHANGED <<pc[e], cursor[e], batch[e], stateObj[e], seen[e], ensured[e],
                              attempt[e]>>
              /\ ~Work(e)]_loadVars
  BY <1>3
<1>5. QED BY <1>1, <1>2, <1>4, PTL DEF LoadSpec, LoadAdvances

(***************************************************************************)
(* A calm source: it changes only while no executor holds a batch.  Then a *)
(* batch holds present rows until it is written, whatever becomes of the   *)
(* checkpoint.                                                             *)
(***************************************************************************)

\* Sink, checkpoint and cursors lie in the past of the source.
NothingAhead ==
  /\ \A i \in Ids : source[i] <= clock /\ sink[i] <= source[i]
  /\ state.ts <= clock
  /\ \A e \in Executors : cursor[e].ts <= clock

PresentInv ==
  /\ NothingAhead
  /\ \A e \in Executors : batch[e] \subseteq Rows

\* A commit leaves one time or the other in the checkpoint.
LEMMA FlushedTime ==
  ASSUME NEW e \in Executors
  PROVE  Flushed(e).ts \in {state.ts, cursor[e].ts}
BY DEF Flushed

LEMMA PresentInit ==
  ASSUME LoadInit
  PROVE  PresentInv
BY LoadAssumption DEF LoadInit, NoKey, NothingAhead, PresentInv

\* Writing present rows brings each of them up to date and touches no other.
LEMMA UpsertedPresent ==
  ASSUME LoadTypeOK, NEW K \in SUBSET Rows
  PROVE  /\ \A i \in Ids : Upserted(K)[i] \in {sink[i], source[i]}
         /\ \A r \in K : r.id \in Ids /\ Upserted(K)[r.id] = source[r.id]
<1>1. \A r \in K : r.id \in Ids /\ r = KeyOf(r.id) /\ r.ts = source[r.id]
  BY RowFacts DEF Rows
<1>2. K \in SUBSET Key /\ \A r, q \in K : r.id = q.id => r = q
  BY <1>1, RowsAreKeys
<1>3. /\ \A r \in K : r.id \in Ids => Upserted(K)[r.id] = r.ts
      /\ \A i \in Ids : (\A r \in K : r.id # i) => Upserted(K)[i] = sink[i]
  BY <1>2, UpsertedRows
<1>4. QED BY <1>1, <1>3

\* No step of an executor writes anything but present rows.
LEMMA PresentWrites ==
  ASSUME LoadTypeOK, PresentInv, NEW e \in Executors,
         Begin(e) \/ Work(e) \/ Error(e) \/ Lost(e)
  PROVE  /\ source' = source /\ clock' = clock /\ target' = target
         /\ \A i \in Ids : sink'[i] \in {sink[i], source[i]}
<1>1. batch[e] \subseteq Rows
  BY DEF PresentInv
<1>2. \A part \in SUBSET Transformed(batch[e]) :
        \A i \in Ids : Upserted(part)[i] \in {sink[i], source[i]}
  BY <1>1, UpsertedPresent DEF Transformed
<1>3. source' = source /\ clock' = clock /\ target' = target
  BY DEF Begin, Work, Load, ReadRows, ReadEof, Write, Upsert, Commit, IndexFound,
         IndexMissing, CreateIndex, CreateRefused, Continue, StopForPause, InsertRefused,
         Error, Lost, sourceVars, sinkVars
<1>4. \/ sink' = sink
      \/ \E part \in SUBSET Transformed(batch[e]) : sink' = Upserted(part)
  BY DEF Begin, Work, Load, ReadRows, ReadEof, Write, Upsert, Commit, IndexFound,
         IndexMissing, CreateIndex, CreateRefused, Continue, StopForPause, InsertRefused,
         Error, Lost, PartlyWritten, sinkVars
<1>5. QED BY <1>2, <1>3, <1>4

\* An execution's cursor and the checkpoint take their times from rows.
LEMMA AheadStep ==
  ASSUME LoadTypeOK, BatchesHeld, PresentInv, NEW e \in Executors,
         Begin(e) \/ Work(e) \/ Error(e) \/ Lost(e)
  PROVE  NothingAhead'
<1>1. /\ clock' = clock /\ source' = source
      /\ \A i \in Ids : sink'[i] \in {sink[i], source[i]}
  BY PresentWrites
<1>2. /\ clock \in Nat /\ \A i \in Ids : source[i] \in Nat /\ source[i] <= clock
      /\ \A i \in Ids : sink[i] <= source[i]
      /\ state.ts <= clock /\ \A f \in Executors : cursor[f].ts <= clock
  BY LoadAssumption DEF LoadTypeOK, PresentInv, NothingAhead
<1>3. state' \in {state, Flushed(e)}
  BY DEF Begin, Work, Load, ReadRows, ReadEof, Write, Upsert, Commit, IndexFound,
         IndexMissing, CreateIndex, CreateRefused, Continue, StopForPause, InsertRefused,
         Error, Lost
<1>4. state'.ts <= clock
  BY <1>2, <1>3, FlushedTime
<1>5. cursor'[e].ts <= clock
  <2>1. CASE Retry(e) \/ Leave(e)
    <3>1. cursor'[e] = NoKey
      BY <2>1 DEF Retry, Leave, LoadTypeOK
    <3>2. QED BY <1>2, <3>1 DEF NoKey
  <2>2. CASE Load(e)
    BY <1>2, <2>2 DEF Load, LoadTypeOK
  <2>3. CASE Upsert(e)
    <3>1. LastRow(batch[e]) \in Rows
      BY <2>3, LastRowIsLast DEF Upsert, BatchesHeld, PresentInv, LoadTypeOK
    <3>2. LastRow(batch[e]).ts <= clock
      BY <1>2, <3>1, RowFacts DEF Rows
    <3>3. QED BY <2>3, <3>2 DEF Upsert, LoadTypeOK
  <2>4. CASE cursor' = cursor
    BY <1>2, <2>4
  <2>5. QED
    BY <2>1, <2>2, <2>3, <2>4
    DEF Begin, Work, ReadRows, ReadEof, Write, Commit, IndexFound, IndexMissing, CreateIndex,
        CreateRefused, Continue, StopForPause, InsertRefused, Error, Lost
<1>6. \A f \in Executors : cursor'[f].ts <= clock
  BY <1>2, <1>5, OthersKeep
<1>7. \A i \in Ids : sink'[i] <= source[i]
  BY <1>1, <1>2
<1>8. QED BY <1>1, <1>2, <1>4, <1>6, <1>7 DEF NothingAhead

LEMMA PresentStep ==
  ASSUME LoadTypeOK, BatchesHeld, PresentInv, [CalmNext]_loadVars
  PROVE  PresentInv' /\ \A i \in Ids : sink[i] <= sink'[i]
<1>1. \A i \in Ids : sink[i] \in Nat /\ sink[i] <= source[i]
  BY LoadAssumption DEF LoadTypeOK, PresentInv, NothingAhead
<1>2. ASSUME NEW ids \in Transactions, CalmChange(ids)
      PROVE  PresentInv' /\ \A i \in Ids : sink[i] <= sink'[i]
  <2>1. /\ clock' = clock + 1 /\ clock \in Nat
        /\ source' = [i \in Ids |-> IF i \in ids THEN clock' ELSE source[i]]
        /\ UNCHANGED <<sink, state, cursor, batch>>
        /\ \A e \in Executors : batch[e] = {}
    BY <1>2, LoadAssumption DEF CalmChange, Change, sinkVars, localVars, LoadTypeOK
  <2>2. /\ \A i \in Ids : source[i] \in Nat /\ source[i] <= clock
        /\ state.ts \in Nat /\ state.ts <= clock
        /\ \A e \in Executors : cursor[e].ts \in Nat /\ cursor[e].ts <= clock
    BY LoadAssumption, KeysAreKeys DEF LoadTypeOK, PresentInv, NothingAhead, AnyKey
  <2>3. \A i \in Ids : source'[i] <= clock + 1 /\ sink[i] <= source'[i]
    BY <1>1, <2>1, <2>2
  <2>4. NothingAhead'
    BY <2>1, <2>2, <2>3 DEF NothingAhead
  <2>5. QED BY <1>1, <2>1, <2>4 DEF PresentInv
<1>3. ASSUME NEW e \in Executors, Begin(e) \/ Work(e) \/ Error(e) \/ Lost(e)
      PROVE  PresentInv' /\ \A i \in Ids : sink[i] <= sink'[i]
  <2>1. /\ source' = source
        /\ \A i \in Ids : sink'[i] \in {sink[i], source[i]}
    BY <1>3, PresentWrites
  <2>2. Rows' = Rows
    BY <2>1 DEF Rows, KeyOf
  <2>3. batch'[e] \subseteq Rows
    <3>1. CASE Retry(e) \/ Leave(e) \/ Commit(e)
      BY <3>1 DEF Retry, Leave, Commit, LoadTypeOK
    <3>2. CASE ReadRows(e)
      BY <3>2 DEF ReadRows, Limit, Above, LoadTypeOK
    <3>3. CASE batch' = batch
      BY <3>3 DEF PresentInv
    <3>4. QED
      BY <1>3, <3>1, <3>2, <3>3
      DEF Begin, Work, Load, ReadEof, Write, Upsert, IndexFound, IndexMissing, CreateIndex,
          CreateRefused, Continue, StopForPause, InsertRefused, Error, Lost
  <2>4. \A f \in Executors : batch'[f] \subseteq Rows'
    BY <1>3, <2>2, <2>3, OthersKeep DEF PresentInv
  <2>5. QED BY <1>1, <1>3, <2>1, <2>4, AheadStep DEF PresentInv
<1>4. ASSUME UNCHANGED loadVars
      PROVE  PresentInv' /\ \A i \in Ids : sink[i] <= sink'[i]
  BY <1>1, <1>4 DEF loadVars, PresentInv, NothingAhead, Rows, KeyOf
<1>5. QED BY <1>2, <1>3, <1>4 DEF CalmNext

LEMMA CalmIsLoad == [CalmNext]_loadVars => [LoadNext]_loadVars
BY DEF CalmNext, CalmChange, LoadNext

LEMMA PresentAlways == CalmLoadSpec => [](LoadTypeOK /\ BatchesHeld /\ PresentInv)
<1>1. LoadInit => LoadTypeOK /\ BatchesHeld /\ PresentInv
  BY TypeInit, PresentInit
<1>2. LoadTypeOK /\ BatchesHeld /\ PresentInv /\ [CalmNext]_loadVars =>
        (LoadTypeOK /\ BatchesHeld /\ PresentInv)'
  BY TypeStep, PresentStep, CalmIsLoad
<1>3. QED BY <1>1, <1>2, PTL DEF CalmLoadSpec

(* Over a calm source no write takes a row of the sink back to an older    *)
(* version, however many executors there are: not a retry's, not that of   *)
(* one which has fallen behind, not what a failed bulk request applied,    *)
(* and not after two executors have mixed their keys in the checkpoint.    *)
THEOREM CalmSinkNeverOlder == CalmLoadSpec => SinkNeverOlder
<1>1. LoadTypeOK /\ BatchesHeld /\ PresentInv /\ [CalmNext]_loadVars =>
        [\A i \in Ids : sink[i] <= sink'[i]]_sink
  BY PresentStep
<1>2. QED BY <1>1, PresentAlways, PTL DEF CalmLoadSpec, SinkNeverOlder

(***************************************************************************)
(* A calm source whose transactions change one row each: no two rows carry *)
(* the same time.  The id in a mixed checkpoint then says nothing, and the *)
(* time, which is always the time of a row that was committed, is enough.  *)
(***************************************************************************)
OneRowAtATime == \A ids \in Transactions : \A i, j \in ids : i = j

DistinctTimes == \A i, j \in Ids : source[i] # 0 /\ source[i] = source[j] => i = j

\* The surviving rows up to time t are in the sink.
CoveredTo(t) ==
  \A i \in Ids \ Dropped : source[i] # 0 /\ source[i] <= t => sink[i] = source[i]

\* Whatever a batch leaves out up to one of its rows is in the sink already, be
\* it by the hand of another executor.
BatchCloses(e) ==
  \A i \in Ids \ Dropped, q \in batch[e] :
    source[i] # 0 /\ source[i] <= q.ts => sink[i] = source[i] \/ KeyOf(i) \in batch[e]

CalmExec(e) ==
  /\ BatchCloses(e)
  /\ pc[e] \in {"read", "write", "create", "upsert", "check"} => CoveredTo(cursor[e].ts)
  /\ pc[e] = "commit" => cursor[e] = LastRow(batch[e])
  /\ pc[e] \in {"upsert", "commit"} /\ target = "elasticsearch" =>
       \A r \in Transformed(batch[e]) : sink[r.id] = source[r.id]

CalmInv ==
  /\ DistinctTimes
  /\ CoveredTo(state.ts)
  /\ \A e \in Executors : CalmExec(e)

LEMMA CalmInit ==
  ASSUME LoadInit
  PROVE  CalmInv
<1>1. DistinctTimes /\ CoveredTo(state.ts)
  BY DEF LoadInit, DistinctTimes, CoveredTo
<1>2. \A e \in Executors : CalmExec(e)
  BY DEF LoadInit, CalmExec, BatchCloses
<1>3. QED BY <1>1, <1>2 DEF CalmInv

\* What is covered stays covered, and what is closed stays closed.
LEMMA CalmStays ==
  ASSUME PresentInv, source' = source, target' = target,
         \A i \in Ids : sink'[i] \in {sink[i], source[i]}
  PROVE  /\ \A t : CoveredTo(t) =>
              \A i \in Ids \ Dropped : source[i] # 0 /\ source[i] <= t => sink'[i] = source[i]
         /\ \A e \in Executors :
              /\ UNCHANGED <<pc[e], cursor[e], batch[e]>> => (CalmExec(e) => CalmExec(e)')
              /\ batch'[e] = batch[e] => (BatchCloses(e) => BatchCloses(e)')
<1>1. \A t : CoveredTo(t) =>
        \A i \in Ids \ Dropped : source[i] # 0 /\ source[i] <= t => sink'[i] = source[i]
  BY DEF CoveredTo
<1>2. ASSUME NEW e \in Executors, batch'[e] = batch[e], BatchCloses(e)
      PROVE  BatchCloses(e)'
  <2>1. \A i \in Ids : KeyOf(i)' = KeyOf(i)
    BY DEF KeyOf
  <2>2. ASSUME NEW i \in Ids \ Dropped, NEW q \in batch[e], source[i] # 0,
               source[i] <= q.ts
        PROVE  sink'[i] = source[i] \/ KeyOf(i) \in batch[e]
    BY <1>2, <2>2 DEF BatchCloses
  <2>3. QED BY <1>2, <2>1, <2>2 DEF BatchCloses
<1>3. ASSUME NEW e \in Executors, UNCHANGED <<pc[e], cursor[e], batch[e]>>, CalmExec(e)
      PROVE  CalmExec(e)'
  <2>1. \A r \in Transformed(batch[e]) : r.id \in Ids
    BY DEF PresentInv, Rows, KeyOf, Transformed
  <2>2. pc[e] \in {"upsert", "commit"} /\ target = "elasticsearch" =>
          \A r \in Transformed(batch[e]) : sink'[r.id] = source[r.id]
    BY <1>3, <2>1 DEF CalmExec
  <2>3. BatchCloses(e)'
    BY <1>2, <1>3 DEF CalmExec
  <2>4. CoveredTo(cursor[e].ts) => CoveredTo(cursor[e].ts)'
    BY <1>1, <1>3 DEF CoveredTo
  <2>5. QED BY <1>3, <2>2, <2>3, <2>4 DEF CalmExec, Transformed, LastRow, Below
<1>4. QED BY <1>1, <1>2, <1>3

\* What an execution knows when its attempt ends: nothing.
LEMMA CalmReset ==
  ASSUME LoadTypeOK, NEW e \in Executors, Retry(e) \/ Leave(e)
  PROVE  CalmExec(e)'
<1>1. pc'[e] \in {"idle", "load"} /\ batch'[e] = {}
  BY DEF Retry, Leave, Goto, LoadTypeOK
<1>2. QED BY <1>1 DEF CalmExec, BatchCloses

LEMMA CalmRead ==
  ASSUME LoadTypeOK, CalmInv, NEW e \in Executors, ReadRows(e)
  PROVE  CalmExec(e)'
<1> DEFINE above == Above(cursor[e])
           some == Limit(above, BatchSize)
<1>1. /\ pc'[e] = "write" /\ batch'[e] = some /\ cursor' = cursor
      /\ UNCHANGED <<source, sink>>
  BY DEF ReadRows, Goto, sourceVars, sinkVars, LoadTypeOK
<1>2. /\ some \subseteq above /\ above \subseteq Rows /\ above # {}
      /\ \A r \in some, q \in above : Below(q, r) => q \in some
  BY ReadTypes DEF ReadRows, Limit, Above
<1>3. CoveredTo(cursor[e].ts)
  BY DEF ReadRows, CalmInv, CalmExec
<1>4. ASSUME NEW i \in Ids \ Dropped, NEW q \in some, source[i] # 0, source[i] <= q.ts
      PROVE  sink[i] = source[i] \/ KeyOf(i) \in some
  <2>1. CASE source[i] <= cursor[e].ts
    BY <1>3, <1>4, <2>1 DEF CoveredTo
  <2>2. CASE ~(source[i] <= cursor[e].ts)
    <3>1. PICK j \in Ids : q = KeyOf(j) /\ source[j] = q.ts
      BY <1>2, RowFacts DEF Rows
    <3>2. /\ KeyOf(i).ts = source[i] /\ source[i] \in Nat /\ source[j] \in Nat
          /\ cursor[e].ts \in Nat
      BY RowFacts, KeysAreKeys DEF LoadTypeOK, AnyKey
    <3>3. KeyOf(i) \in above
      BY <1>4, <2>2, <3>2 DEF Above, Rows, Below
    <3>4. source[i] = source[j] => i = j
      BY <1>4 DEF CalmInv, DistinctTimes
    <3>5. KeyOf(i) = q \/ Below(KeyOf(i), q)
      BY <1>4, <3>1, <3>2, <3>4 DEF Below
    <3>6. QED BY <1>2, <3>3, <3>5
  <2>3. QED BY <2>1, <2>2
<1>5. BatchCloses(e)'
  BY <1>1, <1>4 DEF BatchCloses, KeyOf
<1>6. QED BY <1>1, <1>3, <1>5 DEF CalmExec, CoveredTo

LEMMA CalmWrite ==
  ASSUME LoadTypeOK, PresentInv, CalmInv, NEW e \in Executors, Write(e)
  PROVE  CalmExec(e)'
<1>1. /\ pc[e] = "write" /\ pc'[e] = "upsert" /\ UNCHANGED <<source, target, batch, cursor>>
  BY DEF Write, Goto, sourceVars, LoadTypeOK
<1>2. \A i \in Ids : sink'[i] \in {sink[i], source[i]}
  BY PresentWrites DEF Work
<1>3. CalmExec(e)
  BY DEF CalmInv
<1>4. target = "elasticsearch" =>
        \A r \in Transformed(batch[e]) : sink'[r.id] = source[r.id]
  BY UpsertedPresent DEF Write, PresentInv, Transformed
<1>5. BatchCloses(e)' /\ CoveredTo(cursor[e].ts)'
  BY <1>1, <1>2, <1>3, CalmStays DEF CalmExec, CoveredTo
<1>6. QED BY <1>1, <1>4, <1>5 DEF CalmExec, Transformed

\* The time of the batch's last row may become the checkpoint's: the batch and
\* the rows that others delivered cover everything up to it.
LEMMA CalmCommit ==
  ASSUME LoadTypeOK, BatchesHeld, PresentInv, CalmInv, NEW e \in Executors, Commit(e)
  PROVE  CoveredTo(state.ts)' /\ CalmExec(e)'
<1> DEFINE last == LastRow(batch[e])
           rows == Transformed(batch[e])
<1>1. /\ pc[e] = "commit" /\ pc'[e] = "check" /\ batch'[e] = {} /\ cursor' = cursor
      /\ state' = Flushed(e) /\ UNCHANGED <<source, target>>
  BY DEF Commit, Goto, sourceVars, LoadTypeOK
<1>2. cursor[e] = last /\ BatchCloses(e)
  BY <1>1 DEF CalmInv, CalmExec
<1>3. last \in batch[e]
  BY <1>1, RowFacts, LastRowIsLast DEF BatchesHeld
<1>4. \A i \in Ids : sink'[i] \in {sink[i], source[i]}
  BY PresentWrites DEF Work
<1>5. \A r \in rows : sink'[r.id] = source[r.id]
  <2>1. rows \in SUBSET Rows
    BY DEF PresentInv, Transformed
  <2>2. CASE target = "postgres"
    BY <2>1, <2>2, UpsertedPresent DEF Commit
  <2>3. CASE target = "elasticsearch"
    BY <1>1, <2>3 DEF Commit, CalmInv, CalmExec
  <2>4. QED BY <2>2, <2>3, LoadAssumption DEF LoadTypeOK
<1>6. ASSUME NEW i \in Ids \ Dropped, source[i] # 0, source[i] <= last.ts
      PROVE  sink'[i] = source[i]
  <2>1. CASE sink[i] = source[i]
    BY <1>4, <2>1
  <2>2. CASE KeyOf(i) \in batch[e]
    <3>1. KeyOf(i) \in rows /\ KeyOf(i).id = i
      BY <2>2, RowFacts DEF Transformed
    <3>2. QED BY <1>5, <3>1
  <2>3. QED BY <1>2, <1>3, <1>6, <2>1, <2>2 DEF BatchCloses
<1>7. CoveredTo(cursor[e].ts)'
  BY <1>1, <1>2, <1>6 DEF CoveredTo
<1>8. CoveredTo(state.ts)'
  <2>1. state'.ts \in {state.ts, cursor[e].ts}
    BY <1>1, FlushedTime
  <2>2. CASE state'.ts = state.ts
    BY <1>1, <1>4, <2>2 DEF CalmInv, CoveredTo
  <2>3. CASE state'.ts = cursor[e].ts
    BY <1>1, <1>2, <1>6, <2>3 DEF CoveredTo
  <2>4. QED BY <2>1, <2>2, <2>3
<1>9. QED BY <1>1, <1>7, <1>8 DEF CalmExec, BatchCloses

LEMMA CalmQuiet ==
  ASSUME LoadTypeOK, PresentInv, CalmInv, NEW e \in Executors,
         \/ Begin(e) \/ Load(e) \/ Upsert(e) \/ Continue(e)
         \/ IndexFound(e) \/ IndexMissing(e) \/ CreateIndex(e)
  PROVE  CalmExec(e)'
<1>1. UNCHANGED <<source, target, sink, state, batch>>
  BY DEF Begin, Load, Upsert, Continue, IndexFound, IndexMissing, CreateIndex,
         sourceVars, sinkVars
<1>2. CalmExec(e) /\ CoveredTo(state.ts)
  BY DEF CalmInv
<1>3. /\ BatchCloses(e)'
      /\ \A t : CoveredTo(t) =>
           \A i \in Ids \ Dropped : source'[i] # 0 /\ source'[i] <= t => sink'[i] = source'[i]
  BY <1>1, <1>2, CalmStays DEF CalmExec, CoveredTo
<1>4. CASE Begin(e)
  <2>1. pc'[e] = "load"
    BY <1>4 DEF Begin, Goto, LoadTypeOK
  <2>2. QED BY <1>3, <2>1 DEF CalmExec
<1>5. CASE Load(e)
  <2>1. pc'[e] = "read" /\ cursor'[e] = state
    BY <1>5 DEF Load, Goto, LoadTypeOK
  <2>2. CoveredTo(cursor[e].ts)'
    BY <1>2, <1>3, <2>1 DEF CoveredTo
  <2>3. QED BY <1>3, <2>1, <2>2 DEF CalmExec
<1>6. CASE Upsert(e)
  <2>1. /\ pc[e] = "upsert" /\ pc'[e] = "commit" /\ cursor'[e] = LastRow(batch[e])
    BY <1>6 DEF Upsert, Goto, LoadTypeOK
  <2>2. QED BY <1>1, <1>2, <1>3, <2>1 DEF CalmExec, Transformed, LastRow
<1>7. CASE Continue(e) \/ IndexFound(e) \/ IndexMissing(e) \/ CreateIndex(e)
  <2>1. /\ pc[e] \in {"check", "write", "create"} /\ pc'[e] \in {"read", "write", "create"}
        /\ cursor' = cursor
    BY <1>7 DEF Continue, IndexFound, IndexMissing, CreateIndex, Goto, LoadTypeOK
  <2>2. CoveredTo(cursor[e].ts)'
    BY <1>2, <1>3, <2>1 DEF CalmExec, CoveredTo
  <2>3. QED BY <1>3, <2>1, <2>2 DEF CalmExec
<1>8. QED BY <1>4, <1>5, <1>6, <1>7

\* The source changes while nobody holds a batch: its row moves above every
\* cursor and above the checkpoint.
LEMMA CalmChangeKeeps ==
  ASSUME OneRowAtATime, LoadTypeOK, BatchesHeld, PresentInv, CalmInv,
         NEW ids \in Transactions, CalmChange(ids)
  PROVE  CalmInv'
<1>1. /\ clock' = clock + 1 /\ clock \in Nat
      /\ UNCHANGED <<sink, target, state, pc, cursor, batch>>
      /\ \A e \in Executors : batch[e] = {}
  BY LoadAssumption DEF CalmChange, Change, sinkVars, localVars, LoadTypeOK
<1>2. \A i \in Ids : source'[i] = IF i \in ids THEN clock + 1 ELSE source[i]
  BY <1>1 DEF CalmChange, Change
<1>3. /\ \A i \in Ids : source[i] \in Nat /\ source[i] <= clock
      /\ state.ts \in Nat /\ state.ts <= clock
      /\ \A e \in Executors : cursor[e].ts \in Nat /\ cursor[e].ts <= clock
  BY LoadAssumption, KeysAreKeys DEF LoadTypeOK, PresentInv, NothingAhead, AnyKey
<1>4. \A e \in Executors : pc[e] \notin {"write", "create", "upsert", "commit"}
  BY <1>1 DEF BatchesHeld
<1>5. DistinctTimes'
  <2>1. ASSUME NEW i \in Ids, NEW j \in Ids, source'[i] # 0, source'[i] = source'[j]
        PROVE  i = j
    <3>1. i \in ids <=> j \in ids
      BY <1>1, <1>2, <1>3, <2>1
    <3>2. CASE i \in ids
      BY <3>1, <3>2 DEF OneRowAtATime
    <3>3. CASE i \notin ids
      BY <1>2, <2>1, <3>1, <3>3 DEF CalmInv, DistinctTimes
    <3>4. QED BY <3>2, <3>3
  <2>2. QED BY <2>1 DEF DistinctTimes
<1>6. ASSUME NEW t \in Nat, t <= clock, CoveredTo(t),
             NEW i \in Ids \ Dropped, source'[i] # 0, source'[i] <= t
      PROVE  sink[i] = source'[i]
  <2>1. i \notin ids
    BY <1>1, <1>2, <1>6
  <2>2. QED BY <1>2, <1>6, <2>1 DEF CoveredTo
<1>7. CoveredTo(state.ts)'
  BY <1>1, <1>3, <1>6 DEF CalmInv, CoveredTo
<1>8. ASSUME NEW e \in Executors PROVE CalmExec(e)'
  <2>1. CoveredTo(cursor[e].ts) => CoveredTo(cursor[e].ts)'
    BY <1>1, <1>3, <1>6 DEF CoveredTo
  <2>2. CalmExec(e)
    BY DEF CalmInv
  <2>3. BatchCloses(e)'
    BY <1>1 DEF BatchCloses
  <2>4. QED BY <1>1, <1>4, <2>1, <2>2, <2>3 DEF CalmExec
<1>9. QED BY <1>5, <1>7, <1>8 DEF CalmInv

LEMMA CalmStep ==
  ASSUME OneRowAtATime, LoadTypeOK, BatchesHeld, PresentInv, CalmInv, [CalmNext]_loadVars
  PROVE  CalmInv'
<1>1. ASSUME NEW e \in Executors, Begin(e) \/ Work(e) \/ Error(e) \/ Lost(e)
      PROVE  CalmInv'
  <2>1. /\ source' = source /\ target' = target
        /\ \A i \in Ids : sink'[i] \in {sink[i], source[i]}
    BY <1>1, PresentWrites
  <2>2. \A f \in Executors : f # e => CalmExec(f)'
    BY <1>1, <2>1, OthersKeep, CalmStays DEF CalmInv
  <2>3. DistinctTimes'
    BY <2>1 DEF CalmInv, DistinctTimes
  <2>4. CASE Commit(e)
    BY <2>2, <2>3, <2>4, CalmCommit DEF CalmInv
  <2>5. CASE ~Commit(e)
    <3>1. state' = state
      BY <1>1, <2>5
      DEF Begin, Work, Load, ReadRows, ReadEof, Write, Upsert, IndexFound, IndexMissing,
          CreateIndex, CreateRefused, Continue, StopForPause, InsertRefused, Error, Lost
    <3>2. CoveredTo(state.ts)'
      BY <2>1, <3>1, CalmStays DEF CalmInv, CoveredTo
    <3>3. CalmExec(e)'
      BY <1>1, <2>5, CalmRead, CalmWrite, CalmQuiet, CalmReset
      DEF Work, ReadEof, CreateRefused, StopForPause, InsertRefused, Error, Lost
    <3>4. QED BY <2>2, <2>3, <3>2, <3>3 DEF CalmInv
  <2>6. QED BY <2>4, <2>5
<1>2. CASE UNCHANGED loadVars
  <2>1. /\ source' = source /\ target' = target /\ sink' = sink /\ state' = state
        /\ pc' = pc /\ cursor' = cursor /\ batch' = batch
    BY <1>2 DEF loadVars
  <2>2. \A f \in Executors : CalmExec(f)'
    BY <2>1, CalmStays DEF CalmInv
  <2>3. QED BY <2>1, <2>2 DEF CalmInv, DistinctTimes, CoveredTo
<1>3. QED BY <1>1, <1>2, CalmChangeKeeps DEF CalmNext

LEMMA CalmAlways ==
  OneRowAtATime => (CalmLoadSpec => [](LoadTypeOK /\ PresentInv /\ CalmInv))
<1> SUFFICES ASSUME OneRowAtATime
             PROVE  CalmLoadSpec => [](LoadTypeOK /\ PresentInv /\ CalmInv)
  OBVIOUS
<1> DEFINE Inv == LoadTypeOK /\ BatchesHeld /\ PresentInv /\ CalmInv
<1>1. LoadInit => Inv
  BY TypeInit, PresentInit, CalmInit
<1>2. Inv /\ [CalmNext]_loadVars => Inv'
  BY TypeStep, PresentStep, CalmStep, CalmIsLoad
<1>3. Inv => LoadTypeOK /\ PresentInv /\ CalmInv
  OBVIOUS
<1>4. QED BY <1>1, <1>2, <1>3, PTL DEF CalmLoadSpec

(* However many executors work on one pipeline, no row at or below the     *)
(* committed checkpoint is missing from the sink or old in it, as long as  *)
(* the source changes one row at a time and only between batches: what a   *)
(* batch leaves out, some executor has delivered, and a mixed checkpoint   *)
(* still has the time of a row that was committed.                         *)
THEOREM CalmCheckpointIsCovered ==
  OneRowAtATime => (CalmLoadSpec => []CheckpointCovers)
<1> SUFFICES ASSUME OneRowAtATime PROVE CalmLoadSpec => []CheckpointCovers
  OBVIOUS
<1>1. ASSUME LoadTypeOK, CalmInv PROVE CheckpointCovers
  <2>1. SUFFICES ASSUME NEW i \in Ids \ Dropped, source[i] # 0, ~Below(state, KeyOf(i))
                 PROVE  sink[i] = source[i]
    BY DEF CheckpointCovers
  <2>2. /\ KeyOf(i).ts = source[i] /\ source[i] \in Nat /\ state.ts \in Nat
    BY <1>1, RowFacts DEF AnyKey
  <2>3. source[i] <= state.ts
    BY <2>1, <2>2 DEF Below
  <2>4. QED BY <1>1, <2>1, <2>3 DEF CalmInv, CoveredTo
<1>2. LoadTypeOK /\ PresentInv /\ CalmInv => CheckpointCovers
  BY <1>1
<1>3. QED BY <1>2, CalmAlways, PTL

(* Over such a source, a run that finds no more rows leaves sink and       *)
(* source equal, also when other executors loaded some of the rows and     *)
(* when it started from a checkpoint that two of them had mixed.           *)
THEOREM CalmDrainedIsSynced ==
  OneRowAtATime => (CalmLoadSpec => DrainedMeansSynced)
<1> SUFFICES ASSUME OneRowAtATime PROVE CalmLoadSpec => DrainedMeansSynced
  OBVIOUS
<1>1. ASSUME LoadTypeOK, PresentInv, CalmInv, NEW e \in Executors, ReadEof(e),
             NEW i \in Ids \ Dropped
      PROVE  sink[i] = source[i]
  <2>1. Above(cursor[e]) = {} /\ CoveredTo(cursor[e].ts)
    BY <1>1 DEF ReadEof, CalmInv, CalmExec
  <2>2. /\ source[i] \in Nat /\ sink[i] \in Nat /\ sink[i] <= source[i]
        /\ KeyOf(i).ts = source[i] /\ cursor[e].ts \in Nat
    BY <1>1, RowFacts, KeysAreKeys, LoadAssumption
    DEF LoadTypeOK, PresentInv, NothingAhead, AnyKey
  <2>3. CASE source[i] = 0
    BY <2>2, <2>3
  <2>4. CASE source[i] # 0
    <3>1. ~Below(cursor[e], KeyOf(i))
      BY <1>1, <2>1, <2>4 DEF Above, Rows
    <3>2. source[i] <= cursor[e].ts
      BY <2>2, <3>1 DEF Below
    <3>3. QED BY <1>1, <2>1, <2>4, <3>2 DEF CoveredTo
  <2>5. QED BY <2>3, <2>4
<1>2. LoadTypeOK /\ PresentInv /\ CalmInv /\ [CalmNext]_loadVars =>
        [\A e \in Executors : ReadEof(e) => \A i \in Ids \ Dropped : sink[i] = source[i]]_loadVars
  BY <1>1
<1>3. QED BY <1>2, CalmAlways, PTL DEF CalmLoadSpec, DrainedMeansSynced

=============================================================================
