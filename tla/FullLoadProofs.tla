--------------------------- MODULE FullLoadProofs ---------------------------
(***************************************************************************)
(* Theorems about FullLoad: its types, that a run that reaches the end of  *)
(* the source has loaded every row it owed, and that every step of a run   *)
(* brings its end closer, for any ids, batch size, sinks, loops, changes   *)
(* of the source and faults.                                               *)
(***************************************************************************)
EXTENDS FullLoad, NatOrder

\* Rank in these terms.
LEMMA RankIsPosition ==
  /\ Present \in SUBSET Nat
  /\ \A i : Rank(i) = Position(Present, i)
  /\ \A i \in Ids : i \in Nat /\ Rank(i) \in Nat
<1>1. Present \in SUBSET Nat /\ Ids \subseteq Nat
  BY FullLoadAssumption DEF Present
<1>2. \A i : Rank(i) = Position(Present, i)
  BY DEF Rank, Position, Smaller
<1>3. QED BY <1>1, <1>2, PositionIsNat

\* A page holds the rows at its positions, each as it is, and at most
\* batch_size of them.
LEMMA PageFacts ==
  ASSUME FullTypeOK
  PROVE  /\ Page \subseteq Row
         /\ IsFiniteSet(Page) /\ Cardinality(Page) \in Nat /\ Cardinality(Page) <= BatchSize
         /\ \A r \in Page : r.id \in Present /\ r.version = source[r.id]
         /\ \A i \in Present : Rank(i) >= offset /\ Rank(i) < offset + BatchSize =>
              [id |-> i, version |-> source[i]] \in Page
<1> DEFINE ids == {j \in Present : Rank(j) >= offset /\ Rank(j) < offset + BatchSize}
           slots == offset .. offset + BatchSize - 1
           f == [r \in Page |-> Rank(r.id)]
<1>1. offset \in Nat /\ BatchSize \in Nat \ {0} /\ MaxVersion \in Nat
  BY FullLoadAssumption DEF FullTypeOK
<1>2. Page = {[id |-> i, version |-> source[i]] : i \in ids}
  BY DEF Page
<1>3. \A i \in ids : i \in Ids /\ i \in Nat /\ source[i] \in 1 .. MaxVersion /\ Rank(i) \in slots
  <2>1. \A i \in ids : i \in Ids /\ i \in Nat /\ source[i] \in 0 .. MaxVersion /\ source[i] # 0
    BY FullLoadAssumption DEF Present, FullTypeOK
  <2>2. \A i \in ids : Rank(i) \in Nat /\ Rank(i) >= offset /\ Rank(i) < offset + BatchSize
    BY <2>1, RankIsPosition
  <2>3. \A m \in Nat : m >= offset /\ m < offset + BatchSize => m \in slots
    BY <1>1
  <2>4. \A v \in 0 .. MaxVersion : v # 0 => v \in 1 .. MaxVersion
    BY <1>1
  <2>5. QED BY <2>1, <2>2, <2>3, <2>4
<1>4. \A i, j \in ids : i # j => Rank(i) # Rank(j)
  <2>1. \A i, j \in ids : i < j => Rank(i) # Rank(j)
    <3>1. TAKE i, j \in ids
    <3>2. HAVE i < j
    <3>3. Rank(i) \in Nat /\ Rank(j) \in Nat
      BY <1>3, RankIsPosition
    <3>4. Rank(i) + 1 <= Rank(j)
      BY <1>3, <3>2, RankIsPosition, PositionGrows
    <3>5. QED BY <3>3, <3>4
  <2>2. \A i, j \in Nat : i # j => i < j \/ j < i
    OBVIOUS
  <2>3. QED BY <1>3, <2>1, <2>2
<1>5. f \in Injection(Page, slots)
  <2>1. \A r \in Page : r.id \in ids /\ r = [id |-> r.id, version |-> source[r.id]]
    BY <1>2
  <2>2. f \in [Page -> slots]
    BY <1>3, <2>1
  <2>3. \A r, s \in Page : f[r] = f[s] => r = s
    BY <1>4, <2>1
  <2>4. QED BY <2>2, <2>3 DEF Injection, IsInjective
<1>6. IsFiniteSet(slots) /\ Cardinality(slots) = BatchSize
  BY <1>1, FS_Interval
<1>7. IsFiniteSet(Page) /\ Cardinality(Page) <= BatchSize /\ Cardinality(Page) \in Nat
  BY <1>5, <1>6, FS_Injection, FS_CardinalityType
<1>8. Page \subseteq Row
  BY <1>2, <1>3 DEF Row
<1>9. QED BY <1>2, <1>7, <1>8

(***************************************************************************)
(* Types.  A batch is finite, and it is there exactly while it is being    *)
(* written; an idle run stands at offset 0.                                *)
(***************************************************************************)
BatchHeld ==
  /\ IsFiniteSet(batch)
  /\ pc \in {"write", "commit"} <=> batch # {}
  /\ pc = "idle" => offset = 0

FullTypeInv == FullTypeOK /\ BatchHeld

\* The locals of a run that begins, starts over or is left.
LEMMA FreshTypes ==
  ASSUME FullTypeInv, Leave \/ Retry
  PROVE  /\ pc' \in {"idle", "read"} /\ offset' = 0 /\ batch' = {}
         /\ attempt' \in 0 .. MaxAttempts /\ owed' \subseteq Present
<1>1. \A n \in 0 .. MaxAttempts : n < MaxAttempts => n + 1 \in 0 .. MaxAttempts
  BY FullLoadAssumption
<1>2. 0 \in 0 .. MaxAttempts
  BY FullLoadAssumption
<1>3. CASE Leave
  BY <1>2, <1>3 DEF Leave
<1>4. CASE Retry
  BY <1>1, <1>2, <1>4 DEF Retry, Leave, FullTypeInv, FullTypeOK
<1>5. QED BY <1>3, <1>4

\* A sink that rows were written to.
LEMMA UpsertedType ==
  ASSUME FullTypeOK, NEW rows \in SUBSET Row
  PROVE  Upserted(rows) \in [Ids -> 0 .. MaxVersion]
<1>1. \A i \in Ids : sink[i] \in 0 .. MaxVersion
  BY DEF FullTypeOK
<1>2. ASSUME NEW i \in Ids, \E r \in rows : r.id = i
      PROVE  (CHOOSE r \in rows : r.id = i).version \in 0 .. MaxVersion
  <2>1. PICK r \in rows : r = CHOOSE s \in rows : s.id = i
    BY <1>2
  <2>2. r.version \in 1 .. MaxVersion
    BY DEF Row
  <2>3. \A v \in 1 .. MaxVersion : v \in 0 .. MaxVersion
    BY FullLoadAssumption
  <2>4. QED BY <2>1, <2>2, <2>3
<1>3. QED BY <1>1, <1>2 DEF Upserted

LEMMA TransformedAreRows ==
  ASSUME FullTypeOK
  PROVE  /\ Transformed(batch) \in SUBSET Row
         /\ \A part \in SUBSET Transformed(batch) : part \in SUBSET Row
BY DEF FullTypeOK, Transformed

LEMMA PartlyWrittenType ==
  ASSUME FullTypeOK, PartlyWritten
  PROVE  sink' \in [Ids -> 0 .. MaxVersion]
BY UpsertedType, TransformedAreRows DEF PartlyWritten, FullTypeOK

LEMMA FullTypesHold == FullInit => FullTypeInv
<1> SUFFICES ASSUME FullInit PROVE FullTypeInv
  OBVIOUS
<1>1. 0 \in 0 .. MaxVersion /\ 1 \in 0 .. MaxVersion
      /\ 0 \in 0 .. MaxFaults /\ 0 \in 0 .. MaxAttempts
  BY FullLoadAssumption
<1>2. source \in [Ids -> 0 .. MaxVersion] /\ sink \in [Ids -> 0 .. MaxVersion]
  BY <1>1 DEF FullInit
<1>3. IsFiniteSet(batch)
  BY FS_EmptySet DEF FullInit
<1>4. QED BY <1>1, <1>2, <1>3 DEF FullInit, FullTypeInv, FullTypeOK, BatchHeld, Row

LEMMA FullTypesStep == FullTypeInv /\ [FullNext]_fullVars => FullTypeInv'
<1> SUFFICES ASSUME FullTypeInv, [FullNext]_fullVars PROVE FullTypeInv'
  OBVIOUS
<1> USE DEF FullTypeInv
<1>1. ASSUME NEW i \in Ids, Update(i)
      PROVE  FullTypeInv'
  <2>1. \A v \in 1 .. MaxVersion - 1 : v # 0 /\ v + 1 # 0 /\ v + 1 \in 0 .. MaxVersion
    BY FullLoadAssumption
  <2>2. source' \in [Ids -> 0 .. MaxVersion] /\ Present' = Present
    BY <1>1, <2>1 DEF Update, FullTypeOK, Present
  <2>3. owed' \subseteq Present'
    BY <1>1, <2>2 DEF Update, FullTypeOK
  <2>4. QED BY <1>1, <2>2, <2>3 DEF Update, localVars, FullTypeOK, BatchHeld, Row
<1>2. ASSUME NEW i \in Ids, Insert(i)
      PROVE  FullTypeInv'
  <2>1. 1 \in 0 .. MaxVersion
    BY FullLoadAssumption
  <2>2. source' \in [Ids -> 0 .. MaxVersion] /\ Present' = Present \cup {i}
    BY <1>2, <2>1 DEF Insert, FullTypeOK, Present
  <2>3. owed' \subseteq Present'
    BY <1>2, <2>2 DEF Insert, FullTypeOK
  <2>4. QED BY <1>2, <2>2, <2>3 DEF Insert, localVars, FullTypeOK, BatchHeld, Row
<1>3. ASSUME NEW i \in Ids, Delete(i)
      PROVE  FullTypeInv'
  <2>1. 0 \in 0 .. MaxVersion
    BY FullLoadAssumption
  <2>2. source' \in [Ids -> 0 .. MaxVersion] /\ Present' = Present \ {i}
    BY <1>3, <2>1 DEF Delete, FullTypeOK, Present
  <2>3. owed' \subseteq Present'
    BY <1>3, <2>2 DEF Delete, FullTypeOK
  <2>4. QED BY <1>3, <2>2, <2>3 DEF Delete, localVars, FullTypeOK, BatchHeld, Row
<1>4. CASE Begin
  <2>1. 1 \in 0 .. MaxAttempts
    BY FullLoadAssumption
  <2>2. QED BY <1>4, <2>1 DEF Begin, FullTypeOK, BatchHeld, Present, Row
<1>5. CASE ReadRows
  <2>1. Page \subseteq Row /\ IsFiniteSet(Page)
    BY PageFacts
  <2>2. QED BY <1>5, <2>1 DEF ReadRows, FullTypeOK, BatchHeld, Present, Row
<1>6. ASSUME Leave \/ Retry, UNCHANGED <<source, target, loop>>,
             sink' \in [Ids -> 0 .. MaxVersion], faults' \in 0 .. MaxFaults
      PROVE  FullTypeInv'
  <2>1. /\ pc' \in {"idle", "read"} /\ offset' = 0 /\ batch' = {}
        /\ attempt' \in 0 .. MaxAttempts /\ owed' \subseteq Present
    BY <1>6, FreshTypes
  <2>2. IsFiniteSet({})
    BY FS_EmptySet
  <2>3. QED BY <1>6, <2>1, <2>2 DEF FullTypeOK, BatchHeld, Present, Row
<1>7. CASE ReadEof
  BY <1>6, <1>7 DEF ReadEof, FullTypeOK
<1>8. CASE Write
  BY <1>8, UpsertedType, TransformedAreRows DEF Write, FullTypeOK, BatchHeld, Present, Row
<1>9. CASE Commit
  <2>1. \A n, m \in Nat : n + m \in Nat
    OBVIOUS
  <2>2. Cardinality(batch) \in Nat /\ BatchSize \in Nat
    BY FS_CardinalityType, FullLoadAssumption DEF BatchHeld
  <2>3. NextOffset \in Nat
    BY <2>1, <2>2 DEF NextOffset, FullTypeOK
  <2>4. IsFiniteSet({})
    BY FS_EmptySet
  <2>5. QED BY <1>9, <2>3, <2>4, UpsertedType, TransformedAreRows
            DEF Commit, FullTypeOK, BatchHeld, Present, Row
<1>10. CASE Continue
  BY <1>10 DEF Continue, FullTypeOK, BatchHeld, Present, Row
<1>11. CASE StopForPause
  BY <1>6, <1>11 DEF StopForPause, FullTypeOK
<1>12. Fault => faults' \in 0 .. MaxFaults
  BY FullLoadAssumption DEF Fault, FullTypeOK
<1>13. CASE Error
  BY <1>6, <1>12, <1>13, PartlyWrittenType DEF Error
<1>14. CASE Lost
  BY <1>6, <1>12, <1>14, PartlyWrittenType DEF Lost
<1>15. CASE UNCHANGED fullVars
  BY <1>15 DEF fullVars, FullTypeOK, BatchHeld, Present, Row
<1>16. QED
  BY <1>1, <1>2, <1>3, <1>4, <1>5, <1>7, <1>8, <1>9, <1>10, <1>11, <1>13, <1>14, <1>15
  DEF FullNext, Work

(***************************************************************************)
(* What a run that is under way has done for the rows it owes.             *)
(***************************************************************************)

\* A row behind the frontier is in the sink as it is now, or in the batch.
PassedAreKept ==
  \A i \in owed \ Dropped : Rank(i) < Frontier =>
    sink[i] = source[i] \/ [id |-> i, version |-> source[i]] \in batch

\* The batch has the present version of such a row, ...
BatchIsCurrent ==
  \A r \in batch : r.id \in owed /\ Rank(r.id) < Frontier => r.version = source[r.id]

\* ... and of no row two versions.
OnePerRow == \A r, s \in batch : r.id = s.id => r = s

\* Elasticsearch has what Write sent.
SentIsThere ==
  pc = "commit" /\ target = "elasticsearch" =>
    \A r \in Transformed(batch) : sink[r.id] = r.version

FullInv == PassedAreKept /\ BatchIsCurrent /\ OnePerRow /\ SentIsThere

\* What a write leaves in the sink for a row.
LEMMA UpsertedValue ==
  ASSUME OnePerRow, NEW rows \in SUBSET batch, NEW i \in Ids
  PROVE  /\ \A r \in rows : r.id = i => Upserted(rows)[i] = r.version
         /\ (\A r \in rows : r.id # i) => Upserted(rows)[i] = sink[i]
<1>1. ASSUME NEW r \in rows, r.id = i
      PROVE  Upserted(rows)[i] = r.version
  <2>1. \A s \in rows : s.id = i => s = r
    BY <1>1 DEF OnePerRow
  <2>2. (CHOOSE s \in rows : s.id = i) = r
    BY <1>1, <2>1
  <2>3. QED BY <1>1, <2>2 DEF Upserted
<1>2. QED BY <1>1 DEF Upserted

\* Writing the batch keeps the rows behind the frontier up to date.
LEMMA WritingKeeps ==
  ASSUME FullTypeInv, FullInv, NEW i \in owed \ Dropped, Rank(i) < Frontier,
         NEW rows \in SUBSET batch
  PROVE  \/ Upserted(rows)[i] = source[i]
         \/ [id |-> i, version |-> source[i]] \in batch \ rows
<1>1. i \in Ids
  BY DEF FullTypeInv, FullTypeOK, Present
<1>2. CASE \E r \in rows : r.id = i
  <2>1. PICK r \in rows : r.id = i
    BY <1>2
  <2>2. r.version = source[i]
    BY <2>1 DEF FullInv, BatchIsCurrent
  <2>3. Upserted(rows)[i] = r.version
    BY <1>1, <2>1, UpsertedValue DEF FullInv
  <2>4. QED BY <2>2, <2>3
<1>3. CASE \A r \in rows : r.id # i
  <2>1. Upserted(rows)[i] = sink[i]
    BY <1>1, <1>3, UpsertedValue DEF FullInv
  <2>2. [id |-> i, version |-> source[i]] \notin rows
    BY <1>3
  <2>3. QED BY <2>1, <2>2 DEF FullInv, PassedAreKept
<1>4. QED BY <1>2, <1>3

\* The frontier is a number, and offset when there is no batch.
LEMMA FrontierIsNat ==
  ASSUME FullTypeInv
  PROVE  /\ Frontier \in Nat
         /\ batch = {} => Frontier = offset
         /\ batch # {} => Frontier = NextOffset
<1>1. \A n, m \in Nat : n + m \in Nat
  OBVIOUS
<1>2. Cardinality(batch) \in Nat /\ BatchSize \in Nat /\ offset \in Nat
  BY FS_CardinalityType, FullLoadAssumption DEF FullTypeInv, BatchHeld, FullTypeOK
<1>3. loop = "sql" \/ loop = "tasks"
  BY FullLoadAssumption DEF FullTypeInv, FullTypeOK
<1>4. CASE batch = {}
  BY <1>2, <1>4 DEF Frontier
<1>5. CASE batch # {} /\ loop = "sql"
  BY <1>1, <1>2, <1>5 DEF Frontier, NextOffset
<1>6. CASE batch # {} /\ loop = "tasks"
  BY <1>1, <1>2, <1>6 DEF Frontier, NextOffset
<1>7. QED BY <1>3, <1>4, <1>5, <1>6

\* A run that begins, starts over or ends owes nothing behind offset 0.
LEMMA FreshKeeps ==
  ASSUME FullTypeInv', offset' = 0, batch' = {}, pc' # "commit"
  PROVE  FullInv'
<1>1. Frontier' = 0
  BY DEF Frontier
<1>2. \A i \in owed' : Rank(i)' \in Nat
  <2>1. Present' \in SUBSET Nat
    BY FullLoadAssumption DEF Present
  <2>2. \A i \in owed' : i \in Nat
    BY <2>1 DEF FullTypeInv, FullTypeOK
  <2>3. \A i \in Nat : Rank(i)' = Position(Present', i)
    BY DEF Rank, Position, Smaller
  <2>4. QED BY <2>1, <2>2, <2>3, PositionIsNat
<1>3. \A n \in Nat : ~(n < 0)
  OBVIOUS
<1>4. PassedAreKept'
  BY <1>1, <1>2, <1>3 DEF PassedAreKept
<1>5. QED BY <1>4 DEF FullInv, BatchIsCurrent, OnePerRow, SentIsThere

\* A change of the source leaves FullInv alone if it brings no owed row
\* behind the frontier and changes none there.
LEMMA SourceKeeps ==
  ASSUME FullInv, UNCHANGED <<target, loop, sink, localVars>>,
         \A j \in owed' : Rank(j)' < Frontier =>
           j \in owed /\ Rank(j) < Frontier /\ source'[j] = source[j]
  PROVE  FullInv'
<1>1. Frontier' = Frontier
  BY DEF Frontier, localVars
<1>2. PassedAreKept'
  BY <1>1 DEF FullInv, PassedAreKept, localVars
<1>3. BatchIsCurrent'
  BY <1>1 DEF FullInv, BatchIsCurrent, localVars
<1>4. OnePerRow' /\ SentIsThere'
  BY DEF FullInv, OnePerRow, SentIsThere, Transformed, localVars
<1>5. QED BY <1>2, <1>3, <1>4 DEF FullInv

LEMMA FullInvInit == FullInit => FullInv
<1> SUFFICES ASSUME FullInit PROVE FullInv
  OBVIOUS
<1>1. owed = {} /\ batch = {} /\ pc = "idle"
  BY DEF FullInit
<1>2. QED BY <1>1 DEF FullInv, PassedAreKept, BatchIsCurrent, OnePerRow, SentIsThere

LEMMA FullInvStep ==
  ASSUME FullTypeInv, FullInv, FullTypeInv', [FullNext]_fullVars
  PROVE  FullInv'
<1>1. /\ Present \in SUBSET Nat /\ owed \subseteq Present /\ Frontier \in Nat
      /\ \A j : Rank(j) = Position(Present, j)
      /\ \A j : Rank(j)' = Position(Present', j)
  BY RankIsPosition, FrontierIsNat DEF FullTypeInv, FullTypeOK, Rank, Position, Smaller
<1>2. /\ \A n \in Nat : n < Frontier <=> ~(n >= Frontier)
      /\ \A n, m \in Nat : n <= m /\ m < Frontier => n < Frontier
  BY <1>1
<1>3. ASSUME NEW i \in Ids, Update(i)
      PROVE  FullInv'
  <2>1. Present' = Present
    <3>1. \A v \in 1 .. MaxVersion - 1 : v # 0 /\ v + 1 # 0
      BY FullLoadAssumption
    <3>2. QED BY <1>3, <3>1 DEF Update, Present, FullTypeInv, FullTypeOK
  <2>2. \A j \in owed' : Rank(j)' < Frontier =>
           j \in owed /\ Rank(j) < Frontier /\ source'[j] = source[j]
    BY <1>1, <1>3, <2>1 DEF Update, FullTypeInv, FullTypeOK
  <2>3. QED BY <1>3, <2>2, SourceKeeps DEF Update
<1>4. ASSUME NEW i \in Ids, Insert(i)
      PROVE  FullInv'
  <2>1. Present' = Present \cup {i} /\ i \notin Present /\ i \in Nat
    BY <1>4, FullLoadAssumption DEF Insert, Present, FullTypeInv, FullTypeOK
  <2>2. \A j \in Nat : /\ Rank(j) \in Nat /\ Rank(j)' \in Nat /\ Rank(j) <= Rank(j)'
    BY <1>1, <2>1, PositionIsNat, PositionAfterInsert
  <2>3. \A j \in owed' : Rank(j)' < Frontier =>
           j \in owed /\ Rank(j) < Frontier /\ source'[j] = source[j]
    <3>1. SUFFICES ASSUME NEW j \in owed', Rank(j)' < Frontier
                   PROVE  j \in owed /\ Rank(j) < Frontier /\ source'[j] = source[j]
      OBVIOUS
    <3>2. j \in Nat
      BY <1>1, <1>4, <2>1 DEF Insert
    <3>3. Rank(j) < Frontier
      BY <1>2, <2>2, <3>1, <3>2
    <3>4. j \in owed
      BY <1>2, <1>4, <2>2, <3>2, <3>3 DEF Insert
    <3>5. QED BY <1>1, <1>4, <2>1, <3>3, <3>4 DEF Insert, FullTypeInv, FullTypeOK
  <2>4. QED BY <1>4, <2>3, SourceKeeps DEF Insert
<1>5. ASSUME NEW i \in Ids, Delete(i)
      PROVE  FullInv'
  <2>1. Present' = Present \ {i} /\ i \in Present /\ i \in Nat
    BY <1>5, FullLoadAssumption DEF Delete, Present, FullTypeInv, FullTypeOK
  <2>2. \A j \in owed' : Rank(j)' < Frontier =>
           j \in owed /\ Rank(j) < Frontier /\ source'[j] = source[j]
    <3>1. SUFFICES ASSUME NEW j \in owed', Rank(j)' < Frontier
                   PROVE  j \in owed /\ Rank(j) < Frontier /\ source'[j] = source[j]
      OBVIOUS
    <3>2. j \in owed /\ j # i /\ ~(Rank(i) < Frontier)
      BY <1>5 DEF Delete
    <3>3. /\ j \in Present /\ j \in Nat /\ Rank(i) \in Nat /\ Rank(j) \in Nat
          /\ Rank(j)' \in Nat
      BY <1>1, <2>1, <3>2, PositionIsNat
    <3>4. Rank(i) >= Frontier /\ ~(Rank(j)' >= Frontier)
      BY <1>2, <3>1, <3>2, <3>3
    <3>5. ~(Rank(j) >= Frontier)
      BY <1>1, <2>1, <3>2, <3>3, <3>4, PositionAfterDelete
    <3>6. QED BY <1>2, <1>5, <3>2, <3>3, <3>5 DEF Delete, FullTypeInv, FullTypeOK
  <2>3. QED BY <1>5, <2>2, SourceKeeps DEF Delete
<1>6. CASE Begin
  <2>1. offset' = 0 /\ batch' = {} /\ pc' # "commit"
    BY <1>6 DEF Begin, FullTypeInv, BatchHeld
  <2>2. QED BY <2>1, FreshKeeps
<1>7. CASE Leave \/ Retry
  <2>1. offset' = 0 /\ batch' = {} /\ pc' # "commit"
    BY <1>7, FreshTypes
  <2>2. QED BY <2>1, FreshKeeps
<1>8. CASE ReadRows
  <2>1. batch = {} /\ Frontier = offset /\ offset \in Nat /\ BatchSize \in Nat
    BY <1>8, FrontierIsNat, FullLoadAssumption DEF ReadRows, FullTypeInv, FullTypeOK, BatchHeld
  <2>2. /\ Cardinality(Page) \in Nat /\ Cardinality(Page) <= BatchSize
        /\ \A r \in Page : r.id \in Present /\ r.version = source[r.id]
        /\ \A i \in Present : Rank(i) >= offset /\ Rank(i) < offset + BatchSize =>
             [id |-> i, version |-> source[i]] \in Page
    BY PageFacts DEF FullTypeInv
  <2>3. Frontier' = offset + Cardinality(Page) \/ Frontier' = offset + BatchSize
    <3>1. loop = "sql" \/ loop = "tasks"
      BY FullLoadAssumption DEF FullTypeInv, FullTypeOK
    <3>2. QED BY <1>8, <3>1 DEF ReadRows, Frontier
  <2>4. \A n \in Nat : n < Frontier' => n < offset + BatchSize
    BY <2>1, <2>2, <2>3
  <2>5. \A i : Rank(i)' = Rank(i)
    BY <1>8 DEF ReadRows, Rank, Present
  <2>6. PassedAreKept'
    <3>1. SUFFICES ASSUME NEW i \in owed \ Dropped, Rank(i) < Frontier'
                   PROVE  sink[i] = source[i] \/ [id |-> i, version |-> source[i]] \in Page
      BY <1>8, <2>5 DEF ReadRows, PassedAreKept
    <3>2. i \in Present /\ Rank(i) \in Nat
      BY <1>1, PositionIsNat
    <3>3. Rank(i) < offset + BatchSize
      BY <2>4, <3>1, <3>2
    <3>4. CASE Rank(i) < offset
      BY <2>1, <3>4 DEF FullInv, PassedAreKept
    <3>5. CASE Rank(i) >= offset
      BY <2>2, <3>2, <3>3, <3>5
    <3>6. QED BY <2>1, <3>2, <3>4, <3>5
  <2>7. BatchIsCurrent'
    BY <1>8, <2>2 DEF ReadRows, BatchIsCurrent
  <2>8. OnePerRow'
    <3>1. \A r \in Page : r = [id |-> r.id, version |-> source[r.id]]
      BY DEF Page
    <3>2. \A r, s \in Page : r.id = s.id => r = s
      BY <3>1
    <3>3. QED BY <1>8, <3>2 DEF ReadRows, OnePerRow
  <2>9. SentIsThere'
    BY <1>8 DEF ReadRows, SentIsThere
  <2>10. QED BY <2>6, <2>7, <2>8, <2>9 DEF FullInv
<1>9. CASE Write
  <2>1. /\ Frontier' = Frontier /\ batch' = batch /\ source' = source /\ owed' = owed
        /\ \A i : Rank(i)' = Rank(i)
    BY <1>9 DEF Write, Frontier, Rank, Present
  <2>2. Transformed(batch) \in SUBSET batch
    BY DEF Transformed
  <2>3. PassedAreKept'
    <3>1. SUFFICES ASSUME NEW i \in owed \ Dropped, Rank(i) < Frontier
                   PROVE  sink'[i] = source[i] \/ [id |-> i, version |-> source[i]] \in batch
      BY <2>1 DEF PassedAreKept
    <3>2. CASE sink' = sink
      BY <3>1, <3>2 DEF FullInv, PassedAreKept
    <3>3. CASE sink' = Upserted(Transformed(batch))
      BY <2>2, <3>1, <3>3, WritingKeeps
    <3>4. QED BY <1>9, <3>2, <3>3 DEF Write
  <2>4. BatchIsCurrent' /\ OnePerRow'
    BY <2>1 DEF FullInv, BatchIsCurrent, OnePerRow
  <2>5. SentIsThere'
    <3>1. SUFFICES ASSUME target = "elasticsearch", NEW r \in Transformed(batch)
                   PROVE  Upserted(Transformed(batch))[r.id] = r.version
      BY <1>9 DEF Write, SentIsThere, Transformed
    <3>2. r.id \in Ids
      BY DEF Transformed, FullTypeInv, FullTypeOK, Row
    <3>3. QED BY <2>2, <3>2, UpsertedValue DEF FullInv
  <2>6. QED BY <2>3, <2>4, <2>5 DEF FullInv
<1>10. CASE Commit
  <2>1. batch # {} /\ batch' = {} /\ source' = source /\ owed' = owed
    BY <1>10 DEF Commit, FullTypeInv, BatchHeld
  <2>2. Frontier' = Frontier /\ \A i : Rank(i)' = Rank(i)
    BY <1>10, <2>1, FrontierIsNat DEF Commit, Frontier, Rank, Present
  <2>3. Transformed(batch) \in SUBSET batch
    BY DEF Transformed
  <2>4. PassedAreKept'
    <3>1. SUFFICES ASSUME NEW i \in owed \ Dropped, Rank(i) < Frontier
                   PROVE  sink'[i] = source[i]
      BY <2>1, <2>2 DEF PassedAreKept
    <3>2. [id |-> i, version |-> source[i]] \in batch =>
            [id |-> i, version |-> source[i]] \in Transformed(batch)
      BY DEF Transformed
    <3>3. CASE target = "postgres"
      <4>1. sink' = Upserted(Transformed(batch))
        BY <1>10, <3>3 DEF Commit
      <4>2. QED BY <2>3, <3>1, <3>2, <4>1, WritingKeeps
    <3>4. CASE target = "elasticsearch"
      <4>1. sink' = sink /\ pc = "commit"
        BY <1>10, <3>4 DEF Commit
      <4>2. [id |-> i, version |-> source[i]] \in batch => sink[i] = source[i]
        BY <3>2, <3>4, <4>1 DEF FullInv, SentIsThere
      <4>3. QED BY <3>1, <4>1, <4>2 DEF FullInv, PassedAreKept
    <3>5. QED BY <3>3, <3>4, FullLoadAssumption DEF FullTypeInv, FullTypeOK
  <2>5. BatchIsCurrent' /\ OnePerRow'
    BY <2>1 DEF BatchIsCurrent, OnePerRow
  <2>6. SentIsThere'
    BY <1>10 DEF Commit, SentIsThere
  <2>7. QED BY <2>4, <2>5, <2>6 DEF FullInv
<1>11. CASE Continue
  BY <1>11 DEF Continue, FullInv, PassedAreKept, BatchIsCurrent, OnePerRow, SentIsThere,
              Frontier, Rank, Present
<1>12. CASE UNCHANGED fullVars
  BY <1>12 DEF fullVars, FullInv, PassedAreKept, BatchIsCurrent, OnePerRow, SentIsThere,
              Frontier, Rank, Present, Transformed
<1>13. ReadEof \/ StopForPause \/ Error \/ Lost => Leave \/ Retry
  BY DEF ReadEof, StopForPause, Error, Lost
<1>14. QED
  BY <1>3, <1>4, <1>5, <1>6, <1>7, <1>8, <1>9, <1>10, <1>11, <1>12, <1>13 DEF FullNext, Work

(***************************************************************************)
(* The theorems.                                                           *)
(***************************************************************************)

(* Types, for all values of the constants: in particular the offset stays  *)
(* a number and the rows an attempt owes are rows of the source.           *)
THEOREM FullTypeCorrect == FullSpec => []FullTypeOK
<1>1. FullTypeInv => FullTypeOK
  BY DEF FullTypeInv
<1>2. QED BY <1>1, FullTypesHold, FullTypesStep, PTL DEF FullSpec

(* Both LIMIT/OFFSET bodies, for any batch size, any transforms, any sink  *)
(* and any faults: a run that reaches the end of the source has loaded all *)
(* it owes, so that only a deletion behind the offset can make it skip.    *)
THEOREM OwedAreLoaded == FullSpec => OwedRowsLoaded
<1>1. FullTypeInv /\ FullInv /\ [FullNext]_fullVars => FullTypeInv' /\ FullInv'
  BY FullTypesStep, FullInvStep
<1>2. ASSUME FullTypeInv, FullInv, ReadEof, NEW i \in owed \ Dropped
      PROVE  sink[i] = source[i]
  <2>1. /\ batch = {} /\ Page = {} /\ Frontier = offset /\ offset \in Nat
        /\ i \in Present
    BY <1>2, FrontierIsNat DEF ReadEof, FullTypeInv, FullTypeOK, BatchHeld
  <2>2. Rank(i) \in Nat
    BY <2>1, RankIsPosition DEF Present
  <2>3. ~(Rank(i) >= offset)
    <3>1. SUFFICES ASSUME Rank(i) >= offset PROVE FALSE
      OBVIOUS
    <3>2. PICK j \in Present : Rank(j) = offset
      BY <2>1, <3>1, RankIsPosition, PositionReached
    <3>3. offset >= offset /\ offset < offset + BatchSize
      BY <2>1, FullLoadAssumption
    <3>4. Rank(j) >= offset /\ Rank(j) < offset + BatchSize
      BY <3>2, <3>3, Zenon
    <3>5. [id |-> j, version |-> source[j]] \in Page
      BY <3>4 DEF Page
    <3>6. QED BY <2>1, <3>5
  <2>4. Rank(i) < Frontier
    BY <2>1, <2>2, <2>3
  <2>5. QED BY <2>1, <2>4, <1>2 DEF FullInv, PassedAreKept
<1>3. FullTypeInv /\ FullInv => (ReadEof => \A i \in owed \ Dropped : sink[i] = source[i])
  BY <1>2
<1>4. QED
  BY <1>1, <1>3, FullTypesHold, FullInvInit, PTL DEF FullSpec, OwedRowsLoaded

(***************************************************************************)
(* Advance.                                                                *)
(***************************************************************************)

\* A batch came from positions the source can have.
BatchIsThere == batch # {} => offset < Cardinality(Ids)

\* A page that is not empty lies within the ids.
LEMMA PageIsThere ==
  ASSUME IsFiniteSet(Ids), FullTypeInv, Page # {}
  PROVE  offset < Cardinality(Ids)
<1>1. PICK i \in Present : Rank(i) >= offset
  BY DEF Page
<1> DEFINE before == {j \in Present : j < i}
<1>2. /\ before \subseteq Ids /\ i \in Ids /\ i \notin before
  BY <1>1, FullLoadAssumption DEF Present
<1>3. /\ IsFiniteSet(before) /\ Cardinality(before) \in Nat /\ Cardinality(Ids) \in Nat
      /\ Cardinality(before) <= Cardinality(Ids)
      /\ Cardinality(before) = Cardinality(Ids) => before = Ids
  BY <1>2, FS_Subset, FS_CardinalityType
<1>4. Cardinality(before) < Cardinality(Ids)
  BY <1>2, <1>3
<1>5. offset \in Nat /\ Rank(i) = Cardinality(before)
  BY DEF Rank, FullTypeInv, FullTypeOK
<1>6. QED BY <1>1, <1>3, <1>4, <1>5

LEMMA BatchIsThereStep ==
  ASSUME IsFiniteSet(Ids), FullTypeInv, BatchIsThere, [FullNext]_fullVars
  PROVE  BatchIsThere'
<1>1. CASE ReadRows
  BY <1>1, PageIsThere DEF ReadRows, BatchIsThere
<1>2. CASE batch' = {}
  BY <1>2 DEF BatchIsThere
<1>3. CASE UNCHANGED <<batch, offset>>
  BY <1>3 DEF BatchIsThere
<1>4. QED
  BY <1>1, <1>2, <1>3
  DEF FullNext, Work, Update, Insert, Delete, Begin, ReadEof, Write, Commit, Continue,
      StopForPause, Error, Lost, Retry, Leave, localVars, fullVars

LEMMA FullStepIsCloser ==
  ASSUME IsFiniteSet(Ids), FullTypeInv, BatchIsThere, Work \/ Error \/ Lost, pc' # "idle"
  PROVE  Closer
<1>1. /\ attempt \in Nat /\ offset \in Nat /\ Cardinality(Ids) \in Nat
      /\ BatchSize \in Nat \ {0}
  BY FullLoadAssumption, FS_CardinalityType DEF FullTypeInv, FullTypeOK
<1>2. CASE Error \/ Lost
  <2>1. attempt' = attempt + 1
    BY <1>2 DEF Error, Lost, Retry, Leave
  <2>2. QED BY <1>1, <2>1 DEF Closer
<1>3. CASE ReadRows \/ Write \/ Continue
  <2>1. attempt' = attempt /\ offset' = offset
    BY <1>3 DEF ReadRows, Write, Continue
  <2>2. Stage' < Stage
    BY <1>3 DEF ReadRows, Write, Continue, Stage
  <2>3. QED BY <2>1, <2>2 DEF Closer, Ahead
<1>4. CASE Commit
  <2>1. batch # {} /\ IsFiniteSet(batch)
    BY <1>4 DEF Commit, FullTypeInv, BatchHeld
  <2>2. Cardinality(batch) \in Nat /\ Cardinality(batch) # 0
    BY <2>1, FS_CardinalityType, FS_EmptySet
  <2>3. NextOffset \in Nat /\ offset < NextOffset
    BY <1>1, <2>2 DEF NextOffset
  <2>4. offset < Cardinality(Ids)
    BY <2>1 DEF BatchIsThere
  <2>5. Ahead' < Ahead
    <3>1. offset' = NextOffset
      BY <1>4 DEF Commit
    <3>2. Ahead' = IF NextOffset < Cardinality(Ids) THEN Cardinality(Ids) - NextOffset ELSE 0
      BY <3>1 DEF Ahead
    <3>3. QED BY <1>1, <2>3, <2>4, <3>2 DEF Ahead
  <2>6. attempt' = attempt
    BY <1>4 DEF Commit
  <2>7. QED BY <2>5, <2>6 DEF Closer
<1>5. QED BY <1>2, <1>3, <1>4 DEF Work, ReadEof, StopForPause, Leave

(* For both bodies and any number of rows, every step of a full run that   *)
(* does not end it uses up an attempt, moves the offset on by at least one *)
(* position of finitely many, or leads to the next stage of its batch, and *)
(* no change of the source undoes that.                                    *)
THEOREM FullRunsAdvance == IsFiniteSet(Ids) => (FullSpec => FullLoadAdvances)
<1> SUFFICES ASSUME IsFiniteSet(Ids) PROVE FullSpec => FullLoadAdvances
  OBVIOUS
<1> DEFINE Inv == FullTypeInv /\ BatchIsThere
<1>1. FullInit => Inv
  BY FullTypesHold DEF FullInit, BatchIsThere
<1>2. Inv /\ [FullNext]_fullVars => Inv'
  BY FullTypesStep, BatchIsThereStep
<1>3. ASSUME Inv, FullNext, pc # "idle", pc' # "idle"
      PROVE  Closer \/ (UNCHANGED localVars /\ source' # source)
  <2>1. CASE \E i \in Ids : Update(i) \/ Insert(i) \/ Delete(i)
    <3>1. PICK i \in Ids : Update(i) \/ Insert(i) \/ Delete(i)
      BY <2>1
    <3>2. source'[i] # source[i]
      <4>1. \A v \in 1 .. MaxVersion - 1 : v + 1 # v
        BY FullLoadAssumption
      <4>2. QED BY <1>3, <3>1, <4>1 DEF Update, Insert, Delete, FullTypeInv, FullTypeOK
    <3>3. UNCHANGED localVars
      BY <3>1 DEF Update, Insert, Delete
    <3>4. QED BY <3>2, <3>3
  <2>2. CASE Work \/ Error \/ Lost
    BY <1>3, <2>2, FullStepIsCloser
  <2>3. QED BY <1>3, <2>1, <2>2 DEF FullNext, Begin
<1>4. Inv /\ [FullNext]_fullVars =>
        [pc # "idle" /\ pc' # "idle" =>
           Closer \/ (UNCHANGED localVars /\ source' # source)]_fullVars
  BY <1>3
<1>5. QED BY <1>1, <1>2, <1>4, PTL DEF FullSpec, FullLoadAdvances

=============================================================================
