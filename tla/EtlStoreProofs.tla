--------------------------- MODULE EtlStoreProofs ---------------------------
(***************************************************************************)
(* What the statements of the two repositories preserve and change, one    *)
(* lemma per kind of statement.                                            *)
(***************************************************************************)
EXTENDS EtlStore, SequenceTheorems, TLAPS

\* A sequence whose entry i, if there is one, is replaced, is still one over
\* the same set and has the same length.
LEMMA OverwriteEntry ==
  ASSUME NEW S, NEW s \in Seq(S), NEW i, NEW e \in S
  PROVE  /\ [s EXCEPT ![i] = e] \in Seq(S)
         /\ Len([s EXCEPT ![i] = e]) = Len(s)
<1>1. Len(s) \in Nat /\ s \in [1 .. Len(s) -> S] /\ DOMAIN s = 1 .. Len(s)
  BY LenProperties
<1>2. CASE i \in 1 .. Len(s)
  BY <1>2, ExceptSeq
<1>3. CASE i \notin 1 .. Len(s)
  <2>1. [s EXCEPT ![i] = e] = s
    BY <1>1, <1>3
  <2> QED
    BY <2>1
<1> QED
  BY <1>2, <1>3

\* Failing the open entries of a history keeps its length and its closed
\* entries.
CloseOpen(s) == [i \in DOMAIN s |-> IF s[i] = "RUNNING" THEN "FAILED" ELSE s[i]]

LEMMA CloseOpenEntries ==
  ASSUME NEW s \in Seq(RunStatus)
  PROVE  /\ CloseOpen(s) \in Seq(RunStatus)
         /\ Len(CloseOpen(s)) = Len(s)
<1> DEFINE t == CloseOpen(s)
<1>1. Len(s) \in Nat /\ s \in [1 .. Len(s) -> RunStatus] /\ DOMAIN s = 1 .. Len(s)
  BY LenProperties
<1>2. t \in [1 .. Len(s) -> RunStatus]
  BY <1>1 DEF CloseOpen, RunStatus
<1> QED
  BY <1>1, <1>2

\* A conditional UPDATE of the status column.
LEMMA UpdateStatusType ==
  ASSUME status \in [Pipelines -> PipelineStatus],
         NEW p, NEW from, NEW to \in PipelineStatus,
         UpdateStatus(p, from, to)
  PROVE  status' \in [Pipelines -> PipelineStatus]
BY DEF UpdateStatus

\* Recovery's UPDATE of the pipelines.
LEMMA RequeueType ==
  ASSUME status \in [Pipelines -> PipelineStatus], NEW ids,
         mark_run_requested_bulk(ids)
  PROVE  status' \in [Pipelines -> PipelineStatus]
BY DEF mark_run_requested_bulk, PipelineStatus

\* The four statements on etl_runs.
LEMMA RunsType ==
  ASSUME runs \in [Pipelines -> Seq(RunStatus)],
         NEW p, NEW run, NEW ids,
         \/ p \in Pipelines /\ start_run(p)
         \/ finish_success(p, run)
         \/ finish_failed(p, run)
         \/ recover_running_failed_bulk(ids)
  PROVE  runs' \in [Pipelines -> Seq(RunStatus)]
<1> USE DEF RunStatus
<1>1. CASE p \in Pipelines /\ start_run(p)
  <2>1. Append(runs[p], "RUNNING") \in Seq(RunStatus)
    BY <1>1
  <2> QED
    BY <1>1, <2>1 DEF start_run
<1>2. CASE finish_success(p, run)
  <2>1. p \in Pipelines => [runs[p] EXCEPT ![run] = "SUCCESS"] \in Seq(RunStatus)
    BY OverwriteEntry
  <2> QED
    BY <1>2, <2>1 DEF finish_success
<1>3. CASE finish_failed(p, run)
  <2>1. p \in Pipelines => [runs[p] EXCEPT ![run] = "FAILED"] \in Seq(RunStatus)
    BY OverwriteEntry
  <2> QED
    BY <1>3, <2>1 DEF finish_failed
<1>4. CASE recover_running_failed_bulk(ids)
  <2>1. runs' = [q \in Pipelines |-> IF q \in ids THEN CloseOpen(runs[q]) ELSE runs[q]]
    BY <1>4 DEF recover_running_failed_bulk, CloseOpen
  <2>2. \A q \in Pipelines : CloseOpen(runs[q]) \in Seq(RunStatus)
    BY CloseOpenEntries
  <2> QED
    BY <2>1, <2>2
<1> QED
  BY <1>1, <1>2, <1>3, <1>4

=============================================================================
