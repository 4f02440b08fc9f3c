------------------------------ MODULE Replica -------------------------------
(***************************************************************************)
(* What an incremental load promises, without batches, attempts, sessions, *)
(* kinds of sink or faults: a sink that follows a source, and a checkpoint *)
(* that says how far it has come.  Rows are delivered at least once and in *)
(* any order above the checkpoint; IncrementalLoad implements this when    *)
(* one executor at a time runs the pipeline.                               *)
(***************************************************************************)
EXTENDS Naturals

CONSTANTS
  Ids,      \* the rows the source may have
  Wanted    \* those that the transforms let through

VARIABLES
  source,   \* source[i]: time of the last change of row i, 0 if there is none
  clock,    \* time of the latest change
  sink,     \* sink[i]: the version of row i in the target, 0 if none
  state     \* the checkpoint: key of a source row, or zero

replVars == <<source, clock, sink, state>>

ReplInit ==
  /\ source = [i \in Ids |-> 0]
  /\ clock = 0
  /\ sink = [i \in Ids |-> 0]
  /\ state = [ts |-> 0, id |-> 0]

\* Key k comes before key l.
Before(k, l) == k.ts < l.ts \/ (k.ts = l.ts /\ k.id < l.id)

\* Every wanted row up to key k is in the sink as the source has it.
DeliveredUpTo(k) ==
  \A i \in Wanted :
    source[i] # 0 /\ ~Before(k, [ts |-> source[i], id |-> i]) => sink[i] = source[i]

\* Others write the source: what commits later carries a later time.
Write ==
  /\ clock' = clock + 1
  /\ \E ids \in SUBSET Ids :
       source' = [i \in Ids |-> IF i \in ids THEN clock' ELSE source[i]]
  /\ UNCHANGED <<sink, state>>

\* Some wanted rows move to a later version that the source has had, none to
\* an earlier one, and none appears from nowhere.
Forward ==
  /\ DOMAIN sink' = Ids
  /\ \A i \in Ids : sink'[i] # sink[i] =>
       i \in Wanted /\ sink[i] < sink'[i] /\ sink'[i] <= source[i]

\* Rows are delivered, and possibly acknowledged by the checkpoint.
Deliver ==
  /\ Forward
  /\ state' # state => /\ Before(state, state') /\ state'.ts <= clock
                       /\ DeliveredUpTo(state)'
  /\ UNCHANGED <<source, clock>>

ReplNext == Write \/ Deliver

ReplSpec == ReplInit /\ [][ReplNext]_replVars

=============================================================================
