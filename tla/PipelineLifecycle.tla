-------------------------- MODULE PipelineLifecycle -------------------------
(***************************************************************************)
(* What the platform promises about the status of a pipeline, without      *)
(* sessions, ticks, batches, retries or run rows: operators ask, workers   *)
(* claim, and a status is settled by a worker that holds the pipeline.     *)
(*                                                                         *)
(* The specification is an abstraction of the transitions the code makes;  *)
(* EtlPlatform implements it under the mapping given there.                *)
(***************************************************************************)
EXTENDS Naturals

CONSTANTS
  Pipelines,   \* pipelines
  Workers,     \* worker processes
  Nothing      \* not a pipeline: the worker holds none

VARIABLES
  st,          \* st[p]: status of the pipeline
  holds        \* holds[w]: the pipeline worker w has claimed, or Nothing

lifeVars == <<st, holds>>

LifeInit ==
  /\ st = [p \in Pipelines |-> "IDLE"]
  /\ holds = [w \in Workers |-> Nothing]

Move(p, from, to) ==
  /\ st[p] \in from
  /\ st' = [st EXCEPT ![p] = to]

\* Operators.
AskRun(p) ==
  /\ Move(p, {"IDLE", "PAUSED", "PAUSE_REQUESTED"}, "RUN_REQUESTED")
  /\ UNCHANGED holds

AskPause(p) ==
  /\ Move(p, {"IDLE", "RUN_REQUESTED", "RUNNING"}, "PAUSE_REQUESTED")
  /\ UNCHANGED holds

\* Workers.
Take(w, p) ==
  /\ holds[w] = Nothing
  /\ Move(p, {"RUN_REQUESTED"}, "RUNNING")
  /\ holds' = [holds EXCEPT ![w] = p]

\* A worker that holds nothing answers a pause request.
ParkIdle(w, p) ==
  /\ holds[w] = Nothing
  /\ Move(p, {"PAUSE_REQUESTED"}, "PAUSED")
  /\ UNCHANGED holds

\* The worker that holds p answers the request between two batches.
ParkHeld(w, p) ==
  /\ holds[w] = p
  /\ Move(p, {"PAUSE_REQUESTED"}, "PAUSED")
  /\ UNCHANGED holds

Complete(w, p) ==
  /\ holds[w] = p
  /\ Move(p, {"RUNNING"}, "IDLE")
  /\ holds' = [holds EXCEPT ![w] = Nothing]

Fail(w, p) ==
  /\ holds[w] = p
  /\ Move(p, {"RUNNING", "PAUSE_REQUESTED"}, "FAILED")
  /\ holds' = [holds EXCEPT ![w] = Nothing]

\* The worker lets go without settling the status: it was overtaken, lost
\* its connection, or died.
Release(w) ==
  /\ holds[w] # Nothing
  /\ holds' = [holds EXCEPT ![w] = Nothing]
  /\ UNCHANGED st

\* A worker that starts up queues again what it found running.
Restart(w, S) ==
  /\ holds[w] = Nothing
  /\ st' = [p \in Pipelines |->
              IF p \in S /\ st[p] = "RUNNING" THEN "RUN_REQUESTED" ELSE st[p]]
  /\ UNCHANGED holds

LifeNext ==
  \/ \E p \in Pipelines : AskRun(p) \/ AskPause(p)
  \/ \E w \in Workers, p \in Pipelines :
       \/ Take(w, p) \/ ParkIdle(w, p) \/ ParkHeld(w, p)
       \/ Complete(w, p) \/ Fail(w, p)
  \/ \E w \in Workers : Release(w) \/ \E S \in SUBSET Pipelines : Restart(w, S)

LifeSpec == LifeInit /\ [][LifeNext]_lifeVars

=============================================================================
