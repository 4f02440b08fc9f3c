------------------------------- MODULE EtlApi -------------------------------
(***************************************************************************)
(* The control plane: POST /run, POST /pause and PATCH of app/api/v1 and   *)
(* the service methods behind them.  A handler reads the pipeline, decides *)
(* on what it read, and then issues its UPDATE in a statement of its own;  *)
(* between the two any other process may act.  Requests that only read, or *)
(* that return early without writing, change nothing and are stuttering    *)
(* steps.  PATCH is modelled for the one column the runner's control flow  *)
(* depends on, enabled; PipelineConfig models it for the others.           *)
(***************************************************************************)
EXTENDS EtlStore

CONSTANTS
  Clients,    \* concurrent request handlers
  MaxCalls    \* bound: requests that get past the first read

ASSUME MaxCallsAssumption == MaxCalls \in Nat

VARIABLES
  call,    \* call[c]: the request c is between its read and its UPDATE
  calls    \* requests begun so far

apiVars == <<call, calls>>

Call == [op: {"none", "run", "pause", "enable", "disable"},
         pid: Pipelines \cup {NoPipeline}]

NoCall == [op |-> "none", pid |-> NoPipeline]

ApiTypeOK ==
  /\ call \in [Clients -> Call]
  /\ calls \in 0 .. MaxCalls

ApiInit ==
  /\ call = [c \in Clients |-> NoCall]
  /\ calls = 0

Begin(c, operation, p) ==
  /\ call[c] = NoCall
  /\ calls < MaxCalls
  /\ calls' = calls + 1
  /\ call' = [call EXCEPT ![c] = [op |-> operation, pid |-> p]]

End(c) ==
  /\ call' = [call EXCEPT ![c] = NoCall]
  /\ UNCHANGED calls

\* run_pipeline: already RUNNING or RUN_REQUESTED is returned as it is.
run_pipeline(c, p) ==
  /\ ~Matches(p, {"RUNNING", "RUN_REQUESTED"})
  /\ Begin(c, "run", p)
  /\ UNCHANGED storeVars

RequestRun(c) ==
  /\ call[c].op = "run"
  /\ request_run(call[c].pid)
  /\ End(c)
  /\ UNCHANGED <<enabled, runs>>

\* pause_pipeline: already PAUSED or PAUSE_REQUESTED is returned as it is.
pause_pipeline(c, p) ==
  /\ ~Matches(p, {"PAUSED", "PAUSE_REQUESTED"})
  /\ Begin(c, "pause", p)
  /\ UNCHANGED storeVars

RequestPause(c) ==
  /\ call[c].op = "pause"
  /\ request_pause(call[c].pid)
  /\ End(c)
  /\ UNCHANGED <<enabled, runs>>

(***************************************************************************)
(* PATCH {"enabled": ...}: refused with 409 when the row read is RUNNING.  *)
(* The ORM flushes only an attribute that differs from the row it loaded,  *)
(* so a PATCH to the value it read writes nothing.                         *)
(***************************************************************************)
patch_pipeline(c, p) ==
  /\ ~Matches(p, {"RUNNING"})
  /\ Begin(c, IF enabled[p] THEN "disable" ELSE "enable", p)
  /\ UNCHANGED storeVars

CommitPatch(c) ==
  /\ call[c].op \in {"enable", "disable"}
  /\ update_pipeline(call[c].pid, call[c].op = "enable")
  /\ End(c)
  /\ UNCHANGED <<status, runs>>

\* The handler dies, or its statement fails, before the UPDATE commits.
AbandonCall(c) ==
  /\ call[c] # NoCall
  /\ End(c)
  /\ UNCHANGED storeVars

ApiNext ==
  \E c \in Clients :
    \/ \E p \in Pipelines : \/ run_pipeline(c, p)
                            \/ pause_pipeline(c, p)
                            \/ patch_pipeline(c, p)
    \/ RequestRun(c)
    \/ RequestPause(c)
    \/ CommitPatch(c)
    \/ AbandonCall(c)

=============================================================================
