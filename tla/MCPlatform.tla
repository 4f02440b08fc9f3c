----------------------------- MODULE MCPlatform -----------------------------
(***************************************************************************)
(* Instances of EtlPlatform for TLC; the configurations choose among these *)
(* constants.                                                              *)
(***************************************************************************)
EXTENDS EtlPlatform, TLC

CONSTANTS r1, r2, c1, c2

OnePipeline == {1}
TwoPipelines == {1, 2}
OneRunner == {r1}
TwoRunners == {r1, r2}
OneClient == {c1}
TwoClients == {c1, c2}

EveryFault == AllFaultKinds
NoFault == {}
ErrorsAndCrashes == {"execution", "crash"}
Crashes == {"crash"}

RunnerSymmetry == Permutations(TwoRunners)

=============================================================================
