SPECIFICATION Spec
CONSTANTS
  r1 = r1
  r2 = r2
  c1 = c1
  c2 = c2
  Pipelines <- OnePipeline
  Runners <- TwoRunners
  Clients <- OneClient
  MaxCalls = 3
  MaxAttempts = 1
  MaxBatches = 1
  FaultKinds <- NoFault
  MaxFaults = 0
INVARIANT
  ExclusiveExecution
