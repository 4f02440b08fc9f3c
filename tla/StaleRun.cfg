SPECIFICATION Spec
CONSTANTS
  r1 = r1
  r2 = r2
  c1 = c1
  c2 = c2
  Pipelines <- OnePipeline
  Runners <- OneRunner
  Clients <- OneClient
  MaxCalls = 2
  MaxAttempts = 1
  MaxBatches = 1
  FaultKinds <- Crashes
  MaxFaults = 1
INVARIANT
  StaleRunsClosed
