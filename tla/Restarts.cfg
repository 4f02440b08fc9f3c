SPECIFICATION FairSpec
CONSTANTS
  r1 = r1
  r2 = r2
  c1 = c1
  c2 = c2
  Pipelines <- TwoPipelines
  Runners <- OneRunner
  Clients <- OneClient
  MaxCalls = 3
  MaxAttempts = 2
  MaxBatches = 1
  FaultKinds <- ErrorsAndCrashes
  MaxFaults = 2
INVARIANTS
  RunningIsOwned
  FailedMeansExhausted
PROPERTIES
  RunSettles
  PauseSettles
