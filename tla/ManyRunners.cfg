SPECIFICATION Spec
CONSTANTS
  r1 = r1
  r2 = r2
  c1 = c1
  c2 = c2
  Pipelines <- OnePipeline
  Runners <- TwoRunners
  Clients <- OneClient
  MaxCalls = 3
  MaxAttempts = 2
  MaxBatches = 1
  FaultKinds <- ErrorsAndCrashes
  MaxFaults = 2
INVARIANTS
  ExclusiveClaim
PROPERTIES
  LifecycleSpec
  SuccessIsFinal
SYMMETRY RunnerSymmetry
