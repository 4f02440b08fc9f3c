SPECIFICATION Spec
CONSTANTS
  r1 = r1
  r2 = r2
  c1 = c1
  c2 = c2
  Pipelines <- TwoPipelines
  Runners <- OneRunner
  Clients <- TwoClients
  MaxCalls = 3
  MaxAttempts = 2
  MaxBatches = 2
  FaultKinds <- EveryFault
  MaxFaults = 2
INVARIANTS
  TypeOK
  RunRowOwned
  IdleMeansComplete
  PausedWorkIsRetry
PROPERTIES
  PauseBetweenBatches
  ClosedRunsStay
  RestartRecovers
  TickAdvances
