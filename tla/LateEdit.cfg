SPECIFICATION Spec
CONSTANTS
  r1 = r1
  r2 = r2
  c1 = c1
  c2 = c2
  Pipelines <- OnePipeline
  Runners <- OneRunner
  Clients <- TwoClients
  MaxCalls = 2
  MaxAttempts = 1
  MaxBatches = 1
  FaultKinds <- NoFault
  MaxFaults = 0
PROPERTY
  NoEditWhileRunning
