SPECIFICATION CalmLoadSpec
CONSTANTS
  e1 = e1
  e2 = e2
  Executors <- TwoExecutors
  Ids <- ThreeRows
  Transactions <- RowByRow
  Dropped <- MiddleDropped
  BatchSize = 2
  MaxAttempts = 3
  Sinks <- BothSinks
  MaxTime = 3
  MaxFaults = 2
SYMMETRY ExecutorSymmetry
INVARIANT
  CheckpointCovers
PROPERTIES
  DrainedMeansSynced
  SinkNeverOlder
  RacesNeverExhaust
  LoadAdvances
