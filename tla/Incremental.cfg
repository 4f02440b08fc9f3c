SPECIFICATION FairLoadSpec
CONSTANTS
  e1 = e1
  e2 = e2
  Executors <- OneExecutor
  Ids <- ThreeRows
  Transactions <- AnyRows
  Dropped <- MiddleDropped
  BatchSize = 2
  MaxAttempts = 2
  Sinks <- BothSinks
  MaxTime = 4
  MaxFaults = 2
INVARIANTS
  LoadTypeOK
  CheckpointCovers
PROPERTIES
  CheckpointMonotonic
  ReplicaSpec
  DrainedMeansSynced
  LoadEnds
