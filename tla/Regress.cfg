SPECIFICATION LoadSpec
CONSTANTS
  e1 = e1
  e2 = e2
  Executors <- TwoExecutors
  Ids <- TwoRows
  Transactions <- AnyOfTwo
  Dropped <- NothingDropped
  BatchSize = 1
  MaxAttempts = 2
  Sinks <- PostgresOnly
  MaxTime = 2
  MaxFaults = 0
PROPERTY
  CheckpointMonotonic
