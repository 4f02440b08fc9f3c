SPECIFICATION FairFullSpec
CONSTANTS
  Ids <- ThreeRows
  Dropped <- OneDropped
  BatchSize = 2
  MaxAttempts = 2
  Sinks <- BothSinks
  Loops <- BothLoops
  MaxVersion = 2
  MaxFaults = 2
INVARIANT
  FullTypeOK
PROPERTIES
  OwedRowsLoaded
  FullLoadAdvances
  FullLoadEnds
