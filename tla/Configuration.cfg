SPECIFICATION ConfigSpec
CONSTANTS
  Null = Null
  Empty = Empty
  c1 = c1
  c2 = c2
  ALLOWED_TARGET_TABLES <- Tables
  ALLOWED_ES_INDEXES <- Indexes
  Clients <- TwoClients
  Creations <- SomeCreations
  Patches <- SomePatches
  TaskRows <- SomeTasks
  Targets <- AllTargets
  Mentions <- QueryText
  Columns <- QueryColumns
  Selects <- QueryRows
  Rank <- KeyRank
  MaxIndex = 2
  MaxAttempts = 2
  MaxEdits = 2
  MaxRequests = 3
  MaxFaults = 1
SYMMETRY ClientSymmetry
INVARIANTS
  ConfigTypeOK
  ConfigHolds
  DisabledClaimedOnce
  LoadsSupported
  CoveredUnlessMoved
PROPERTY
  WritesAsClaimed
