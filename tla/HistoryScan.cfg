CONSTANTS
  Items = {1, 2}
  Second = 2
  StartTime = 9
  Oldest = 4
  Lookbacks = {4,6}
  Overlap = 3
  RescanInterval = 2
  Retention = 6
  PageLimit = 2
  MaxPages = 1
  DetailMax = 2
  Concurrency = 2
  MaxPending = 2
  MaxTime = 12
  MaxCrashes = 1
SPECIFICATION Spec
INVARIANTS
  TypeOK
  NothingSkipped
PROPERTIES
  PendingUntilRecorded
  WalkEnds
