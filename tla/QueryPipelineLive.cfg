CONSTANTS
  Queries = {1, 2}
  Live = {"running"}
  Terminal = {"finished"}
  Size <- MCSize
  MaxEvents = 1
  MaxBytes = 9
  MaxCheckpoints = 2
  Retention = 1
  Events = TRUE
  MaxPerCycle = 1
  BatchLimit = 1
  StoreFaults = FALSE
  Times = {1}
  MaxRevision = 1
  MaxCrashes = 0
SPECIFICATION Spec
PROPERTY EveryFinishIsCounted
