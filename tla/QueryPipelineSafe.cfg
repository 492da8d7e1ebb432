CONSTANTS
  Queries = {1}
  Live = {"running"}
  Terminal = {"finished"}
  Size <- MCSize
  MaxEvents = 1
  MaxBytes = 9
  MaxCheckpoints = 2
  Retention = 1
  Events = TRUE
  MaxPerCycle = 1
  BatchLimit = 1
  StoreFaults = TRUE
  Times = {1, 3}
  MaxRevision = 6
  MaxCrashes = 1
SPECIFICATION SafeSpec
INVARIANTS
  FailedPollUnready
  PublishedBeforeRemoved
PROPERTY CountersNeverGoBack
