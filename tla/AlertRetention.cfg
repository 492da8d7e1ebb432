CONSTANTS
  Alerts = {1}
  Hashes = {h1}
  Markers = {1, 2, 3, 4}
  NoHash = NoHash
  NoMarker = NoMarker
  Size <- MCSize
  MaxEvents = 1
  MaxBytes = 9
  MaxCheckpoints = 2
  Retention = 2
  StoreFaults = FALSE
  MaxPerCycle = 1
  Concurrency = 1
  RefreshInterval = 9
  Unmarked = {}
  MaxVersion = 4
  MaxTime = 3
  BatchLimit = 2
  MaxCrashes = 0
SPECIFICATION RetentionSpec
PROPERTY RetainedAfterDisappearing
