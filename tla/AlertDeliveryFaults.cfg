CONSTANTS
  Alerts = {1, 2}
  Hashes = {h1, h2}
  Markers = {1, 2}
  NoHash = NoHash
  NoMarker = NoMarker
  Size <- MCSize
  MaxEvents = 2
  MaxBytes = 9
  MaxCheckpoints = 2
  Retention = 1
  StoreFaults = TRUE
  MaxPerCycle = 2
  Concurrency = 2
  RefreshInterval = 1
  Unmarked = {}
  MaxVersion = 2
  MaxTime = 1
  BatchLimit = 2
  MaxCrashes = 1
SPECIFICATION SafeSpec
CONSTRAINT TwoAlertsOrOne
INVARIANT RecoveryKeepsUnready
PROPERTIES
  DeliversInOrder
  ReadyMeansCollected
