CONSTANTS
  Alerts = {1}
  Hashes = {h1, h2}
  Markers = {1, 2}
  NoHash = NoHash
  NoMarker = NoMarker
  Size <- MCSize
  MaxEvents = 1
  MaxBytes = 9
  MaxCheckpoints = 1
  Retention = 1
  StoreFaults = FALSE
  MaxPerCycle = 1
  Concurrency = 1
  RefreshInterval = 1
  Unmarked = {}
  MaxVersion = 2
  MaxTime = 1
  BatchLimit = 2
  MaxCrashes = 1
SPECIFICATION Spec
PROPERTIES
  DeliversEverything
  TopicConverges
  GaugesConverge
