CONSTANTS
  Alerts = {1}
  StoreFaults = FALSE
  Hashes = {h1, h2}
  Markers = {1, 2}
  NoHash = NoHash
  NoMarker = NoMarker
  Size <- MCSize
  MaxEvents = 2
  MaxBytes = 9
  MaxCheckpoints = 2
  Retention = 1
  MaxUpsets = 1
  MaxPerCycle = 1
  Concurrency = 1
  RefreshInterval = 1
  MaxVersion = 2
  BatchLimit = 2
SYMMETRY MCSymmetry
CONSTRAINT Explored
SPECIFICATION Spec
INVARIANTS
  TypeOK
  NeverSetBack
  MarkersTellTheTruth
PROPERTIES
  DeliversInOrder
  ReadyMeansCollected
