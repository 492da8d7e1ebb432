CONSTANTS
  h1 = h1
  h2 = h2
  Alerts = {a1, a2, a3}
  Hashes = {h1, h2}
  Markers = {m1}
  NoHash = NoHash
  NoMarker = NoMarker
  Size <- MCSize
  MaxEvents = 3
  MaxBytes = 5
  MaxCheckpoints = 2
  Retention = 1
  StoreFaults = FALSE
  Times = {1, 2}
  MaxSequence = 4
SYMMETRY Symmetry
SPECIFICATION OutboxSpec
INVARIANTS
  TypeOK
  NeverCorrupt
  MetaExact
  WithinLimits
  ConsumerConverges
PROPERTY NoRepeatedEvent
