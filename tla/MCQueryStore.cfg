CONSTANTS
  Queries = {1, 2}
  Live = {"queued", "running"}
  Terminal = {"finished", "failed"}
  Size <- MCSize
  MaxEvents = 2
  MaxBytes = 3
  MaxCheckpoints = 2
  Retention = 1
  Events = TRUE
  Submitted <- MCSubmitted
  CompletedAt <- MCCompletedAt
  Outcome <- MCOutcome
  Readings = {1, 3, 5, 6}
  MaxSequence = 4
SPECIFICATION QuerySpec
INVARIANTS
  TypeOK
  NeverCorrupt
  CountedOnce
  CountedWithEvent
PROPERTY TerminalIsLast
