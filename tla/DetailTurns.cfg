CONSTANTS
  Ids = {1, 2, 3}
  Limits = {1, 2}
  FetchTimes = {0, 1}
SPECIFICATION Spec
INVARIANTS
  BoundedWaiting
PROPERTY FillsTheCycle
