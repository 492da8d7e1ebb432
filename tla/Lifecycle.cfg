CONSTANTS
  c1 = c1
  c2 = c2
  Callers = {c1, c2}
  NoCaller = NoCaller
  RetryMax = 1
  MaxSessions = 2
  Configurations <- MCConfigurations
SPECIFICATION ProcessSpec
INVARIANTS
  LoginsAreNeeded
  FailedStartLeavesNothingOpen
  StoppedBeforeClosed
PROPERTY RunReturns
CHECK_DEADLOCK FALSE
