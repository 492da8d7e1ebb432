CONSTANTS
  Callers = {c1, c2}
  NoCaller = NoCaller
  RetryMax = 1
  MaxUpsets = 2
SPECIFICATION Spec
INVARIANTS
  NoNeedlessRenewal
  RetriesWithNewerToken
  BoundedRequests
PROPERTY EveryCallEnds
