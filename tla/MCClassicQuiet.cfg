SPECIFICATION FairSpec
CONSTANTS
  A = A
  B = B
  Addresses <- MCAddresses
  Targets = {A}
  Callers = {B}
  MaxRequests = 2
  MaxCancels = 1
  MaxIncoming = 1
  MaxDisconnects = 0
  BuggyController = TRUE
INVARIANT NothingLeftBehind
PROPERTY EveryOperationEnds
CHECK_DEADLOCK FALSE
