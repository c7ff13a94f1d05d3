SPECIFICATION Spec
CONSTANTS
  A = A
  B = B
  Addresses <- MCAddresses
  Targets = {A}
  Callers = {A}
  MaxRequests = 1
  MaxCancels = 0
  MaxIncoming = 1
  MaxDisconnects = 0
  BuggyController = FALSE
INVARIANT NothingLeftBehind
CHECK_DEADLOCK FALSE
