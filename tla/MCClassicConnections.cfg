SPECIFICATION Spec
CONSTANTS
  A = A
  B = B
  Addresses <- MCAddresses
  Targets = {A}
  Callers = {A, B}
  MaxRequests = 2
  MaxCancels = 1
  MaxIncoming = 1
  MaxDisconnects = 1
  BuggyController = FALSE
INVARIANTS
  NoConflict
  AssertionsHold
  AnsweredOnce
  NoIdleQueue
  ExactlyOneCallback
  StartedInOrder
CHECK_DEADLOCK FALSE
