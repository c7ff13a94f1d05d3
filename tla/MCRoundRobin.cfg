SPECIFICATION MCSpec
CONSTANTS
  Handles = {1, 2}
  MaxCredits <- MCMaxCredits
  FragmentCounts = {1, 3}
  HciQueueDepth = 2
  MaxPackets = 2
  Fragile = {1, 2}
  MaxPosted = 2
INVARIANTS
  EnqueueHasCredit
  IteratorValid
  ControllerNeverOverrun
  CompletedWereSent
  SteadyCredits
PROPERTIES FragmentsInOrder SteadyPacketsSent
CHECK_DEADLOCK FALSE
