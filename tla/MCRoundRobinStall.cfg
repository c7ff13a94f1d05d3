SPECIFICATION MCFairSpec
CONSTANTS
  Handles = {1, 2}
  MaxCredits <- MCMaxCredits
  FragmentCounts = {1, 3}
  HciQueueDepth = 2
  MaxPackets = 2
  Fragile = {1}
  MaxPosted = 2
PROPERTY EveryPacketSent
CHECK_DEADLOCK FALSE
