SPECIFICATION Spec
CONSTANTS
  kMaxTxWin = 64
  LocalTxWindow = 10
  RemoteTxWindow = 10
  MaxTransmit = 4
  BusyThreshold = 3
  Loads <- TwoLaps
  MaxLosses = 0
  MaxEarly = 0
INVARIANT InOrder
CHECK_DEADLOCK FALSE
