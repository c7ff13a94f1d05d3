SPECIFICATION Spec
CONSTANTS
  kMaxTxWin = 64
  LocalTxWindow = 10
  RemoteTxWindow = 2
  MaxTransmit = 4
  BusyThreshold = 3
  Loads <- Crossing
  MaxLosses = 1
  MaxEarly = 0
INVARIANT InOrder
CHECK_DEADLOCK FALSE
