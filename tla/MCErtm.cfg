SPECIFICATION Spec
CONSTANTS
  kMaxTxWin = 6
  LocalTxWindow = 2
  RemoteTxWindow = 2
  MaxTransmit = 4
  BusyThreshold = 3
  Loads <- Mixed
  MaxLosses = 2
  MaxEarly = 1
INVARIANTS NotifyOnce NeverStranded WindowBookkeeping CloseJustified
PROPERTY ImplementsFifo
CHECK_DEADLOCK FALSE
