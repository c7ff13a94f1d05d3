SPECIFICATION FairSpec
CONSTANTS
  h1 = h1
  h2 = h2
  a1 = a1
  None = None
  Handlers = {h1, h2}
  Alarms = {a1}
  Owner <- MCOwner
  StopOrder <- MCStopOrder
  MaxPosts = 4
  MaxSchedules = 2
INVARIANTS
  StoppedMeansStopped
  OneTaskPerEvent
  NoIdleWakeup
  DeletedNotUsed
PROPERTIES
  StopAllEnds
  EveryTaskRuns
CHECK_DEADLOCK FALSE
