\* Flow control, matching of responses, timeouts and controller crashes; and
\* every command settles, even if the controller never answers.
CONSTANTS
  OpCodes <- MCOpCodes
  StatusOps <- MCStatusOps
  DebugInfo <- MCDebugInfo
  None <- MCNone
  Ogf <- MCOgf
  CtlSlots = 2
  MaxCommands = 2
  MaxNops = 1
SPECIFICATION FairSpec
INVARIANTS OneOutstanding ResponsesExpected AnswersMatch CallbacksOnceInOrder NoLostWakeup
PROPERTIES EveryCommandSettles ImplementsService
CHECK_DEADLOCK FALSE
