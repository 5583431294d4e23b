SPECIFICATION FairSpec
CONSTANTS
  Files = {f1, f2}
  None = None
  MaxRestarts = 1
INVARIANTS
  NotifyInvariant
  TwiceNeedsRestart
PROPERTIES
  HandlerKeepsPromise
  HandlerIsConsumer
  EveryFileIsTried
CHECK_DEADLOCK FALSE
