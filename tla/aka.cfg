SPECIFICATION FairSpec
CONSTANTS
  NConns = 2
  Scripts <- MCScripts
  Inbox = {d1}
  MaxFailures = 1
  MaxRestarts = 1
INVARIANTS
  AkaInvariant
  WaitNeverBlocks
  SurplusNeedsRestart
  LossNeedsCause
PROPERTY
  SessionsEnd
CHECK_DEADLOCK FALSE
