SPECIFICATION Spec
CONSTANTS
  Files = {f1, f2}
  None = None
  MaxRestarts = 0
INVARIANTS
  KeptWasSent
  ErrorWasRefused
  NeverCrashes
CHECK_DEADLOCK FALSE
