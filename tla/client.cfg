SPECIFICATION FairSpec
CONSTANTS
  Procs = {1, 2}
  None = None
  NRequests <- MCRequests
  SMS_SHM_SIZE = 5
  MaxFaults = 1
INVARIANTS
  ShmInvariant
  SuccessIsAnswered
PROPERTIES
  PacketsAreWhole
  RequestsReturn
CHECK_DEADLOCK FALSE
