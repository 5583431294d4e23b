SPECIFICATION FairSpec
CONSTANTS
  Pids <- OneOrTwoDigits
  None = None
  MaxFaults = 2
INVARIANT
  SurplusNeedsCause
PROPERTIES
  LoginCompletes
