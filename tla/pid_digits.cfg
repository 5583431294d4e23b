SPECIFICATION Spec
CONSTANTS
  Pids <- OneOrTwoDigits
  None = None
  MaxFaults = 0
INVARIANTS
  AtMostOneSession
