SPECIFICATION Spec
CONSTANTS
  Pids <- TwoDigits
  None = None
  MaxFaults = 0
PROPERTIES
  OnlySessionsAreKilled
