SPECIFICATION Spec
CONSTANTS
  Messages = {m1, m2, m3}
  Deliveries = {d1}
  None = None
  MaxTries = 5
  MaxFaults = 2
INVARIANTS
  DxInvariant
  ResultsAreTrue
  TwiceNeedsFault
CHECK_DEADLOCK FALSE
