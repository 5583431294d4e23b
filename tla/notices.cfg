SPECIFICATION Spec
CONSTANTS
  Pairs = {p1}
  Codes = {c1}
  NoCode = NoCode
  Fee = 1
  DefaultLimit = 1
  Limits = {0, 2}
  Commands <- Binding
  None = None
  MaxSerial = 2
  MaxFaults = 0
  MaxRestarts = 0
INVARIANTS
  NoticesAreTrue
