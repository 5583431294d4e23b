SPECIFICATION Spec
CONSTANTS
  Pairs = {p1}
  Codes = {c1, c2}
  NoCode = NoCode
  Fee = 1
  DefaultLimit = 1
  Limits = {0, 2}
  Commands <- Everything
  None = None
  MaxSerial = 2
  MaxFaults = 1
  MaxRestarts = 1
SYMMETRY Exchangeable
INVARIANTS
  SessionInvariant
  SentOnlyWhileBound
  SuccessNoticesAreTrue
PROPERTIES
  CodeStable
