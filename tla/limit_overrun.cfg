SPECIFICATION Spec
CONSTANTS
  Pairs = {p1}
  Codes = {c1}
  NoCode = NoCode
  Fee = 1
  DefaultLimit = 1
  Limits = {}
  Commands <- FixedLimit
  None = None
  MaxSerial = 2
  MaxFaults = 0
  MaxRestarts = 0
PROPERTIES
  ChargesWithinLimit
