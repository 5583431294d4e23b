SPECIFICATION Spec
CONSTANTS
  Pairs = {p1}
  Codes = {c1}
  NoCode = NoCode
  Fee = 1
  DefaultLimit = 1
  Limits = {}
  Commands <- FixedLimit
  None = None
  MaxSerial = 2
  MaxFaults = 1
  MaxRestarts = 1
SYMMETRY Exchangeable
INVARIANTS
  ListIsProtected
  OwnRepliesAreRight
  DeafNeedsForeignReply
  OverrunIsOneMessage
