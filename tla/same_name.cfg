SPECIFICATION Spec
CONSTANTS
  m1 = m1
  m2 = m2
  n1 = n1
  n2 = n2
  p18dx = p18dx
  bbs = bbs
  default = default
  Messages = {m1, m2}
  Names = {n1}
  Dests = {p18dx}
  Consumers = {p18dx}
  Existing = {p18dx}
  NoFile = NoFile
  Empty = Empty
  FileName <- MCSameName
  Routes <- MCDown
  MaxFaults = 2
INVARIANTS
  OnlyStoredDelivered
  NoNeedlessRepeat
