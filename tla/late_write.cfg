SPECIFICATION RunningSpec
CONSTANTS
  m1 = m1
  m2 = m2
  n1 = n1
  n2 = n2
  p18dx = p18dx
  bbs = bbs
  default = default
  Messages = {m1, m2}
  Names = {n1, n2}
  Dests = {p18dx}
  Consumers = {p18dx}
  Existing = {p18dx}
  NoFile = NoFile
  Empty = Empty
  FileName <- MCDistinct
  Routes <- MCDown
  MaxFaults = 0
PROPERTIES
  NewFilesAreRead
