SPECIFICATION Spec
CONSTANTS
  m1 = m1
  m2 = m2
  n1 = n1
  n2 = n2
  p18dx = p18dx
  bbs = bbs
  default = default
  Messages = {m1, m2}
  Names = {n1, n2}
  Dests = {bbs, default}
  Consumers = {bbs}
  Existing = {default}
  NoFile = NoFile
  Empty = Empty
  FileName <- MCDistinct
  Routes <- MCUp
  MaxFaults = 2
INVARIANTS
  PipelineInvariant
  NoMessageLost
  NoNeedlessRepeat
PROPERTIES
  RemovedFilesAreKept
  KeepsPromise
  RelayedGetsFurther
