SPECIFICATION FilterSpec
CONSTANTS
  Contents <- MCContents
  Edited <- MCEdited
  Texts <- MCTexts
  Messages <- MCMessages
  Missing = Missing
  TooLarge = TooLarge
  Unread = Unread
  Freed = Freed
  Filling = Filling
  Partial = Partial
  LONGFILE = 5
  MaxEdits = 1
INVARIANTS
  FilterInvariant
  SearchIsRight
  VerdictIsRight
