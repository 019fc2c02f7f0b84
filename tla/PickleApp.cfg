CONSTANTS
  LkElf <- SmallLk
  Lk = Lk
  Handles = {h1, h2}
  Blocks = {b1, b2}
  MaxLen = 6
  NPages = 3
  PageSize = 2
  Null = Null
  Freed = Freed
  Junk = Junk
SPECIFICATION Spec
INVARIANTS JumpsToEntryOfFile
PROPERTIES AppEnds
CHECK_DEADLOCK FALSE
