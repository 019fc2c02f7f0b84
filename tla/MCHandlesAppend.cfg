CONSTANTS
  a = a
  b = b
  c = c
  p = p
  q = q
  o = o
  x = x
  y = y
  PathOf <- SmallPathOf
  Collating = {b}
  Values <- SmallValues
  Options = {b}
  GuessedSize = 2
  Blocks = {b1, b2, b3}
  Null = Null
  MaxLen = 5
  MaxCalls = 2
  MaxChanges = 2
  Handles = {h1, h2}
  Protocols = {p, q, o}
  Ifaces = {x, y}
  None = None
  ArgLists <- Lists
  MaxInstalls = 3
  Nodes <- DeviceNodes
  Paths <- OtherPaths
  Align = 2
  MultiAppend = TRUE
  LongInstance = FALSE
  MaxCells = 14
  Chars = {"a", "b"}
  Enter = "Enter"
  Backspace = "Backspace"
  Other = "Other"
  Lengths = {1, 3}
  Timeouts = {0, 2}
  MaxKeys = 4
  MaxSteals = 1
  Installable = {i1, i2, i3}
SPECIFICATION AllSpec
INVARIANTS MeansItsInstances
CHECK_DEADLOCK FALSE
