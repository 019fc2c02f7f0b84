CONSTANTS
\* Two arrays are enough for every call (none takes more than two) and a third
\* shows that bystanders are left alone; with as many blocks as arrays the pool
\* runs out only if the firmware fails a request, which Allocate always allows.
  Arrays = {a1, a2, a3}
  Blocks = {b1, b2, b3}
  Vals = {x, y}
  MaxLen = 2
  Null = Null
  Freed = Freed
  Junk = Junk
\* Three locks nest on two levels, below a level of the firmware.
  Locks = {la, lb, lc}
  LockTpl <- OneLower
  MaxTpl = 4
  RuntimeTpl = FALSE
  NoLock = NoLock
\* Two lists and three entries: an entry can be alone, first, last or in the
\* middle, move within a list and between lists, and come back with stale
\* pointers.
  Heads = {h1, h2}
  Entries = {e1, e2, e3}
  Unset = Unset
  AdjacentSwap = FALSE
SPECIFICATION AllSpec
INVARIANTS MemorySound MutualExclusion RunsAtItsLevel RingConsistent ConversionComplete
PROPERTIES ImplementsValues ImplementsSequences ConversionEnds
\* The firmware may raise the TPL to the top and stay there no longer than it
\* likes, arrays and lists can always be used again; a list whose pointers are
\* all converted can not.
CHECK_DEADLOCK FALSE
