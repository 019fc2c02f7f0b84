CONSTANTS
\* Three handles let a new file be open while the old one is still known, three
\* blocks do the same for the two arrays.
  Paths = {p, q}
  Handles = {h1, h2, h3}
  Blocks = {b1, b2, b3}
  MaxLen = 3
  Null = Null
  Freed = Freed
  Junk = Junk
  UserPaths <- SomePaths
  FileSizes = {0, 1, 3}
  MaxUintn = 5
  Outside = Outside
\* The second call finds the pages and _loadBaseAddr of the first.
  Images <- OneSegment
  NPages = 4
  PageSize = 2
  MaxLoads = 2
SYMMETRY Symmetry
SPECIFICATION LoadingSpec
INVARIANTS OpenFileKnown SimpleReadBalanced ReadsTheFile LoadedImage
PROPERTIES WholeFileRead PagesAccounted
