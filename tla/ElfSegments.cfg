CONSTANTS
  Images <- TwoSegments
  NPages = 4
  PageSize = 2
  MaxLoads = 1
SPECIFICATION LoadSpec
INVARIANTS LoadedImage
