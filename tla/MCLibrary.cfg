SPECIFICATION LibrarySpec
CONSTANTS
  UintnBits = 8
  Fault = Fault
  None = None
  LbaBits = 3
  MinMbrDeviceSize = 4
  MbrErrataPad = 1
  MaxCmdlineSize = 6
  MaxCmdlineArgc = 2
  Words32 <- MCWords32
  Words64 <- MCWords64
  Memories <- MCMemories
  NumberTexts <- MCNumberTexts
  Texts <- MCTexts
  Patterns <- MCPatterns
  Tables <- MCTables
  Disks <- MCDisks
  Systems <- MCSystems
  UiHandles <- MCUiHandles
  Images <- MCImages
  Nodes <- MCNodes
  SalTables <- MCSalTables
  DumpSizes = {0, 1, 16, 17, 64, 70}
  Programs <- SomePrograms
  BufLen = 4
  Bits = 16
  Sizes = {0, 1, 2, 5}
  AsciiSizes = {1, 2, 5}
  MaxCalls = 2
INVARIANTS
  ProgramShown
  StringComplete
  ArithmeticExact
  StringsAndPatterns
  ChecksumDetects
  ValuesReadBack
  TablesRead
  ArgumentsSplit
  TextFollowsNode
  ArgumentsPassed
\* Two calls have been made, or a string was lost.
CHECK_DEADLOCK FALSE
