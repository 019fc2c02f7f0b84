SPECIFICATION Spec
CONSTANTS
  UintnBits = 8
  Fault = Fault
  None = None
  LbaBits = 3
  MinMbrDeviceSize = 4
  MbrErrataPad = 1
  MaxCmdlineSize = 6
  MaxCmdlineArgc = 2
  Words32 = {}
  Words64 = {}
  Memories = {}
  NumberTexts = {}
  Texts = {}
  Patterns = {}
  Tables = {}
  Disks <- EnclosingDisks
  Systems = {}
  UiHandles = {}
  Images = {}
  Nodes = {}
  SalTables = {}
  DumpSizes = {}
INVARIANTS
  RecordsApart
