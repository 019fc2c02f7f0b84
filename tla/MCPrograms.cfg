SPECIFICATION Spec
CONSTANTS
  Archs = {"x86_64", "ia32", "aarch64", "arm", "loongarch64", "riscv64", "mips64el"}
  Images <- MCImages
  LdBase = 100
  ModeLists <- MCModeLists
  FbSizes = {8, 60, 100}
  Uint32 = 64
  Box = 2
  Drivers = {d1, d2}
  MaxHello = 3
  Pages = 3
  MaxNumPages = 4
  MaxAddr = 5
  Arguments <- MCArguments
  Machines <- MCMachines
  NameBytes = 4
  PauseLimit = 4
  Off = Off
INVARIANTS
  EntryReached
  GridDrawn
  DriversAnswer
  ToolsDoWhatTheySay
PROPERTIES
  ProgramsEnd
