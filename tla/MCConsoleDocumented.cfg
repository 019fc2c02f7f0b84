CONSTANTS
  Programs <- Documented
  BufLen = 4
  Bits = 16
  Sizes = {}
  AsciiSizes = {0}
  MaxCalls = 1
SPECIFICATION Spec
INVARIANTS FormattedAsDocumented
CHECK_DEADLOCK FALSE
