SPECIFICATION MCSpec
CONSTANTS
  W = 6
  Pow2 <- MCPow2
  Count <- MCCount
  Operation = {"udiv", "umod", "div", "mod", "mul", "shl", "shr", "sar"}
  OverShift = {"zero", "same"}
  WordMod = 16384
  TextLength = 5
  Years = {1970, 1972, 2000, 2099, 2100, 2105}
  ArrayLength = 5
INVARIANTS
  DivisionCorrect
  ProductsAndShiftsExact
  IntegersPrinted
  TruncatesToPrefix
  NumbersScanned
  DatesRoundTrip
  ArraysOrdered
  TokensInOrder
  OptionsInOrder
PROPERTIES
  HelpersReturn
