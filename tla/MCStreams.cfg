SPECIFICATION Spec
CONSTANTS
  NFds = 2
  Handles = {"f1"}
  Contents <- MCContents
  NewLine = "nl"
  Pushable = {"nl"}
  InitialCap = 1
  Blocks = {"b1", "b2"}
  MaxLength = 2
INVARIANTS
  DescriptorsOwned
  LineOwned
PROPERTIES
  InOrder
  GetlineReturns
CHECK_DEADLOCK FALSE
