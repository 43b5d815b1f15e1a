SPECIFICATION Spec
CONSTANTS
  F = 3
  X = 3
  FS = 1
  XS = 2
  G = 2
  WB = 7
  FAR = 7
  IB = 3
  Operation = {"trunc"}
INVARIANTS
  NarrowsToEven
