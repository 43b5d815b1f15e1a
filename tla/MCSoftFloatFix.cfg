SPECIFICATION Spec
CONSTANTS
  F = 2
  X = 3
  FS = 1
  XS = 2
  G = 2
  WB = 6
  FAR = 6
  IB = 3
  Operation = {"fix"}
INVARIANTS
  FixSaturates
