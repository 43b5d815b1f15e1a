SPECIFICATION Spec
CONSTANTS
  F = 3
  X = 3
  FS = 1
  XS = 2
  G = 2
  WB = 7
  FAR = 7
  IB = 4
  Operation = {"eq", "ne", "lt", "le", "gt", "ge", "unord", "add", "sub", "mul", "div",
               "extend", "trunc", "float", "floatuns", "fix", "fixuns"}
INVARIANTS
  ArithmeticNearest
  ComparesByValue
  ConversionsNearest
