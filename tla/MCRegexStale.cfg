SPECIFICATION Spec
CONSTANTS
  Jobs <- PlainTest
  GenMod = 256
  Garbage = {0, 1, 2, 3}
  Lower <- MCLower
  Upper <- MCUpper
  Word <- MCWord
  MaxProgram = 24
  MaxJumps = 2
INVARIANTS
  AsTested
CHECK_DEADLOCK FALSE
