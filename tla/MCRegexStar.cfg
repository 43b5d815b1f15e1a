SPECIFICATION Spec
CONSTANTS
  Jobs <- StarTest
  GenMod = 256
  Garbage = {0}
  Lower <- MCLower
  Upper <- MCUpper
  Word <- MCWord
  MaxProgram = 24
  MaxJumps = 2
INVARIANTS
  AsTested
CHECK_DEADLOCK FALSE
