SPECIFICATION FairSpec
CONSTANTS
  Jobs <- MCJobs
  GenMod = 3
  Garbage = {0}
  Lower <- MCLower
  Upper <- MCUpper
  Word <- MCWord
  MaxProgram = 24
  MaxJumps = 2
INVARIANTS
  TablesSound
  GroupsMatch
  AnswersRight
PROPERTIES
  RegexecReturns
CHECK_DEADLOCK FALSE
