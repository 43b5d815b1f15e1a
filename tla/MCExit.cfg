SPECIFICATION FairSpec
CONSTANTS
  MaxHandlers = 3
  Status = {0, 3}
  MaxCalls = 5
  MaxExits = 3
INVARIANTS
  TypeOK
  CalledOnce
  NewestFirst
  ExitCallsAll
PROPERTIES
  ExitTerminates
CHECK_DEADLOCK FALSE
