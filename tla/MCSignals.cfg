SPECIFICATION FairSpec
CONSTANTS
  Signal = {10, 12}
  Errno = {2, 9}
  Pid = 7
  MainCalls = 3
  HandlerCalls = 1
  MaxSends = 2
INVARIANTS
  ReturnsOwnAnswer
  RaiseDelivers
PROPERTIES
  ErrnoIsOwn
  HandlersComeBack
CHECK_DEADLOCK FALSE
