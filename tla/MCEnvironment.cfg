SPECIFICATION Spec
CONSTANTS
  Name = {"PATH", "X", "Y"}
  Directory = {"d1", "d2", "", "long", "/bin"}
  Value <- MCValue
  Inherited <- MCInherited
  MaxEntries = 4
INVARIANTS
  LookupAgrees
  ArraysFit
  SearchesPath
CHECK_DEADLOCK FALSE
