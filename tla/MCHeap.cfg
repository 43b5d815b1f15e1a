SPECIFICATION FairSpec
CONSTANTS
  HeapSize = 64
  HDR = 12
  SizeMod = 256
  Requests = {0, 4, 20, 240}
  CallocArgs <- MCCallocArgs
  Foreign <- MCForeign
  Byte = {0, 1}
INVARIANTS
  TypeOK
  Tiling
  Ownership
  FreeBlocksMerged
  ChoosesBlocks
PROPERTIES
  KeepsPromise
  CallsReturn
