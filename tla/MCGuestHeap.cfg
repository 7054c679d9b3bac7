SPECIFICATION Spec
CONSTANTS
  HeapStart = 16
  HeapLimit = 96
  WordSize = 256
  Requests <- MCRequests
  MaxHandles = 1
CONSTRAINT Explored
INVARIANTS
  TypeOK
  BlocksDisjoint
  NoByteLost
  LiveBlocksFit
