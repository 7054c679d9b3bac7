SPECIFICATION Spec
CONSTANTS
  Workers <- MCWorkers
  WindowOwners <- MCOwners
  Calls = {"mainWait"}
  MaxQueued = 2
  MaxTransfers = 2
  MaxBlocking = 1
INVARIANT MainContextIsMains
