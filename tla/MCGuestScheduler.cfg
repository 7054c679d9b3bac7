SPECIFICATION Spec
CONSTANTS
  Workers <- MCWorkers
  WindowOwners <- MCOwners
  Calls = {"mainWait", "waitInside", "sendToWorker", "destroyWindow"}
  MaxQueued = 2
  MaxTransfers = 2
  MaxBlocking = 1
INVARIANTS TypeOK EveryContextKept SendersAwaited
PROPERTY ReturnsToCaller
CONSTRAINT Explored
