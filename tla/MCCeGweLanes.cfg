SPECIFICATION Spec
CONSTANTS
  main = main
  worker = worker
  MainThread = main
  NoWindow = NoWindow
  NoOwner = NoOwner
  Owners <- TwoOwners
  Windows <- ThreeWindows
  Scenes <- OneScene
INVARIANT EveryMessageHasALane
CHECK_DEADLOCK FALSE
