SPECIFICATION Spec
CONSTANTS
  main = main
  worker = worker
  MainThread = main
  NoWindow = NoWindow
  NoOwner = NoOwner
  Owners <- TwoOwners
  Windows <- ThreeWindows
  Scenes <- AllScenes
INVARIANTS TypeOK LanesMirrorQueue WakeTestAgrees InputAfterLifecycle TouchesDoNotOverlap
           PostedInOrder Coalesced
CHECK_DEADLOCK FALSE
