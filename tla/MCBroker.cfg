\* One process stores, both post; a mutex wait may time out in a circle.
SPECIFICATION Spec
CONSTANTS
  p1 = p1
  p2 = p2
  NoProc = NoProc
  Procs <- TwoProcs
  Writer = p1
  Views = {1, 2}
  ViewProc <- OwnView
  ViewCells <- WholeView
  Cells = {1}
  MaxWrites = 3
  MaxVersion = 4
  MaxPosts = 2
  Scenes <- AllScenes
INVARIANTS TypeOK SeenIsCurrent PostedDataSeen NoMessageLost TakenOnceInOrder NotOverlooked
CHECK_DEADLOCK FALSE
