\* Two processes store into different bytes of the mapping.
SPECIFICATION Spec
CONSTANTS
  p1 = p1
  p2 = p2
  NoProc = NoProc
  Procs <- TwoProcs
  Writer = p1
  Views = {1, 2}
  ViewProc <- OwnView
  ViewCells <- WholeView
  Cells = {1, 2}
  MaxWrites = 2
  MaxVersion = 4
  MaxPosts = 2
  Scenes <- TwoWriters
PROPERTY OnlyChangedBytes
CHECK_DEADLOCK FALSE
