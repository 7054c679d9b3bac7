SPECIFICATION Spec
CONSTANTS
  Windows <- MCWindows
  Width = 2
  Black = 0
  MaxHandles = 7
  Blocks = {11, 12}
  Points <- MCPoints
  Targets = {1}
  Scenes <- MCScenes
INVARIANTS RepaintConverges PopupLeavesNoTrace CopiesAgree BitsOwned
CHECK_DEADLOCK FALSE
