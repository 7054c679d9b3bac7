SPECIFICATION FairSpec
CONSTANTS
  MaxThreads = 1
  Auto = auto
  Manual = manual
  Events <- NoEvents
  ManualReset <- NoEvents
  MultiWaits <- NoWaits
  Receivers <- OnlyOne
  NoHandle = none
PROPERTIES MessageWakesItsOwner
