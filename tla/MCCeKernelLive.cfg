SPECIFICATION FairSpec
CONSTANTS
  MaxThreads = 2
  Auto = auto
  Manual = manual
  Events <- NoEvents
  ManualReset <- NoEvents
  MultiWaits <- NoWaits
  Receivers <- OnlyOne
  NoHandle = none
PROPERTIES FiniteWaitEnds JoinEnds
