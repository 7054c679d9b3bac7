SPECIFICATION Spec
CONSTANTS
  MaxThreads = 1
  Auto = auto
  Manual = manual
  Events <- EventsConst
  ManualReset <- ManualConst
  MultiWaits <- MultiConst
  Receivers <- MainAndOne
  NoHandle = none
INVARIANTS TypeOK NoLostWakeup OneRunner AutoResetGrantsOnce ResultFitsCall
