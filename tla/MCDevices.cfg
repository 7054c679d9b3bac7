SPECIFICATION FairSpec
CONSTANTS
  Scenes <- MCScenes
  Sessions = {s1, s2}
  MaxSerialBytes = 2
  MaxInputs = 2
  MaxBytes = 3
  Main = 0
  MaxWorkers = 2
  MaxHandles = 1
  MaxTime = 3
  Timeouts <- MCTimeouts
  MaxStreams = 2
  Headers = {x1, x2}
  MaxWrites = 2
  Sizes <- MCSizes
  Formats <- MCFormats
  MaxCached = 1
  MaxChunks = 1
  Clients = {c1, c2}
  MaxJoins = 2
  SliceMs = 2
  Lag = 1
  MaxRemoteChunks = 1
PROPERTIES LineRefined TimedReadEnds
INVARIANTS TypeOK TapsWhole InQueueIsQueued EventTellsOfBuffers ChunkHasItsDevice TapContinuous
CHECK_DEADLOCK FALSE
