SPECIFICATION Spec
CONSTANTS
  Preroll = 2
  Requested = 2
  Grains = 6
  Blocks = 8
  CatchUpGrains = 2
  FirstHead = 2
  Kinds = {"ok", "invalid"}
  MaxHead = 7
  MaxFrames = 4
  MaxFaults = 1
  None = None
INVARIANTS
  SyncedFromStart
PROPERTIES
  LipSync
  PicturesInOrder
  SkipsToSource
CHECK_DEADLOCK FALSE
