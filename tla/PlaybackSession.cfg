SPECIFICATION FairSpec
CONSTANTS
  Frames = {f1, f2, f3}
  Preroll = 2
  MaxIds = 5
  MaxSessions = 2
  None = None
INVARIANTS
  FramesAccounted
  TearDownIsSafe
  PipelineKept
PROPERTIES
  ReportsInOrder
  TearDownEnds
CHECK_DEADLOCK FALSE
