SPECIFICATION FairSpec
CONSTANTS
  NAudio = 0
  NFlows = 1
  FlowOf <- SharedAudio
  Formats = {"x"}
  MaxFiles = 2
  ClockLimit = 2
  Preroll = 1
  LateThreshold = 1
  MaxTries = 1
  Housekeeping = TRUE
  FlowsVanish = TRUE
  AddReaderFails = FALSE
  ScheduleFails = FALSE
INVARIANTS
  StateReflectsConditions
PROPERTIES
  StopCompletes
  InvalidIsReopened
  ResetHappens
  DegradedEnds
