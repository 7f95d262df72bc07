SPECIFICATION Spec
CONSTANTS
  NAudio = 0
  NFlows = 1
  FlowOf <- SharedAudio
  Formats = {"x"}
  MaxFiles = 1
  ClockLimit = 1
  Preroll = 1
  LateThreshold = 1
  MaxTries = 1
  Housekeeping = TRUE
  FlowsVanish = FALSE
  AddReaderFails = FALSE
  ScheduleFails = FALSE
INVARIANT
  SessionOutlivesItsUse
