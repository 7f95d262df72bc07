SPECIFICATION Spec
CONSTANTS
  NAudio = 2
  NFlows = 2
  FlowOf <- SharedAudio
  Formats = {"x", "y"}
  MaxFiles = 3
  ClockLimit = 1
  Preroll = 1
  LateThreshold = 1
  MaxTries = 1
  Housekeeping = FALSE
  FlowsVanish = TRUE
  AddReaderFails = TRUE
  ScheduleFails = FALSE
INVARIANTS
  FaultsArePursued
  NoDanglingReader
  GroupIsWaitable
