SPECIFICATION Spec
CONSTANTS
  NAudio = 2
  NFlows = 2
  FlowOf <- SharedAudio
  Formats = {"x"}
  MaxFiles = 3
  ClockLimit = 1
  Preroll = 2
  LateThreshold = 1
  MaxTries = 1
  Housekeeping = FALSE
  FlowsVanish = TRUE
  AddReaderFails = FALSE
  ScheduleFails = TRUE
INVARIANTS
  LiveSourceIsAwaited
  SharedReaderActsAsOne
  EventPerRecreation
  NoOldPicture
