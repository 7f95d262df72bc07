SPECIFICATION FairSpec
CONSTANTS
  Channels = {1, 2, 3}
  Dir <- InAndOuts
  SubDevices = {0, 1}
  OffCard = 2
  Flows = {"f", "g"}
  NilFlow = "nil"
  Own = "own"
  Domains = {"other"}
  Unknown = "unknown"
  EnvFlow <- EnvOfTwo
  Globals = {"g0", "g1"}
  Edits <- SomeEdits
  StartFile <- ThreeChannels
  None = None
  MaxRequests = 1
  MaxJobs = 1
  MaxLives = 2
INVARIANTS
  RunsAsConfigured
  SubDevicesAreOwned
  RestartIsAnnounced
  RestartResumes
PROPERTIES
  ShutdownEnds
CHECK_DEADLOCK FALSE
