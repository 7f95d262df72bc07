SPECIFICATION FairSpec
CONSTANTS
  Modes <- TwoModes
  StartMode = "HD1080p50"
  NoMode = "none"
  FormatDetection <- AutoThenFixed
  MaxSignals = 2
  MaxFails = 2
  MaxLives = 2
  SwapFails = TRUE
  TimesOut = TRUE
  Housekeeping = TRUE
INVARIANTS
  DownHoldsNothing
  FrameFitsWriters
PROPERTIES
  SettlesOnSignal
  WritersStay
  StopCompletes
  LossIsReset
