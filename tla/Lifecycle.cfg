SPECIFICATION FairSpec
CONSTANTS
  Ids = {"a", "b", "d"}
  Derived = "d"
  Settings <- SomeSettings
  MaxRetries = 1
  MaxChanges = 1
  MaxLives = 2
  None = None
INVARIANTS
  UsesAreAlive
PROPERTIES
  ExitCodeTells
  DomainKeepsItsId
  ShutdownEnds
CHECK_DEADLOCK FALSE
