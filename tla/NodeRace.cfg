SPECIFICATION Spec
CONSTANTS
  Ids = {"a", "b", "d"}
  Derived = "d"
  Settings <- SomeSettings
  MaxRetries = 1
  MaxChanges = 1
  MaxLives = 1
  None = None
INVARIANTS
  GateFindsTheNode
CHECK_DEADLOCK FALSE
