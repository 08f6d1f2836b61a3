\* Two processes, one failure or death, and nobody else at the project.
SPECIFICATION ApplySpec
CONSTANTS
  None = None
  Calls = {"ui", "cli"}
  Retrier = "ui"
  PathOrder <- MCPathOrder
  Reviews <- MCKindsOfReview
  PrivateMode = "private"
  TempMode = "rw"
  ReadOnlyModes = {"r"}
  MaxCalls = 1
  MaxFaults = 1
  MaxEdits = 0
CHECK_DEADLOCK FALSE
PROPERTIES
  CompletesUndisturbed
