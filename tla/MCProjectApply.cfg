\* Two processes, two failures or deaths, one edit of the operator's.
SPECIFICATION ApplySpec
CONSTANTS
  None = None
  Calls = {"ui", "cli"}
  Retrier = "ui"
  PathOrder <- MCPathOrder
  Reviews <- MCReviews
  PrivateMode = "private"
  TempMode = "rw"
  ReadOnlyModes = {"r"}
  MaxCalls = 1
  MaxFaults = 2
  MaxEdits = 1
CHECK_DEADLOCK FALSE
INVARIANTS
  OperationTrue
PROPERTIES
  ProjectKept
