\* A failed deletion of a session that was never recorded.
SPECIFICATION Spec
CONSTANTS
  None = None
  Pipelines <- MCPipelines
  MaxRunTimeout = 1
  MaxFaults = 2
  MaxSignals = 2
  MaxEdits = 1
CHECK_DEADLOCK FALSE
INVARIANTS
  DocumentLoads
