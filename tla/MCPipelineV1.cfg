\* Two failures of the store, the helper or the host; two signals; one edit.
SPECIFICATION FairSpec
CONSTANTS
  None = None
  Pipelines <- MCPipelines
  MaxRunTimeout = 1
  MaxFaults = 2
  MaxSignals = 2
  MaxEdits = 1
CHECK_DEADLOCK FALSE
INVARIANTS
  DocumentSound
  RunHonest
PROPERTIES
  RunReturns
