\* The operation returns before its deadline whatever the log fetches do.
SPECIFICATION FairSpec
CONSTANTS
  LogLength = 1
  PageSize = 1
  CaptureBound = 1
  MaxRepeated = 0
CHECK_DEADLOCK FALSE
PROPERTIES
  OperationReturns
