\* Three bytes of log, pages of up to two, two bytes retained: the capture bound is
\* passed, a page is over it, a chunk leaves.
SPECIFICATION FairSpec
CONSTANTS
  LogLength = 3
  PageSize = 2
  CaptureBound = 2
  MaxRepeated = 1
CHECK_DEADLOCK FALSE
INVARIANTS
  OutcomeHonest
  OperationAccounted
PROPERTIES
  ReturnsUnlessClaimed
