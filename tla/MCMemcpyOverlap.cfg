CONSTANTS
  Len = 24
  Loop = 4
SPECIFICATION FairSpec
INVARIANTS
  ComputeAfterCopy
  EventNotReused
  ResultRight
  NothingAfterDestroy
PROPERTIES
  Terminates
CHECK_DEADLOCK FALSE
