CONSTANTS
  World = 3
  Count = 2
SPECIFICATION FairSpec
INVARIANTS
  CopySucceeds
  WindowOutlivesCopies
PROPERTIES
  Terminates
CHECK_DEADLOCK FALSE
