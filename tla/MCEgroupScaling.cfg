CONSTANTS
  GroupSize = 2
  Loops <- MCLoops
SPECIFICATION Spec
INVARIANTS
  LoopsDisjoint
  ExecutorsPartitioned
  GroupsOutliveLoops
PROPERTIES
  BorrowTakesAll
CHECK_DEADLOCK FALSE
