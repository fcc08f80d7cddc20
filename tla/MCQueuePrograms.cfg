CONSTANTS
  Blocks = 2
  GroupSize = 3
  NumExecutors = 9
  Programs <- QueuePrograms
  Eval <- TaskEval
SPECIFICATION FairSpec
INVARIANTS
  RaceFree
  ResourcesOutliveUse
  ExecutorsNotShared
  ResultRight
  NoDeadlock
PROPERTIES
  ImplementsAtomic
  Terminates
CHECK_DEADLOCK FALSE
