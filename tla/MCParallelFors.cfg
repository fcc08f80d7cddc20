CONSTANTS
  N = 6
  Ids = 4
  LOOP = 2
  Workers = 3
  NumThreads = 5
  HEIGHT = 4
  LENGTH = 2
  WIDTH = 2
  Programs <- ParallelPrograms
  Eval <- ChunkEval
SPECIFICATION FairSpec
INVARIANTS
  RaceFree
  EgroupOutlivesChunks
  ResultRight
PROPERTIES
  ImplementsAtomic
  Terminates
CHECK_DEADLOCK FALSE
