CONSTANTS
  MMA_M = 32
  MMA_N = 16
  MMA_K = 512
  MT = 2
  NT = 2
  KT = 2
  Workers = 3
  Loop = 1
  Node <- GemmNode
  Dep <- GemmDep
  Before <- GemmBefore
  Cell <- GemmCell
  Reads <- GemmReads
  Writes <- GemmWrites
  Eval <- GemmEval
  InitMem <- GemmInitMem
SPECIFICATION FairSpec
INVARIANTS
  RaceFree
  OrderKept
  EveryProductOnce
PROPERTIES
  ImplementsAtomic
  Terminates
CHECK_DEADLOCK FALSE
