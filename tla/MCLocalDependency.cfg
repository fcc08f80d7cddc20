CONSTANTS
  N = 4
  Ids = 3
  Workers = 3
  Loop = 2
  Node <- LDNode
  Dep <- LDDep
  Before <- LDDep
  Cell <- LDCell
  Reads <- LDReads
  Writes <- LDWrites
  Eval <- LDEval
  InitMem <- LDInitMem
SPECIFICATION Spec
INVARIANTS
  TypeOK
  ArgsOutliveTasks
  OperandsCurrent
  ComputesCorrectly
CHECK_DEADLOCK FALSE
