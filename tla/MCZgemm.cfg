CONSTANTS
  MaxM = 3
  MaxN = 4
  MaxK = 3
  MaxThreads = 3
  GEMM_P = 2
  GEMM_Q = 2
  GEMM_R = 3
  GEMM_UNROLL_N = 2
SPECIFICATION Spec
INVARIANTS
  RowsNotShared
  EveryTermOnce
  RightForOneBlock
CHECK_DEADLOCK FALSE
