CONSTANTS
  Kernels <- Bf16Gemv
  Svl = 4
  RowCounts = {1, 3, 8}
  ColumnCounts = {1}
  Depths = {1, 2, 9}
SPECIFICATION Spec
INVARIANT
  CheckPasses
CHECK_DEADLOCK FALSE
