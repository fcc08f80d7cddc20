CONSTANTS
  Kernels <- SoundKernels
  Svl = 2
  RowCounts = {1, 3, 4, 5}
  ColumnCounts = {1, 3, 5}
  Depths = {1, 3, 6, 8, 13}
SPECIFICATION Spec
INVARIANTS
  StoredIsComplete
  AllStored
CHECK_DEADLOCK FALSE
