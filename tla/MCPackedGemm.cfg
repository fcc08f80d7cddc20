CONSTANTS
  Programs <- AllPrograms
  Side = 2
  LineCounts = {1, 2, 3, 5}
  WordCounts = {1, 2, 3, 5}
SPECIFICATION PackedSpec
INVARIANTS
  PackedWhole
  ResultRight
CHECK_DEADLOCK FALSE
