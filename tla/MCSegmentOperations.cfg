INIT OpInit
NEXT OpNext
CONSTANTS
  n1 = n1
  n2 = n2
  Node = {n1, n2}
  Nobody = Nobody
  Depth = 1
  LastEvent = 1
  Hash <- MCHash
  SegmentCounts = {1, 2}
  MaxFaults = 0
  MaxOps = 1
  Alone = TRUE
INVARIANTS NothingSkipped   EverySegmentHasARow ClaimsAreWorked
SYMMETRY NodeSymmetry
CHECK_DEADLOCK FALSE
