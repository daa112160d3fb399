SPECIFICATION FairSpec
CONSTANTS
  n1 = n1
  n2 = n2
  Node = {n1, n2}
  Nobody = Nobody
  Depth = 1
  LastEvent = 2
  Hash <- MCHash
  SegmentCounts = {1}
  MaxFaults = 2
INVARIANTS NothingSkipped RepeatsNeedContested
PROPERTIES TokensAdvance EverythingHandled
CHECK_DEADLOCK FALSE
