SPECIFICATION Spec
CONSTANTS
  t1 = t1
  t2 = t2
  t3 = t3
  A = A
  B = B
  Happened = Happened
  EventType = {Happened}
  Tag = {A, B}
  Tx = {t1, t2, t3}
  Filter <- MCFilter
  Filtered = TRUE
  Appended <- MCAppended
  Limit = 2
  MaxCrashes = 1
INVARIANTS TypeOK NoGaps TokenCovers HandledOnce
PROPERTY EventuallyHandled
CHECK_DEADLOCK FALSE
