SPECIFICATION FairSpec
CONSTANTS
  s1 = s1
  s2 = s2
  t1 = t1
  t2 = t2
  n1 = n1
  n2 = n2
  Schedule = {s1, s2}
  Task = {t1, t2}
  Node = {n1, n2}
  BatchSize = 1
  OverlappingStart = FALSE
  MaxFailures = 1
INVARIANTS AppendedOnce CancelHolds 
PROPERTIES ImplementsContract FiresInTheEnd
