SPECIFICATION Spec
CONSTANTS
  t1 = t1
  t2 = t2
  t3 = t3
  A = A
  B = B
  Happened = Happened
  EventType = {Happened}
  Tag = {A, B}
  Tx = {t1, t2, t3}
  Query <- MCQuery
  Snapshotted <- MCSnapshotted
  Batch <- MCBatch
  LockKey <- MCLockKey
  MaxReads = 1
INVARIANTS TypeOK TagPrefix AnchoredMarkersCover AnchoredSnapshotsCover
PROPERTIES CommitsSerial AppendsSettle
CHECK_DEADLOCK FALSE
