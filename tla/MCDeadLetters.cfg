SPECIFICATION FairSpec
CONSTANTS
  r1 = r1
  r2 = r2
  Replayer = {r1, r2}
  Free = Free
  Lost = Lost
  LastEvent = 4
  Lane <- MCLane
  Handlers = 2
  MaxSequences = 1
  MaxSequenceSize = 2
  MaxTroubles = 3
INVARIANTS NothingDropped LaneOrder  
PROPERTY Drained
CHECK_DEADLOCK FALSE
