CONSTANTS
  Runs = {r1, r2}
  Lines = {1, 2}
  None = None
  Interval = 1
  Lookback = 1
  MaxPages = 1
  DropAfter = 2
  MaxTime = 2
  MaxChanges = 2
  MaxFaults = 1
SPECIFICATION FairSpec
CHECK_DEADLOCK FALSE
INVARIANTS TypeOK NothingLeftBehind CursorIsEarned
PROPERTY EveryChangeIsRead
