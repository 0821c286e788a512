CONSTANTS
  Processes = {p1, p2}
  Jobs = {j1}
  Interval = 2
  Lease = 2
  MaxSlots = 2
  AlertAfter = 2
  RetryBase = 1
  RetryCap = 2
  MaxTime = 4
  MaxRuns = 3
  MaxStops = 1
  MaxLapses = 1
SPECIFICATION Spec
CHECK_DEADLOCK FALSE
SYMMETRY Symmetry
INVARIANTS TypeOK OneRunner SlotsInOrder StartsSpaced SeriesToldOnce
