CONSTANTS
  Relays = {r1}
  Scopes = {s1}
  Ids = {1, 2, 3}
  MaxTime = 3
  MaxLag = 1
  Burst = 2
  MaxRestarts = 1
  BatchSize = 3
  Overlap = 1
  GapTimeout = 1
SPECIFICATION FairSpec
CHECK_DEADLOCK FALSE
PROPERTY EveryEventArrives
