CONSTANTS
  Relays = {r1, r2}
  Scopes = {s1}
  Ids = {1, 2, 3}
  MaxTime = 2
  MaxLag = 1
  Burst = 3
  MaxRestarts = 2
  BatchSize = 3
  Overlap = 1
  GapTimeout = 1
SPECIFICATION Spec
CHECK_DEADLOCK FALSE
SYMMETRY Symmetry
INVARIANTS TypeOK NothingLeftBehind NoOvertaking DuplicatesFromRestarts
