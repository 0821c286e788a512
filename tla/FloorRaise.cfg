CONSTANTS
  Prices = {2, 3, 4, 6}
  Floors = {2, 6}
  Targets = {3}
  Ceiling = 6
  StepLimit = 5000
  MaxRetries = 2
  MaxChanges = 2
  MaxStops = 1
  MaxSnapshots = 1
  MaxFaults = 1
SPECIFICATION FairSpec
CHECK_DEADLOCK FALSE
INVARIANTS TypeOK RungsClimb BelowFloorIsOwed
PROPERTY BelowFloorIsRaised
