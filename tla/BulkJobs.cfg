SPECIFICATION FairSpec
CONSTANTS
  w1 = w1
  w2 = w2
  Nobody = Nobody
  Workers = {w1, w2}
  Imports = {1}
  Exports = {2}
  MaxAttempts = 2
  Seen = 1
  Counted = 2
  MaxOnHand = 2
  MaxMoves = 1
  MaxStalls = 1
  MaxFaults = 1
CHECK_DEADLOCK FALSE
INVARIANTS TypeOK JournalIsTrue SucceededIsWhole CrashNeverAppliesTwice FileMatchesResult
PROPERTY EveryJobSettles
