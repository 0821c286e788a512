CONSTANTS
  Chains = {c1}
  Deciders = {d1}
  Values = {1, 2}
  MaxVersion = 3
  MaxAttempts = 2
  MaxCrashes = 1
  Fields = {"PRICE", "QUANTITY"}
  ProcessingMode = "SYNC"
  LateDelivery = FALSE
  Refusals = {"DISCARDED_STALE"}
  HumanActs = TRUE
SPECIFICATION Spec
CHECK_DEADLOCK FALSE
INVARIANTS TypeOK AppliedIsShown UnchangedWhenQueueEmpty
PROPERTIES ChannelNeverGoesBack
