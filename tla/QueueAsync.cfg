CONSTANTS
  Chains = {c1}
  Deciders = {d1}
  Values = {1, 2}
  MaxVersion = 2
  MaxAttempts = 2
  MaxCrashes = 1
  Fields = {"PRICE"}
  ProcessingMode = "ASYNC"
  LateDelivery = FALSE
  Refusals = {}
  HumanActs = FALSE
SPECIFICATION FairSpec
CHECK_DEADLOCK FALSE
CONSTRAINT DistinctValues
INVARIANT NoBlindRetry
PROPERTY EveryWriteSettles
