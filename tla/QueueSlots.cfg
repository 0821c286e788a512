CONSTANTS
  Chains = {c1}
  Deciders = {d1}
  Values = {1}
  MaxVersion = 2
  MaxAttempts = 2
  MaxCrashes = 1
  Fields = {"PRICE"}
  ProcessingMode = "ASYNC"
  LateDelivery = TRUE
  Refusals = {"DISCARDED_STALE", "BUDGET_EXHAUSTED"}
  HumanActs = FALSE
SPECIFICATION Spec
CHECK_DEADLOCK FALSE
PROPERTIES NoOlderDispatch KeepsOneInFlight
