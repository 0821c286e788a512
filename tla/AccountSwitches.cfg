CONSTANTS
  Owners = {o1, o2}
  Dispatchers = {d1}
  Deciders = {e1}
  Stockers = {s1}
  MaxVersion <- OneOrTwo
  MaxActs = 2
SPECIFICATION Spec
CHECK_DEADLOCK FALSE
INVARIANTS TypeOK SwitchesAgree
PROPERTIES SwitchesAreAtomic ShadowHoldsTheQueue
SYMMETRY Symmetry
