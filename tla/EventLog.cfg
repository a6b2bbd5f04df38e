SPECIFICATION Spec
CONSTANTS
  Event = {e1, e2, e3, e4, e5}
  Limit = 2
  MaxTorn = 2
  None = None
INVARIANTS LossIsBounded WindowIsNearlyFull
PROPERTIES ShownStaysShown
CHECK_DEADLOCK FALSE
