CONSTANTS
  d1 = d1
  d2 = d2
  o1 = o1
  Delegation = {d1, d2, o1}
  Old = {o1}
  HistoryMax = 1
  SeenMax = 2
  MaxWakes = 2
  MaxRestarts = 1
  MaxEvictions = 2
SPECIFICATION Spec
PROPERTIES DeliveredOnce HarvestGoesOn
CHECK_DEADLOCK FALSE
