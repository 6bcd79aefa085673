SPECIFICATION Spec
CONSTANTS
  t1 = t1
  t2 = t2
  t3 = t3
  t4 = t4
  t5 = t5
  Contexts <- FourContexts
  Charge <- MixedItems
  Capacity = 4
PROPERTIES
  OnlyWakesExceed
CHECK_DEADLOCK FALSE
