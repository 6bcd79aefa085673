SPECIFICATION FairSpec
CONSTANTS
  t1 = t1
  t2 = t2
  t3 = t3
  t4 = t4
  t5 = t5
  Contexts <- FiveContexts
  Charge <- UnitItems
  Capacity = 2
INVARIANTS
  WaitingExact
PROPERTIES
  WithinBudget
  EverybodyServed
