CONSTANTS
  NumCpus = 2
  Tasks = {t1}
  Irqs = {i1}
  Driving = {}
  TickBudget = 1
  MaxStolen = 1
  Rounds = 2
SPECIFICATION Spec
CHECK_DEADLOCK FALSE
INVARIANT CanSleep
