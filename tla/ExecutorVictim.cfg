\* Two CPUs that create their workers in any order.
CONSTANTS
  NumCpus = 2
  Tasks = {t1}
  Irqs = {i1}
  Driving = {}
  TickBudget = 1
  MaxStolen = 1
  Rounds = 1
SPECIFICATION Spec
CHECK_DEADLOCK FALSE
INVARIANT VictimIsOther
