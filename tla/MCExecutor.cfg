CONSTANTS
  NumCpus = 2
  Tasks = {t1, t2}
  Irqs = {i1}
  Driving = {0}
  TickBudget = 1
  MaxStolen = 1
  Rounds = 1
SPECIFICATION Spec
SYMMETRY TaskSymmetry
CHECK_DEADLOCK FALSE
INVARIANTS
  TypeOK
  QueuedCounts
  BoundWhereQueued
  OnePlace
  NoStrandedTask
PROPERTY TasksFollowLifecycle
