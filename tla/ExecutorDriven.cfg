\* One CPU whose Worker::run drives a future that spawns or wakes a task later on.
CONSTANTS
  NumCpus = 1
  Tasks = {t1, t2}
  Irqs = {i1}
  Driving = {0}
  TickBudget = 1
  MaxStolen = 1
  Rounds = 1
SPECIFICATION Spec
CHECK_DEADLOCK FALSE
INVARIANT RunPollsSpawned
