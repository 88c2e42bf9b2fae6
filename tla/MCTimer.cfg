CONSTANTS
  Cpus = {c1, c2}
  Sleeps = {s1, s2}
  Bits = 2
  Durations = {1, 3}
  Starts = {2, 14}
  MaxTicks = 3
SPECIFICATION Spec
SYMMETRY Symmetry
CHECK_DEADLOCK FALSE
INVARIANTS
  TypeOK
  CancelFindsEntry
  NotEarly
  NotOverdue
  ArmedUnlessNested
