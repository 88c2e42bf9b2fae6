\* A sleep across the end of the rotation of the top wheel, which is at tick 16.
CONSTANTS
  Cpus = {c1}
  Sleeps = {s1}
  Bits = 2
  Durations = {3}
  Starts = {14}
  MaxTicks = 3
SPECIFICATION Spec
CHECK_DEADLOCK FALSE
INVARIANT NextDeadlineAhead
