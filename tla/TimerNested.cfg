\* One CPU whose timer interrupt may hit its own critical section.
CONSTANTS
  Cpus = {c1}
  Sleeps = {s1}
  Bits = 2
  Durations = {1, 3}
  Starts = {2}
  MaxTicks = 3
SPECIFICATION Spec
CHECK_DEADLOCK FALSE
INVARIANT ArmedAfterTryTurn
