\* One sleep, watched until it has been woken.
CONSTANTS
  Cpus = {c1, c2}
  Sleeps = {s1}
  Bits = 2
  Durations = {1, 3, 5}
  Starts = {2, 13}
  MaxTicks = 6
SPECIFICATION FairSpec
CHECK_DEADLOCK FALSE
PROPERTY SleepWakes
