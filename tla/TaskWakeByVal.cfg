\* Waker::wake while the task is being polled.
SPECIFICATION Spec
CONSTANTS
  Workers = {w1, w2}
  Holders = {h1, h2}
INVARIANT WakeByValNotLost
CHECK_DEADLOCK FALSE
