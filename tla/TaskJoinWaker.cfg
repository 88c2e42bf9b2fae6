\* A JoinHandle that was polled and dropped before the task completed.
SPECIFICATION Spec
CONSTANTS
  Workers = {w1, w2}
  Holders = {h1, h2}
INVARIANT JoinWakerHasHandle
CHECK_DEADLOCK FALSE
