\* A joiner that is itself a task.
SPECIFICATION FairSpec
CONSTANTS
  Workers = {w1, w2}
  Holders = {h1, h2}
PROPERTY JoinAlwaysResolves
CHECK_DEADLOCK FALSE
