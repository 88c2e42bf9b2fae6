CONSTANTS
  Workers = {w1, w2}
  Holders = {h1, h2}
SPECIFICATION FairSpec
CHECK_DEADLOCK FALSE
INVARIANTS
  TypeOK
  SingleRunner
  NeverDontPoll
  RefsCountHolders
  JoinWakerExclusive
  ReregisterFindsWaker
  StageProtocol
  WakeByRefNotLost
PROPERTIES
  JoinResolves
  ImplementsLifecycle
