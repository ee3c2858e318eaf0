CONSTANTS
  Producers = {p1, p2, p3}
  Consumers = {c1, c2, c3}
  Rounds = 2
  Size = 4
  Spurious = TRUE
  StraysKill = TRUE
SPECIFICATION FairSpec
INVARIANTS
  TypeOK
  NoLostWakeup
PROPERTIES
  ImplementsBoundedQueue
  EndsWithEveryConsumerWaiting
CHECK_DEADLOCK FALSE
