CONSTANTS
  Producers = {p1, p2}
  Consumers = {c1, c2}
  Rounds = 3
  Size = 3
  Spurious = FALSE
  StraysKill = TRUE
SPECIFICATION Spec
INVARIANT StaysInBounds
CHECK_DEADLOCK FALSE
