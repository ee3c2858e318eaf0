CONSTANTS
  Clients = {c1, c2}
  Messages <- Words
  Marker <- Ones
  Capacities = {1, 2}
SPECIFICATION FairClientSpec
INVARIANT MarkerComesLast
PROPERTY EveryClientEnds
CHECK_DEADLOCK FALSE
