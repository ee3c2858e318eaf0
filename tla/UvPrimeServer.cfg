CONSTANTS
  c1 = c1
  c2 = c2
  Clients = {c1, c2}
  Manners <- OneOrBoth
  NoClient = NoClient
  Scripts <- Requests
  SockBuf = 4
  SuggestedSize = 65536
  Resets = TRUE
  Root = 6
  Threads = {t1, t2}
SPECIFICATION FairSpec
INVARIANTS
  TypeOK
  AnswersAreRight
  EachReadIsAnsweredOnce
  FailsOnlyForLeavers
PROPERTIES
  PoliteClientsAreServed
CHECK_DEADLOCK FALSE
