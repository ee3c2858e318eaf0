CONSTANTS
  Clients = {c1, c2}
  Scripts <- TwoScripts
  SockBuf = 1
  Resets = TRUE
  SendbufSize = 2
  RecvSize = 2
  FirstFd = 5
  FdLimits = {6, 7}
  MaxFds = 7
  NoClient = NoClient
  Spurious = TRUE
SPECIFICATION FairSpec
INVARIANTS
  TypeOK
  InterestMatchesBuffer
  EventsAreFresh
  NothingLostOrRepeated
  NoAssertionFails
PROPERTIES
  ImplementsEchoService
  EveryClientIsServed
CHECK_DEADLOCK FALSE
