CONSTANTS
  Clients = {c1, c2}
  Scripts <- TwoScripts
  SockBuf = 1
  Resets = TRUE
  SendbufSize = 2
  RecvSize = 2
  FirstFd = 5
  Settings <- LimitSettings
  FdSetSize = 8
  NoClient = NoClient
  Spurious = TRUE
SPECIFICATION FairSpec
INVARIANTS
  SetsMatchBuffers
  WalkMeetsWhatSelectReported
  NothingLostOrRepeated
  StopsAtTheFirstLimit
PROPERTIES
  ImplementsEchoService
  EveryClientIsServed
CHECK_DEADLOCK FALSE
