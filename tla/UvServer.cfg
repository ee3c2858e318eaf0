CONSTANTS
  Clients = {c1, c2}
  Scripts <- AllScripts
  SockBuf = 2
  Resets = TRUE
  SENDBUF_SIZE = 4
  ReadSize = 4
  Patience = TRUE
SPECIFICATION FairSpec
INVARIANTS
  TypeOK
  BufferIsFreeForEachRead
PROPERTIES
  ImplementsEchoService
  EveryClientIsServed
CHECK_DEADLOCK FALSE
