CONSTANTS
  Clients = {c1, c2, c3}
  Scripts <- OpenScript
  SockBuf = 1
  Resets = TRUE
  BufSize = 2
  Settings <- AllSettings
SPECIFICATION FairSpec
PROPERTIES
  ImplementsThreadedService
  EveryClientIsServed
CHECK_DEADLOCK FALSE
