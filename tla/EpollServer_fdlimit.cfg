CONSTANTS
  Clients = {c1, c2}
  Scripts <- OpenScripts
  SockBuf = 2
  Resets = FALSE
  SendbufSize = 2
  RecvSize = 2
  FirstFd = 5
  FdLimits = {7}
  MaxFds = 6
  NoClient = NoClient
  Spurious = FALSE
SPECIFICATION Spec
INVARIANT NoAssertionFails
CHECK_DEADLOCK FALSE
