CONSTANTS
  Clients = {c1, c2}
  Scripts <- OpenScripts
  SockBuf = 1
  Resets = FALSE
  SENDBUF_SIZE = 6
  ReadSize = 2
  Patience = FALSE
SPECIFICATION Spec
INVARIANT SaysOnlyWhatItOwes
CHECK_DEADLOCK FALSE
