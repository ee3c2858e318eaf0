CONSTANTS
  Alphabet = {94, 36, 97, 35, 255}
  MaxLen = 5
  Root = 16
  Dirs = {1, 2, 3, 4}
SPECIFICATION CasesSpec
INVARIANTS
  ChunkedEchoIsExact
  PrimalityIsExact
  CountIsExactOrFails
CHECK_DEADLOCK FALSE
