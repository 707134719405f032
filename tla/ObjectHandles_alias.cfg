SPECIFICATION HandleSpec
CONSTANTS
  Addr = {a1, a2}
  NoAddr = NoAddr
  HandleMax = 4
  Caller = {c, d}
  MaxMade = 3
  MaxLost = 1
CHECK_DEADLOCK FALSE
INVARIANTS
  TokenAlwaysNamesItsObject
